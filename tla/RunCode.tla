-------------------------------- MODULE RunCode --------------------------------
(***************************************************************************)
(* The "run code" menu of the CLI on top of the execution pipeline: it      *)
(* submits a file and polls the job until the API reports a terminal        *)
(* status, then shows the result of that response.                          *)
(***************************************************************************)
EXTENDS ExecutionPipeline

CONSTANT MaxPolls   \* maxAttempts of pollUntilComplete (60 in the code)

ASSUME MaxPollsAssumption == MaxPolls \in Nat \ {0}

VARIABLE screen     \* per job: polls made, what is on the screen, the job shown

NotShown  == [polls |-> 0, message |-> "running", job |-> NoResult]
Message   == {"running", "success", "failure", "gaveUp", "requestError"}
clientVars == <<vars, screen>>

ClientTypeOK ==
  /\ TypeOK
  /\ screen \in [Jobs -> [polls : 0 .. MaxPolls, message : Message, job : Result]]

ClientInit == Init /\ screen = [j \in Jobs |-> NotShown]

Polling(j) == request[j] = "accepted" /\ screen[j].message = "running"

Show(j, message, job) ==
  screen' = [screen EXCEPT ![j] =
               [polls |-> @.polls + 1, message |-> message, job |-> job]]

\* Mutant of PollTerminal: the job shown is the one of the poll before.
PollShowsPrevious(j) ==
  /\ Polling(j)
  /\ screen[j].polls < MaxPolls
  /\ \E status \in Reported(j) \cap Terminal :
       Show(j, IF status = "FINISHED_WITH_SUCCESS" THEN "success" ELSE "failure", screen[j].job)
  /\ UNCHANGED vars

\* isTerminal: the loop returns the job and the menu prints success or failure.
\* The status and the columns come from one query.
PollTerminal(j) ==
  /\ Polling(j)
  /\ screen[j].polls < MaxPolls
  /\ \E status \in Reported(j) \cap Terminal :
       Show(j, IF status = "FINISHED_WITH_SUCCESS" THEN "success" ELSE "failure", result[j])
  /\ UNCHANGED vars

\* Mutant of PollAgain: no bound on the attempts.
PollOnceMore(j) ==
  /\ Polling(j)
  /\ Reported(j) \ Terminal # {}
  /\ Show(j, "running", NoResult)
  /\ UNCHANGED vars

\* Not terminal yet: wait a second and ask again.
PollAgain(j) ==
  /\ Polling(j)
  /\ screen[j].polls < MaxPolls
  /\ Reported(j) \ Terminal # {}
  /\ Show(j, "running", NoResult)
  /\ UNCHANGED vars

\* Mutant of GiveUpPolling: when the attempts are used up, they start again.
GiveUpRestarts(j) ==
  /\ Polling(j)
  /\ screen[j].polls = MaxPolls
  /\ screen' = [screen EXCEPT ![j].polls = 0]
  /\ UNCHANGED vars

\* The loop is over: "Polling timeout".
GiveUpPolling(j) ==
  /\ Polling(j)
  /\ screen[j].polls = MaxPolls
  /\ screen' = [screen EXCEPT ![j].message = "gaveUp"]
  /\ UNCHANGED vars

\* A request that throws ends the loop at once; it is not retried.
PollFails(j) ==
  /\ "api" \in Faults
  /\ Polling(j)
  /\ screen[j].polls < MaxPolls
  /\ Show(j, "requestError", NoResult)
  /\ UNCHANGED vars

Client(j) ==
  \/ PollTerminal(j)
  \/ PollAgain(j)
  \/ GiveUpPolling(j)
  \/ PollFails(j)

ClientNext ==
  \/ Next /\ UNCHANGED screen
  \/ \E j \in Jobs : Client(j)

ClientSpec == ClientInit /\ [][ClientNext]_clientVars

\* As in the pipeline; the loop of the menu goes on by itself.
FairClientSpec ==
  /\ ClientSpec
  /\ Fairness
  /\ \A j \in Jobs : WF_clientVars(Client(j))

--------------------------------------------------------------------------------

\* The row is still what it was when it was printed, but for the text of a
\* timeout, which the outer catch may have overwritten with another error.
StillReads(row, printed) ==
  \/ row = printed
  \/ /\ printed.error = "timeout"
     /\ row = [printed EXCEPT !.error = "fault"]

\* What the menu printed stays true.  It stops at the first terminal status it
\* sees, which for a timed out program is not the last: a status written later
\* gives the same verdict, with the same output and exit code, and the error text
\* changes only where a container.wait() that rejected was shown as a timeout.
ShownVerdictStands ==
  \A j \in Jobs :
    screen[j].message \in {"success", "failure"} =>
      /\ StillReads(result[j], screen[j].job)
      /\ \A status \in Reported(j) \cap Terminal :
           (status = "FINISHED_WITH_SUCCESS") <=> (screen[j].message = "success")

\* The menu prints the columns only when they are there: success with the
\* program's output and exit code 0, failure with the text that goes with its code.
ShownJobIsComplete ==
  \A j \in Jobs :
    /\ screen[j].message = "success" =>
         screen[j].job = [output |-> TRUE, error |-> "null", exitCode |-> "zero"]
    /\ screen[j].message = "failure" =>
         /\ screen[j].job.exitCode \in {"nonzero", "minusOne"}
         /\ Lifecycle!Explains(screen[j].job.error, screen[j].job.exitCode)

\* The menu comes back to the user: its polling ends with a result or gives up,
\* even while shutdowns keep a job from ever being processed (maxAttempts).
MenuReturns ==
  \A j \in Jobs : (request[j] = "accepted") ~> (screen[j].message # "running")
================================================================================
