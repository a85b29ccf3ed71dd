----------------------------- MODULE JobLifecycle ------------------------------
(***************************************************************************)
(* What a client may rely on about an execution job while the worker keeps  *)
(* running: the statuses it can see, in which order, and that a terminal    *)
(* status comes after the answer it stands for.  The answer is the exit     *)
(* code column of the job, explained by its error column.                   *)
(***************************************************************************)
CONSTANT Jobs

VARIABLES
  phase,   \* last status of each job, "none" before it is created
  answer,  \* its exit code
  reason   \* its error text

vars == <<phase, answer, reason>>

Unfinished == {"QUEUED", "READY", "RUNNING"}
Terminal   == {"FINISHED_WITH_SUCCESS", "FINISHED_WITH_ERROR", "FAILED"}
Answers    == {"zero", "nonzero", "minusOne"}
Texts      == {"null", "output", "timeout", "fault"}

\* The texts that go with an exit code: none with 0, the program's own with
\* another one, and with -1 that of a timeout or of an error of the service.
Explains(text, a) ==
  \/ a = "zero" /\ text = "null"
  \/ a = "nonzero" /\ text = "output"
  \/ a = "minusOne" /\ text \in {"timeout", "fault"}

TypeOK ==
  /\ phase \in [Jobs -> {"none"} \cup Unfinished \cup Terminal]
  /\ answer \in [Jobs -> {"null"} \cup Answers]
  /\ reason \in [Jobs -> Texts]

Init ==
  /\ phase = [j \in Jobs |-> "none"]
  /\ answer = [j \in Jobs |-> "null"]
  /\ reason = [j \in Jobs |-> "null"]

Move(j, from, to) ==
  /\ phase[j] = from
  /\ phase' = [phase EXCEPT ![j] = to]
  /\ UNCHANGED <<answer, reason>>

Submit(j)   == Move(j, "none", "QUEUED")
MakeReady(j) == answer[j] = "null" /\ Move(j, "QUEUED", "READY")
Run(j)      == answer[j] = "null" /\ Move(j, "READY", "RUNNING")

\* The answer is given once, with the text that goes with it.  Only a program
\* that was started has an exit code or times out; -1 stands for a job the
\* service could not run to its end.
Answer(j) ==
  /\ phase[j] \in Unfinished
  /\ answer[j] = "null"
  /\ \E a \in Answers, text \in Texts :
       /\ Explains(text, a)
       /\ text # "fault" => phase[j] = "RUNNING"
       /\ answer' = [answer EXCEPT ![j] = a]
       /\ reason' = [reason EXCEPT ![j] = text]
  /\ UNCHANGED phase

\* A job that was reported as timed out turns out to have met an error instead.
Correct(j) ==
  /\ phase[j] = "FINISHED_WITH_ERROR"
  /\ answer[j] = "minusOne"
  /\ reason[j] = "timeout"
  /\ reason' = [reason EXCEPT ![j] = "fault"]
  /\ UNCHANGED <<phase, answer>>

Succeed(j)      == answer[j] = "zero" /\ Move(j, "RUNNING", "FINISHED_WITH_SUCCESS")
EndWithError(j) == answer[j] \in {"nonzero", "minusOne"}
                   /\ Move(j, "RUNNING", "FINISHED_WITH_ERROR")

\* A timed out program is reported twice: FINISHED_WITH_ERROR, then FAILED.
GiveUp(j) ==
  /\ answer[j] = "minusOne"
  /\ \E from \in Unfinished \cup {"FINISHED_WITH_ERROR"} : Move(j, from, "FAILED")

Next ==
  \E j \in Jobs :
    \/ Submit(j)
    \/ MakeReady(j)
    \/ Run(j)
    \/ Answer(j)
    \/ Correct(j)
    \/ Succeed(j)
    \/ EndWithError(j)
    \/ GiveUp(j)

Spec == Init /\ [][Next]_vars

--------------------------------------------------------------------------------

\* A finished job has the answer its status stands for with the text that goes
\* with it, and only a program that exited with 0 is a success.
VerdictIsAnswer ==
  \A j \in Jobs :
    phase[j] \in Terminal =>
      /\ Explains(reason[j], answer[j])
      /\ (phase[j] = "FINISHED_WITH_SUCCESS") <=> (answer[j] = "zero")

\* A client that stops polling at a terminal status has seen the verdict: the
\* job stays finished, its answer stays and success never turns into failure or
\* failure into success.  The text may still change, but only once and in one
\* way: a timeout becomes the error that was taken for one.
VerdictStands ==
  [][\A j \in Jobs :
       phase[j] \in Terminal =>
         /\ phase'[j] \in Terminal
         /\ answer'[j] = answer[j]
         /\ reason'[j] = reason[j] \/ (reason[j] = "timeout" /\ reason'[j] = "fault")
         /\ (phase'[j] = "FINISHED_WITH_SUCCESS") <=> (phase[j] = "FINISHED_WITH_SUCCESS")]_vars
================================================================================
