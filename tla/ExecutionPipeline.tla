--------------------------- MODULE ExecutionPipeline ---------------------------
(***************************************************************************)
(* The life of an execution job: the API server stores the uploaded file,   *)
(* commits the job row with its QUEUED status and publishes the job to      *)
(* BullMQ; the worker service takes it from the queue, runs the file in a   *)
(* Docker container under a 30 second timeout and writes the result and the *)
(* statuses back to MySQL.                                                  *)
(*                                                                          *)
(* Every "await" of createExecutionJob and of processJob is a point where   *)
(* other requests, other jobs and the environment interleave, so every      *)
(* awaited call is one action.  MySQL, BullMQ and Docker are modelled from  *)
(* how the code uses them.                                                  *)
(***************************************************************************)
EXTENDS Naturals, Sequences

CONSTANTS
  Jobs,            \* POST /execution-jobs requests; each makes one job
  Slots,           \* jobs the worker processes at once (concurrency: 4)
  NoJob,           \* the job of a slot that processes none
  MaxStalledCount, \* times BullMQ redelivers a stalled job (its default is 1)
  Faults           \* what the environment may do in this instance

(***************************************************************************)
(* "db", "docker", "fs": a call to that service may report an error, and    *)
(* may have taken effect all the same.  "api": a request may fail or its    *)
(* process die between two steps.  "crash": the worker process may die.     *)
(* "stop": it may get SIGTERM.  "stall": it may fail to renew the lock of a *)
(* job it is processing.  "tie": two statuses may share a millisecond.      *)
(***************************************************************************)
FaultKinds == {"db", "docker", "fs", "api", "crash", "stop", "stall", "tie"}

ASSUME FaultsAssumption == Faults \subseteq FaultKinds
ASSUME StalledAssumption == MaxStalledCount \in Nat
ASSUME NoJobAssumption == NoJob \notin Jobs

VARIABLES
  request,    \* progress of createExecutionJob, per job
  files,      \* jobs whose source file is on the code-files volume
  rows,       \* jobs with a committed ExecutionJob row
  result,     \* the nullable columns of the row
  log,        \* the job's ExecutionJobStatusLog rows, oldest first
  entry,      \* state of the job's BullMQ entry
  delivery,   \* times BullMQ has handed the entry to a worker
  run,        \* the invocation of processJob in each slot
  container,  \* the container of each delivery of each job
  worker      \* the worker process: "up", "closing" or "down"

apiVars    == <<request, files>>
dbVars     == <<rows, result, log>>
queueVars  == <<entry, delivery>>
workerVars == <<run, container, worker>>
vars       == <<apiVars, dbVars, queueVars, workerVars>>

--------------------------------------------------------------------------------
(* Types *)

Terminal == {"FINISHED_WITH_SUCCESS", "FINISHED_WITH_ERROR", "FAILED"}
Status   == {"QUEUED", "READY", "RUNNING"} \cup Terminal
LogEntry == [status : Status, at : Nat]

\* The error column: the program's log, "Execution timeout (30s)", or the message
\* of the error that the outer catch took.  completedAt is left out: every update
\* sets it to its own time, a second one too, and the menus show it nowhere.
ErrorText == {"null", "output", "timeout", "fault"}
ExitCode  == {"null", "zero", "nonzero", "minusOne"}
Result    == [output : BOOLEAN, error : ErrorText, exitCode : ExitCode]
NoResult  == [output |-> FALSE, error |-> "null", exitCode |-> "null"]

Deliveries == 1 .. (MaxStalledCount + 1)
Exited     == {"exitZero", "exitNonzero"}
Undeleted  == {"created", "running"} \cup Exited

\* The call of processJob that the invocation awaits next, and the service
\* that answers it.
Service ==
  [pc \in {"findJob", "logReady", "accessFile", "logRunning", "create", "start",
           "race", "logs", "remove", "recordResult", "logResult", "kill",
           "removeKilled", "recordTimeout", "logTimeout", "recordFailure",
           "logFailed"} |->
     CASE pc = "accessFile" -> "fs"
       [] pc \in {"create", "start", "race", "logs", "remove", "kill",
                  "removeKilled"} -> "docker"
       [] OTHER -> "db"]
PC == DOMAIN Service \cup {"idle", "complete", "fail"}

\* exit is waitResult.StatusCode, "null" until container.wait() resolves; thrown
\* is the message of the error on its way to a catch.
Run  == [job : Jobs \cup {NoJob}, delivery : Deliveries \cup {0}, pc : PC,
         exit : {"null", "zero", "nonzero"}, thrown : {"null", "timeout", "fault"}]
Idle == [job |-> NoJob, delivery |-> 0, pc |-> "idle", exit |-> "null", thrown |-> "null"]

TypeOK ==
  /\ request \in [Jobs -> {"idle", "stored", "committed", "published",
                           "accepted", "rejected"}]
  /\ files \subseteq Jobs
  /\ rows \subseteq Jobs
  /\ result \in [Jobs -> Result]
  /\ log \in [Jobs -> Seq(LogEntry)]
  /\ entry \in [Jobs -> {"absent", "waiting", "active", "completed", "failed"}]
  /\ delivery \in [Jobs -> Deliveries \cup {0}]
  /\ run \in [Slots -> Run]
  /\ container \in [Jobs \X Deliveries -> Undeleted \cup {"absent", "removed"}]
  /\ worker \in {"up", "closing", "down"}

Init ==
  /\ request = [j \in Jobs |-> "idle"]
  /\ files = {}
  /\ rows = {}
  /\ result = [j \in Jobs |-> NoResult]
  /\ log = [j \in Jobs |-> <<>>]
  /\ entry = [j \in Jobs |-> "absent"]
  /\ delivery = [j \in Jobs |-> 0]
  /\ run = [s \in Slots |-> Idle]
  /\ container = [c \in Jobs \X Deliveries |-> "absent"]
  /\ worker = "up"

--------------------------------------------------------------------------------
(* The API server: POST /execution-jobs *)

\* The upload filter or the missing-file check answers 400.
RejectUpload(j) ==
  /\ request[j] = "idle"
  /\ request' = [request EXCEPT ![j] = "rejected"]
  /\ UNCHANGED <<files, dbVars, queueVars, workerVars>>

\* fs.mkdir and fs.writeFile under a fresh ULID.
StoreFile(j) ==
  /\ request[j] = "idle"
  /\ request' = [request EXCEPT ![j] = "stored"]
  /\ files' = files \cup {j}
  /\ UNCHANGED <<dbVars, queueVars, workerVars>>

\* The transaction that saves the job and its initial status log.
CommitJob(j) ==
  /\ request[j] = "stored"
  /\ request' = [request EXCEPT ![j] = "committed"]
  /\ rows' = rows \cup {j}
  /\ log' = [log EXCEPT ![j] = <<[status |-> "QUEUED", at |-> 0]>>]
  /\ UNCHANGED <<files, result, queueVars, workerVars>>

\* Mutant of PublishJob: published before the transaction commits.
PublishBeforeCommit(j) ==
  /\ request[j] = "stored"
  /\ request' = [request EXCEPT ![j] = "published"]
  /\ entry' = [entry EXCEPT ![j] = "waiting"]
  /\ UNCHANGED <<files, dbVars, delivery, workerVars>>

\* executionQueue.add, after the transaction commits.
PublishJob(j) ==
  /\ request[j] = "committed"
  /\ request' = [request EXCEPT ![j] = "published"]
  /\ entry' = [entry EXCEPT ![j] = "waiting"]
  /\ UNCHANGED <<files, dbVars, delivery, workerVars>>

AcceptRequest(j) ==
  /\ request[j] = "published"
  /\ request' = [request EXCEPT ![j] = "accepted"]
  /\ UNCHANGED <<files, dbVars, queueVars, workerVars>>

\* A rejected await, or the death of the API process, between two steps.
\* Nothing is undone: no handler compensates for the steps already taken.
RequestFails(j) ==
  /\ "api" \in Faults
  /\ request[j] \in {"stored", "committed", "published"}
  /\ request' = [request EXCEPT ![j] = "rejected"]
  /\ UNCHANGED <<files, dbVars, queueVars, workerVars>>

--------------------------------------------------------------------------------
(* BullMQ and the worker process *)

\* The worker takes a waiting entry and calls processJob in a free slot.
Deliver(s, j) ==
  /\ worker = "up"
  /\ run[s] = Idle
  /\ entry[j] = "waiting"
  /\ entry' = [entry EXCEPT ![j] = "active"]
  /\ delivery' = [delivery EXCEPT ![j] = @ + 1]
  /\ run' = [run EXCEPT ![s] =
               [Idle EXCEPT !.job = j, !.delivery = delivery[j] + 1, !.pc = "findJob"]]
  /\ UNCHANGED <<apiVars, dbVars, container, worker>>

Orphaned(j) ==
  /\ entry[j] = "active"
  /\ \A s \in Slots : run[s].job = j => run[s].delivery # delivery[j]

\* Mutants of MoveStalledJob: a lock taken for expired while its process lives,
\* and one redelivery too many.
MoveActiveJob(j) ==
  /\ worker = "up"
  /\ entry[j] = "active"
  /\ entry' = [entry EXCEPT ![j] =
                 IF delivery[j] > MaxStalledCount THEN "failed" ELSE "waiting"]
  /\ UNCHANGED <<apiVars, dbVars, delivery, workerVars>>
MoveOnceMore(j) ==
  /\ worker = "up"
  /\ entry[j] = "active"
  /\ Orphaned(j) \/ "stall" \in Faults
  /\ entry' = [entry EXCEPT ![j] =
                 IF delivery[j] > MaxStalledCount + 1 THEN "failed" ELSE "waiting"]
  /\ UNCHANGED <<apiVars, dbVars, delivery, workerVars>>

\* An active entry whose lock expired is put back, or failed when it has
\* stalled too often.  A lock expires when its process died, or when the live
\* process could not renew it.
MoveStalledJob(j) ==
  /\ worker = "up"
  /\ entry[j] = "active"
  /\ Orphaned(j) \/ "stall" \in Faults
  /\ entry' = [entry EXCEPT ![j] =
                 IF delivery[j] > MaxStalledCount THEN "failed" ELSE "waiting"]
  /\ UNCHANGED <<apiVars, dbVars, delivery, workerVars>>

\* The processor function settled: BullMQ records it if the lock is still held.
Settle(s, pc, outcome) ==
  /\ run[s].pc = pc
  /\ entry' = [entry EXCEPT ![run[s].job] =
                 IF @ = "active" /\ run[s].delivery = delivery[run[s].job]
                 THEN outcome ELSE @]
  /\ run' = [run EXCEPT ![s] = Idle]
  /\ UNCHANGED <<apiVars, dbVars, delivery, container, worker>>

Complete(s) == Settle(s, "complete", "completed")
Fail(s)     == Settle(s, "fail", "failed")

\* The process dies: every invocation is gone, its containers are not.
Crash ==
  /\ "crash" \in Faults
  /\ worker # "down"
  /\ worker' = "down"
  /\ run' = [s \in Slots |-> Idle]
  /\ UNCHANGED <<apiVars, dbVars, queueVars, container>>

\* SIGTERM: worker.close() takes no new job and waits for the active ones.
Shutdown ==
  /\ "stop" \in Faults
  /\ worker = "up"
  /\ worker' = "closing"
  /\ UNCHANGED <<apiVars, dbVars, queueVars, run, container>>

Closed ==
  /\ worker = "closing"
  /\ \A s \in Slots : run[s] = Idle
  /\ worker' = "down"
  /\ UNCHANGED <<apiVars, dbVars, queueVars, run, container>>

Restart ==
  /\ worker = "down"
  /\ worker' = "up"
  /\ UNCHANGED <<apiVars, dbVars, queueVars, run, container>>

--------------------------------------------------------------------------------
(* processJob *)

Goto(s, pc) == run' = [run EXCEPT ![s].pc = pc]
Own(s)      == <<run[s].job, run[s].delivery>>

\* Mutant of OnError: the outer catch swallows the error of its own update.
OnErrorSwallowed(pc) ==
  CASE pc = "race"          -> "kill"
    [] pc = "kill"          -> "removeKilled"
    [] pc = "removeKilled"  -> "recordTimeout"
    [] pc = "recordFailure" -> "logFailed"
    [] pc = "logFailed"     -> "fail"
    [] OTHER                -> "recordFailure"

\* Where a rejected await leads: docker.kill and docker.remove of a timed out
\* container swallow their errors, the inner catch takes a rejected wait, the
\* outer catch takes the rest, and an error in the outer catch propagates.
OnError(pc) ==
  CASE pc = "race"                          -> "kill"
    [] pc = "kill"                          -> "removeKilled"
    [] pc = "removeKilled"                  -> "recordTimeout"
    [] pc \in {"recordFailure", "logFailed"} -> "fail"
    [] OTHER                                -> "recordFailure"

\* What the invocation awaits or checks throws an error of its own, unless it is
\* swallowed on the spot.
Throw(s) ==
  run' = [run EXCEPT ![s].pc = OnError(@),
            ![s].thrown = IF run[s].pc \in {"kill", "removeKilled"} THEN @ ELSE "fault"]

\* The call took effect; it returns, or reports an error if it can.
Proceed(s, next) ==
  \/ Goto(s, next)
  \/ Service[run[s].pc] \in Faults /\ Throw(s)

\* The call reports an error and had no effect.
CallFails(s) ==
  /\ run[s].pc \in DOMAIN Service
  /\ Service[run[s].pc] \in Faults
  /\ Throw(s)
  /\ UNCHANGED <<apiVars, dbVars, queueVars, container, worker>>

FindJob(s) ==
  /\ run[s].pc = "findJob"
  /\ IF run[s].job \in rows THEN Goto(s, "logReady") ELSE Throw(s)
  /\ UNCHANGED <<apiVars, dbVars, queueVars, container, worker>>

LastAt(j) == IF log[j] = <<>> THEN 0 ELSE log[j][Len(log[j])].at

\* DATETIME(3): a later status is a later millisecond, or the same one.
Timestamps(j) == {LastAt(j) + 1} \cup (IF "tie" \in Faults THEN {LastAt(j)} ELSE {})

\* createStatusLog, awaited at pc.  The foreign key refuses the status of a job
\* without a row; only LogFailed can meet that, and it throws either way.
CreateStatusLog(s, pc, status, next) ==
  /\ run[s].pc = pc
  /\ \E at \in Timestamps(run[s].job) :
       log' = [log EXCEPT ![run[s].job] = IF run[s].job \in rows
                 THEN Append(@, [status |-> status, at |-> at]) ELSE @]
  /\ Proceed(s, next)
  /\ UNCHANGED <<apiVars, rows, result, queueVars, container, worker>>

LogReady(s)   == CreateStatusLog(s, "logReady", "READY", "accessFile")
LogRunning(s) == CreateStatusLog(s, "logRunning", "RUNNING", "create")

\* Mutant of AccessFile: the RUNNING status is left out.
AccessFileOnly(s) ==
  /\ run[s].pc = "accessFile"
  /\ IF run[s].job \in files THEN Goto(s, "create") ELSE Throw(s)
  /\ UNCHANGED <<apiVars, dbVars, queueVars, container, worker>>

AccessFile(s) ==
  /\ run[s].pc = "accessFile"
  /\ IF run[s].job \in files THEN Goto(s, "logRunning") ELSE Throw(s)
  /\ UNCHANGED <<apiVars, dbVars, queueVars, container, worker>>

\* A Docker call awaited at pc; it changes the container if it is in one of the
\* states in from, and is refused otherwise.
DockerCall(s, pc, from, to, next) ==
  /\ run[s].pc = pc
  /\ container' = [container EXCEPT ![Own(s)] = IF @ \in from THEN to ELSE @]
  /\ Proceed(s, next)
  /\ UNCHANGED <<apiVars, dbVars, queueVars, worker>>

CreateContainer(s) == DockerCall(s, "create", {"absent"}, "created", "start")
StartContainer(s)  == DockerCall(s, "start", {"created"}, "running", "race")

\* The user's program ends by itself.
ContainerExits(c) ==
  /\ container[c] = "running"
  /\ \E exit \in Exited : container' = [container EXCEPT ![c] = exit]
  /\ UNCHANGED <<apiVars, dbVars, queueVars, run, worker>>

\* Promise.race: container.wait() resolves, or the 30 second timer fires first.
WaitResolves(s) ==
  /\ run[s].pc = "race"
  /\ container[Own(s)] \in Exited
  /\ run' = [run EXCEPT ![s].pc = "logs",
               ![s].exit = IF container[Own(s)] = "exitZero" THEN "zero" ELSE "nonzero"]
  /\ UNCHANGED <<apiVars, dbVars, queueVars, container, worker>>

\* Mutants of TimerFires: the container is removed without being killed, and the
\* timeout is not applied at all.
TimerOnlyRemoves(s) ==
  /\ run[s].pc = "race"
  /\ run' = [run EXCEPT ![s].pc = "removeKilled", ![s].thrown = "timeout"]
  /\ UNCHANGED <<apiVars, dbVars, queueVars, container, worker>>
TimerMissing(s) == FALSE /\ Goto(s, "kill")

TimerFires(s) ==
  /\ run[s].pc = "race"
  /\ run' = [run EXCEPT ![s].pc = "kill", ![s].thrown = "timeout"]
  /\ UNCHANGED <<apiVars, dbVars, queueVars, container, worker>>

\* Docker refuses to kill what has exited and to remove what still runs.
KillContainer(s) == DockerCall(s, "kill", {"running"}, "exitNonzero", "removeKilled")
RemoveKilled(s)  == DockerCall(s, "removeKilled", Exited, "removed", "recordTimeout")

FetchLogs(s) ==
  /\ run[s].pc = "logs"
  /\ Goto(s, "remove")
  /\ UNCHANGED <<apiVars, dbVars, queueVars, container, worker>>

RemoveContainer(s) == DockerCall(s, "remove", Exited, "removed", "recordResult")

\* executionJobRepository.update, awaited at pc.
UpdateJob(s, pc, columns, next) ==
  /\ run[s].pc = pc
  /\ result' = [result EXCEPT ![run[s].job] =
                   IF run[s].job \in rows THEN columns ELSE @]
  /\ Proceed(s, next)
  /\ UNCHANGED <<apiVars, rows, log, queueVars, container, worker>>

\* Mutant of WithError: the exit code of an earlier delivery stays.
WithErrorOnly(j, text) == [result[j] EXCEPT !.error = text]

\* Both failure updates write an error text and exit code -1.
WithError(j, text) == [result[j] EXCEPT !.error = text, !.exitCode = "minusOne"]

\* Mutant of RecordResult: the log text goes to output whatever the exit code.
RecordOutput(s) ==
  UpdateJob(s, "recordResult",
            [result[run[s].job] EXCEPT !.output = TRUE, !.exitCode = run[s].exit],
            "logResult")

RecordResult(s) ==
  UpdateJob(s, "recordResult",
            IF run[s].exit = "zero"
            THEN [result[run[s].job] EXCEPT !.output = TRUE, !.exitCode = "zero"]
            ELSE [result[run[s].job] EXCEPT !.error = "output", !.exitCode = "nonzero"],
            "logResult")

LogResult(s) ==
  CreateStatusLog(s, "logResult",
                  IF run[s].exit = "zero" THEN "FINISHED_WITH_SUCCESS"
                                          ELSE "FINISHED_WITH_ERROR",
                  "complete")

\* Mutant of RecordTimeout: a timed out program gets an exit code of its own.
RecordTimeoutCode(s) ==
  UpdateJob(s, "recordTimeout",
            [result[run[s].job] EXCEPT !.error = "timeout", !.exitCode = "nonzero"],
            "logTimeout")

\* The inner catch records a timeout, whether the timer fired or container.wait()
\* rejected, and rethrows what it took to the outer catch.
RecordTimeout(s) ==
  UpdateJob(s, "recordTimeout", WithError(run[s].job, "timeout"), "logTimeout")
LogTimeout(s) ==
  CreateStatusLog(s, "logTimeout", "FINISHED_WITH_ERROR", "recordFailure")

\* Mutant of RecordFailure: the outer catch rethrows without a status.
RecordSilently(s) ==
  UpdateJob(s, "recordFailure", WithError(run[s].job, run[s].thrown), "fail")

\* The outer catch writes the message of the error it took over what is there.
RecordFailure(s) ==
  UpdateJob(s, "recordFailure", WithError(run[s].job, run[s].thrown), "logFailed")
LogFailed(s) == CreateStatusLog(s, "logFailed", "FAILED", "fail")

--------------------------------------------------------------------------------
(* Specification *)

Api(j) ==
  \/ RejectUpload(j)
  \/ StoreFile(j)
  \/ CommitJob(j)
  \/ PublishJob(j)
  \/ AcceptRequest(j)
  \/ RequestFails(j)

ProcessJob(s) ==
  \/ FindJob(s)
  \/ LogReady(s)
  \/ AccessFile(s)
  \/ LogRunning(s)
  \/ CreateContainer(s)
  \/ StartContainer(s)
  \/ WaitResolves(s)
  \/ TimerFires(s)
  \/ KillContainer(s)
  \/ RemoveKilled(s)
  \/ RecordTimeout(s)
  \/ LogTimeout(s)
  \/ FetchLogs(s)
  \/ RemoveContainer(s)
  \/ RecordResult(s)
  \/ LogResult(s)
  \/ RecordFailure(s)
  \/ LogFailed(s)
  \/ Complete(s)
  \/ Fail(s)

Next ==
  \/ \E j \in Jobs : Api(j)
  \/ \E j \in Jobs : MoveStalledJob(j)
  \/ \E s \in Slots, j \in Jobs : Deliver(s, j)
  \/ \E s \in Slots : ProcessJob(s)
  \/ \E s \in Slots : CallFails(s)
  \/ \E c \in Jobs \X Deliveries : ContainerExits(c)
  \/ Crash
  \/ Shutdown
  \/ Closed
  \/ Restart

Spec == Init /\ [][Next]_vars

(***************************************************************************)
(* Awaited calls settle and the timer fires, BullMQ hands out waiting       *)
(* entries and recovers those of a dead process, worker.close() returns once *)
(* no job is active, and an operator starts a worker that went down.         *)
(* Nothing is assumed of the user's program, of the clients or of the faults.*)
(***************************************************************************)
Fairness ==
  /\ \A s \in Slots : WF_vars(ProcessJob(s))
  /\ WF_vars(\E s \in Slots, j \in Jobs : Deliver(s, j))
  /\ \A j \in Jobs : WF_vars(Orphaned(j) /\ MoveStalledJob(j))
  /\ WF_vars(Closed)
  /\ WF_vars(Restart)

FairSpec == Spec /\ Fairness
--------------------------------------------------------------------------------
(* What the clients read *)

\* getExecutionJobs takes the first status of a descending sort by createdAt and
\* getExecutionJob the last of an ascending one: a status no other is later than,
\* and any of them when several share the last millisecond.
Reported(j) ==
  {log[j][i].status : i \in {k \in DOMAIN log[j] :
                               \A n \in DOMAIN log[j] : log[j][n].at <= log[j][k].at}}

LastStatus(j) == IF log[j] = <<>> THEN "none" ELSE log[j][Len(log[j])].status

Settled(j) == \E i \in DOMAIN log[j] : log[j][i].status \in Terminal

--------------------------------------------------------------------------------
(* Safety *)

\* The queue never runs ahead of the database: whatever request, fault or
\* redelivery came before, an entry in BullMQ has its source file on the volume,
\* its committed row and its QUEUED status ("Publish execution task to BullMQ
\* after DB transaction commits", execution.service.ts).
PublishedAfterCommit ==
  \A j \in Jobs :
    entry[j] # "absent" =>
      /\ j \in files
      /\ j \in rows
      /\ log[j] # <<>>
      /\ log[j][1].status = "QUEUED"

\* processJob updates the row before it writes a terminal status, on its normal,
\* timeout and failure paths alike, and nothing clears it again: a client that
\* reads a terminal status finds an exit code, under every fault.
TerminalHasResult ==
  \A j \in Jobs : Settled(j) => result[j].exitCode # "null"

\* BullMQ's redelivery never has two invocations of processJob work on one job,
\* as long as a live process renews its locks: crashes and restarts included.
JobExclusive ==
  \A s, t \in Slots : run[s].job = run[t].job /\ run[s].job \in Jobs => s = t

\* The two writes of processJob, the row and then the status, agree: a reported
\* success is an exit code 0, any other terminal status is not, even though a
\* redelivered job overwrites the row of an earlier delivery.
VerdictMatchesExitCode ==
  \A j \in Jobs : \A status \in Reported(j) \cap Terminal :
    (status = "FINISHED_WITH_SUCCESS") <=> (result[j].exitCode = "zero")

\* Without redelivery the columns agree as well: a success has output and no
\* error, and a failure of any kind says why, in the program's own words exactly
\* when the exit code is the program's, whichever of two statuses of the same
\* millisecond the client is given.
ColumnsMatchStatus ==
  \A j \in Jobs : \A status \in Reported(j) \cap Terminal :
    IF status = "FINISHED_WITH_SUCCESS"
    THEN result[j].output /\ result[j].error = "null"
    ELSE /\ ~result[j].output
         /\ result[j].error # "null"
         /\ (result[j].error = "output") <=> (result[j].exitCode = "nonzero")

\* The calls processJob awaits while it holds a container.
HoldingPcs == {"start", "race", "logs", "remove", "kill", "removeKilled"}

\* No container is left behind by an error of MySQL or of the file system, by a
\* timeout or by a lost lock: each one that is not yet deleted belongs to an
\* invocation that still has to delete it.  So no more programs run than jobs
\* are processed at once (README.md, "at most 4 jobs"), whatever stalls.
ContainerOwned ==
  \A c \in Jobs \X Deliveries :
    container[c] \in Undeleted =>
      \E s \in Slots : Own(s) = c /\ run[s].pc \in HoldingPcs

\* As long as the worker neither dies nor loses a lock or a database call, a
\* client sees what JobLifecycle allows: the answer before the terminal status,
\* one answer, no status after a terminal one except FAILED after a timeout, and
\* no other error text but the one that corrects a timeout that was none.
Lifecycle == INSTANCE JobLifecycle WITH
  phase  <- [j \in Jobs |-> LastStatus(j)],
  answer <- [j \in Jobs |-> result[j].exitCode],
  reason <- [j \in Jobs |-> result[j].error]
FollowsLifecycle == Lifecycle!Spec

--------------------------------------------------------------------------------
(* Liveness *)

\* A job the API accepted reaches a terminal status once the worker is no longer
\* being shut down: no path through processJob, with Docker or the file system
\* failing at any call, returns without one, and shutdowns lose no job.
AcceptedSettles ==
  <>[](worker = "up") => \A j \in Jobs : (request[j] = "accepted") ~> Settled(j)

\* SIGTERM drains the worker: worker.close(), which app.close() awaits, waits for
\* invocations that all end, and so it resolves (onModuleDestroy).
ShutdownCompletes == (worker = "closing") ~> (worker = "down")

\* A user program does not run forever, even if it never ends by itself: the 30
\* second timeout stops it (README.md, "30 second timeout").
ProgramStops ==
  \A c \in Jobs \X Deliveries : (container[c] = "running") ~> (container[c] # "running")
================================================================================
