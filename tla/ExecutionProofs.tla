---------------------------- MODULE ExecutionProofs ----------------------------
(***************************************************************************)
(* Safety of the execution pipeline for every number of jobs and slots,     *)
(* every stall limit and every set of faults.                               *)
(***************************************************************************)
EXTENDS ExecutionPipeline, TLAPS

--------------------------------------------------------------------------------
(* The types *)

\* Every pc that a rejected await leads to is one of the invocation's.
LEMMA OnErrorType == ASSUME NEW pc \in DOMAIN Service PROVE OnError(pc) \in PC \ {"idle"}
BY DEF OnError, PC, Service

\* Moving one invocation to another pc, by itself or through a call that may
\* report an error, leaves a function of invocations.
LEMMA GotoType ==
  ASSUME TypeOK, NEW s \in Slots, NEW pc \in PC, Goto(s, pc)
  PROVE  run' \in [Slots -> Run]
<1>1. run[s] \in Run /\ run \in [Slots -> Run]
  BY DEF TypeOK
<1>2. [run[s] EXCEPT !.pc = pc] \in Run
  BY <1>1 DEF Run
<1> QED BY <1>1, <1>2 DEF Goto

LEMMA ThrowType ==
  ASSUME TypeOK, NEW s \in Slots, run[s].pc \in DOMAIN Service, Throw(s)
  PROVE  run' \in [Slots -> Run]
<1>1. run[s] \in Run /\ run \in [Slots -> Run] /\ OnError(run[s].pc) \in PC
  BY OnErrorType DEF TypeOK
<1> DEFINE thrown == IF run[s].pc \in {"kill", "removeKilled"} THEN run[s].thrown ELSE "fault"
<1>2. [run[s] EXCEPT !.pc = OnError(run[s].pc), !.thrown = thrown] \in Run
  BY <1>1 DEF Run
<1>3. run' = [run EXCEPT ![s] = [run[s] EXCEPT !.pc = OnError(run[s].pc), !.thrown = thrown]]
  BY <1>1 DEF Throw
<1> QED BY <1>1, <1>2, <1>3

LEMMA TimerType ==
  ASSUME TypeOK, NEW s \in Slots, TimerFires(s)
  PROVE  run' \in [Slots -> Run]
<1>1. run[s] \in Run /\ run \in [Slots -> Run]
  BY DEF TypeOK
<1>2. [run[s] EXCEPT !.pc = "kill", !.thrown = "timeout"] \in Run
  BY <1>1 DEF Run, PC, Service
<1>3. run' = [run EXCEPT ![s] = [run[s] EXCEPT !.pc = "kill", !.thrown = "timeout"]]
  BY <1>1 DEF TimerFires
<1> QED BY <1>1, <1>2, <1>3

LEMMA ProceedType ==
  ASSUME TypeOK, NEW s \in Slots, run[s].pc \in DOMAIN Service,
         NEW next \in PC, Proceed(s, next)
  PROVE  run' \in [Slots -> Run]
BY GotoType, ThrowType DEF Proceed

\* A failure update writes a result.
LEMMA WithErrorType ==
  ASSUME TypeOK, NEW j \in Jobs, NEW text \in ErrorText
  PROVE  WithError(j, text) \in Result
<1>1. result[j] \in Result
  BY DEF TypeOK
<1> QED BY <1>1 DEF WithError, Result, ExitCode

\* The columns that RecordResult writes are a result.
LEMMA ResultType ==
  ASSUME NEW r \in Result
  PROVE  /\ [r EXCEPT !.output = TRUE, !.exitCode = "zero"] \in Result
         /\ [r EXCEPT !.error = "output", !.exitCode = "nonzero"] \in Result
BY DEF Result, ErrorText, ExitCode

\* An entry at the end of a log leaves its first entry alone.
LEMMA AppendKeepsFirst ==
  ASSUME NEW log1 \in Seq(LogEntry), log1 # <<>>, NEW e
  PROVE  Append(log1, e) # <<>> /\ Append(log1, e)[1] = log1[1]
<1>1. Len(log1) \in Nat \ {0}
  OBVIOUS
<1>2. Len(Append(log1, e)) = Len(log1) + 1 /\ Append(log1, e)[1] = log1[1]
  BY <1>1
<1> QED BY <1>1, <1>2

\* createStatusLog keeps every log a sequence of entries.
LEMMA CreateStatusLogType ==
  ASSUME TypeOK, NEW s \in Slots, NEW pc \in DOMAIN Service, NEW status \in Status,
         NEW next \in PC, CreateStatusLog(s, pc, status, next)
  PROVE  TypeOK'
<1> DEFINE j == run[s].job
<1>1. run' \in [Slots -> Run]
  BY ProceedType DEF CreateStatusLog
<1>2. LastAt(j) \in Nat \/ j \notin Jobs
  <2> SUFFICES ASSUME j \in Jobs, log[j] # <<>> PROVE log[j][Len(log[j])].at \in Nat
    BY DEF LastAt
  <2>1. log[j] \in Seq(LogEntry)
    BY DEF TypeOK
  <2>2. log[j][Len(log[j])] \in LogEntry
    BY <2>1
  <2> QED BY <2>2 DEF LogEntry
<1>3. log' \in [Jobs -> Seq(LogEntry)]
  <2>1. PICK at \in Timestamps(j) :
          log' = [log EXCEPT ![j] = IF j \in rows
                    THEN Append(@, [status |-> status, at |-> at]) ELSE @]
    BY DEF CreateStatusLog
  <2>2. CASE j \in Jobs
    <3>1. [status |-> status, at |-> at] \in LogEntry
      BY <1>2, <2>1, <2>2 DEF Timestamps, LogEntry
    <3> QED BY <2>1, <2>2, <3>1 DEF TypeOK
  <2>3. CASE j \notin Jobs
    BY <2>1, <2>3 DEF TypeOK
  <2> QED BY <2>2, <2>3
<1> QED BY <1>1, <1>3 DEF TypeOK, CreateStatusLog, apiVars, queueVars

\* A Docker call leaves every container in a state.
LEMMA DockerCallType ==
  ASSUME TypeOK, NEW s \in Slots, NEW pc \in DOMAIN Service, NEW from,
         NEW to \in Undeleted \cup {"absent", "removed"}, NEW next \in PC,
         DockerCall(s, pc, from, to, next)
  PROVE  TypeOK'
<1>1. run' \in [Slots -> Run]
  BY ProceedType DEF DockerCall
<1>2. container' \in [Jobs \X Deliveries -> Undeleted \cup {"absent", "removed"}]
  BY DEF TypeOK, DockerCall
<1> QED BY <1>1, <1>2 DEF TypeOK, DockerCall, apiVars, dbVars, queueVars

\* An update of the row leaves every row a result.
LEMMA UpdateJobType ==
  ASSUME TypeOK, NEW s \in Slots, NEW pc \in DOMAIN Service, NEW columns,
         run[s].job \in Jobs => columns \in Result,
         NEW next \in PC, UpdateJob(s, pc, columns, next)
  PROVE  TypeOK'
<1>1. run' \in [Slots -> Run]
  BY ProceedType DEF UpdateJob
<1>2. result' \in [Jobs -> Result]
  BY DEF TypeOK, UpdateJob
<1> QED BY <1>1, <1>2 DEF TypeOK, UpdateJob, apiVars, queueVars

--------------------------------------------------------------------------------
(* Type correctness *)

\* BullMQ hands an entry out at most MaxStalledCount + 1 times: an entry is
\* waiting only before that many deliveries, and unpublished before the first.
QueueInv ==
  \A j \in Jobs :
    /\ entry[j] = "absent" => delivery[j] = 0
    /\ entry[j] = "waiting" => delivery[j] <= MaxStalledCount
    /\ request[j] \in {"idle", "stored", "committed"} => entry[j] = "absent"

TypeInv == TypeOK /\ QueueInv

\* The steps of processJob that are not its end: the entry, the deliveries and
\* the request stay as they are.
LEMMA CallType ==
  ASSUME TypeInv, NEW s \in Slots,
         ProcessJob(s) \/ CallFails(s), ~Complete(s), ~Fail(s)
  PROVE  TypeInv'
<1> USE DEF TypeInv
<1> SUFFICES TypeOK' /\ UNCHANGED <<request, entry, delivery>>
  BY DEF QueueInv
<1>1. CASE FindJob(s)
  <2>1. run' \in [Slots -> Run]
    BY <1>1, GotoType, ThrowType DEF FindJob, PC, Service
  <2> QED BY <1>1, <2>1 DEF TypeOK, FindJob, apiVars, dbVars, queueVars
<1>2. CASE LogReady(s)
  <2>1. TypeOK'
    BY <1>2, CreateStatusLogType DEF LogReady, Status, PC, Service
  <2> QED BY <1>2, <2>1 DEF LogReady, CreateStatusLog, apiVars, queueVars
<1>3. CASE AccessFile(s)
  <2>1. run' \in [Slots -> Run]
    BY <1>3, GotoType, ThrowType DEF AccessFile, PC, Service
  <2> QED BY <1>3, <2>1 DEF TypeOK, AccessFile, apiVars, dbVars, queueVars
<1>4. CASE LogRunning(s)
  <2>1. TypeOK'
    BY <1>4, CreateStatusLogType DEF LogRunning, Status, PC, Service
  <2> QED BY <1>4, <2>1 DEF LogRunning, CreateStatusLog, apiVars, queueVars
<1>5. CASE CreateContainer(s)
  <2>1. TypeOK'
    BY <1>5, DockerCallType DEF CreateContainer, Undeleted, PC, Service
  <2> QED BY <1>5, <2>1 DEF CreateContainer, DockerCall, apiVars, queueVars
<1>6. CASE StartContainer(s)
  <2>1. TypeOK'
    BY <1>6, DockerCallType DEF StartContainer, Undeleted, PC, Service
  <2> QED BY <1>6, <2>1 DEF StartContainer, DockerCall, apiVars, queueVars
<1>7. CASE WaitResolves(s)
  <2>1. run[s] \in Run /\ run \in [Slots -> Run]
    BY DEF TypeOK
  <2>2. run' \in [Slots -> Run]
    BY <1>7, <2>1 DEF WaitResolves, Run, PC, Service
  <2> QED BY <1>7, <2>2 DEF TypeOK, WaitResolves, apiVars, dbVars, queueVars
<1>8. CASE TimerFires(s)
  <2>1. run' \in [Slots -> Run]
    BY <1>8, TimerType
  <2> QED BY <1>8, <2>1 DEF TypeOK, TimerFires, apiVars, dbVars, queueVars
<1>9. CASE KillContainer(s)
  <2>1. TypeOK'
    BY <1>9, DockerCallType DEF KillContainer, Undeleted, Exited, PC, Service
  <2> QED BY <1>9, <2>1 DEF KillContainer, DockerCall, apiVars, queueVars
<1>10. CASE RemoveKilled(s)
  <2>1. TypeOK'
    BY <1>10, DockerCallType DEF RemoveKilled, Undeleted, PC, Service
  <2> QED BY <1>10, <2>1 DEF RemoveKilled, DockerCall, apiVars, queueVars
<1>11. CASE RecordTimeout(s)
  <2>1. run[s].job \in Jobs => WithError(run[s].job, "timeout") \in Result
    BY WithErrorType DEF ErrorText
  <2>2. TypeOK'
    BY <1>11, <2>1, UpdateJobType DEF RecordTimeout, PC, Service
  <2> QED BY <1>11, <2>2 DEF RecordTimeout, UpdateJob, apiVars, queueVars
<1>12. CASE LogTimeout(s)
  <2>1. TypeOK'
    BY <1>12, CreateStatusLogType DEF LogTimeout, Status, Terminal, PC, Service
  <2> QED BY <1>12, <2>1 DEF LogTimeout, CreateStatusLog, apiVars, queueVars
<1>13. CASE FetchLogs(s)
  <2>1. run' \in [Slots -> Run]
    BY <1>13, GotoType DEF FetchLogs, PC, Service
  <2> QED BY <1>13, <2>1 DEF TypeOK, FetchLogs, apiVars, dbVars, queueVars
<1>14. CASE RemoveContainer(s)
  <2>1. TypeOK'
    BY <1>14, DockerCallType DEF RemoveContainer, Undeleted, PC, Service
  <2> QED BY <1>14, <2>1 DEF RemoveContainer, DockerCall, apiVars, queueVars
<1>15. CASE RecordResult(s)
  <2> DEFINE columns == IF run[s].exit = "zero"
            THEN [result[run[s].job] EXCEPT !.output = TRUE, !.exitCode = "zero"]
            ELSE [result[run[s].job] EXCEPT !.error = "output", !.exitCode = "nonzero"]
  <2>1. run[s].job \in Jobs => columns \in Result
    <3> SUFFICES ASSUME run[s].job \in Jobs PROVE columns \in Result
      OBVIOUS
    <3>1. result[run[s].job] \in Result
      BY DEF TypeOK
    <3> QED BY <3>1, ResultType
  <2>2. UpdateJob(s, "recordResult", columns, "logResult")
    BY <1>15 DEF RecordResult
  <2> HIDE DEF columns
  <2>3. TypeOK'
    BY <2>1, <2>2, UpdateJobType DEF PC, Service
  <2> QED BY <2>2, <2>3 DEF UpdateJob, apiVars, queueVars
<1>16. CASE LogResult(s)
  <2> DEFINE status == IF run[s].exit = "zero" THEN "FINISHED_WITH_SUCCESS"
                                               ELSE "FINISHED_WITH_ERROR"
  <2>1. CreateStatusLog(s, "logResult", status, "complete")
    BY <1>16 DEF LogResult
  <2>2. status \in Status
    BY DEF Status, Terminal
  <2> HIDE DEF status
  <2>3. TypeOK'
    BY <2>1, <2>2, CreateStatusLogType DEF PC, Service
  <2> QED BY <2>1, <2>3 DEF CreateStatusLog, apiVars, queueVars
<1>17. CASE RecordFailure(s)
  <2>1. run[s].thrown \in ErrorText
    BY DEF TypeOK, Run, ErrorText
  <2> DEFINE columns == WithError(run[s].job, run[s].thrown)
  <2>3. run[s].job \in Jobs => columns \in Result
    BY <2>1, WithErrorType
  <2>4. UpdateJob(s, "recordFailure", columns, "logFailed")
    BY <1>17 DEF RecordFailure
  <2> HIDE DEF columns
  <2>2. TypeOK'
    BY <2>3, <2>4, UpdateJobType DEF PC, Service
  <2> QED BY <1>17, <2>2 DEF RecordFailure, UpdateJob, apiVars, queueVars
<1>18. CASE LogFailed(s)
  <2>1. TypeOK'
    BY <1>18, CreateStatusLogType DEF LogFailed, Status, Terminal, PC, Service
  <2> QED BY <1>18, <2>1 DEF LogFailed, CreateStatusLog, apiVars, queueVars
<1>19. CASE CallFails(s)
  <2>1. run' \in [Slots -> Run]
    BY <1>19, ThrowType DEF CallFails
  <2> QED BY <1>19, <2>1 DEF TypeOK, CallFails, apiVars, dbVars, queueVars
<1> QED
  BY <1>1, <1>2, <1>3, <1>4, <1>5, <1>6, <1>7, <1>8, <1>9, <1>10, <1>11, <1>12,
     <1>13, <1>14, <1>15, <1>16, <1>17, <1>18, <1>19 DEF ProcessJob

\* The end of an invocation moves its entry out of "active" only.
LEMMA SettleType ==
  ASSUME TypeInv, NEW s \in Slots, NEW pc, NEW outcome \in {"completed", "failed"},
         Settle(s, pc, outcome)
  PROVE  TypeInv'
<1>1. Idle \in Run
  BY DEF Idle, Run, PC
<1>2. TypeOK'
  BY <1>1 DEF TypeInv, TypeOK, Settle, apiVars, dbVars
<1>3. QueueInv'
  BY DEF TypeInv, TypeOK, QueueInv, Settle, apiVars
<1> QED BY <1>2, <1>3 DEF TypeInv

\* The invariant holds initially and every step of the system keeps it.
LEMMA TypeInvInit == Init => TypeInv
BY StalledAssumption
   DEF Init, TypeInv, TypeOK, QueueInv, NoResult, Result, ErrorText, ExitCode, Idle, Run, PC, Deliveries

\* A delivery count is a natural number.
LEMMA DeliveryNat == ASSUME TypeOK, NEW j \in Jobs PROVE delivery[j] \in Nat
<1>1. delivery[j] \in Deliveries \cup {0}
  BY DEF TypeOK
<1> QED BY <1>1, StalledAssumption DEF Deliveries

LEMMA TypeInvStep == TypeInv /\ [Next]_vars => TypeInv'
<1> SUFFICES ASSUME TypeInv, [Next]_vars PROVE TypeInv'
  OBVIOUS
<1> USE DEF TypeInv, TypeOK, QueueInv
<1>1. CASE UNCHANGED vars
  BY <1>1 DEF vars, apiVars, dbVars, queueVars, workerVars
<1>2. ASSUME NEW j \in Jobs, Api(j) PROVE TypeInv'
  <2>1. CASE RejectUpload(j)
    BY <2>1 DEF RejectUpload, dbVars, queueVars, workerVars
  <2>2. CASE StoreFile(j)
    BY <2>2 DEF StoreFile, dbVars, queueVars, workerVars
  <2>3. CASE CommitJob(j)
    <3>1. [status |-> "QUEUED", at |-> 0] \in LogEntry
      BY DEF LogEntry, Status
    <3>2. log' \in [Jobs -> Seq(LogEntry)]
      BY <2>3, <3>1 DEF CommitJob
    <3> QED BY <2>3, <3>2 DEF CommitJob, queueVars, workerVars
  <2>4. CASE PublishJob(j)
    <3>1. delivery[j] <= MaxStalledCount
      BY <2>4, StalledAssumption DEF PublishJob
    <3> QED BY <2>4, <3>1 DEF PublishJob, dbVars, workerVars
  <2>5. CASE AcceptRequest(j)
    BY <2>5 DEF AcceptRequest, dbVars, queueVars, workerVars
  <2>6. CASE RequestFails(j)
    BY <2>6 DEF RequestFails, dbVars, queueVars, workerVars
  <2> QED BY <1>2, <2>1, <2>2, <2>3, <2>4, <2>5, <2>6 DEF Api
<1>3. ASSUME NEW j \in Jobs, MoveStalledJob(j) PROVE TypeInv'
  <2>1. ~(delivery[j] > MaxStalledCount) => delivery[j] <= MaxStalledCount
    BY DeliveryNat, StalledAssumption
  <2> QED BY <1>3, <2>1 DEF MoveStalledJob, apiVars, dbVars, workerVars
<1>4. ASSUME NEW s \in Slots, NEW j \in Jobs, Deliver(s, j) PROVE TypeInv'
  <2>1. delivery[j] + 1 \in Deliveries
    <3>1. delivery[j] \in Nat /\ delivery[j] <= MaxStalledCount
      BY <1>4, DeliveryNat DEF Deliver
    <3> HIDE DEF TypeInv, TypeOK, QueueInv
    <3> QED BY <3>1, StalledAssumption DEF Deliveries
  <2>2. [Idle EXCEPT !.job = j, !.delivery = delivery[j] + 1, !.pc = "findJob"] \in Run
    BY <2>1 DEF Idle, Run, PC, Service
  <2> QED BY <1>4, <2>1, <2>2 DEF Deliver, apiVars, dbVars
<1>5. ASSUME NEW s \in Slots, ProcessJob(s) \/ CallFails(s) PROVE TypeInv'
  <2>1. CASE Complete(s)
    BY <2>1, SettleType DEF Complete
  <2>2. CASE Fail(s)
    BY <2>2, SettleType DEF Fail
  <2> QED BY <1>5, <2>1, <2>2, CallType
<1>6. ASSUME NEW c \in Jobs \X Deliveries, ContainerExits(c) PROVE TypeInv'
  BY <1>6 DEF ContainerExits, Undeleted, apiVars, dbVars, queueVars
<1>7. CASE Crash
  <2>1. Idle \in Run
    BY DEF Idle, Run, PC
  <2> QED BY <1>7, <2>1 DEF Crash, apiVars, dbVars, queueVars
<1>8. CASE Shutdown
  BY <1>8 DEF Shutdown, apiVars, dbVars, queueVars
<1>9. CASE Closed
  BY <1>9 DEF Closed, apiVars, dbVars, queueVars
<1>10. CASE Restart
  BY <1>10 DEF Restart, apiVars, dbVars, queueVars
<1> QED
  BY <1>1, <1>2, <1>3, <1>4, <1>5, <1>6, <1>7, <1>8, <1>9, <1>10 DEF Next

\* Type correctness, and with it that BullMQ delivers no job more than
\* MaxStalledCount + 1 times, under every fault.
THEOREM TypeCorrect == Spec => []TypeOK
<1>1. TypeInv => TypeOK
  BY DEF TypeInv
<1> QED BY <1>1, TypeInvInit, TypeInvStep, PTL DEF Spec

LEMMA TypeInvariant == Spec => []TypeInv
BY TypeInvInit, TypeInvStep, PTL DEF Spec

--------------------------------------------------------------------------------
(* The queue never runs ahead of the database *)

Committed(j) == j \in files /\ j \in rows /\ log[j] # <<>> /\ log[j][1].status = "QUEUED"

\* createExecutionJob takes its steps in order: what it has stored and committed
\* is there when it publishes.
CommitInv ==
  \A j \in Jobs :
    /\ request[j] = "stored" => j \in files
    /\ request[j] = "committed" => Committed(j)
    /\ entry[j] # "absent" => Committed(j)

\* What a step of processJob does to the rows and to the log: nothing, or one
\* more status for its own job.
LEMMA CallFrame ==
  ASSUME TypeOK, NEW s \in Slots, ProcessJob(s) \/ CallFails(s)
  PROVE  /\ UNCHANGED <<request, files, rows>>
         /\ \/ UNCHANGED log
            \/ \E e : log' = [log EXCEPT ![run[s].job] = Append(@, e)]
         /\ \A j \in Jobs : entry'[j] # "absent" => entry[j] # "absent"
<1>1. ASSUME NEW pc, NEW status, NEW next, CreateStatusLog(s, pc, status, next)
      PROVE  /\ UNCHANGED <<request, files, rows, entry>>
             /\ \/ UNCHANGED log
                \/ \E e : log' = [log EXCEPT ![run[s].job] = Append(@, e)]
  <2>1. UNCHANGED <<request, files, rows, entry>>
    BY <1>1 DEF CreateStatusLog, apiVars, queueVars
  <2>2. PICK at \in Timestamps(run[s].job) :
          log' = [log EXCEPT ![run[s].job] = IF run[s].job \in rows
                    THEN Append(@, [status |-> status, at |-> at]) ELSE @]
    BY <1>1 DEF CreateStatusLog
  <2>3. CASE run[s].job \in rows
    BY <2>1, <2>2, <2>3
  <2>4. CASE run[s].job \notin rows
    BY <2>1, <2>2, <2>4 DEF TypeOK
  <2> QED BY <2>3, <2>4
<1>2. ASSUME NEW pc, NEW from, NEW to, NEW next, DockerCall(s, pc, from, to, next)
      PROVE  UNCHANGED <<request, files, rows, entry, log>>
  BY <1>2 DEF DockerCall, apiVars, dbVars, queueVars
<1>3. ASSUME NEW pc, NEW columns, NEW next, UpdateJob(s, pc, columns, next)
      PROVE  UNCHANGED <<request, files, rows, entry, log>>
  BY <1>3 DEF UpdateJob, apiVars, queueVars
<1>4. ASSUME NEW pc, NEW outcome, Settle(s, pc, outcome)
      PROVE  /\ UNCHANGED <<request, files, rows, log>>
             /\ \A j \in Jobs : entry'[j] # "absent" => entry[j] # "absent"
  BY <1>4 DEF TypeOK, Settle, apiVars, dbVars
<1>5. CASE LogReady(s) \/ LogRunning(s) \/ LogTimeout(s) \/ LogResult(s) \/ LogFailed(s)
  BY <1>1, <1>5 DEF LogReady, LogRunning, LogTimeout, LogResult, LogFailed
<1>6. CASE \/ CreateContainer(s) \/ StartContainer(s) \/ KillContainer(s)
           \/ RemoveKilled(s) \/ RemoveContainer(s)
  BY <1>2, <1>6
     DEF CreateContainer, StartContainer, KillContainer, RemoveKilled, RemoveContainer
<1>7. CASE RecordTimeout(s) \/ RecordResult(s) \/ RecordFailure(s)
  BY <1>3, <1>7 DEF RecordTimeout, RecordResult, RecordFailure
<1>8. CASE Complete(s) \/ Fail(s)
  BY <1>4, <1>8 DEF Complete, Fail
<1>9. CASE \/ FindJob(s) \/ AccessFile(s) \/ FetchLogs(s) \/ WaitResolves(s)
           \/ TimerFires(s) \/ CallFails(s)
  BY <1>9 DEF FindJob, AccessFile, FetchLogs, WaitResolves, TimerFires, CallFails,
              apiVars, dbVars, queueVars
<1> QED BY <1>5, <1>6, <1>7, <1>8, <1>9 DEF ProcessJob

LEMMA CommitInvStep == TypeInv /\ CommitInv /\ [Next]_vars => CommitInv'
<1> SUFFICES ASSUME TypeInv, CommitInv, [Next]_vars PROVE CommitInv'
  OBVIOUS
<1> USE DEF TypeInv, TypeOK, CommitInv, Committed
<1>1. CASE UNCHANGED vars
  BY <1>1 DEF vars, apiVars, dbVars, queueVars
<1>2. ASSUME NEW j \in Jobs, Api(j) PROVE CommitInv'
  <2>1. CASE RejectUpload(j)
    BY <2>1 DEF RejectUpload, dbVars, queueVars
  <2>2. CASE StoreFile(j)
    BY <2>2 DEF StoreFile, dbVars, queueVars
  <2>3. CASE CommitJob(j)
    BY <2>3 DEF CommitJob, queueVars
  <2>4. CASE PublishJob(j)
    BY <2>4 DEF PublishJob, dbVars
  <2>5. CASE AcceptRequest(j)
    BY <2>5 DEF AcceptRequest, dbVars, queueVars
  <2>6. CASE RequestFails(j)
    BY <2>6 DEF RequestFails, dbVars, queueVars
  <2> QED BY <1>2, <2>1, <2>2, <2>3, <2>4, <2>5, <2>6 DEF Api
<1>3. ASSUME NEW j \in Jobs, MoveStalledJob(j) PROVE CommitInv'
  BY <1>3 DEF MoveStalledJob, apiVars, dbVars
<1>4. ASSUME NEW s \in Slots, NEW j \in Jobs, Deliver(s, j) PROVE CommitInv'
  BY <1>4 DEF Deliver, apiVars, dbVars
<1>5. ASSUME NEW s \in Slots, ProcessJob(s) \/ CallFails(s) PROVE CommitInv'
  <2>1. /\ UNCHANGED <<request, files, rows>>
        /\ \A j \in Jobs : entry'[j] # "absent" => entry[j] # "absent"
    BY <1>5, CallFrame
  <2>2. ASSUME NEW j \in Jobs, log[j] # <<>>, log[j][1].status = "QUEUED"
        PROVE  log'[j] # <<>> /\ log'[j][1].status = "QUEUED"
    <3>1. CASE UNCHANGED log
      BY <2>2, <3>1
    <3>2. ASSUME NEW e, log' = [log EXCEPT ![run[s].job] = Append(@, e)]
          PROVE  log'[j] # <<>> /\ log'[j][1].status = "QUEUED"
      <4>1. log[j] \in Seq(LogEntry) /\ log'[j] \in {log[j], Append(log[j], e)}
        BY <3>2
      <4>2. Append(log[j], e) # <<>> /\ Append(log[j], e)[1] = log[j][1]
        BY <2>2, <4>1, AppendKeepsFirst
      <4> QED BY <2>2, <4>1, <4>2
    <3> QED BY <1>5, <3>1, <3>2, CallFrame
  <2> QED BY <2>1, <2>2
<1>6. ASSUME NEW c \in Jobs \X Deliveries, ContainerExits(c) PROVE CommitInv'
  BY <1>6 DEF ContainerExits, apiVars, dbVars, queueVars
<1>7. CASE Crash \/ Shutdown \/ Closed \/ Restart
  BY <1>7 DEF Crash, Shutdown, Closed, Restart, apiVars, dbVars, queueVars
<1> QED BY <1>1, <1>2, <1>3, <1>4, <1>5, <1>6, <1>7 DEF Next

LEMMA CommitInvariant == Spec => [](TypeInv /\ CommitInv)
<1>1. Init => CommitInv
  BY DEF Init, CommitInv
<1> QED BY <1>1, TypeInvariant, CommitInvStep, PTL DEF Spec

\* No redelivery, crash or failing request makes BullMQ hand out a job whose row,
\* first status or file is missing.
THEOREM PublishAfterCommit == Spec => []PublishedAfterCommit
<1>1. CommitInv => PublishedAfterCommit
  BY DEF CommitInv, PublishedAfterCommit, Committed
<1> QED BY <1>1, CommitInvariant, PTL

--------------------------------------------------------------------------------
(* A terminal status comes after the result *)

\* The calls that write a terminal status.
FinalPcs == {"logResult", "logTimeout", "logFailed"}

\* An invocation has a published job, and a result once it is about to write a
\* terminal status, whichever invocation wrote that result.
ResultInv ==
  /\ \A s \in Slots :
       run[s].pc # "idle" => run[s].job \in Jobs /\ entry[run[s].job] # "absent"
  /\ \A s \in Slots :
       run[s].pc \in FinalPcs => result[run[s].job].exitCode # "null"
  /\ TerminalHasResult

\* The other invocations and the job of this one stay; it does not become idle.
Stays(s) ==
  /\ run'[s].job = run[s].job
  /\ run'[s].delivery = run[s].delivery
  /\ \A t \in Slots : t # s => run'[t] = run[t]

LEMMA GotoEffect ==
  ASSUME TypeOK, NEW s \in Slots, NEW pc, Goto(s, pc)
  PROVE  run'[s].pc = pc /\ Stays(s)
<1>1. run \in [Slots -> Run] /\ run[s] \in Run
  BY DEF TypeOK
<1>2. run' = [run EXCEPT ![s] = [run[s] EXCEPT !.pc = pc]]
  BY DEF Goto
<1>3. run'[s] = [run[s] EXCEPT !.pc = pc]
  BY <1>1, <1>2
<1> QED BY <1>1, <1>2, <1>3 DEF Stays, Run

LEMMA ThrowEffect ==
  ASSUME TypeOK, NEW s \in Slots, Throw(s)
  PROVE  /\ run'[s].pc = OnError(run[s].pc) /\ run'[s].exit = run[s].exit
         /\ run'[s].thrown = IF run[s].pc \in {"kill", "removeKilled"} THEN run[s].thrown
                                                                       ELSE "fault"
         /\ Stays(s)
<1>1. run \in [Slots -> Run] /\ run[s] \in Run
  BY DEF TypeOK
<1> DEFINE thrown == IF run[s].pc \in {"kill", "removeKilled"} THEN run[s].thrown ELSE "fault"
<1>2. run' = [run EXCEPT ![s] = [run[s] EXCEPT !.pc = OnError(run[s].pc), !.thrown = thrown]]
  BY <1>1 DEF Throw
<1> HIDE DEF thrown
<1>3. run'[s] = [run[s] EXCEPT !.pc = OnError(run[s].pc), !.thrown = thrown]
  BY <1>1, <1>2
<1> QED BY <1>1, <1>2, <1>3 DEF Stays, Run, thrown

LEMMA TimerEffect ==
  ASSUME TypeOK, NEW s \in Slots, TimerFires(s)
  PROVE  /\ run'[s].pc = "kill" /\ run'[s].exit = run[s].exit /\ run'[s].thrown = "timeout"
         /\ Stays(s)
<1>1. run \in [Slots -> Run] /\ run[s] \in Run
  BY DEF TypeOK
<1>2. run' = [run EXCEPT ![s] = [run[s] EXCEPT !.pc = "kill", !.thrown = "timeout"]]
  BY <1>1 DEF TimerFires
<1>3. run'[s] = [run[s] EXCEPT !.pc = "kill", !.thrown = "timeout"]
  BY <1>1, <1>2
<1> QED BY <1>1, <1>2, <1>3 DEF Stays, Run

\* No error leads straight to a terminal status.
LEMMA OnErrorEffect ==
  ASSUME NEW pc PROVE OnError(pc) \notin FinalPcs \cup {"idle"}
BY DEF OnError, FinalPcs

LEMMA ProceedEffect ==
  ASSUME TypeOK, NEW s \in Slots, NEW next, Proceed(s, next)
  PROVE  run'[s].pc \in {next, OnError(run[s].pc)} /\ Stays(s)
BY GotoEffect, ThrowEffect DEF Proceed

\* Steps that write neither the row nor the log.
LEMMA OtherCallKeepsResult ==
  ASSUME TypeInv, ResultInv, NEW s \in Slots, run[s].pc # "idle", Stays(s),
         run'[s].pc \notin FinalPcs, UNCHANGED <<result, log, entry>>
  PROVE  ResultInv'
BY DEF ResultInv, Stays, TerminalHasResult, Settled

LEMMA UpdateKeepsResult ==
  ASSUME TypeInv, CommitInv, ResultInv, NEW s \in Slots, NEW pc \in DOMAIN Service,
         NEW columns, columns.exitCode # "null", NEW next \in PC \ {"idle"},
         UpdateJob(s, pc, columns, next)
  PROVE  ResultInv'
<1>1. run[s].pc # "idle" /\ run[s].job \in Jobs /\ run[s].job \in rows
  BY DEF UpdateJob, Service, ResultInv, CommitInv, Committed
<1>2. UNCHANGED <<log, entry>> /\ Stays(s)
  BY ProceedEffect DEF TypeInv, UpdateJob, queueVars
<1>3. result' = [result EXCEPT ![run[s].job] = columns]
  BY <1>1 DEF UpdateJob
<1>4. \A j \in Jobs : result'[j].exitCode # "null" \/ result'[j] = result[j]
  BY <1>1, <1>3 DEF TypeInv, TypeOK
<1>5. result'[run[s].job].exitCode # "null"
  BY <1>1, <1>3 DEF TypeInv, TypeOK
<1>6. TerminalHasResult'
  BY <1>2, <1>4 DEF ResultInv, TerminalHasResult, Settled
<1>7. \A t \in Slots :
        run'[t].pc # "idle" => run'[t].job \in Jobs /\ entry'[run'[t].job] # "absent"
  BY <1>1, <1>2 DEF Stays, ResultInv
<1>8. \A t \in Slots : run'[t].pc \in FinalPcs => result'[run'[t].job].exitCode # "null"
  BY <1>1, <1>2, <1>4, <1>5 DEF Stays, ResultInv, FinalPcs
<1> QED BY <1>6, <1>7, <1>8 DEF ResultInv

LEMMA StatusKeepsResult ==
  ASSUME TypeInv, CommitInv, ResultInv, NEW s \in Slots, NEW pc \in DOMAIN Service,
         NEW status, status \in Terminal => pc \in FinalPcs,
         NEW next \in PC \ (FinalPcs \cup {"idle"}),
         CreateStatusLog(s, pc, status, next)
  PROVE  ResultInv'
<1> DEFINE j == run[s].job
<1>1. run[s].pc = pc /\ pc # "idle" /\ j \in Jobs /\ j \in rows
  BY DEF CreateStatusLog, Service, ResultInv, CommitInv, Committed
<1>2. UNCHANGED <<result, entry>> /\ Stays(s)
  BY ProceedEffect DEF TypeInv, CreateStatusLog, queueVars
<1>3. run'[s].pc \notin FinalPcs
  BY ProceedEffect, OnErrorEffect DEF TypeInv, CreateStatusLog
<1>4. PICK at \in Timestamps(j) :
        log' = [log EXCEPT ![j] = Append(@, [status |-> status, at |-> at])]
  BY <1>1 DEF CreateStatusLog
<1>5. ASSUME NEW k \in Jobs, Settled(k)' PROVE result'[k].exitCode # "null"
  <2>1. CASE k # j
    BY <1>2, <1>4, <1>5, <2>1 DEF TypeInv, TypeOK, ResultInv, TerminalHasResult, Settled
  <2>2. CASE k = j
    <3>1. log[j] \in Seq(LogEntry) /\ log'[j] = Append(log[j], [status |-> status, at |-> at])
      BY <1>1, <1>4 DEF TypeInv, TypeOK
    <3>2. PICK i \in DOMAIN log'[j] : log'[j][i].status \in Terminal
      BY <1>5, <2>2 DEF Settled
    <3>3. CASE i \in DOMAIN log[j]
      BY <1>2, <2>2, <3>1, <3>2, <3>3 DEF ResultInv, TerminalHasResult, Settled
    <3>4. CASE i \notin DOMAIN log[j]
      <4>1. i = Len(log[j]) + 1
        BY <3>1, <3>4
      <4>2. log'[j][i].status = status
        BY <3>1, <4>1
      <4> QED BY <1>1, <1>2, <2>2, <3>2, <4>2 DEF ResultInv
    <3> QED BY <3>3, <3>4
  <2> QED BY <2>1, <2>2
<1>6. \A t \in Slots :
        run'[t].pc # "idle" => run'[t].job \in Jobs /\ entry'[run'[t].job] # "absent"
  BY <1>1, <1>2 DEF Stays, ResultInv
<1>7. \A t \in Slots : run'[t].pc \in FinalPcs => result'[run'[t].job].exitCode # "null"
  BY <1>2, <1>3 DEF Stays, ResultInv
<1> QED BY <1>5, <1>6, <1>7 DEF ResultInv, TerminalHasResult

LEMMA CallKeepsResult ==
  ASSUME TypeInv, CommitInv, ResultInv, NEW s \in Slots,
         ProcessJob(s) \/ CallFails(s), ~Complete(s), ~Fail(s)
  PROVE  ResultInv'
<1> USE DEF TypeInv
<1>1. ASSUME NEW pc \in PC \ FinalPcs, run[s].pc # "idle",
             Goto(s, pc), UNCHANGED <<result, log, entry>>
      PROVE  ResultInv'
  BY <1>1, GotoEffect, OtherCallKeepsResult
<1>2. ASSUME NEW pc \in DOMAIN Service, NEW from, NEW to, NEW next \in PC \ FinalPcs,
             DockerCall(s, pc, from, to, next)
      PROVE  ResultInv'
  <2>1. run[s].pc # "idle" /\ Stays(s) /\ run'[s].pc \notin FinalPcs
    BY <1>2, ProceedEffect, OnErrorEffect DEF DockerCall, Service
  <2>2. UNCHANGED <<result, log, entry>>
    BY <1>2 DEF DockerCall, dbVars, queueVars
  <2> QED BY <2>1, <2>2, OtherCallKeepsResult
<1>3. ASSUME NEW j, NEW text PROVE WithError(j, text).exitCode # "null" \/ j \notin Jobs
  BY DEF WithError, TypeOK, Result
<1>4. run[s].pc # "idle" => run[s].job \in Jobs
  BY DEF ResultInv
<1>5. CASE FindJob(s) \/ AccessFile(s) \/ FetchLogs(s) \/ TimerFires(s) \/ CallFails(s)
  <2>1. ASSUME run[s].pc # "idle", Throw(s), UNCHANGED <<result, log, entry>> PROVE ResultInv'
    BY <2>1, ThrowEffect, OnErrorEffect, OtherCallKeepsResult
  <2>2. CASE FindJob(s) \/ AccessFile(s) \/ FetchLogs(s)
    BY <1>1, <2>1, <2>2 DEF FindJob, AccessFile, FetchLogs, dbVars, queueVars,
                            PC, Service, FinalPcs
  <2>3. CASE TimerFires(s)
    BY <2>3, TimerEffect, OtherCallKeepsResult DEF TimerFires, dbVars, queueVars, FinalPcs
  <2>4. CASE CallFails(s)
    BY <2>1, <2>4 DEF CallFails, Service, dbVars, queueVars
  <2> QED BY <1>5, <2>2, <2>3, <2>4
<1>6. CASE WaitResolves(s)
  <2>1. run[s] \in Run /\ run \in [Slots -> Run]
    BY DEF TypeOK
  <2>2. run[s].pc # "idle" /\ Stays(s) /\ run'[s].pc = "logs"
    BY <1>6, <2>1 DEF WaitResolves, Stays, Run
  <2> QED BY <1>6, <2>2, OtherCallKeepsResult DEF WaitResolves, dbVars, queueVars, FinalPcs
<1>7. CASE CreateContainer(s) \/ StartContainer(s)
  BY <1>2, <1>7 DEF CreateContainer, StartContainer, PC, Service, FinalPcs
<1>8. CASE KillContainer(s) \/ RemoveKilled(s) \/ RemoveContainer(s)
  BY <1>2, <1>8 DEF KillContainer, RemoveKilled, RemoveContainer, PC, Service, FinalPcs
<1>9. CASE LogReady(s)
  BY <1>9, StatusKeepsResult DEF LogReady, Terminal, PC, Service, FinalPcs
<1>10. CASE LogRunning(s)
  BY <1>10, StatusKeepsResult DEF LogRunning, Terminal, PC, Service, FinalPcs
<1>11. CASE LogTimeout(s)
  BY <1>11, StatusKeepsResult DEF LogTimeout, PC, Service, FinalPcs
<1>12. CASE LogResult(s)
  BY <1>12, StatusKeepsResult DEF LogResult, PC, Service, FinalPcs
<1>13. CASE LogFailed(s)
  BY <1>13, StatusKeepsResult DEF LogFailed, PC, Service, FinalPcs
<1>14. CASE RecordTimeout(s)
  <2>1. run[s].pc # "idle"
    BY <1>14 DEF RecordTimeout, UpdateJob
  <2> QED BY <1>3, <1>4, <1>14, <2>1, UpdateKeepsResult DEF RecordTimeout, PC, Service
<1>15. CASE RecordFailure(s)
  <2>1. run[s].pc # "idle"
    BY <1>15 DEF RecordFailure, UpdateJob
  <2> DEFINE columns == WithError(run[s].job, run[s].thrown)
  <2>2. UpdateJob(s, "recordFailure", columns, "logFailed") /\ columns.exitCode # "null"
    BY <1>3, <1>4, <1>15, <2>1 DEF RecordFailure
  <2> HIDE DEF columns
  <2> QED BY <2>2, UpdateKeepsResult DEF PC, Service
<1>16. CASE RecordResult(s)
  <2> DEFINE columns == IF run[s].exit = "zero"
            THEN [result[run[s].job] EXCEPT !.output = TRUE, !.exitCode = "zero"]
            ELSE [result[run[s].job] EXCEPT !.error = "output", !.exitCode = "nonzero"]
  <2>1. UpdateJob(s, "recordResult", columns, "logResult")
    BY <1>16 DEF RecordResult
  <2>2. result[run[s].job] \in Result
    BY <1>4, <2>1 DEF UpdateJob, TypeOK
  <2>3. columns.exitCode # "null"
    BY <2>2 DEF Result
  <2> HIDE DEF columns
  <2> QED BY <2>1, <2>3, UpdateKeepsResult DEF PC, Service
<1> QED
  BY <1>5, <1>6, <1>7, <1>8, <1>9, <1>10, <1>11, <1>12, <1>13, <1>14, <1>15, <1>16
     DEF ProcessJob

LEMMA ResultInvStep == TypeInv /\ CommitInv /\ ResultInv /\ [Next]_vars => ResultInv'
<1> SUFFICES ASSUME TypeInv, CommitInv, ResultInv, [Next]_vars PROVE ResultInv'
  OBVIOUS
<1> USE DEF TypeInv, TypeOK, ResultInv, TerminalHasResult, Settled
<1>1. CASE UNCHANGED vars
  BY <1>1 DEF vars, dbVars, queueVars, workerVars
<1>2. ASSUME NEW j \in Jobs, Api(j) PROVE ResultInv'
  <2>1. CASE RejectUpload(j) \/ StoreFile(j) \/ AcceptRequest(j) \/ RequestFails(j)
    BY <2>1 DEF RejectUpload, StoreFile, AcceptRequest, RequestFails,
                dbVars, queueVars, workerVars
  <2>2. CASE CommitJob(j)
    <3>1. ~Settled(j)'
      BY <2>2 DEF CommitJob, Terminal
    <3>2. \A k \in Jobs : k # j => log'[k] = log[k]
      BY <2>2 DEF CommitJob
    <3> QED BY <2>2, <3>1, <3>2 DEF CommitJob, queueVars, workerVars
  <2>3. CASE PublishJob(j)
    BY <2>3 DEF PublishJob, dbVars, workerVars
  <2> QED BY <1>2, <2>1, <2>2, <2>3 DEF Api
<1>3. ASSUME NEW j \in Jobs, MoveStalledJob(j) PROVE ResultInv'
  BY <1>3 DEF MoveStalledJob, dbVars, workerVars
<1>4. ASSUME NEW s \in Slots, NEW j \in Jobs, Deliver(s, j) PROVE ResultInv'
  <2>1. run'[s].job = j /\ run'[s].pc = "findJob" /\ \A t \in Slots : t # s => run'[t] = run[t]
    BY <1>4 DEF Deliver, Idle
  <2> QED BY <1>4, <2>1 DEF Deliver, dbVars, FinalPcs
<1>5. ASSUME NEW s \in Slots, ProcessJob(s) \/ CallFails(s) PROVE ResultInv'
  <2>1. ASSUME NEW pc, NEW outcome \in {"completed", "failed"}, Settle(s, pc, outcome)
        PROVE  ResultInv'
    BY <2>1 DEF Settle, dbVars, Idle, FinalPcs
  <2>2. CASE Complete(s) \/ Fail(s)
    BY <2>1, <2>2 DEF Complete, Fail
  <2> HIDE DEF TypeInv, ResultInv
  <2> QED BY <1>5, <2>2, CallKeepsResult
<1>6. ASSUME NEW c \in Jobs \X Deliveries, ContainerExits(c) PROVE ResultInv'
  BY <1>6 DEF ContainerExits, dbVars, queueVars
<1>7. CASE Crash \/ Shutdown \/ Closed \/ Restart
  BY <1>7 DEF Crash, Shutdown, Closed, Restart, dbVars, queueVars, Idle, FinalPcs
<1> QED BY <1>1, <1>2, <1>3, <1>4, <1>5, <1>6, <1>7 DEF Next

LEMMA ResultInvariant == Spec => []ResultInv
<1>1. Init => ResultInv
  BY DEF Init, ResultInv, Idle, FinalPcs, TerminalHasResult, Settled
<1> QED BY <1>1, CommitInvariant, ResultInvStep, PTL DEF Spec

\* A client never reads a terminal status without the exit code it stands for,
\* whatever the faults and however many invocations work on the job.
THEOREM ResultBeforeTerminal == Spec => []TerminalHasResult
<1>1. ResultInv => TerminalHasResult
  BY DEF ResultInv
<1> QED BY <1>1, ResultInvariant, PTL

--------------------------------------------------------------------------------
(* One invocation per job *)

\* A job being processed is active in BullMQ and on its latest delivery, so that
\* the entry is not taken for orphaned.
OwnInv ==
  /\ JobExclusive
  /\ \A s \in Slots :
       run[s].job \in Jobs =>
         entry[run[s].job] = "active" /\ run[s].delivery = delivery[run[s].job]

LEMMA CallStays ==
  ASSUME TypeOK, NEW s \in Slots,
         ProcessJob(s) \/ CallFails(s), ~Complete(s), ~Fail(s)
  PROVE  Stays(s) /\ UNCHANGED <<entry, delivery>>
<1>1. ASSUME NEW pc, NEW status, NEW next, CreateStatusLog(s, pc, status, next)
      PROVE  Stays(s) /\ UNCHANGED <<entry, delivery>>
  BY <1>1, ProceedEffect DEF CreateStatusLog, queueVars
<1>2. ASSUME NEW pc, NEW from, NEW to, NEW next, DockerCall(s, pc, from, to, next)
      PROVE  Stays(s) /\ UNCHANGED <<entry, delivery>>
  BY <1>2, ProceedEffect DEF DockerCall, queueVars
<1>3. ASSUME NEW pc, NEW columns, NEW next, UpdateJob(s, pc, columns, next)
      PROVE  Stays(s) /\ UNCHANGED <<entry, delivery>>
  BY <1>3, ProceedEffect DEF UpdateJob, queueVars
<1>4. CASE LogReady(s) \/ LogRunning(s) \/ LogTimeout(s) \/ LogResult(s) \/ LogFailed(s)
  BY <1>1, <1>4 DEF LogReady, LogRunning, LogTimeout, LogResult, LogFailed
<1>5. CASE \/ CreateContainer(s) \/ StartContainer(s) \/ KillContainer(s)
           \/ RemoveKilled(s) \/ RemoveContainer(s)
  BY <1>2, <1>5
     DEF CreateContainer, StartContainer, KillContainer, RemoveKilled, RemoveContainer
<1>6. CASE RecordTimeout(s) \/ RecordResult(s) \/ RecordFailure(s)
  BY <1>3, <1>6 DEF RecordTimeout, RecordResult, RecordFailure
<1>7. CASE FindJob(s) \/ AccessFile(s) \/ FetchLogs(s) \/ TimerFires(s) \/ CallFails(s)
  <2>1. CASE TimerFires(s)
    BY <2>1, TimerEffect DEF TimerFires, queueVars
  <2>2. CASE FindJob(s) \/ AccessFile(s) \/ FetchLogs(s) \/ CallFails(s)
    BY <2>2, GotoEffect, ThrowEffect DEF FindJob, AccessFile, FetchLogs, CallFails, queueVars
  <2> QED BY <1>7, <2>1, <2>2
<1>8. CASE WaitResolves(s)
  <2>1. run[s] \in Run /\ run \in [Slots -> Run]
    BY DEF TypeOK
  <2> QED BY <1>8, <2>1 DEF WaitResolves, Stays, Run, queueVars
<1> QED BY <1>4, <1>5, <1>6, <1>7, <1>8 DEF ProcessJob

LEMMA OwnInvStep ==
  ASSUME "stall" \notin Faults, TypeInv, OwnInv, [Next]_vars
  PROVE  OwnInv'
<1> USE DEF TypeInv, TypeOK, OwnInv, JobExclusive
<1>1. CASE UNCHANGED vars
  BY <1>1 DEF vars, queueVars, workerVars
<1>2. ASSUME NEW j \in Jobs, Api(j) PROVE OwnInv'
  <2>1. CASE \/ RejectUpload(j) \/ StoreFile(j) \/ CommitJob(j) \/ AcceptRequest(j)
             \/ RequestFails(j)
    BY <2>1 DEF RejectUpload, StoreFile, CommitJob, AcceptRequest, RequestFails,
                queueVars, workerVars
  <2>2. CASE PublishJob(j)
    BY <2>2 DEF PublishJob, QueueInv, workerVars
  <2> QED BY <1>2, <2>1, <2>2 DEF Api
<1>3. ASSUME NEW j \in Jobs, MoveStalledJob(j) PROVE OwnInv'
  <2>1. \A s \in Slots : run[s].job # j
    BY <1>3 DEF MoveStalledJob, Orphaned
  <2>2. UNCHANGED <<run, delivery>> /\ \A k \in Jobs : k # j => entry'[k] = entry[k]
    BY <1>3 DEF MoveStalledJob, workerVars
  <2> HIDE DEF TypeOK
  <2> QED BY <2>1, <2>2
<1>4. ASSUME NEW s \in Slots, NEW j \in Jobs, Deliver(s, j) PROVE OwnInv'
  <2>1. run'[s].job = j /\ run'[s].delivery = delivery'[j]
    BY <1>4 DEF Deliver, Idle
  <2>2. \A t \in Slots : t # s => run'[t] = run[t]
    BY <1>4 DEF Deliver
  <2>3. \A t \in Slots : run[t].job # j
    BY <1>4 DEF Deliver
  <2>4. \A k \in Jobs : k # j => entry'[k] = entry[k] /\ delivery'[k] = delivery[k]
    BY <1>4 DEF Deliver
  <2>5. entry'[j] = "active"
    BY <1>4 DEF Deliver
  <2> HIDE DEF TypeInv, TypeOK
  <2> QED BY <2>1, <2>2, <2>3, <2>4, <2>5
<1>5. ASSUME NEW s \in Slots, ProcessJob(s) \/ CallFails(s) PROVE OwnInv'
  <2>1. ASSUME NEW pc, NEW outcome, Settle(s, pc, outcome) PROVE OwnInv'
    <3>1. run'[s].job \notin Jobs /\ \A t \in Slots : t # s => run'[t] = run[t]
      BY <2>1, NoJobAssumption DEF Settle, Idle
    <3>2. \A k \in Jobs : k # run[s].job => entry'[k] = entry[k]
      BY <2>1 DEF Settle
    <3>3. UNCHANGED delivery
      BY <2>1 DEF Settle
    <3> HIDE DEF TypeInv, TypeOK
    <3> QED BY <3>1, <3>2, <3>3
  <2>2. CASE Complete(s) \/ Fail(s)
    BY <2>1, <2>2 DEF Complete, Fail
  <2>3. CASE ~Complete(s) /\ ~Fail(s)
    <3>1. Stays(s) /\ UNCHANGED <<entry, delivery>>
      BY <1>5, <2>3, CallStays
    <3>2. \A t \in Slots : run'[t].job = run[t].job /\ run'[t].delivery = run[t].delivery
      BY <3>1 DEF Stays
    <3> HIDE DEF TypeInv, TypeOK
    <3> QED BY <3>1, <3>2
  <2> QED BY <2>2, <2>3
<1>6. ASSUME NEW c \in Jobs \X Deliveries, ContainerExits(c) PROVE OwnInv'
  BY <1>6 DEF ContainerExits, queueVars
<1>7. CASE Crash
  BY <1>7, NoJobAssumption DEF Crash, queueVars, Idle
<1>8. CASE Shutdown \/ Closed \/ Restart
  BY <1>8 DEF Shutdown, Closed, Restart, queueVars
<1> QED BY <1>1, <1>2, <1>3, <1>4, <1>5, <1>6, <1>7, <1>8 DEF Next

LEMMA OwnInvariant == ASSUME "stall" \notin Faults PROVE Spec => []OwnInv
<1>1. Init => OwnInv
  BY NoJobAssumption DEF Init, OwnInv, JobExclusive, Idle
<1>2. TypeInv /\ OwnInv /\ [Next]_vars => OwnInv'
  BY OwnInvStep
<1> QED BY <1>1, <1>2, TypeInvariant, PTL DEF Spec

\* As long as a live worker renews its locks, no two invocations of processJob
\* work on the same job, however often it crashes and is started again.
THEOREM OneInvocationPerJob ==
  ASSUME "stall" \notin Faults
  PROVE  Spec => []JobExclusive
<1>1. OwnInv => JobExclusive
  BY DEF OwnInv
<1> QED BY <1>1, OwnInvariant, PTL

--------------------------------------------------------------------------------
(* No container is left behind *)

\* The states a container may be in while its invocation awaits pc.  Docker
\* answers every call, so each call of processJob finds the one before done.
Stage(pc) ==
  CASE pc \in {"findJob", "logReady", "accessFile", "logRunning", "create"} -> {"absent"}
    [] pc = "start"                                    -> {"created"}
    [] pc \in {"race", "kill"}                         -> {"running"} \cup Exited
    [] pc \in {"logs", "remove", "removeKilled"}       -> Exited
    [] OTHER                                           -> {"absent", "removed"}

\* An invocation owns the container of its delivery: a delivery is handed out
\* once, and no container of a later one exists.
OwnedInv ==
  /\ \A s \in Slots :
       run[s].pc # "idle" =>
         /\ run[s].job \in Jobs
         /\ run[s].delivery \in Deliveries
         /\ run[s].delivery <= delivery[run[s].job]
         /\ container[Own(s)] \in Stage(run[s].pc)
  /\ \A s \in Slots : run[s].pc = "idle" => run[s].job \notin Jobs
  /\ \A s, t \in Slots : run[s].job \in Jobs /\ Own(s) = Own(t) => s = t
  /\ \A j \in Jobs, d \in Deliveries : d > delivery[j] => container[<<j, d>>] = "absent"
  /\ ContainerOwned

LEMMA StageHolding ==
  ASSUME NEW pc
  PROVE  pc \notin HoldingPcs => \A state \in Stage(pc) : state \notin Undeleted
BY DEF Stage, HoldingPcs, Undeleted, Exited

\* One invocation goes to another pc and changes at most its own container.
LEMMA OwnerMoves ==
  ASSUME TypeOK, OwnedInv, NEW s \in Slots, run[s].pc # "idle", run'[s].pc # "idle",
         Stays(s), UNCHANGED delivery,
         \A c \in Jobs \X Deliveries : c # Own(s) => container'[c] = container[c],
         container'[Own(s)] \in Stage(run'[s].pc)
  PROVE  OwnedInv'
<1> DEFINE o == Own(s)
<1>1. Own(s)' = o /\ o \in Jobs \X Deliveries /\ run[s].job \in Jobs
  BY DEF Stays, Own, OwnedInv
<1>2. \A t \in Slots : t # s => run'[t] = run[t] /\ Own(t)' = Own(t)
  BY DEF Stays, Own
<1>3. \A t \in Slots : t # s => Own(t) # o
  BY <1>1 DEF OwnedInv
<1>4. \A t \in Slots :
        run'[t].pc # "idle" =>
          /\ run'[t].job \in Jobs
          /\ run'[t].delivery \in Deliveries
          /\ run'[t].delivery <= delivery'[run'[t].job]
          /\ container'[Own(t)'] \in Stage(run'[t].pc)
  <2> SUFFICES ASSUME NEW t \in Slots, run'[t].pc # "idle"
               PROVE  /\ run'[t].job \in Jobs
                      /\ run'[t].delivery \in Deliveries
                      /\ run'[t].delivery <= delivery'[run'[t].job]
                      /\ container'[Own(t)'] \in Stage(run'[t].pc)
    OBVIOUS
  <2>1. CASE t = s
    BY <1>1, <2>1 DEF Stays, OwnedInv
  <2>2. CASE t # s
    <3>1. Own(t) \in Jobs \X Deliveries
      BY <1>2, <2>2 DEF OwnedInv, Own
    <3> QED BY <1>2, <1>3, <2>2, <3>1 DEF OwnedInv
  <2> QED BY <2>1, <2>2
<1>5. \A t \in Slots : run'[t].pc = "idle" => run'[t].job \notin Jobs
  BY <1>2 DEF OwnedInv
<1>6. \A t, u \in Slots : run'[t].job \in Jobs /\ Own(t)' = Own(u)' => t = u
  BY <1>1, <1>2 DEF OwnedInv, Stays
<1>7. \A j \in Jobs, d \in Deliveries : d > delivery'[j] => container'[<<j, d>>] = "absent"
  <2> SUFFICES ASSUME NEW j \in Jobs, NEW d \in Deliveries, d > delivery[j]
               PROVE  container'[<<j, d>>] = "absent"
    OBVIOUS
  <2>1. <<j, d>> # o
    <3>1. run[s].delivery <= delivery[run[s].job] /\ run[s].delivery \in Deliveries
      BY DEF OwnedInv
    <3>2. delivery[j] \in Nat /\ d \in Nat
      BY DeliveryNat, StalledAssumption DEF Deliveries
    <3>3. ~(run[s].job = j /\ run[s].delivery = d)
      BY <3>1, <3>2
    <3> QED BY <3>3 DEF Own
  <2> QED BY <2>1 DEF OwnedInv
<1>8. ContainerOwned'
  <2> SUFFICES ASSUME NEW c \in Jobs \X Deliveries, container'[c] \in Undeleted
               PROVE  \E t \in Slots : Own(t)' = c /\ run'[t].pc \in HoldingPcs
    BY DEF ContainerOwned
  <2>1. CASE c = o
    BY <1>1, <2>1, StageHolding
  <2>2. CASE c # o
    <3>1. PICK t \in Slots : Own(t) = c /\ run[t].pc \in HoldingPcs
      BY <2>2 DEF OwnedInv, ContainerOwned
    <3> QED BY <1>2, <2>2, <3>1
  <2> QED BY <2>1, <2>2
<1> QED BY <1>4, <1>5, <1>6, <1>7, <1>8 DEF OwnedInv

\* The calls of processJob, when Docker reports no error: each takes its own
\* container from one stage to the next, or leaves it as it is.
LEMMA CallKeepsOwned ==
  ASSUME "docker" \notin Faults, TypeOK, OwnedInv, NEW s \in Slots,
         ProcessJob(s) \/ CallFails(s), ~Complete(s), ~Fail(s)
  PROVE  OwnedInv'
<1> DEFINE o == Own(s)
<1>1. run[s].pc # "idle" => o \in Jobs \X Deliveries /\ container[o] \in Stage(run[s].pc)
  BY DEF OwnedInv, Own
<1>2. Stays(s) /\ UNCHANGED <<entry, delivery>>
  BY CallStays
<1>3. ASSUME run[s].pc # "idle", UNCHANGED container, run'[s].pc # "idle",
             container[o] \in Stage(run'[s].pc)
      PROVE  OwnedInv'
  BY <1>2, <1>3, OwnerMoves
<1>4. ASSUME NEW pc, NEW from, NEW to, NEW next, DockerCall(s, pc, from, to, next),
             pc \in {"create", "start", "remove", "kill", "removeKilled"}
      PROVE  /\ run[s].pc = pc /\ run'[s].pc = next
             /\ \A c \in Jobs \X Deliveries : c # o => container'[c] = container[c]
             /\ container'[o] = IF container[o] \in from THEN to ELSE container[o]
  <2>1. run[s].pc = pc /\ Service[pc] = "docker"
    BY <1>4 DEF DockerCall, Service
  <2>2. Goto(s, next)
    BY <1>4, <2>1 DEF DockerCall, Proceed
  <2>3. container' = [container EXCEPT ![o] = IF @ \in from THEN to ELSE @]
    BY <1>4 DEF DockerCall
  <2> HIDE DEF o
  <2>4. o \in Jobs \X Deliveries
    BY <1>1, <1>4, <2>1
  <2> QED BY <2>1, <2>2, <2>3, <2>4, GotoEffect DEF TypeOK
<1>5. CASE CreateContainer(s) \/ StartContainer(s)
  <2>1. /\ run[s].pc # "idle" /\ run'[s].pc # "idle"
        /\ container'[o] \in Stage(run'[s].pc)
        /\ \A c \in Jobs \X Deliveries : c # o => container'[c] = container[c]
    <3> HIDE DEF o
    <3>1. CASE CreateContainer(s)
      BY <1>1, <1>4, <3>1 DEF CreateContainer, Stage
    <3>2. CASE StartContainer(s)
      BY <1>1, <1>4, <3>2 DEF StartContainer, Stage
    <3> QED BY <1>5, <3>1, <3>2
  <2> QED BY <1>2, <2>1, OwnerMoves
<1>6. CASE KillContainer(s) \/ RemoveKilled(s) \/ RemoveContainer(s)
  <2>1. /\ run[s].pc # "idle" /\ run'[s].pc # "idle"
        /\ container'[o] \in Stage(run'[s].pc)
        /\ \A c \in Jobs \X Deliveries : c # o => container'[c] = container[c]
    <3> HIDE DEF o
    <3>1. CASE KillContainer(s)
      BY <1>1, <1>4, <3>1 DEF KillContainer, Stage, Exited
    <3>2. CASE RemoveKilled(s)
      BY <1>1, <1>4, <3>2 DEF RemoveKilled, Stage
    <3>3. CASE RemoveContainer(s)
      BY <1>1, <1>4, <3>3 DEF RemoveContainer, Stage
    <3> QED BY <1>6, <3>1, <3>2, <3>3
  <2> QED BY <1>2, <2>1, OwnerMoves
<1>7. CASE WaitResolves(s)
  <2>1. run[s].pc = "race" /\ container[o] \in Exited /\ UNCHANGED container
    BY <1>7 DEF WaitResolves
  <2>2. run'[s].pc = "logs"
    <3>1. run[s] \in Run /\ run \in [Slots -> Run]
      BY DEF TypeOK
    <3> QED BY <1>7, <3>1 DEF WaitResolves, Run
  <2> QED BY <1>3, <2>1, <2>2 DEF Stage
<1>8. CASE TimerFires(s) \/ FetchLogs(s) \/ FindJob(s) \/ AccessFile(s)
  <2>1. /\ UNCHANGED container
        /\ \/ run[s].pc = "race" /\ run'[s].pc = "kill"
           \/ run[s].pc = "logs" /\ run'[s].pc = "remove"
           \/ run[s].pc = "findJob" /\ run'[s].pc \in {"logReady", "recordFailure"}
           \/ run[s].pc = "accessFile" /\ run'[s].pc \in {"logRunning", "recordFailure"}
    BY <1>8, GotoEffect, ThrowEffect, TimerEffect
       DEF TimerFires, FetchLogs, FindJob, AccessFile, OnError
  <2> QED BY <1>1, <1>3, <2>1 DEF Stage
<1>9. CASE \/ LogReady(s) \/ LogRunning(s) \/ LogResult(s) \/ LogTimeout(s) \/ LogFailed(s)
           \/ RecordResult(s) \/ RecordTimeout(s) \/ RecordFailure(s) \/ CallFails(s)
  <2>1. ASSUME NEW pc, NEW status, NEW next, CreateStatusLog(s, pc, status, next)
        PROVE  run[s].pc = pc /\ UNCHANGED container /\ run'[s].pc \in {next, OnError(pc)}
    BY <2>1, ProceedEffect DEF CreateStatusLog
  <2>2. ASSUME NEW pc, NEW columns, NEW next, UpdateJob(s, pc, columns, next)
        PROVE  run[s].pc = pc /\ UNCHANGED container /\ run'[s].pc \in {next, OnError(pc)}
    BY <2>2, ProceedEffect DEF UpdateJob
  <2>3. CASE LogReady(s) \/ LogRunning(s)
    <3>1. /\ UNCHANGED container
          /\ \/ run[s].pc = "logReady" /\ run'[s].pc \in {"accessFile", "recordFailure"}
             \/ run[s].pc = "logRunning" /\ run'[s].pc \in {"create", "recordFailure"}
      BY <2>1, <2>3 DEF LogReady, LogRunning, OnError
    <3> QED BY <1>1, <1>3, <3>1 DEF Stage
  <2>4. CASE LogResult(s) \/ LogTimeout(s) \/ LogFailed(s)
    <3>1. /\ UNCHANGED container
          /\ run[s].pc \in {"logResult", "logTimeout", "logFailed"}
          /\ run'[s].pc \in {"complete", "fail", "recordFailure"}
      BY <2>1, <2>4 DEF LogResult, LogTimeout, LogFailed, OnError
    <3> QED BY <1>1, <1>3, <3>1 DEF Stage
  <2>5. CASE RecordResult(s) \/ RecordTimeout(s) \/ RecordFailure(s)
    <3>1. /\ UNCHANGED container
          /\ run[s].pc \in {"recordResult", "recordTimeout", "recordFailure"}
          /\ run'[s].pc \in {"logResult", "logTimeout", "logFailed", "fail", "recordFailure"}
      BY <2>2, <2>5 DEF RecordResult, RecordTimeout, RecordFailure, OnError
    <3> QED BY <1>1, <1>3, <3>1 DEF Stage
  <2>6. CASE CallFails(s)
    <3>1. /\ UNCHANGED container /\ Service[run[s].pc] \in {"db", "fs"}
          /\ run[s].pc \in DOMAIN Service /\ run'[s].pc = OnError(run[s].pc)
      BY <2>6, ThrowEffect, FaultsAssumption DEF CallFails, Service
    <3>2. /\ UNCHANGED container /\ run'[s].pc \in {"recordFailure", "fail"}
          /\ run[s].pc \in {"findJob", "logReady", "accessFile", "logRunning", "recordResult",
                            "logResult", "recordTimeout", "logTimeout", "recordFailure", "logFailed"}
      BY <3>1 DEF Service, OnError
    <3> QED BY <1>1, <1>3, <3>2 DEF Stage
  <2> QED BY <1>9, <2>3, <2>4, <2>5, <2>6
<1> QED BY <1>5, <1>6, <1>7, <1>8, <1>9 DEF ProcessJob

LEMMA OwnedInvStep ==
  ASSUME "crash" \notin Faults, "docker" \notin Faults, TypeInv, OwnedInv, [Next]_vars
  PROVE  OwnedInv'
<1> USE DEF TypeInv
<1>1. ASSUME UNCHANGED <<run, delivery, container>> PROVE OwnedInv'
  BY <1>1 DEF OwnedInv, Own, ContainerOwned
<1>2. CASE UNCHANGED vars
  BY <1>1, <1>2 DEF vars, queueVars, workerVars
<1>3. ASSUME NEW j \in Jobs, Api(j) \/ MoveStalledJob(j) PROVE OwnedInv'
  BY <1>1, <1>3 DEF Api, RejectUpload, StoreFile, CommitJob, PublishJob, AcceptRequest,
                    RequestFails, MoveStalledJob, queueVars, workerVars
<1>4. ASSUME NEW s \in Slots, NEW j \in Jobs, Deliver(s, j) PROVE OwnedInv'
  <2> DEFINE d == delivery[j] + 1
  <2>1. d \in Deliveries /\ delivery[j] \in Nat
    <3>1. delivery[j] \in Nat /\ delivery[j] <= MaxStalledCount
      BY <1>4, DeliveryNat DEF Deliver, QueueInv
    <3> QED BY <3>1, StalledAssumption DEF Deliveries
  <2>2. /\ run'[s].job = j /\ run'[s].delivery = d /\ run'[s].pc = "findJob"
        /\ \A t \in Slots : t # s => run'[t] = run[t]
    BY <1>4 DEF Deliver, Idle, TypeOK
  <2>3. /\ delivery'[j] = d /\ UNCHANGED container
        /\ \A k \in Jobs : k # j => delivery'[k] = delivery[k]
    BY <1>4 DEF Deliver, TypeOK
  <2>4. container[<<j, d>>] = "absent"
    BY <2>1 DEF OwnedInv
  <2>5. run[s].pc = "idle" /\ run[s].job \notin Jobs
    BY <1>4, NoJobAssumption DEF Deliver, Idle
  <2>6. \A t \in Slots : t # s => Own(t)' = Own(t) /\ Own(t) # <<j, d>>
    <3> SUFFICES ASSUME NEW t \in Slots, t # s PROVE Own(t)' = Own(t) /\ Own(t) # <<j, d>>
      OBVIOUS
    <3>1. Own(t)' = Own(t)
      BY <2>2 DEF Own
    <3>2. run[t].job = j => run[t].delivery \in Deliveries /\ run[t].delivery <= delivery[j]
      BY DEF OwnedInv
    <3>3. ~(run[t].job = j /\ run[t].delivery = d)
      BY <2>1, <3>2, StalledAssumption DEF Deliveries
    <3> QED BY <3>1, <3>3 DEF Own
  <2>7. Own(s)' = <<j, d>>
    BY <2>2 DEF Own
  <2>8. \A k \in Jobs : delivery'[k] \in Nat /\ delivery[k] \in Nat /\ delivery[k] <= delivery'[k]
    BY <2>1, <2>3, DeliveryNat
  <2>9. \A t \in Slots :
          run'[t].pc # "idle" =>
            /\ run'[t].job \in Jobs
            /\ run'[t].delivery \in Deliveries
            /\ run'[t].delivery <= delivery'[run'[t].job]
            /\ container'[Own(t)'] \in Stage(run'[t].pc)
    <3> SUFFICES ASSUME NEW t \in Slots, run'[t].pc # "idle"
                 PROVE  /\ run'[t].job \in Jobs
                        /\ run'[t].delivery \in Deliveries
                        /\ run'[t].delivery <= delivery'[run'[t].job]
                        /\ container'[Own(t)'] \in Stage(run'[t].pc)
      OBVIOUS
    <3> HIDE DEF d
    <3>1. CASE t = s
      <4>1. container'[Own(s)'] \in Stage("findJob")
        BY <2>3, <2>4, <2>7 DEF Stage
      <4>2. d <= d
        BY <2>1, StalledAssumption DEF Deliveries
      <4> QED BY <2>1, <2>2, <2>3, <3>1, <4>1, <4>2
    <3>2. CASE t # s
      <4>1. /\ run[t].job \in Jobs /\ run[t].delivery \in Deliveries
            /\ run[t].delivery <= delivery[run[t].job]
            /\ container[Own(t)] \in Stage(run[t].pc)
        BY <2>2, <3>2 DEF OwnedInv
      <4>2. run[t].delivery <= delivery'[run[t].job]
        BY <2>8, <4>1, StalledAssumption DEF Deliveries
      <4> QED BY <2>2, <2>3, <2>6, <3>2, <4>1, <4>2
    <3> QED BY <3>1, <3>2
  <2>10. \A t \in Slots : run'[t].pc = "idle" => run'[t].job \notin Jobs
    BY <2>2 DEF OwnedInv
  <2>11. \A t, u \in Slots : run'[t].job \in Jobs /\ Own(t)' = Own(u)' => t = u
    BY <2>2, <2>6, <2>7 DEF OwnedInv
  <2>12. \A k \in Jobs, e \in Deliveries : e > delivery'[k] => container'[<<k, e>>] = "absent"
    BY <2>3, <2>8, StalledAssumption DEF OwnedInv, Deliveries
  <2>13. ContainerOwned'
    <3> SUFFICES ASSUME NEW c \in Jobs \X Deliveries, container[c] \in Undeleted
                 PROVE  \E t \in Slots : Own(t)' = c /\ run'[t].pc \in HoldingPcs
      BY <2>3 DEF ContainerOwned
    <3>1. PICK t \in Slots : Own(t) = c /\ run[t].pc \in HoldingPcs
      BY DEF OwnedInv, ContainerOwned
    <3>2. t # s
      BY <2>5, <3>1 DEF HoldingPcs
    <3> QED BY <2>2, <2>6, <3>1, <3>2
  <2> QED BY <2>9, <2>10, <2>11, <2>12, <2>13 DEF OwnedInv
<1>5. ASSUME NEW s \in Slots, NEW pc \in {"complete", "fail"}, NEW outcome, Settle(s, pc, outcome)
      PROVE  OwnedInv'
  <2>1. /\ run[s].pc \in {"complete", "fail"} /\ run'[s].pc = "idle" /\ run'[s].job \notin Jobs
        /\ \A t \in Slots : t # s => run'[t] = run[t]
        /\ UNCHANGED <<delivery, container>>
    BY <1>5, NoJobAssumption DEF Settle, Idle, TypeOK
  <2>2. \A t \in Slots : t # s => Own(t)' = Own(t)
    BY <2>1 DEF Own
  <2>3. ContainerOwned'
    BY <2>1, <2>2 DEF OwnedInv, ContainerOwned, HoldingPcs
  <2>4. \A t, u \in Slots : run'[t].job \in Jobs /\ Own(t)' = Own(u)' => t = u
    <3> SUFFICES ASSUME NEW t \in Slots, NEW u \in Slots, run'[t].job \in Jobs, Own(t)' = Own(u)'
                 PROVE  t = u
      OBVIOUS
    <3>1. run'[t].job = run'[u].job
      BY DEF Own
    <3> QED BY <2>1, <2>2, <3>1 DEF OwnedInv
  <2> QED BY <2>1, <2>2, <2>3, <2>4 DEF OwnedInv
<1>6. ASSUME NEW s \in Slots, ProcessJob(s) \/ CallFails(s) PROVE OwnedInv'
  BY <1>5, <1>6, CallKeepsOwned DEF Complete, Fail
<1>7. ASSUME NEW c \in Jobs \X Deliveries, ContainerExits(c) PROVE OwnedInv'
  <2>1. /\ container[c] = "running" /\ container'[c] \in Exited
        /\ \A e \in Jobs \X Deliveries : e # c => container'[e] = container[e]
        /\ UNCHANGED <<run, delivery>>
    BY <1>7 DEF ContainerExits, queueVars, TypeOK
  <2>2. \A s \in Slots : Own(s)' = Own(s)
    BY <2>1 DEF Own
  <2>3. \A s \in Slots : run[s].pc # "idle" => container'[Own(s)] \in Stage(run[s].pc)
    <3> SUFFICES ASSUME NEW s \in Slots, run[s].pc # "idle"
                 PROVE  container'[Own(s)] \in Stage(run[s].pc)
      OBVIOUS
    <3>1. Own(s) \in Jobs \X Deliveries /\ container[Own(s)] \in Stage(run[s].pc)
      BY DEF OwnedInv, Own
    <3>2. CASE Own(s) = c
      BY <2>1, <3>1, <3>2 DEF Stage, Exited
    <3>3. CASE Own(s) # c
      BY <2>1, <3>1, <3>3
    <3> QED BY <3>2, <3>3
  <2>4. ContainerOwned'
    BY <2>1, <2>2 DEF OwnedInv, ContainerOwned, Undeleted
  <2>5. \A j \in Jobs, d \in Deliveries : d > delivery[j] => container'[<<j, d>>] = "absent"
    BY <2>1 DEF OwnedInv
  <2> QED BY <2>1, <2>2, <2>3, <2>4, <2>5 DEF OwnedInv
<1>8. CASE Shutdown \/ Closed \/ Restart
  BY <1>1, <1>8 DEF Shutdown, Closed, Restart, queueVars
<1>9. ~Crash
  BY DEF Crash
<1> QED BY <1>2, <1>3, <1>4, <1>6, <1>7, <1>8, <1>9 DEF Next

\* While the worker lives and Docker answers, no database error, timeout or lost
\* lock leaves a container behind: each is deleted by the invocation it belongs to.
THEOREM NoContainerLeft ==
  ASSUME "crash" \notin Faults, "docker" \notin Faults
  PROVE  Spec => []ContainerOwned
<1>1. Init => OwnedInv
  BY NoJobAssumption DEF Init, OwnedInv, Idle, ContainerOwned, Undeleted, Exited
<1>2. TypeInv /\ OwnedInv /\ [Next]_vars => OwnedInv'
  BY OwnedInvStep
<1>3. OwnedInv => ContainerOwned
  BY DEF OwnedInv
<1> QED BY <1>1, <1>2, <1>3, TypeInvariant, PTL DEF Spec

================================================================================
