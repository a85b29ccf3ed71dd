------------------------ MODULE ExecutionLifecycleProofs ------------------------
(***************************************************************************)
(* What processJob writes, as long as MySQL answers: the row and the status *)
(* agree under redelivery, and without redelivery the pipeline implements   *)
(* JobLifecycle.  And what the "run code" menu shows, which only reads it:  *)
(* for every number of jobs, slots and polls.                               *)
(***************************************************************************)
EXTENDS RunCode, ExecutionProofs

--------------------------------------------------------------------------------
(* processJob without database errors *)

\* Own(s) gets one more status, or other columns; nothing else is written.
Writes(s, status) ==
  /\ UNCHANGED result
  /\ \E at \in Timestamps(run[s].job) :
       log' = [log EXCEPT ![run[s].job] = Append(@, [status |-> status, at |-> at])]
Updates(s, columns) ==
  /\ UNCHANGED log
  /\ result' = [result EXCEPT ![run[s].job] = columns]
Moves(s, from, to) == run[s].pc = from /\ run'[s].pc \in to

Caught == {"timeout", "fault"}

\* The steps that write nothing; an error of Docker or of the file system leads
\* to the outer catch, but for the calls of the inner one, and each catch is
\* entered with an error, which the inner one keeps.
WaitsOnly(s) ==
  /\ UNCHANGED <<result, log>>
  /\ run'[s].pc = "kill" => run'[s].thrown \in Caught
  /\ run'[s].pc = "recordFailure" => run'[s].thrown = "fault"
  /\ run[s].pc \in {"kill", "removeKilled"} => run'[s].thrown = run[s].thrown
  /\ \/ Moves(s, "findJob", {"logReady"})
     \/ Moves(s, "accessFile", {"logRunning", "recordFailure"})
     \/ Moves(s, "create", {"start", "recordFailure"})
     \/ Moves(s, "start", {"race", "recordFailure"})
     \/ Moves(s, "race", {"kill", "logs"})
     \/ Moves(s, "kill", {"removeKilled"})
     \/ Moves(s, "removeKilled", {"recordTimeout"})
     \/ Moves(s, "logs", {"remove", "recordFailure"})
     \/ Moves(s, "remove", {"recordResult", "recordFailure"})

Columns(s) ==
  LET j == run[s].job IN
    IF run[s].exit = "zero" THEN [result[j] EXCEPT !.output = TRUE, !.exitCode = "zero"]
                            ELSE [result[j] EXCEPT !.error = "output", !.exitCode = "nonzero"]
Outcome(s) ==
  IF run[s].exit = "zero" THEN "FINISHED_WITH_SUCCESS" ELSE "FINISHED_WITH_ERROR"

\* The steps that write a status or the columns.
WritesOnce(s) ==
  /\ run'[s].exit = run[s].exit /\ run'[s].thrown = run[s].thrown
  /\ \/ Moves(s, "logReady", {"accessFile"})        /\ Writes(s, "READY")
     \/ Moves(s, "logRunning", {"create"})          /\ Writes(s, "RUNNING")
     \/ Moves(s, "recordResult", {"logResult"})     /\ Updates(s, Columns(s))
     \/ Moves(s, "logResult", {"complete"})         /\ Writes(s, Outcome(s))
     \/ Moves(s, "recordTimeout", {"logTimeout"})   /\ Updates(s, WithError(run[s].job, "timeout"))
     \/ Moves(s, "logTimeout", {"recordFailure"})   /\ Writes(s, "FINISHED_WITH_ERROR")
     \/ /\ Moves(s, "recordFailure", {"logFailed"})
        /\ Updates(s, WithError(run[s].job, run[s].thrown))
     \/ Moves(s, "logFailed", {"fail"})             /\ Writes(s, "FAILED")

\* One call of processJob.
LEMMA CallEffect ==
  ASSUME "db" \notin Faults, TypeInv, CommitInv, ResultInv, NEW s \in Slots,
         ProcessJob(s) \/ CallFails(s), ~Complete(s), ~Fail(s)
  PROVE  /\ Stays(s)
         /\ UNCHANGED <<request, rows, entry, delivery>>
         /\ WaitsOnly(s) \/ WritesOnce(s)
<1> USE DEF TypeInv
<1>1. Stays(s) /\ UNCHANGED <<request, rows, entry, delivery>>
  BY CallStays, CallFrame
<1>2. run[s].pc # "idle" => run[s].job \in Jobs /\ run[s].job \in rows
  BY DEF ResultInv, CommitInv, Committed
<1>3. run \in [Slots -> Run] /\ run[s] \in Run
  BY DEF TypeOK
<1>4. ASSUME NEW pc, Goto(s, pc)
      PROVE  run'[s].pc = pc /\ run'[s].exit = run[s].exit /\ run'[s].thrown = run[s].thrown
  <2>1. run' = [run EXCEPT ![s] = [run[s] EXCEPT !.pc = pc]]
    BY <1>4 DEF Goto
  <2> QED BY <1>3, <2>1 DEF Run
<1>5. ASSUME NEW pc, NEW status, NEW next, CreateStatusLog(s, pc, status, next),
             pc \in {"logReady", "logRunning", "logResult", "logTimeout", "logFailed"}
      PROVE  /\ Moves(s, pc, {next}) /\ Writes(s, status)
             /\ run'[s].exit = run[s].exit /\ run'[s].thrown = run[s].thrown
  <2>1. run[s].pc = pc /\ Goto(s, next)
    BY <1>5 DEF CreateStatusLog, Proceed, Service
  <2>2. Writes(s, status)
    BY <1>2, <1>5, <2>1 DEF CreateStatusLog, Writes
  <2> QED BY <1>4, <2>1, <2>2 DEF Moves
<1>6. ASSUME NEW pc, NEW columns, NEW next, UpdateJob(s, pc, columns, next),
             pc \in {"recordResult", "recordTimeout", "recordFailure"}
      PROVE  /\ Moves(s, pc, {next}) /\ Updates(s, columns)
             /\ run'[s].exit = run[s].exit /\ run'[s].thrown = run[s].thrown
  <2>1. run[s].pc = pc /\ Goto(s, next)
    BY <1>6 DEF UpdateJob, Proceed, Service
  <2>2. Updates(s, columns)
    BY <1>2, <1>6, <2>1 DEF UpdateJob, Updates
  <2> QED BY <1>4, <2>1, <2>2 DEF Moves
<1>7. ASSUME NEW pc, NEW from, NEW to, NEW next, DockerCall(s, pc, from, to, next)
      PROVE  /\ run[s].pc = pc /\ UNCHANGED <<result, log>>
             /\ \/ run'[s].pc = next /\ run'[s].thrown = run[s].thrown
                \/ /\ run'[s].pc = OnError(pc)
                   /\ run'[s].thrown = IF pc \in {"kill", "removeKilled"} THEN run[s].thrown
                                                                         ELSE "fault"
  BY <1>4, <1>7, ThrowEffect DEF DockerCall, Proceed, dbVars
<1>8. CASE LogReady(s) \/ LogRunning(s) \/ LogTimeout(s) \/ LogFailed(s)
  BY <1>1, <1>5, <1>8 DEF LogReady, LogRunning, LogTimeout, LogFailed, WritesOnce
<1>9. CASE LogResult(s)
  <2>1. CreateStatusLog(s, "logResult", Outcome(s), "complete")
    BY <1>9 DEF LogResult, Outcome
  <2>2. /\ Moves(s, "logResult", {"complete"}) /\ Writes(s, Outcome(s))
        /\ run'[s].exit = run[s].exit /\ run'[s].thrown = run[s].thrown
    BY <1>5, <2>1
  <2> QED BY <1>1, <2>2 DEF WritesOnce
<1>10. CASE RecordResult(s)
  <2>1. UpdateJob(s, "recordResult", Columns(s), "logResult")
    BY <1>10 DEF RecordResult, Columns
  <2>2. /\ Moves(s, "recordResult", {"logResult"}) /\ Updates(s, Columns(s))
        /\ run'[s].exit = run[s].exit /\ run'[s].thrown = run[s].thrown
    BY <1>6, <2>1
  <2> QED BY <1>1, <2>2 DEF WritesOnce
<1>11. CASE RecordTimeout(s) \/ RecordFailure(s)
  BY <1>1, <1>6, <1>11 DEF RecordTimeout, RecordFailure, WritesOnce
<1>12. CASE CreateContainer(s) \/ StartContainer(s) \/ KillContainer(s) \/ RemoveKilled(s)
            \/ RemoveContainer(s)
  BY <1>1, <1>7, <1>12 DEF CreateContainer, StartContainer, KillContainer, RemoveKilled,
                           RemoveContainer, WaitsOnly, OnError, Moves, Caught
<1>13. CASE FindJob(s) \/ AccessFile(s) \/ FetchLogs(s) \/ TimerFires(s)
  <2>1. CASE FindJob(s) \/ FetchLogs(s)
    BY <1>1, <1>2, <1>4, <2>1 DEF FindJob, FetchLogs, WaitsOnly, Moves, dbVars
  <2>2. CASE AccessFile(s)
    BY <1>1, <1>4, <2>2, ThrowEffect DEF AccessFile, WaitsOnly, Moves, OnError, Caught, dbVars
  <2>3. CASE TimerFires(s)
    BY <1>1, <2>3, TimerEffect DEF TimerFires, WaitsOnly, Moves, Caught, dbVars
  <2> QED BY <1>13, <2>1, <2>2, <2>3
<1>14. CASE WaitResolves(s)
  <2>1. run'[s].pc = "logs"
    BY <1>3, <1>14 DEF WaitResolves, Run
  <2> QED BY <1>1, <1>14, <2>1 DEF WaitResolves, WaitsOnly, Moves, dbVars
<1>15. CASE CallFails(s)
  <2>1. /\ run'[s].pc = OnError(run[s].pc)
        /\ run'[s].thrown = IF run[s].pc \in {"kill", "removeKilled"} THEN run[s].thrown
                                                                      ELSE "fault"
        /\ UNCHANGED <<result, log>>
        /\ run[s].pc \in DOMAIN Service /\ Service[run[s].pc] # "db"
    BY <1>15, ThrowEffect DEF CallFails, dbVars
  <2>2. run[s].pc \in {"accessFile", "create", "start", "race", "logs", "remove", "kill",
                       "removeKilled"}
    BY <2>1 DEF Service
  <2> QED BY <1>1, <2>1, <2>2 DEF WaitsOnly, OnError, Moves, Caught
<1> QED BY <1>8, <1>9, <1>10, <1>11, <1>12, <1>13, <1>14, <1>15 DEF ProcessJob

\* What appending leaves in place.
LEMMA Appended ==
  ASSUME NEW entries \in Seq(LogEntry), NEW e
  PROVE  /\ DOMAIN Append(entries, e) = DOMAIN entries \cup {Len(entries) + 1}
         /\ \A i \in DOMAIN entries : Append(entries, e)[i] = entries[i]
         /\ Append(entries, e)[Len(entries) + 1] = e
         /\ Append(entries, e) # <<>> /\ Len(Append(entries, e)) = Len(entries) + 1
         /\ DOMAIN entries = 1 .. Len(entries) /\ Len(entries) \in Nat
OBVIOUS

\* A status is appended to the log of one job, which then is its last.
LEMMA WriteEffect ==
  ASSUME TypeOK, NEW s \in Slots, NEW j \in Jobs, run[s].job = j, NEW status, Writes(s, status)
  PROVE  /\ LastStatus(j)' = status
         /\ \E at \in Timestamps(j) : log'[j] = Append(log[j], [status |-> status, at |-> at])
         /\ \A k \in Jobs : k # j => log'[k] = log[k] /\ LastStatus(k)' = LastStatus(k)
<1>1. log[j] \in Seq(LogEntry) /\ log \in [Jobs -> Seq(LogEntry)]
  BY DEF TypeOK
<1>2. PICK at \in Timestamps(j) :
        log' = [log EXCEPT ![j] = Append(@, [status |-> status, at |-> at])]
  BY DEF Writes
<1> DEFINE e == [status |-> status, at |-> at]
<1>3. log'[j] = Append(log[j], e) /\ \A k \in Jobs : k # j => log'[k] = log[k]
  BY <1>1, <1>2
<1>4. e.status = status
  OBVIOUS
<1> HIDE DEF e
<1>5. /\ Append(log[j], e) # <<>> /\ Len(Append(log[j], e)) = Len(log[j]) + 1
      /\ Append(log[j], e)[Len(log[j]) + 1] = e
  BY <1>1, Appended
<1>6. LastStatus(j)' = status
  BY <1>3, <1>4, <1>5 DEF LastStatus
<1>7. \A k \in Jobs : k # j => LastStatus(k)' = LastStatus(k)
  BY <1>3 DEF LastStatus
<1>8. \E t \in Timestamps(j) : log'[j] = Append(log[j], [status |-> status, at |-> t])
  BY <1>2, <1>3, Zenon DEF e
<1> QED BY <1>3, <1>6, <1>7, <1>8

LEMMA UpdateEffect ==
  ASSUME TypeOK, NEW s \in Slots, NEW j \in Jobs, run[s].job = j, NEW columns, Updates(s, columns)
  PROVE  /\ result'[j] = columns
         /\ \A k \in Jobs : k # j => result'[k] = result[k]
         /\ \A k \in Jobs : LastStatus(k)' = LastStatus(k)
BY DEF TypeOK, Updates, LastStatus

LEMMA LastStatusStays == ASSUME UNCHANGED log, NEW j PROVE LastStatus(j)' = LastStatus(j)
BY DEF LastStatus

--------------------------------------------------------------------------------
(* The row and the status agree *)

\* The statuses of a job are in the order they were written, so the last is the
\* one the API reports.
Increasing(j) == \A i, n \in DOMAIN log[j] : i < n => log[j][i].at < log[j][n].at

InProgress ==
  {"accessFile", "logRunning", "create", "start", "race", "logs", "remove", "recordResult",
   "kill", "removeKilled", "recordTimeout", "logResult", "logTimeout"}

\* What an invocation that awaits pc finds in the database: an earlier delivery
\* may have ended the job, but this one has put READY after that.
VerdictAt(r, last, code) ==
  /\ r.pc \in InProgress => last \notin Terminal
  /\ r.pc \in {"recordFailure", "logFailed"} => last # "FINISHED_WITH_SUCCESS"
  /\ r.pc = "logResult" => (r.exit = "zero" <=> code = "zero")
  /\ r.pc \in {"logTimeout", "logFailed"} => code # "zero"

Fits(last, code) == last \in Terminal => (last = "FINISHED_WITH_SUCCESS" <=> code = "zero")

VerdictInv ==
  /\ \A s \in Slots :
       run[s].pc # "idle" => VerdictAt(run[s], LastStatus(run[s].job), result[run[s].job].exitCode)
  /\ \A j \in Jobs : Fits(LastStatus(j), result[j].exitCode) /\ Increasing(j)

\* A step of an invocation that works on its job alone.
LEMMA OwnJobMoves ==
  ASSUME JobExclusive, VerdictInv, NEW s \in Slots, NEW j \in Jobs, run[s].job = j, Stays(s),
         \A t \in Slots : run[t].pc # "idle" => run[t].job \in Jobs,
         \A k \in Jobs : k # j =>
           log'[k] = log[k] /\ LastStatus(k)' = LastStatus(k) /\ result'[k] = result[k],
         VerdictAt(run[s], LastStatus(j), result[j].exitCode)',
         Fits(LastStatus(j), result[j].exitCode)',
         Increasing(j)'
  PROVE  VerdictInv'
<1>1. ASSUME NEW t \in Slots, run'[t].pc # "idle"
      PROVE  VerdictAt(run[t], LastStatus(run[t].job), result[run[t].job].exitCode)'
  <2>1. CASE t = s
    <3>1. run'[t].job = j
      BY <2>1 DEF Stays
    <3>2. LastStatus(run[t].job)' = LastStatus(j)'
      BY <3>1 DEF LastStatus
    <3> QED BY <2>1, <3>1, <3>2
  <2>2. CASE t # s
    <3>1. PICK k \in Jobs : run[t].job = k
      BY <1>1, <2>2 DEF Stays
    <3>2. run'[t] = run[t] /\ k # j
      BY <2>2, <3>1 DEF Stays, JobExclusive
    <3>3. LastStatus(run[t].job)' = LastStatus(k)' /\ LastStatus(run[t].job) = LastStatus(k)
      BY <3>1, <3>2 DEF LastStatus
    <3>4. VerdictAt(run[t], LastStatus(k), result[k].exitCode)
      BY <1>1, <3>1, <3>2, <3>3 DEF VerdictInv
    <3>5. LastStatus(k)' = LastStatus(k) /\ result'[k] = result[k]
      BY <3>2
    <3> QED BY <3>1, <3>2, <3>3, <3>4, <3>5 DEF VerdictAt
  <2> QED BY <2>1, <2>2
<1>2. ASSUME NEW k \in Jobs PROVE Fits(LastStatus(k), result[k].exitCode)' /\ Increasing(k)'
  <2>1. CASE k = j
    BY <2>1
  <2>2. CASE k # j
    BY <2>2 DEF VerdictInv, Increasing, Fits
  <2> QED BY <2>1, <2>2
<1> QED BY <1>1, <1>2 DEF VerdictInv

\* A later status comes after all that were written before.
LEMMA IncreasingAppend ==
  ASSUME TypeOK, NEW j \in Jobs, NEW status, Increasing(j),
         log'[j] = Append(log[j], [status |-> status, at |-> LastAt(j) + 1])
  PROVE  Increasing(j)'
<1> DEFINE e == [status |-> status, at |-> LastAt(j) + 1]
           l == log[j]
<1>1. l \in Seq(LogEntry)
  BY DEF TypeOK
<1>2. \A i \in DOMAIN l : l[i].at \in Nat /\ (i = Len(l) \/ i < Len(l)) /\ Len(l) \in DOMAIN l
  <2> SUFFICES ASSUME NEW i \in DOMAIN l
               PROVE  l[i].at \in Nat /\ (i = Len(l) \/ i < Len(l)) /\ Len(l) \in DOMAIN l
    OBVIOUS
  <2> HIDE DEF l
  <2>1. l[i] \in LogEntry /\ (i = Len(l) \/ i < Len(l)) /\ Len(l) \in DOMAIN l
    BY <1>1
  <2> QED BY <2>1 DEF LogEntry
<1>3. \A i \in DOMAIN l : l[i].at < e.at
  <2> SUFFICES ASSUME NEW i \in DOMAIN l PROVE l[i].at < e.at
    OBVIOUS
  <2>1. l # <<>> /\ LastAt(j) = l[Len(l)].at
    BY <1>1 DEF LastAt
  <2>2. l[i].at = l[Len(l)].at \/ l[i].at < l[Len(l)].at
    BY <1>2 DEF Increasing
  <2> QED BY <1>2, <2>1, <2>2
<1>4. log'[j] = Append(l, e)
  OBVIOUS
<1> HIDE DEF e, l
<1>5. /\ DOMAIN log'[j] = DOMAIN l \cup {Len(l) + 1} /\ log'[j][Len(l) + 1] = e
      /\ \A i \in DOMAIN l : log'[j][i] = l[i]
      /\ DOMAIN l = 1 .. Len(l) /\ Len(l) \in Nat
  BY <1>1, <1>4, Appended
<1>6. \A i, n \in DOMAIN l : i < n => l[i].at < l[n].at
  BY DEF Increasing, l
<1> QED BY <1>3, <1>5, <1>6 DEF Increasing

\* What the API reports is the last status.
LEMMA ReportedIsLast ==
  ASSUME TypeOK, NEW j \in Jobs, Increasing(j)
  PROVE  Reported(j) \subseteq {LastStatus(j)}
<1>1. log[j] \in Seq(LogEntry)
  BY DEF TypeOK
<1>2. \A i \in DOMAIN log[j] : log[j][i].at \in Nat
  <2> SUFFICES ASSUME NEW i \in DOMAIN log[j] PROVE log[j][i].at \in Nat
    OBVIOUS
  <2>1. log[j][i] \in LogEntry
    BY <1>1
  <2> QED BY <2>1 DEF LogEntry
<1>3. ASSUME NEW i \in DOMAIN log[j], \A n \in DOMAIN log[j] : log[j][n].at <= log[j][i].at
      PROVE  log[j][i].status = LastStatus(j)
  <2>1. log[j] # <<>> /\ Len(log[j]) \in DOMAIN log[j] /\ (i = Len(log[j]) \/ i < Len(log[j]))
    BY <1>1
  <2>2. i = Len(log[j])
    BY <1>2, <1>3, <2>1 DEF Increasing
  <2> QED BY <2>1, <2>2 DEF LastStatus
<1> QED BY <1>3 DEF Reported

LEMMA CallKeepsVerdict ==
  ASSUME "db" \notin Faults, "tie" \notin Faults,
         TypeInv, CommitInv, ResultInv, OwnInv, VerdictInv, NEW s \in Slots,
         ProcessJob(s) \/ CallFails(s), ~Complete(s), ~Fail(s)
  PROVE  VerdictInv'
<1> USE DEF TypeInv
<1>1. /\ Stays(s) /\ JobExclusive
      /\ WaitsOnly(s) \/ WritesOnce(s)
  BY CallEffect DEF OwnInv
<1>2. \A t \in Slots : run[t].pc # "idle" => run[t].job \in Jobs
  BY DEF ResultInv
<1>3. run[s].pc # "idle"
  BY <1>1 DEF WaitsOnly, WritesOnce, Moves
<1>4. PICK j \in Jobs : run[s].job = j
  BY <1>2, <1>3
<1>5. VerdictAt(run[s], LastStatus(j), result[j].exitCode)
  <2>1. LastStatus(run[s].job) = LastStatus(j)
    BY <1>4
  <2> QED BY <1>3, <1>4, <2>1 DEF VerdictInv
<1>6. Fits(LastStatus(j), result[j].exitCode) /\ Increasing(j) /\ result[j] \in Result
  BY DEF VerdictInv, TypeOK
<1>7. CASE WaitsOnly(s)
  <2>1. UNCHANGED <<log, result>> /\ \A k : LastStatus(k)' = LastStatus(k)
    BY <1>7, LastStatusStays DEF WaitsOnly
  <2>2. VerdictAt(run'[s], LastStatus(j), result[j].exitCode)
    BY <1>5, <1>7 DEF WaitsOnly, Moves, VerdictAt, InProgress, Terminal
  <2>3. VerdictAt(run[s], LastStatus(j), result[j].exitCode)'
    BY <2>1, <2>2 DEF VerdictAt
  <2>4. Fits(LastStatus(j), result[j].exitCode)' /\ Increasing(j)'
    BY <1>6, <2>1 DEF Fits, Increasing
  <2>5. \A k \in Jobs : k # j =>
          log'[k] = log[k] /\ LastStatus(k)' = LastStatus(k) /\ result'[k] = result[k]
    BY <2>1
  <2> QED BY <1>1, <1>2, <1>4, <2>3, <2>4, <2>5, OwnJobMoves
<1>8. ASSUME NEW status, Writes(s, status), VerdictAt(run'[s], status, result[j].exitCode),
             Fits(status, result[j].exitCode)
      PROVE  VerdictInv'
  <2>1. /\ LastStatus(j)' = status
        /\ \E at \in Timestamps(j) : log'[j] = Append(log[j], [status |-> status, at |-> at])
        /\ \A k \in Jobs : k # j => log'[k] = log[k] /\ LastStatus(k)' = LastStatus(k)
    BY <1>4, <1>8, WriteEffect
  <2> UNCHANGED result
    BY <1>8 DEF Writes
  <2>2. log'[j] = Append(log[j], [status |-> status, at |-> LastAt(j) + 1])
    BY <2>1 DEF Timestamps
  <2>3. Increasing(j)'
    BY <1>6, <2>2, IncreasingAppend
  <2>4. VerdictAt(run[s], LastStatus(j), result[j].exitCode)'
    BY <1>8, <2>1 DEF VerdictAt
  <2>5. Fits(LastStatus(j), result[j].exitCode)'
    BY <1>8, <2>1 DEF Fits
  <2>6. \A k \in Jobs : k # j =>
          log'[k] = log[k] /\ LastStatus(k)' = LastStatus(k) /\ result'[k] = result[k]
    BY <2>1
  <2> QED BY <1>1, <1>2, <1>4, <2>3, <2>4, <2>5, <2>6, OwnJobMoves
<1>9. ASSUME NEW columns, Updates(s, columns),
             VerdictAt(run'[s], LastStatus(j), columns.exitCode),
             Fits(LastStatus(j), columns.exitCode)
      PROVE  VerdictInv'
  <2>1. /\ result'[j] = columns
        /\ \A k \in Jobs : k # j => result'[k] = result[k]
        /\ \A k \in Jobs : LastStatus(k)' = LastStatus(k)
    BY <1>4, <1>9, UpdateEffect
  <2> UNCHANGED log
    BY <1>9 DEF Updates
  <2>2. VerdictAt(run[s], LastStatus(j), result[j].exitCode)'
    BY <1>9, <2>1 DEF VerdictAt
  <2>3. Fits(LastStatus(j), result[j].exitCode)' /\ Increasing(j)'
    BY <1>6, <1>9, <2>1 DEF Fits, Increasing
  <2>4. \A k \in Jobs : k # j =>
          log'[k] = log[k] /\ LastStatus(k)' = LastStatus(k) /\ result'[k] = result[k]
    BY <2>1
  <2> QED BY <1>1, <1>2, <1>4, <2>2, <2>3, <2>4, OwnJobMoves
<1>10. CASE WritesOnce(s)
  <2>1. \A text : WithError(j, text).exitCode = "minusOne"
    BY <1>6 DEF WithError, Result
  <2>2. Columns(s).exitCode = IF run[s].exit = "zero" THEN "zero" ELSE "nonzero"
    BY <1>4, <1>6 DEF Columns, Result
  <2>3. run'[s].exit = run[s].exit
    BY <1>10 DEF WritesOnce
  <2> USE DEF Moves, VerdictAt, InProgress, Terminal, Fits
  <2>4. CASE Moves(s, "logReady", {"accessFile"}) /\ Writes(s, "READY")
    BY <1>8, <2>4
  <2>5. CASE Moves(s, "logRunning", {"create"}) /\ Writes(s, "RUNNING")
    BY <1>8, <2>5
  <2>6. CASE Moves(s, "recordResult", {"logResult"}) /\ Updates(s, Columns(s))
    BY <1>5, <1>9, <2>2, <2>3, <2>6
  <2>7. CASE Moves(s, "logResult", {"complete"}) /\ Writes(s, Outcome(s))
    BY <1>5, <1>8, <2>7 DEF Outcome
  <2>8. CASE /\ Moves(s, "recordTimeout", {"logTimeout"})
            /\ Updates(s, WithError(run[s].job, "timeout"))
    BY <1>4, <1>5, <1>9, <2>1, <2>8
  <2>9. CASE Moves(s, "logTimeout", {"recordFailure"}) /\ Writes(s, "FINISHED_WITH_ERROR")
    BY <1>5, <1>8, <2>9
  <2>10. CASE /\ Moves(s, "recordFailure", {"logFailed"})
             /\ Updates(s, WithError(run[s].job, run[s].thrown))
    BY <1>4, <1>5, <1>9, <2>1, <2>10
  <2>11. CASE Moves(s, "logFailed", {"fail"}) /\ Writes(s, "FAILED")
    BY <1>5, <1>8, <2>11
  <2> QED
    BY <1>10, <2>4, <2>5, <2>6, <2>7, <2>8, <2>9, <2>10, <2>11 DEF WritesOnce
<1> QED BY <1>1, <1>7, <1>10

\* The steps that write no status and no columns.
LEMMA QuietKeepsVerdict ==
  ASSUME VerdictInv, UNCHANGED <<log, result>>,
         \A s \in Slots : run'[s] = run[s] \/ run'[s].pc \in {"idle", "findJob"}
  PROVE  VerdictInv'
<1>1. \A j : LastStatus(j)' = LastStatus(j)
  BY LastStatusStays
<1>2. ASSUME NEW s \in Slots, run'[s].pc # "idle"
      PROVE  VerdictAt(run[s], LastStatus(run[s].job), result[run[s].job].exitCode)'
  <2>1. CASE run'[s].pc = "findJob"
    BY <2>1 DEF VerdictAt, InProgress
  <2>2. CASE run'[s] = run[s]
    <3>1. VerdictAt(run[s], LastStatus(run[s].job), result[run[s].job].exitCode)
      BY <1>2, <2>2 DEF VerdictInv
    <3>2. LastStatus(run[s].job)' = LastStatus(run[s].job)
      BY <2>2 DEF LastStatus
    <3> QED BY <2>2, <3>1, <3>2 DEF VerdictAt
  <2> QED BY <1>2, <2>1, <2>2
<1>3. \A j \in Jobs : Fits(LastStatus(j), result[j].exitCode)' /\ Increasing(j)'
  BY <1>1 DEF VerdictInv, Fits, Increasing
<1> QED BY <1>2, <1>3 DEF VerdictInv

\* createExecutionJob writes the first status, before any delivery.
LEMMA CommitKeepsVerdict ==
  ASSUME TypeInv, ResultInv, VerdictInv, NEW j \in Jobs, CommitJob(j)
  PROVE  VerdictInv'
<1> DEFINE queued == <<[status |-> "QUEUED", at |-> 0]>>
<1>1. /\ log'[j] = queued /\ UNCHANGED <<run, result>>
      /\ \A k \in Jobs : k # j => log'[k] = log[k]
  BY DEF CommitJob, TypeInv, TypeOK, workerVars
<1>2. entry[j] = "absent"
  BY DEF CommitJob, TypeInv, QueueInv
<1>3. LastStatus(j)' = "QUEUED"
  BY <1>1 DEF LastStatus
<1>4. \A k \in Jobs : k # j => LastStatus(k)' = LastStatus(k)
  BY <1>1 DEF LastStatus
<1>5. ASSUME NEW s \in Slots, run'[s].pc # "idle"
      PROVE  VerdictAt(run[s], LastStatus(run[s].job), result[run[s].job].exitCode)'
  <2>1. run[s].pc # "idle" /\ run[s].job \in Jobs /\ run[s].job # j
    BY <1>1, <1>2, <1>5 DEF ResultInv
  <2>2. LastStatus(run[s].job)' = LastStatus(run[s].job)
    BY <1>1, <2>1 DEF LastStatus
  <2>3. VerdictAt(run[s], LastStatus(run[s].job), result[run[s].job].exitCode)
    BY <2>1 DEF VerdictInv
  <2> QED BY <1>1, <2>2, <2>3 DEF VerdictAt
<1>6. ASSUME NEW k \in Jobs PROVE Fits(LastStatus(k), result[k].exitCode)' /\ Increasing(k)'
  <2>1. CASE k = j
    BY <1>1, <1>3, <2>1 DEF Fits, Increasing, Terminal
  <2>2. CASE k # j
    BY <1>1, <1>4, <2>2 DEF VerdictInv, Fits, Increasing
  <2> QED BY <2>1, <2>2
<1> QED BY <1>5, <1>6 DEF VerdictInv

LEMMA VerdictInvStep ==
  ASSUME "db" \notin Faults, "tie" \notin Faults,
         TypeInv, CommitInv, ResultInv, OwnInv, VerdictInv, [Next]_vars
  PROVE  VerdictInv'
<1> USE QuietKeepsVerdict
<1>1. CASE UNCHANGED vars
  BY <1>1 DEF vars, dbVars, workerVars
<1>2. ASSUME NEW j \in Jobs, Api(j) PROVE VerdictInv'
  <2>1. CASE \/ RejectUpload(j) \/ StoreFile(j) \/ PublishJob(j) \/ AcceptRequest(j)
             \/ RequestFails(j)
    BY <2>1 DEF RejectUpload, StoreFile, PublishJob, AcceptRequest, RequestFails,
                dbVars, workerVars
  <2> QED BY <1>2, <2>1, CommitKeepsVerdict DEF Api
<1>3. ASSUME NEW j \in Jobs, MoveStalledJob(j) PROVE VerdictInv'
  BY <1>3 DEF MoveStalledJob, dbVars, workerVars
<1>4. ASSUME NEW s \in Slots, NEW j \in Jobs, Deliver(s, j) PROVE VerdictInv'
  BY <1>4 DEF Deliver, TypeInv, TypeOK, Idle, dbVars
<1>5. ASSUME NEW s \in Slots, ProcessJob(s) \/ CallFails(s) PROVE VerdictInv'
  <2>1. CASE Complete(s) \/ Fail(s)
    BY <2>1 DEF Complete, Fail, Settle, TypeInv, TypeOK, Idle, dbVars
  <2> QED BY <1>5, <2>1, CallKeepsVerdict
<1>6. ASSUME NEW c \in Jobs \X Deliveries, ContainerExits(c) PROVE VerdictInv'
  BY <1>6 DEF ContainerExits, dbVars
<1>7. CASE Crash \/ Shutdown \/ Closed \/ Restart
  BY <1>7 DEF Crash, Shutdown, Closed, Restart, Idle, dbVars
<1> QED BY <1>1, <1>2, <1>3, <1>4, <1>5, <1>6, <1>7 DEF Next

\* As long as MySQL answers, a worker keeps its locks and two statuses do not
\* share a millisecond, the verdict a client reads is that of the exit code it
\* reads with it, although a redelivered job overwrites the row of an earlier
\* delivery and a crash may come between the two writes.
THEOREM VerdictCorrect ==
  ASSUME "db" \notin Faults, "stall" \notin Faults, "tie" \notin Faults
  PROVE  Spec => []VerdictMatchesExitCode
<1>1. Init => VerdictInv
  <2> SUFFICES ASSUME Init PROVE VerdictInv
    OBVIOUS
  <2>1. \A j \in Jobs : LastStatus(j) = "none"
    BY DEF Init, LastStatus
  <2> QED BY <2>1 DEF Init, VerdictInv, Fits, Increasing, Terminal, Idle
<1>2. /\ TypeInv /\ CommitInv /\ ResultInv /\ OwnInv /\ VerdictInv /\ [Next]_vars
      => VerdictInv'
  BY VerdictInvStep
<1>3. TypeInv /\ VerdictInv => VerdictMatchesExitCode
  <2> SUFFICES ASSUME TypeInv, VerdictInv, NEW j \in Jobs,
                      NEW status \in Reported(j) \cap Terminal
               PROVE  (status = "FINISHED_WITH_SUCCESS") <=> (result[j].exitCode = "zero")
    BY DEF VerdictMatchesExitCode
  <2>1. status = LastStatus(j)
    BY ReportedIsLast DEF TypeInv, VerdictInv
  <2> QED BY <2>1 DEF VerdictInv, Fits
<1> QED BY <1>1, <1>2, <1>3, CommitInvariant, ResultInvariant, OwnInvariant, PTL DEF Spec

--------------------------------------------------------------------------------
(* One delivery per job: the row, the log and the invocation tell one story *)

Pending   == {"QUEUED", "READY", "RUNNING"}
Succeeded == [output |-> TRUE, error |-> "null", exitCode |-> "zero"]
Ended     == [output |-> FALSE, error |-> "output", exitCode |-> "nonzero"]
Aborted(text) == [output |-> FALSE, error |-> text, exitCode |-> "minusOne"]
Failures  == {Ended, Aborted("timeout"), Aborted("fault")}

\* What the only invocation of a job finds in the database when it awaits pc.
LifeAt(r, last, columns) ==
  /\ r.pc \in {"findJob", "logReady"} => last = "QUEUED" /\ columns = NoResult
  /\ r.pc \in {"accessFile", "logRunning"} => last = "READY" /\ columns = NoResult
  /\ r.pc \in {"create", "start", "race", "logs", "remove", "recordResult", "kill",
               "removeKilled", "recordTimeout"} =>
       last = "RUNNING" /\ columns = NoResult
  /\ r.pc = "logResult" =>
       last = "RUNNING" /\ columns = IF r.exit = "zero" THEN Succeeded ELSE Ended
  /\ r.pc = "logTimeout" => last = "RUNNING" /\ columns = Aborted("timeout")
  /\ r.pc = "recordFailure" =>
       \/ last \in Pending /\ columns = NoResult /\ r.thrown = "fault"
       \/ last = "FINISHED_WITH_ERROR" /\ columns = Aborted("timeout")
  /\ r.pc = "logFailed" =>
       last \in Pending \cup {"FINISHED_WITH_ERROR"} /\ columns = Aborted(r.thrown)
  /\ r.pc \in {"kill", "removeKilled", "recordTimeout", "logTimeout", "recordFailure",
               "logFailed"} => r.thrown \in Caught

Agrees(status, columns) ==
  status \in Terminal =>
    IF status = "FINISHED_WITH_SUCCESS" THEN columns = Succeeded ELSE columns \in Failures

\* No status follows a terminal one but a terminal one, and every status agrees
\* with the row.
History(j) ==
  /\ Settled(j) => LastStatus(j) \in Terminal
  /\ \A i \in DOMAIN log[j] : Agrees(log[j][i].status, result[j])

\* Nothing is written before the delivery, and the entry is active until the
\* invocation ends.
Handled(j) ==
  /\ entry[j] \in {"absent", "waiting"} =>
       LastStatus(j) \in {"none", "QUEUED"} /\ result[j] = NoResult
  /\ request[j] \in {"idle", "stored"} => log[j] = <<>>
  /\ entry[j] = "active" => \E s \in Slots : run[s].job = j

LifeInv ==
  /\ \A s \in Slots :
       run[s].pc # "idle" => LifeAt(run[s], LastStatus(run[s].job), result[run[s].job])
  /\ \A j \in Jobs : History(j) /\ Handled(j)

\* A job with a terminal status shows it, and one without has none.
LEMMA LastSettles ==
  ASSUME TypeOK, NEW j \in Jobs, History(j)
  PROVE  /\ Settled(j) <=> LastStatus(j) \in Terminal
         /\ log[j] # <<>> => LastStatus(j) # "none"
<1>1. log[j] \in Seq(LogEntry)
  BY DEF TypeOK
<1>2. ASSUME log[j] # <<>>
      PROVE  /\ Len(log[j]) \in DOMAIN log[j]
             /\ LastStatus(j) = log[j][Len(log[j])].status
             /\ LastStatus(j) \in Status
  <2>1. Len(log[j]) \in DOMAIN log[j] /\ log[j][Len(log[j])] \in LogEntry
    BY <1>1, <1>2
  <2> QED BY <1>2, <2>1 DEF LastStatus, LogEntry
<1>3. "none" \notin Status
  BY DEF Status, Terminal
<1>4. log[j] = <<>> => LastStatus(j) \notin Terminal
  BY DEF LastStatus, Terminal
<1> QED BY <1>2, <1>3, <1>4 DEF History, Settled

\* A step of the only invocation of job j.
LEMMA OwnJobLives ==
  ASSUME JobExclusive, LifeInv, NEW s \in Slots, NEW j \in Jobs, run[s].job = j, Stays(s),
         \A t \in Slots : run[t].pc # "idle" => run[t].job \in Jobs,
         UNCHANGED <<request, entry>>, entry[j] = "active", request[j] \notin {"idle", "stored"},
         \A k \in Jobs : k # j =>
           log'[k] = log[k] /\ LastStatus(k)' = LastStatus(k) /\ result'[k] = result[k],
         LifeAt(run[s], LastStatus(j), result[j])',
         History(j)'
  PROVE  LifeInv'
<1>1. ASSUME NEW t \in Slots, run'[t].pc # "idle"
      PROVE  LifeAt(run[t], LastStatus(run[t].job), result[run[t].job])'
  <2>1. CASE t = s
    <3>1. run'[t].job = j
      BY <2>1 DEF Stays
    <3>2. LastStatus(run[t].job)' = LastStatus(j)'
      BY <3>1 DEF LastStatus
    <3> QED BY <2>1, <3>1, <3>2
  <2>2. CASE t # s
    <3>1. PICK k \in Jobs : run[t].job = k
      BY <1>1, <2>2 DEF Stays
    <3>2. run'[t] = run[t] /\ k # j
      BY <2>2, <3>1 DEF Stays, JobExclusive
    <3>3. LastStatus(run[t].job)' = LastStatus(k)' /\ LastStatus(run[t].job) = LastStatus(k)
      BY <3>1, <3>2 DEF LastStatus
    <3>4. LifeAt(run[t], LastStatus(k), result[k])
      BY <1>1, <3>1, <3>2, <3>3 DEF LifeInv
    <3>5. LastStatus(k)' = LastStatus(k) /\ result'[k] = result[k]
      BY <3>2
    <3> QED BY <3>1, <3>2, <3>3, <3>4, <3>5 DEF LifeAt
  <2> QED BY <2>1, <2>2
<1>2. ASSUME NEW k \in Jobs PROVE History(k)'
  BY DEF LifeInv, History, Settled
<1>3. ASSUME NEW k \in Jobs PROVE Handled(k)'
  <2>1. \A t \in Slots : run'[t].job = run[t].job
    BY DEF Stays
  <2>2. CASE k = j
    BY <2>1, <2>2 DEF Handled
  <2>3. CASE k # j
    BY <2>1, <2>3 DEF LifeInv, Handled
  <2> QED BY <2>2, <2>3
<1> QED BY <1>1, <1>2, <1>3 DEF LifeInv

\* No row is that of a success and of a failure, and each failure is another row.
LEMMA VerdictsDiffer ==
  /\ Succeeded \notin Failures
  /\ Ended \notin {Aborted("timeout"), Aborted("fault")}
  /\ Aborted("timeout") # Aborted("fault")
<1>1. Succeeded.exitCode = "zero" /\ Ended.exitCode = "nonzero"
  BY DEF Succeeded, Ended
<1>2. \A text : Aborted(text).exitCode = "minusOne" /\ Aborted(text).error = text
  BY DEF Aborted
<1> QED BY <1>1, <1>2 DEF Failures

LEMMA WriteHistory ==
  ASSUME TypeOK, NEW j \in Jobs, History(j), NEW e, log'[j] = Append(log[j], e),
         LastStatus(j)' = e.status, result'[j] = result[j], Agrees(e.status, result[j]),
         LastStatus(j) \in Terminal => e.status \in Terminal
  PROVE  History(j)'
<1>1. log[j] \in Seq(LogEntry)
  BY DEF TypeOK
<1>2. /\ DOMAIN log'[j] = DOMAIN log[j] \cup {Len(log[j]) + 1}
      /\ log'[j][Len(log[j]) + 1] = e
      /\ \A i \in DOMAIN log[j] : log'[j][i] = log[j][i]
  BY <1>1, Appended
<1>3. \A i \in DOMAIN log'[j] : Agrees(log'[j][i].status, result'[j])
  BY <1>2 DEF History
<1>4. Settled(j)' => LastStatus(j)' \in Terminal
  BY <1>2 DEF History, Settled
<1>5. \A i \in DOMAIN log'[j] : Agrees(log[j][i].status, result[j])'
  BY <1>3 DEF Agrees
<1> QED BY <1>4, <1>5 DEF History

LEMMA UpdateHistory ==
  ASSUME NEW j \in Jobs, History(j), log'[j] = log[j], LastStatus(j)' = LastStatus(j),
         LastStatus(j) \in Terminal =>
           result'[j] = result[j] \/ (result[j] \in Failures /\ result'[j] \in Failures)
  PROVE  History(j)'
<1>1. Settled(j)' <=> Settled(j)
  BY DEF Settled
<1>2. \A i \in DOMAIN log[j] : Agrees(log[j][i].status, result'[j])
  BY VerdictsDiffer DEF History, Agrees, Settled
<1> QED BY <1>1, <1>2 DEF History, Agrees

\* What an invocation knows of its job.
LEMMA OwnFacts ==
  ASSUME TypeInv, ResultInv, OwnInv, LifeInv, NEW s \in Slots, run[s].pc # "idle"
  PROVE  \E j \in Jobs :
           /\ run[s].job = j /\ entry[j] = "active" /\ request[j] \notin {"idle", "stored"}
           /\ LifeAt(run[s], LastStatus(j), result[j]) /\ History(j)
           /\ result[j] \in Result
<1>1. PICK j \in Jobs : run[s].job = j
  BY DEF ResultInv
<1>2. entry[j] = "active"
  BY <1>1 DEF OwnInv
<1>3. request[j] \notin {"idle", "stored"}
  BY <1>2 DEF TypeInv, QueueInv
<1>4. LastStatus(run[s].job) = LastStatus(j)
  BY <1>1
<1>5. LifeAt(run[s], LastStatus(j), result[j]) /\ History(j)
  BY <1>1, <1>4 DEF LifeInv
<1>6. result[j] \in Result
  BY DEF TypeInv, TypeOK
<1> QED BY <1>1, <1>2, <1>3, <1>5, <1>6

\* A result is its three columns, and an update sets two of them.
LEMMA ResultEqual ==
  ASSUME NEW x \in Result, NEW y \in Result,
         x.output = y.output, x.error = y.error, x.exitCode = y.exitCode
  PROVE  x = y
BY DEF Result

LEMMA ColumnsSet ==
  ASSUME NEW x \in Result, NEW code \in ExitCode, NEW text \in ErrorText
  PROVE  /\ [x EXCEPT !.output = TRUE, !.exitCode = code]
              = [output |-> TRUE, error |-> x.error, exitCode |-> code]
         /\ [x EXCEPT !.error = text, !.exitCode = code]
              = [output |-> x.output, error |-> text, exitCode |-> code]
<1> DEFINE a == [x EXCEPT !.output = TRUE, !.exitCode = code]
           b == [output |-> TRUE, error |-> x.error, exitCode |-> code]
           c == [x EXCEPT !.error = text, !.exitCode = code]
           d == [output |-> x.output, error |-> text, exitCode |-> code]
<1>1. a \in Result /\ a.output = TRUE /\ a.error = x.error /\ a.exitCode = code
  BY DEF Result
<1>2. b \in Result /\ b.output = TRUE /\ b.error = x.error /\ b.exitCode = code
  BY DEF Result
<1>3. c \in Result /\ c.output = x.output /\ c.error = text /\ c.exitCode = code
  BY DEF Result
<1>4. d \in Result /\ d.output = x.output /\ d.error = text /\ d.exitCode = code
  BY DEF Result
<1> HIDE DEF a, b, c, d
<1>5. a = b /\ c = d
  BY <1>1, <1>2, <1>3, <1>4, ResultEqual
<1> QED BY <1>5 DEF a, b, c, d

\* The columns that each update writes.
LEMMA ColumnValues ==
  ASSUME NEW s \in Slots, NEW j \in Jobs, run[s].job = j
  PROVE  /\ result[j] = NoResult => Columns(s) = IF run[s].exit = "zero" THEN Succeeded ELSE Ended
         /\ \A text \in Caught :
              result[j] \in {NoResult, Aborted("timeout")} => WithError(j, text) = Aborted(text)
<1>1. {"zero", "nonzero", "minusOne"} \subseteq ExitCode /\ Caught \subseteq ErrorText
      /\ "output" \in ErrorText
  BY DEF ExitCode, ErrorText, Caught
<1>2. NoResult \in Result /\ NoResult.output = FALSE /\ NoResult.error = "null"
  BY DEF NoResult, Result, ErrorText, ExitCode
<1>3. Aborted("timeout") \in Result /\ Aborted("timeout").output = FALSE
  BY DEF Aborted, Result, ErrorText, ExitCode
<1>4. ASSUME result[j] = NoResult
      PROVE  /\ [result[j] EXCEPT !.output = TRUE, !.exitCode = "zero"] = Succeeded
             /\ [result[j] EXCEPT !.error = "output", !.exitCode = "nonzero"] = Ended
  <2>1. result[j] \in Result /\ result[j].output = FALSE /\ result[j].error = "null"
    BY <1>2, <1>4
  <2>2. "zero" \in ExitCode /\ "nonzero" \in ExitCode /\ "output" \in ErrorText
    BY <1>1
  <2>3. [result[j] EXCEPT !.output = TRUE, !.exitCode = "zero"]
          = [output |-> TRUE, error |-> result[j].error, exitCode |-> "zero"]
    BY <2>1, <2>2, ColumnsSet
  <2>4. [result[j] EXCEPT !.error = "output", !.exitCode = "nonzero"]
          = [output |-> result[j].output, error |-> "output", exitCode |-> "nonzero"]
    BY <2>1, <2>2, ColumnsSet
  <2> QED BY <2>1, <2>3, <2>4 DEF Succeeded, Ended
<1>5. ASSUME NEW text \in Caught, result[j] \in {NoResult, Aborted("timeout")}
      PROVE  [result[j] EXCEPT !.error = text, !.exitCode = "minusOne"] = Aborted(text)
  <2>1. result[j] \in Result /\ result[j].output = FALSE
    BY <1>2, <1>3, <1>5
  <2>2. [result[j] EXCEPT !.error = text, !.exitCode = "minusOne"]
          = [output |-> result[j].output, error |-> text, exitCode |-> "minusOne"]
    BY <1>1, <1>5, <2>1, ColumnsSet
  <2> QED BY <2>1, <2>2 DEF Aborted
<1> QED BY <1>4, <1>5, Zenon DEF Columns, WithError

LEMMA CallKeepsLife ==
  ASSUME "db" \notin Faults, TypeInv, CommitInv, ResultInv, OwnInv, LifeInv, NEW s \in Slots,
         ProcessJob(s) \/ CallFails(s), ~Complete(s), ~Fail(s)
  PROVE  LifeInv'
<1> USE DEF TypeInv
<1>1. /\ Stays(s) /\ JobExclusive /\ UNCHANGED <<request, entry>>
      /\ WaitsOnly(s) \/ WritesOnce(s)
  BY CallEffect DEF OwnInv
<1>2. \A t \in Slots : run[t].pc # "idle" => run[t].job \in Jobs
  BY DEF ResultInv
<1>3. run[s].pc # "idle"
  BY <1>1 DEF WaitsOnly, WritesOnce, Moves
<1>4. PICK j \in Jobs :
        /\ run[s].job = j /\ entry[j] = "active" /\ request[j] \notin {"idle", "stored"}
        /\ LifeAt(run[s], LastStatus(j), result[j]) /\ History(j)
        /\ result[j] \in Result
  BY <1>3, OwnFacts
<1>5. CASE WaitsOnly(s)
  <2>1. UNCHANGED <<log, result>> /\ \A k : LastStatus(k)' = LastStatus(k)
    BY <1>5, LastStatusStays DEF WaitsOnly
  <2>2. LifeAt(run'[s], LastStatus(j), result[j])
    BY <1>4, <1>5 DEF WaitsOnly, Moves, LifeAt, Pending, Caught
  <2>3. LifeAt(run[s], LastStatus(j), result[j])'
    BY <2>1, <2>2 DEF LifeAt
  <2>4. History(j)'
    BY <1>4, <2>1, UpdateHistory
  <2>5. \A k \in Jobs : k # j =>
          log'[k] = log[k] /\ LastStatus(k)' = LastStatus(k) /\ result'[k] = result[k]
    BY <2>1
  <2> QED BY <1>1, <1>2, <1>4, <2>3, <2>4, <2>5, OwnJobLives
<1>6. ASSUME NEW status, Writes(s, status), LifeAt(run'[s], status, result[j]),
             Agrees(status, result[j]), LastStatus(j) \in Terminal => status \in Terminal
      PROVE  LifeInv'
  <2>1. /\ LastStatus(j)' = status
        /\ \E at \in Timestamps(j) : log'[j] = Append(log[j], [status |-> status, at |-> at])
        /\ \A k \in Jobs : k # j => log'[k] = log[k] /\ LastStatus(k)' = LastStatus(k)
    BY <1>4, <1>6, WriteEffect
  <2> UNCHANGED result
    BY <1>6 DEF Writes
  <2>2. PICK e : log'[j] = Append(log[j], e) /\ e.status = status
    BY <2>1
  <2>3. History(j)'
    BY <1>4, <1>6, <2>1, <2>2, WriteHistory
  <2>4. LifeAt(run[s], LastStatus(j), result[j])'
    BY <1>6, <2>1 DEF LifeAt
  <2>5. \A k \in Jobs : k # j =>
          log'[k] = log[k] /\ LastStatus(k)' = LastStatus(k) /\ result'[k] = result[k]
    BY <2>1
  <2> QED BY <1>1, <1>2, <1>4, <2>3, <2>4, <2>5, OwnJobLives
<1>7. ASSUME NEW columns, Updates(s, columns), LifeAt(run'[s], LastStatus(j), columns),
             LastStatus(j) \in Terminal => result[j] \in Failures /\ columns \in Failures
      PROVE  LifeInv'
  <2>1. /\ result'[j] = columns
        /\ \A k \in Jobs : k # j => result'[k] = result[k]
        /\ \A k \in Jobs : LastStatus(k)' = LastStatus(k)
    BY <1>4, <1>7, UpdateEffect
  <2> UNCHANGED log
    BY <1>7 DEF Updates
  <2>2. LifeAt(run[s], LastStatus(j), result[j])'
    BY <1>7, <2>1 DEF LifeAt
  <2>3. History(j)'
    BY <1>4, <1>7, <2>1, UpdateHistory
  <2>4. \A k \in Jobs : k # j =>
          log'[k] = log[k] /\ LastStatus(k)' = LastStatus(k) /\ result'[k] = result[k]
    BY <2>1
  <2> QED BY <1>1, <1>2, <1>4, <2>2, <2>3, <2>4, OwnJobLives
<1>8. CASE WritesOnce(s)
  <2> run'[s].exit = run[s].exit /\ run'[s].thrown = run[s].thrown
    BY <1>8 DEF WritesOnce
  <2> USE <1>4, ColumnValues DEF Moves, LifeAt, Terminal, Pending, Caught, Failures
  <2>1. CASE Moves(s, "logReady", {"accessFile"}) /\ Writes(s, "READY")
    BY <1>6, <2>1 DEF Agrees
  <2>2. CASE Moves(s, "logRunning", {"create"}) /\ Writes(s, "RUNNING")
    BY <1>6, <2>2 DEF Agrees
  <2>3. CASE Moves(s, "recordResult", {"logResult"}) /\ Updates(s, Columns(s))
    BY <1>7, <2>3
  <2>4. CASE Moves(s, "logResult", {"complete"}) /\ Writes(s, Outcome(s))
    BY <1>6, <2>4 DEF Outcome, Agrees
  <2>5. CASE /\ Moves(s, "recordTimeout", {"logTimeout"})
            /\ Updates(s, WithError(run[s].job, "timeout"))
    BY <1>7, <2>5
  <2>6. CASE Moves(s, "logTimeout", {"recordFailure"}) /\ Writes(s, "FINISHED_WITH_ERROR")
    BY <1>6, <2>6 DEF Agrees
  <2>7. CASE /\ Moves(s, "recordFailure", {"logFailed"})
             /\ Updates(s, WithError(run[s].job, run[s].thrown))
    BY <1>7, <2>7
  <2>8. CASE Moves(s, "logFailed", {"fail"}) /\ Writes(s, "FAILED")
    BY <1>6, <2>8 DEF Agrees
  <2> QED
    BY <1>8, <2>1, <2>2, <2>3, <2>4, <2>5, <2>6, <2>7, <2>8 DEF WritesOnce
<1> QED BY <1>1, <1>5, <1>8

\* The steps that write no status and no columns.
LEMMA QuietKeepsLife ==
  ASSUME LifeInv, UNCHANGED <<log, result>>,
         \A s \in Slots :
           \/ run'[s] = run[s]
           \/ run'[s].pc = "idle"
           \/ LifeAt(run'[s], LastStatus(run'[s].job), result[run'[s].job]),
         \A j \in Jobs : Handled(j)'
  PROVE  LifeInv'
<1>1. ASSUME NEW s \in Slots, run'[s].pc # "idle"
      PROVE  LifeAt(run[s], LastStatus(run[s].job), result[run[s].job])'
  <2>1. LifeAt(run'[s], LastStatus(run'[s].job), result[run'[s].job])
    BY <1>1 DEF LifeInv
  <2>2. LastStatus(run[s].job)' = LastStatus(run'[s].job)
    BY DEF LastStatus
  <2> QED BY <2>1, <2>2 DEF LifeAt
<1>2. \A j \in Jobs : History(j)'
  BY DEF LifeInv, History, Settled, LastStatus, Agrees
<1> QED BY <1>1, <1>2 DEF LifeInv

\* createExecutionJob writes the first status, before any delivery.
LEMMA CommitKeepsLife ==
  ASSUME TypeInv, ResultInv, LifeInv, NEW j \in Jobs, CommitJob(j)
  PROVE  LifeInv'
<1> DEFINE queued == <<[status |-> "QUEUED", at |-> 0]>>
<1>1. /\ log'[j] = queued /\ UNCHANGED <<run, result, entry>>
      /\ request'[j] = "committed"
      /\ \A k \in Jobs : k # j => log'[k] = log[k] /\ request'[k] = request[k]
  BY DEF CommitJob, TypeInv, TypeOK, queueVars, workerVars
<1>2. entry[j] = "absent"
  BY DEF CommitJob, TypeInv, QueueInv
<1>3. LastStatus(j)' = "QUEUED"
  BY <1>1 DEF LastStatus
<1>4. \A k \in Jobs : k # j => LastStatus(k)' = LastStatus(k)
  BY <1>1 DEF LastStatus
<1>5. ASSUME NEW s \in Slots, run'[s].pc # "idle"
      PROVE  LifeAt(run[s], LastStatus(run[s].job), result[run[s].job])'
  <2>1. run[s].pc # "idle" /\ run[s].job \in Jobs /\ run[s].job # j
    BY <1>1, <1>2, <1>5 DEF ResultInv
  <2>2. LastStatus(run[s].job)' = LastStatus(run[s].job)
    BY <1>1, <2>1 DEF LastStatus
  <2>3. LifeAt(run[s], LastStatus(run[s].job), result[run[s].job])
    BY <2>1 DEF LifeInv
  <2> QED BY <1>1, <2>2, <2>3 DEF LifeAt
<1>6. ASSUME NEW k \in Jobs PROVE History(k)' /\ Handled(k)'
  <2>1. CASE k = j
    <3>1. History(j)'
      BY <1>1 DEF History, Settled, Agrees, Terminal
    <3>2. result[j] = NoResult
      BY <1>2 DEF LifeInv, Handled
    <3> QED BY <1>1, <1>2, <1>3, <2>1, <3>1, <3>2 DEF Handled
  <2>2. CASE k # j
    BY <1>1, <1>4, <2>2 DEF LifeInv, History, Settled, Agrees, Handled
  <2> QED BY <2>1, <2>2
<1> QED BY <1>5, <1>6 DEF LifeInv

\* An entry is active until its invocation ends, so that none is moved as stalled.
LEMMA NothingStalls ==
  ASSUME "stall" \notin Faults, OwnInv, LifeInv, NEW j \in Jobs
  PROVE  ~MoveStalledJob(j)
BY DEF MoveStalledJob, Orphaned, OwnInv, LifeInv, Handled

LEMMA DeliverKeepsLife ==
  ASSUME TypeInv, CommitInv, LifeInv, NEW s \in Slots, NEW j \in Jobs, Deliver(s, j)
  PROVE  LifeInv'
<1>1. /\ run'[s].job = j /\ run'[s].pc = "findJob" /\ run[s].job = NoJob
      /\ \A t \in Slots : t # s => run'[t] = run[t]
      /\ entry'[j] = "active"
      /\ \A k \in Jobs : k # j => entry'[k] = entry[k]
      /\ UNCHANGED <<request, log, result>>
  BY DEF Deliver, TypeInv, TypeOK, Idle, apiVars, dbVars
<1>2. LastStatus(j) = "QUEUED" /\ result[j] = NoResult
  <2>1. LastStatus(j) \in {"none", "QUEUED"} /\ result[j] = NoResult
    BY DEF Deliver, LifeInv, Handled
  <2>2. log[j] # <<>> /\ History(j)
    BY DEF Deliver, CommitInv, Committed, LifeInv
  <2>3. LastStatus(j) # "none"
    BY <2>2, LastSettles DEF TypeInv
  <2> QED BY <2>1, <2>3
<1>3. LifeAt(run'[s], LastStatus(run'[s].job), result[run'[s].job])
  BY <1>1, <1>2 DEF LifeAt
<1>4. ASSUME NEW k \in Jobs PROVE Handled(k)'
  <2>1. CASE k = j
    BY <1>1, <2>1, LastStatusStays DEF LifeInv, Handled
  <2>2. CASE k # j
    <3>1. entry[k] = "active" => \E t \in Slots : run'[t].job = k
      BY <1>1, NoJobAssumption DEF LifeInv, Handled
    <3> QED BY <1>1, <2>2, <3>1, LastStatusStays DEF LifeInv, Handled
  <2> QED BY <2>1, <2>2
<1> QED BY <1>1, <1>3, <1>4, QuietKeepsLife

LEMMA SettleKeepsLife ==
  ASSUME TypeInv, ResultInv, OwnInv, LifeInv, NEW s \in Slots, NEW pc \in {"complete", "fail"},
         NEW outcome \in {"completed", "failed"}, Settle(s, pc, outcome)
  PROVE  LifeInv'
<1>1. PICK j \in Jobs : run[s].job = j
  BY DEF Settle, ResultInv
<1>2. entry[j] = "active" /\ run[s].delivery = delivery[j]
  BY <1>1 DEF OwnInv
<1>3. /\ run'[s].pc = "idle"
      /\ \A t \in Slots : t # s => run'[t] = run[t]
      /\ entry'[j] = outcome
      /\ \A k \in Jobs : k # j => entry'[k] = entry[k]
      /\ UNCHANGED <<request, log, result>>
  BY <1>1, <1>2 DEF Settle, TypeInv, TypeOK, Idle, apiVars, dbVars
<1>4. ASSUME NEW k \in Jobs PROVE Handled(k)'
  <2>1. CASE k = j
    BY <1>3, <2>1, LastStatusStays DEF LifeInv, Handled
  <2>2. CASE k # j
    <3>1. entry[k] = "active" => \E t \in Slots : run'[t].job = k
      BY <1>1, <1>3, <2>2 DEF LifeInv, Handled
    <3> QED BY <1>3, <2>2, <3>1, LastStatusStays DEF LifeInv, Handled
  <2> QED BY <2>1, <2>2
<1> QED BY <1>3, <1>4, QuietKeepsLife

LEMMA LifeInvStep ==
  ASSUME "db" \notin Faults, "stall" \notin Faults, "crash" \notin Faults,
         TypeInv, CommitInv, ResultInv, OwnInv, LifeInv, [Next]_vars
  PROVE  LifeInv'
<1>1. ASSUME UNCHANGED <<run, log, result, entry>>,
             \A j \in Jobs : request'[j] = request[j] \/ request[j] = "idle"
                             \/ request'[j] \notin {"idle", "stored"}
      PROVE  LifeInv'
  <2>1. \A j \in Jobs : Handled(j)'
    BY <1>1, LastStatusStays DEF LifeInv, Handled
  <2> QED BY <1>1, <2>1, QuietKeepsLife
<1>2. CASE UNCHANGED vars
  BY <1>1, <1>2 DEF vars, apiVars, dbVars, queueVars, workerVars
<1>3. ASSUME NEW j \in Jobs, Api(j) PROVE LifeInv'
  <2>1. CASE RejectUpload(j) \/ StoreFile(j) \/ AcceptRequest(j) \/ RequestFails(j)
    BY <1>1, <2>1 DEF RejectUpload, StoreFile, AcceptRequest, RequestFails,
                      dbVars, queueVars, workerVars, TypeInv, TypeOK
  <2>2. CASE PublishJob(j)
    <3>1. /\ UNCHANGED <<run, log, result>> /\ entry'[j] = "waiting"
          /\ request[j] = "committed" /\ request'[j] = "published"
          /\ \A k \in Jobs : k # j => entry'[k] = entry[k] /\ request'[k] = request[k]
      BY <2>2 DEF PublishJob, TypeInv, TypeOK, dbVars, workerVars
    <3>2. entry[j] = "absent"
      BY <3>1 DEF TypeInv, QueueInv
    <3>3. ASSUME NEW k \in Jobs PROVE Handled(k)'
      <4>1. CASE k = j
        BY <3>1, <3>2, <4>1, LastStatusStays DEF LifeInv, Handled
      <4>2. CASE k # j
        BY <3>1, <4>2, LastStatusStays DEF LifeInv, Handled
      <4> QED BY <4>1, <4>2
    <3> QED BY <3>1, <3>3, QuietKeepsLife
  <2> QED BY <1>3, <2>1, <2>2, CommitKeepsLife DEF Api
<1>4. ASSUME NEW s \in Slots, ProcessJob(s) \/ CallFails(s) PROVE LifeInv'
  <2>1. CASE Complete(s) \/ Fail(s)
    BY <2>1, SettleKeepsLife DEF Complete, Fail
  <2> QED BY <1>4, <2>1, CallKeepsLife
<1>5. ASSUME NEW c \in Jobs \X Deliveries, ContainerExits(c) PROVE LifeInv'
  BY <1>1, <1>5 DEF ContainerExits, apiVars, dbVars, queueVars
<1>6. CASE Shutdown \/ Closed \/ Restart
  BY <1>1, <1>6 DEF Shutdown, Closed, Restart, apiVars, dbVars, queueVars
<1>7. ~Crash
  BY DEF Crash
<1> QED
  BY <1>2, <1>3, <1>4, <1>5, <1>6, <1>7, NothingStalls, DeliverKeepsLife DEF Next

LEMMA LifeInvariant ==
  ASSUME "db" \notin Faults, "stall" \notin Faults, "crash" \notin Faults
  PROVE  Spec => [](TypeInv /\ CommitInv /\ ResultInv /\ OwnInv /\ LifeInv)
<1>1. Init => LifeInv
  BY DEF Init, LifeInv, LastStatus, History, Handled, Settled, Idle
<1>2. /\ TypeInv /\ CommitInv /\ ResultInv /\ OwnInv /\ LifeInv /\ [Next]_vars
      => LifeInv'
  BY LifeInvStep
<1> QED BY <1>1, <1>2, CommitInvariant, ResultInvariant, OwnInvariant, PTL DEF Spec

\* As long as the worker neither dies nor loses a lock or a database call, every
\* terminal status that the API may report has the columns it stands for, the
\* FINISHED_WITH_ERROR and the FAILED of one timeout included.
THEOREM ColumnsCorrect ==
  ASSUME "db" \notin Faults, "stall" \notin Faults, "crash" \notin Faults
  PROVE  Spec => []ColumnsMatchStatus
<1>1. LifeInv => ColumnsMatchStatus
  BY DEF LifeInv, History, Agrees, ColumnsMatchStatus, Reported, Succeeded, Ended, Aborted,
         Failures
<1> QED BY <1>1, LifeInvariant, PTL

--------------------------------------------------------------------------------
(* The pipeline implements JobLifecycle *)

\* A status write is a move of the lifecycle, and an update an answer, the
\* correction of a timeout that was none, or nothing.
LEMMA WriteMoves ==
  ASSUME NEW j \in Jobs, UNCHANGED result,
         \A k \in Jobs : k # j => LastStatus(k)' = LastStatus(k)
  PROVE  Lifecycle!Move(j, LastStatus(j), LastStatus(j)')
<1> DEFINE phase == [k \in Jobs |-> LastStatus(k)]
           answer == [k \in Jobs |-> result[k].exitCode]
           reason == [k \in Jobs |-> result[k].error]
<1>1. phase' = [phase EXCEPT ![j] = LastStatus(j)']
  OBVIOUS
<1>2. phase[j] = LastStatus(j) /\ answer' = answer /\ reason' = reason
  OBVIOUS
<1> QED BY <1>1, <1>2 DEF Lifecycle!Move

LEMMA UpdateAnswers ==
  ASSUME NEW j \in Jobs, UNCHANGED log, \A k \in Jobs : k # j => result'[k] = result[k],
         LastStatus(j) \in Pending, result[j].exitCode = "null",
         result'[j].exitCode \in {"zero", "nonzero", "minusOne"},
         result'[j].error \in {"null", "output", "timeout", "fault"},
         Lifecycle!Explains(result'[j].error, result'[j].exitCode),
         result'[j].error # "fault" => LastStatus(j) = "RUNNING"
  PROVE  Lifecycle!Answer(j)
<1> DEFINE phase == [k \in Jobs |-> LastStatus(k)]
           answer == [k \in Jobs |-> result[k].exitCode]
           reason == [k \in Jobs |-> result[k].error]
           a == result'[j].exitCode
           text == result'[j].error
<1>1. phase[j] = LastStatus(j) /\ answer[j] = "null" /\ phase' = phase
  BY LastStatusStays
<1>2. answer' = [answer EXCEPT ![j] = a] /\ reason' = [reason EXCEPT ![j] = text]
  OBVIOUS
<1>3. Lifecycle!Explains(text, a)
  OBVIOUS
<1>4. a \in {"zero", "nonzero", "minusOne"} /\ text \in {"null", "output", "timeout", "fault"}
      /\ (text # "fault" => phase[j] = "RUNNING")
  BY <1>1
<1> HIDE DEF phase, answer, reason, a, text
<1>5. \E b \in {"zero", "nonzero", "minusOne"}, words \in {"null", "output", "timeout", "fault"} :
        /\ Lifecycle!Explains(words, b)
        /\ words # "fault" => phase[j] = "RUNNING"
        /\ answer' = [answer EXCEPT ![j] = b]
        /\ reason' = [reason EXCEPT ![j] = words]
  BY <1>2, <1>3, <1>4
<1> QED
  BY <1>1, <1>5, Zenon DEF Lifecycle!Answer, Lifecycle!Answers, Lifecycle!Texts,
                           Lifecycle!Unfinished, Pending, phase, answer, reason

LEMMA UpdateCorrects ==
  ASSUME NEW j \in Jobs, UNCHANGED log, \A k \in Jobs : k # j => result'[k] = result[k],
         LastStatus(j) = "FINISHED_WITH_ERROR", result[j] = Aborted("timeout"),
         result'[j] = Aborted("fault")
  PROVE  Lifecycle!Correct(j)
<1> DEFINE phase == [k \in Jobs |-> LastStatus(k)]
           answer == [k \in Jobs |-> result[k].exitCode]
           reason == [k \in Jobs |-> result[k].error]
<1>1. /\ result[j].exitCode = "minusOne" /\ result'[j].exitCode = "minusOne"
      /\ result[j].error = "timeout" /\ result'[j].error = "fault"
  BY DEF Aborted
<1>2. phase' = phase /\ phase[j] = "FINISHED_WITH_ERROR"
  BY LastStatusStays
<1>3. answer' = answer /\ answer[j] = "minusOne"
  BY <1>1
<1>4. reason' = [reason EXCEPT ![j] = "fault"] /\ reason[j] = "timeout"
  BY <1>1
<1> QED BY <1>2, <1>3, <1>4 DEF Lifecycle!Correct

\* Nothing a client can see changes.
LEMMA NothingSeen ==
  ASSUME UNCHANGED <<log, result>>
  PROVE  UNCHANGED Lifecycle!vars
BY LastStatusStays DEF Lifecycle!vars

LEMMA CallRefines ==
  ASSUME "db" \notin Faults, TypeInv, CommitInv, ResultInv, OwnInv, LifeInv, NEW s \in Slots,
         ProcessJob(s) \/ CallFails(s), ~Complete(s), ~Fail(s)
  PROVE  [Lifecycle!Next]_(Lifecycle!vars)
<1> USE DEF TypeInv
<1>1. WaitsOnly(s) \/ WritesOnce(s)
  BY CallEffect
<1>2. run[s].pc # "idle"
  BY <1>1 DEF WaitsOnly, WritesOnce, Moves
<1>3. PICK j \in Jobs :
        /\ run[s].job = j /\ LifeAt(run[s], LastStatus(j), result[j])
  BY <1>2, OwnFacts
<1>4. CASE WaitsOnly(s)
  BY <1>4, NothingSeen DEF WaitsOnly
<1>5. ASSUME NEW status, Writes(s, status)
      PROVE  Lifecycle!Move(j, LastStatus(j), status)
  <2>1. LastStatus(j)' = status /\ \A k \in Jobs : k # j => LastStatus(k)' = LastStatus(k)
    BY <1>3, <1>5, WriteEffect
  <2>2. UNCHANGED result
    BY <1>5 DEF Writes
  <2> QED BY <2>1, <2>2, WriteMoves
<1>6. ASSUME NEW columns, Updates(s, columns),
             \/ columns = result[j]
             \/ /\ LastStatus(j) \in Pending /\ result[j] = NoResult
                /\ columns \in {Succeeded} \cup Failures
                /\ columns # Aborted("fault") => LastStatus(j) = "RUNNING"
             \/ /\ LastStatus(j) = "FINISHED_WITH_ERROR" /\ result[j] = Aborted("timeout")
                /\ columns = Aborted("fault")
      PROVE  [Lifecycle!Next]_(Lifecycle!vars)
  <2>1. UNCHANGED log /\ result' = [result EXCEPT ![j] = columns]
    BY <1>3, <1>6 DEF Updates
  <2>2. result \in [Jobs -> Result]
    BY DEF TypeOK
  <2>3. result'[j] = columns /\ \A k \in Jobs : k # j => result'[k] = result[k]
    BY <2>1, <2>2
  <2>4. CASE columns = result[j]
    <3>1. result' = result
      BY <2>1, <2>2, <2>4
    <3> QED BY <2>1, <3>1, NothingSeen
  <2>5. CASE /\ LastStatus(j) \in Pending /\ result[j] = NoResult
             /\ columns \in {Succeeded} \cup Failures
             /\ columns # Aborted("fault") => LastStatus(j) = "RUNNING"
    <3>1. /\ result[j].exitCode = "null"
          /\ columns.exitCode \in {"zero", "nonzero", "minusOne"}
          /\ columns.error \in {"null", "output", "timeout", "fault"}
          /\ Lifecycle!Explains(columns.error, columns.exitCode)
          /\ columns.error # "fault" => LastStatus(j) = "RUNNING"
      BY <2>5 DEF NoResult, Succeeded, Failures, Ended, Aborted, Lifecycle!Explains
    <3>2. Lifecycle!Answer(j)
      BY <2>1, <2>3, <2>5, <3>1, UpdateAnswers
    <3> QED BY <3>2 DEF Lifecycle!Next
  <2>6. CASE /\ LastStatus(j) = "FINISHED_WITH_ERROR" /\ result[j] = Aborted("timeout")
             /\ columns = Aborted("fault")
    <3>1. Lifecycle!Correct(j)
      BY <2>1, <2>3, <2>6, UpdateCorrects
    <3> QED BY <3>1 DEF Lifecycle!Next
  <2> QED BY <1>6, <2>4, <2>5, <2>6
<1> DEFINE answer == [k \in Jobs |-> result[k].exitCode]
<1>7. answer[j] = result[j].exitCode
  OBVIOUS
<1>8. /\ NoResult.exitCode = "null" /\ Succeeded.exitCode = "zero"
      /\ Ended.exitCode = "nonzero" /\ \A text : Aborted(text).exitCode = "minusOne"
  BY DEF NoResult, Succeeded, Ended, Aborted
<1>9. CASE WritesOnce(s)
  <2>1. CASE Moves(s, "logReady", {"accessFile"}) /\ Writes(s, "READY")
    <3>1. LastStatus(j) = "QUEUED" /\ answer[j] = "null"
      BY <1>3, <1>8, <2>1 DEF LifeAt, Moves
    <3>2. Lifecycle!MakeReady(j)
      BY <1>5, <2>1, <3>1 DEF Lifecycle!MakeReady
    <3> QED BY <3>2 DEF Lifecycle!Next
  <2>2. CASE Moves(s, "logRunning", {"create"}) /\ Writes(s, "RUNNING")
    <3>1. LastStatus(j) = "READY" /\ answer[j] = "null"
      BY <1>3, <1>8, <2>2 DEF LifeAt, Moves
    <3>2. Lifecycle!Run(j)
      BY <1>5, <2>2, <3>1 DEF Lifecycle!Run
    <3> QED BY <3>2 DEF Lifecycle!Next
  <2>3. CASE Moves(s, "recordResult", {"logResult"}) /\ Updates(s, Columns(s))
    BY <1>3, <1>6, <2>3, ColumnValues DEF LifeAt, Moves, Pending, Failures
  <2>4. CASE Moves(s, "logResult", {"complete"}) /\ Writes(s, Outcome(s))
    <3>1. LastStatus(j) = "RUNNING"
      BY <1>3, <2>4 DEF LifeAt, Moves
    <3>2. CASE run[s].exit = "zero"
      <4>1. Outcome(s) = "FINISHED_WITH_SUCCESS" /\ answer[j] = "zero"
        BY <1>3, <1>8, <2>4, <3>2 DEF LifeAt, Moves, Outcome
      <4>2. Lifecycle!Succeed(j)
        BY <1>5, <2>4, <3>1, <4>1 DEF Lifecycle!Succeed
      <4> QED BY <4>2 DEF Lifecycle!Next
    <3>3. CASE run[s].exit # "zero"
      <4>1. Outcome(s) = "FINISHED_WITH_ERROR" /\ answer[j] = "nonzero"
        BY <1>3, <1>8, <2>4, <3>3 DEF LifeAt, Moves, Outcome
      <4>2. Lifecycle!EndWithError(j)
        BY <1>5, <2>4, <3>1, <4>1 DEF Lifecycle!EndWithError
      <4> QED BY <4>2 DEF Lifecycle!Next
    <3> QED BY <3>2, <3>3
  <2>5. CASE /\ Moves(s, "recordTimeout", {"logTimeout"})
            /\ Updates(s, WithError(run[s].job, "timeout"))
    BY <1>3, <1>6, <2>5, ColumnValues DEF LifeAt, Moves, Pending, Failures, Caught
  <2>6. CASE Moves(s, "logTimeout", {"recordFailure"}) /\ Writes(s, "FINISHED_WITH_ERROR")
    <3>1. LastStatus(j) = "RUNNING" /\ answer[j] = "minusOne"
      BY <1>3, <1>8, <2>6 DEF LifeAt, Moves
    <3>2. Lifecycle!EndWithError(j)
      BY <1>5, <2>6, <3>1 DEF Lifecycle!EndWithError
    <3> QED BY <3>2 DEF Lifecycle!Next
  <2>7. CASE /\ Moves(s, "recordFailure", {"logFailed"})
             /\ Updates(s, WithError(run[s].job, run[s].thrown))
    <3> DEFINE columns == WithError(run[s].job, run[s].thrown)
    <3>1. /\ run[s].thrown \in {"timeout", "fault"}
          /\ \/ /\ LastStatus(j) \in Pending /\ result[j] = NoResult
                /\ run[s].thrown = "fault"
             \/ LastStatus(j) = "FINISHED_WITH_ERROR" /\ result[j] = Aborted("timeout")
      BY <1>3, <2>7 DEF LifeAt, Moves, Caught
    <3>2. columns = Aborted(run[s].thrown)
      BY <1>3, <3>1, ColumnValues DEF Caught
    <3>3. Updates(s, columns)
      BY <2>7
    <3> HIDE DEF columns
    <3>4. CASE LastStatus(j) \in Pending
      <4>1. result[j] = NoResult /\ columns = Aborted("fault")
        BY <3>1, <3>2, <3>4 DEF Pending
      <4>2. columns \in Failures
        BY <4>1 DEF Failures
      <4> QED BY <1>6, <3>3, <3>4, <4>1, <4>2
    <3>5. CASE LastStatus(j) \notin Pending
      <4>1. LastStatus(j) = "FINISHED_WITH_ERROR" /\ result[j] = Aborted("timeout")
        BY <3>1, <3>5
      <4>2. columns = result[j] \/ columns = Aborted("fault")
        BY <3>1, <3>2, <4>1
      <4> QED BY <1>6, <3>3, <4>1, <4>2
    <3> QED BY <3>4, <3>5
  <2>8. CASE Moves(s, "logFailed", {"fail"}) /\ Writes(s, "FAILED")
    <3>1. LastStatus(j) \in Pending \cup {"FINISHED_WITH_ERROR"} /\ answer[j] = "minusOne"
      BY <1>3, <1>8, <2>8 DEF LifeAt, Moves
    <3>2. Lifecycle!GiveUp(j)
      BY <1>5, <2>8, <3>1 DEF Lifecycle!GiveUp, Lifecycle!Unfinished, Pending
    <3> QED BY <3>2 DEF Lifecycle!Next
  <2> QED
    BY <1>9, <2>1, <2>2, <2>3, <2>4, <2>5, <2>6, <2>7, <2>8 DEF WritesOnce
<1> QED BY <1>1, <1>4, <1>9

LEMMA StepRefines ==
  ASSUME "db" \notin Faults, "stall" \notin Faults, "crash" \notin Faults,
         TypeInv, CommitInv, ResultInv, OwnInv, LifeInv, [Next]_vars
  PROVE  [Lifecycle!Next]_(Lifecycle!vars)
<1> USE NothingSeen
<1>1. CASE UNCHANGED vars
  BY <1>1 DEF vars, dbVars
<1>2. ASSUME NEW j \in Jobs, CommitJob(j) PROVE Lifecycle!Next
  <2>1. log[j] = <<>>
    BY <1>2 DEF CommitJob, LifeInv, Handled
  <2>2. /\ log'[j] = <<[status |-> "QUEUED", at |-> 0]>> /\ UNCHANGED result
        /\ \A k \in Jobs : k # j => log'[k] = log[k]
    BY <1>2 DEF CommitJob, TypeInv, TypeOK
  <2>3. LastStatus(j) = "none" /\ LastStatus(j)' = "QUEUED"
    BY <2>1, <2>2 DEF LastStatus
  <2>4. \A k \in Jobs : k # j => LastStatus(k)' = LastStatus(k)
    BY <2>2 DEF LastStatus
  <2>5. Lifecycle!Move(j, "none", "QUEUED")
    BY <2>2, <2>3, <2>4, WriteMoves
  <2> QED BY <2>5 DEF Lifecycle!Next, Lifecycle!Submit
<1>3. ASSUME NEW j \in Jobs, Api(j) PROVE [Lifecycle!Next]_(Lifecycle!vars)
  <2>1. CASE \/ RejectUpload(j) \/ StoreFile(j) \/ PublishJob(j) \/ AcceptRequest(j)
             \/ RequestFails(j)
    BY <2>1 DEF RejectUpload, StoreFile, PublishJob, AcceptRequest, RequestFails, dbVars
  <2> QED BY <1>2, <1>3, <2>1 DEF Api
<1>4. ASSUME NEW s \in Slots, ProcessJob(s) \/ CallFails(s)
      PROVE  [Lifecycle!Next]_(Lifecycle!vars)
  <2>1. CASE Complete(s) \/ Fail(s)
    BY <2>1 DEF Complete, Fail, Settle, dbVars
  <2> QED BY <1>4, <2>1, CallRefines
<1>5. ASSUME NEW s \in Slots, NEW j \in Jobs, Deliver(s, j) PROVE UNCHANGED Lifecycle!vars
  BY <1>5 DEF Deliver, dbVars
<1>6. ASSUME NEW c \in Jobs \X Deliveries, ContainerExits(c) PROVE UNCHANGED Lifecycle!vars
  BY <1>6 DEF ContainerExits, dbVars
<1>7. CASE Crash \/ Shutdown \/ Closed \/ Restart
  BY <1>7 DEF Crash, Shutdown, Closed, Restart, dbVars
<1>8. ASSUME NEW j \in Jobs, MoveStalledJob(j) PROVE UNCHANGED Lifecycle!vars
  BY <1>8 DEF MoveStalledJob, dbVars
<1> QED BY <1>1, <1>3, <1>4, <1>5, <1>6, <1>7, <1>8 DEF Next

\* What the API shows of a job follows JobLifecycle, whatever Docker and the file
\* system do, requests that fail and shutdowns included.
THEOREM PipelineFollowsLifecycle ==
  ASSUME "db" \notin Faults, "stall" \notin Faults, "crash" \notin Faults
  PROVE  Spec => FollowsLifecycle
<1>1. Init => Lifecycle!Init
  BY DEF Init, Lifecycle!Init, LastStatus, NoResult
<1>2. /\ TypeInv /\ CommitInv /\ ResultInv /\ OwnInv /\ LifeInv /\ [Next]_vars
      => [Lifecycle!Next]_(Lifecycle!vars)
  BY StepRefines
<1> QED BY <1>1, <1>2, LifeInvariant, PTL DEF Spec, FollowsLifecycle, Lifecycle!Spec

Finished == INSTANCE JobLifecycleProofs WITH
  phase  <- [j \in Jobs |-> LastStatus(j)],
  answer <- [j \in Jobs |-> result[j].exitCode],
  reason <- [j \in Jobs |-> result[j].error]

\* Both instances are of the same module.
LEMMA SameLifecycle ==
  /\ Lifecycle!Init => Finished!Init
  /\ [Lifecycle!Next]_(Lifecycle!vars) => [Finished!Next]_(Finished!vars)
<1>1. Lifecycle!Init => Finished!Init
  BY DEF Lifecycle!Init, Finished!Init
<1>2. Lifecycle!vars = Finished!vars /\ Lifecycle!vars' = Finished!vars'
  BY DEF Lifecycle!vars, Finished!vars
<1>3. Lifecycle!Next => Finished!Next
  BY DEF Lifecycle!Next, Finished!Next, Lifecycle!Submit, Finished!Submit,
         Lifecycle!MakeReady, Finished!MakeReady, Lifecycle!Run, Finished!Run,
         Lifecycle!Answer, Finished!Answer, Lifecycle!Correct, Finished!Correct,
         Lifecycle!Texts, Finished!Texts, Lifecycle!Explains, Finished!Explains,
         Lifecycle!Succeed, Finished!Succeed,
         Lifecycle!EndWithError, Finished!EndWithError, Lifecycle!GiveUp, Finished!GiveUp,
         Lifecycle!Move, Finished!Move, Lifecycle!Unfinished, Finished!Unfinished,
         Lifecycle!Answers, Finished!Answers
<1> QED BY <1>1, <1>2, <1>3

\* What JobLifecycle promises of a finished job holds of the pipeline: its
\* verdict and exit code stay, and its error text changes only where a
\* container.wait() that rejected was recorded as a timeout.
THEOREM PipelineVerdictStands ==
  ASSUME "db" \notin Faults, "stall" \notin Faults, "crash" \notin Faults
  PROVE  Spec => Finished!VerdictStands
<1>1. Spec => Finished!Spec
  BY PipelineFollowsLifecycle, SameLifecycle, PTL
     DEF FollowsLifecycle, Lifecycle!Spec, Finished!Spec
<1> QED BY <1>1, Finished!VerdictIsFinal, PTL

LEMMA FinishedInvariant ==
  ASSUME "db" \notin Faults, "stall" \notin Faults, "crash" \notin Faults
  PROVE  Spec => []Finished!Inv
BY PipelineFollowsLifecycle, SameLifecycle, Finished!InvInit, Finished!InvStep, PTL
   DEF FollowsLifecycle, Lifecycle!Spec

\* The row is as it was printed, but for a timeout that was corrected.
Restated(printed, row) ==
  row = printed \/ (printed = Aborted("timeout") /\ row = Aborted("fault"))

\* A settled job stays settled, and its columns stay, but for the text of a
\* timeout that was none.
LEMMA SettledStands ==
  ASSUME TypeInv, LifeInv, TypeInv', LifeInv', Finished!Inv, [Finished!Next]_(Finished!vars),
         NEW j \in Jobs, Settled(j)
  PROVE  Settled(j)' /\ Restated(result[j], result'[j])
<1> DEFINE phase == [k \in Jobs |-> LastStatus(k)]
           answer == [k \in Jobs |-> result[k].exitCode]
           reason == [k \in Jobs |-> result[k].error]
<1>1. phase[j] = LastStatus(j) /\ answer[j] = result[j].exitCode /\ reason[j] = result[j].error
  OBVIOUS
<1>2. /\ phase'[j] = LastStatus(j)' /\ answer'[j] = result'[j].exitCode
      /\ reason'[j] = result'[j].error
  OBVIOUS
<1>3. History(j) /\ History(j)'
  BY DEF LifeInv
<1>4. phase[j] \in Finished!Terminal
  BY <1>1, <1>3 DEF History, Terminal, Finished!Terminal
<1>5. /\ LastStatus(j)' \in Terminal /\ result'[j].exitCode = result[j].exitCode
      /\ \/ result'[j].error = result[j].error
         \/ result[j].error = "timeout" /\ result'[j].error = "fault"
  BY <1>1, <1>2, <1>4, Finished!FinishedStep DEF Terminal, Finished!Terminal
<1>6. Settled(j)'
  <2>1. log'[j] \in Seq(LogEntry)
    BY DEF TypeInv, TypeOK
  <2>2. log'[j] # <<>> /\ LastStatus(j)' = log'[j][Len(log'[j])].status
    BY <1>5 DEF LastStatus, Terminal
  <2>3. Len(log'[j]) \in DOMAIN log'[j]
    BY <2>1, <2>2
  <2> QED BY <1>5, <2>2, <2>3 DEF Settled
<1>7. result[j] \in {Succeeded} \cup Failures
  BY <1>3 DEF History, Agrees, Settled
<1>8. result'[j] \in {Succeeded} \cup Failures
  BY <1>3, <1>6 DEF History, Agrees, Settled
<1>9. /\ Succeeded.exitCode = "zero" /\ Ended.exitCode = "nonzero"
      /\ \A text : Aborted(text).exitCode = "minusOne" /\ Aborted(text).error = text
  BY DEF Succeeded, Ended, Aborted
<1>10. Restated(result[j], result'[j])
  BY <1>5, <1>7, <1>8, <1>9 DEF Failures, Restated
<1> QED BY <1>6, <1>10

--------------------------------------------------------------------------------
(* The "run code" menu *)

\* The menu only reads: under it the pipeline is what it is without it.
LEMMA ClientStep == [ClientNext]_clientVars => [Next]_vars
BY DEF ClientNext, clientVars, Client, PollTerminal, PollAgain, GiveUpPolling, PollFails

LEMMA ClientReads == ClientSpec => Spec
<1>1. ClientInit => Init
  BY DEF ClientInit
<1> QED BY <1>1, ClientStep, PTL DEF ClientSpec, Spec

--------------------------------------------------------------------------------
(* The types of the menu *)

Screen == [polls : 0 .. MaxPolls, message : Message, job : Result]

LEMMA ShowType ==
  ASSUME TypeOK, screen \in [Jobs -> Screen], NEW j \in Jobs, screen[j].polls < MaxPolls,
         NEW message \in Message, NEW job \in Result, Show(j, message, job)
  PROVE  screen' \in [Jobs -> Screen]
<1>1. screen[j].polls + 1 \in 0 .. MaxPolls
  BY MaxPollsAssumption DEF Screen
<1>2. [polls |-> screen[j].polls + 1, message |-> message, job |-> job] \in Screen
  BY <1>1 DEF Screen
<1> QED BY <1>2 DEF Show

\* The menu polls at most MaxPolls times, whatever it is answered.
THEOREM ClientTypeCorrect == ClientSpec => []ClientTypeOK
<1>1. NoResult \in Result
  BY DEF NoResult, Result, ExitCode, ErrorText
<1>2. ClientInit => screen \in [Jobs -> Screen]
  <2>1. NotShown \in Screen
    BY <1>1, MaxPollsAssumption DEF NotShown, Screen, Message
  <2> QED BY <2>1 DEF ClientInit
<1>3. TypeOK /\ screen \in [Jobs -> Screen] /\ [ClientNext]_clientVars
      => (screen \in [Jobs -> Screen])'
  <2> SUFFICES ASSUME TypeOK, screen \in [Jobs -> Screen], [ClientNext]_clientVars
               PROVE  screen' \in [Jobs -> Screen]
    OBVIOUS
  <2>1. CASE UNCHANGED clientVars \/ (Next /\ UNCHANGED screen)
    BY <2>1 DEF clientVars
  <2>2. ASSUME NEW j \in Jobs, Client(j) PROVE screen' \in [Jobs -> Screen]
    <3>1. CASE PollTerminal(j)
      BY <3>1, ShowType DEF PollTerminal, Message, TypeOK
    <3>2. CASE PollAgain(j)
      BY <1>1, <3>2, ShowType DEF PollAgain, Message
    <3>3. CASE GiveUpPolling(j)
      <4>1. [screen[j] EXCEPT !.message = "gaveUp"] \in Screen
        BY DEF Screen, Message
      <4> QED BY <3>3, <4>1 DEF GiveUpPolling
    <3>4. CASE PollFails(j)
      BY <1>1, <3>4, ShowType DEF PollFails, Message
    <3> QED BY <2>2, <3>1, <3>2, <3>3, <3>4 DEF Client
  <2> QED BY <2>1, <2>2 DEF ClientNext
<1>4. ClientTypeOK <=> TypeOK /\ screen \in [Jobs -> Screen]
  BY DEF ClientTypeOK, Screen
<1> QED BY <1>2, <1>3, <1>4, ClientReads, TypeCorrect, PTL DEF ClientSpec

--------------------------------------------------------------------------------
(* What is on the screen *)

\* A verdict on the screen is that of a settled job, whose columns are shown, but
\* for a timeout that was corrected since.
ShownInv ==
  \A j \in Jobs :
    /\ screen[j].message = "success" =>
         Settled(j) /\ screen[j].job = Succeeded /\ result[j] = Succeeded
    /\ screen[j].message = "failure" =>
         /\ Settled(j)
         /\ screen[j].job \in Failures /\ result[j] \in Failures
         /\ Restated(screen[j].job, result[j])

\* A terminal status that is reported settles the job.
LEMMA ReportedSettles ==
  ASSUME LifeInv, NEW j \in Jobs, NEW status \in Reported(j) \cap Terminal
  PROVE  /\ Settled(j)
         /\ IF status = "FINISHED_WITH_SUCCESS" THEN result[j] = Succeeded
                                                ELSE result[j] \in Failures
BY DEF LifeInv, History, Agrees, Reported, Settled

LEMMA ShowEffect ==
  ASSUME ClientTypeOK, NEW j \in Jobs, NEW message, NEW job, Show(j, message, job)
  PROVE  /\ screen'[j].message = message /\ screen'[j].job = job
         /\ \A k \in Jobs : k # j => screen'[k] = screen[k]
BY DEF ClientTypeOK, Show

LEMMA ShownInvStep ==
  ASSUME ClientTypeOK, TypeInv, LifeInv, TypeInv', LifeInv', Finished!Inv,
         [Finished!Next]_(Finished!vars), ShownInv, [ClientNext]_clientVars
  PROVE  ShownInv'
<1>1. ASSUME UNCHANGED screen PROVE ShownInv'
  <2>1. ASSUME NEW j \in Jobs, Settled(j)
        PROVE  Settled(j)' /\ Restated(result[j], result'[j])
    BY <2>1, SettledStands
  <2>2. ASSUME NEW j \in Jobs, screen[j].message = "success"
        PROVE  Settled(j)' /\ screen[j].job = Succeeded /\ result'[j] = Succeeded
    BY <2>1, <2>2, VerdictsDiffer DEF ShownInv, Restated, Failures
  <2>3. ASSUME NEW j \in Jobs, screen[j].message = "failure"
        PROVE  /\ Settled(j)'
               /\ screen[j].job \in Failures /\ result'[j] \in Failures
               /\ Restated(screen[j].job, result'[j])
    BY <2>1, <2>3, VerdictsDiffer DEF ShownInv, Restated, Failures
  <2>4. \A j \in Jobs : Restated(screen[j].job, result[j])' <=> Restated(screen[j].job, result'[j])
    BY <1>1 DEF Restated
  <2> QED BY <1>1, <2>2, <2>3, <2>4 DEF ShownInv
<1>2. ASSUME NEW j \in Jobs, UNCHANGED vars,
             \A k \in Jobs : k # j => screen'[k] = screen[k],
             \/ screen'[j].message \notin {"success", "failure"}
             \/ /\ screen'[j].message = "success" /\ screen'[j].job = result[j]
                /\ Settled(j) /\ result[j] = Succeeded
             \/ /\ screen'[j].message = "failure" /\ screen'[j].job = result[j]
                /\ Settled(j) /\ result[j] \in Failures
      PROVE  ShownInv'
  <2>1. UNCHANGED <<log, result>>
    BY <1>2 DEF vars, dbVars
  <2> QED BY <1>2, <2>1 DEF ShownInv, Settled, Restated
<1>3. ASSUME NEW j \in Jobs, Client(j) PROVE ShownInv'
  <2>1. CASE PollTerminal(j)
    <3>1. PICK status \in Reported(j) \cap Terminal :
            Show(j, IF status = "FINISHED_WITH_SUCCESS" THEN "success" ELSE "failure", result[j])
      BY <2>1 DEF PollTerminal
    <3>2. /\ screen'[j].message = IF status = "FINISHED_WITH_SUCCESS" THEN "success"
                                                                     ELSE "failure"
          /\ screen'[j].job = result[j] /\ \A k \in Jobs : k # j => screen'[k] = screen[k]
      BY <3>1, ShowEffect
    <3>3. UNCHANGED vars
      BY <2>1 DEF PollTerminal
    <3> QED BY <1>2, <3>2, <3>3, ReportedSettles
  <2>2. CASE PollAgain(j)
    BY <1>2, <2>2, ShowEffect DEF PollAgain
  <2>3. CASE GiveUpPolling(j)
    <3>1. screen'[j].message = "gaveUp" /\ \A k \in Jobs : k # j => screen'[k] = screen[k]
      BY <2>3 DEF GiveUpPolling, ClientTypeOK
    <3> QED BY <1>2, <2>3, <3>1 DEF GiveUpPolling
  <2>4. CASE PollFails(j)
    BY <1>2, <2>4, ShowEffect DEF PollFails
  <2> QED BY <1>3, <2>1, <2>2, <2>3, <2>4 DEF Client
<1> QED BY <1>1, <1>3 DEF ClientNext, clientVars

LEMMA ShownInvariant ==
  ASSUME "db" \notin Faults, "stall" \notin Faults, "crash" \notin Faults
  PROVE  ClientSpec => [](LifeInv /\ ShownInv)
<1>1. ClientInit => ShownInv
  <2>1. NotShown.message = "running"
    BY DEF NotShown
  <2> QED BY <2>1 DEF ClientInit, ShownInv
<1>2. ClientSpec => [](TypeInv /\ CommitInv /\ ResultInv /\ OwnInv /\ LifeInv)
  BY LifeInvariant, ClientReads, PTL
<1>3. ClientSpec => []Finished!Inv
  BY FinishedInvariant, ClientReads, PTL
<1>4. /\ TypeInv /\ CommitInv /\ ResultInv /\ OwnInv /\ LifeInv
      /\ TypeInv' /\ LifeInv' /\ Finished!Inv /\ ClientTypeOK /\ ShownInv
      /\ [ClientNext]_clientVars
      => ShownInv'
  <2> SUFFICES ASSUME TypeInv, CommitInv, ResultInv, OwnInv, LifeInv, TypeInv', LifeInv',
                      Finished!Inv, ClientTypeOK, ShownInv, [ClientNext]_clientVars
               PROVE  ShownInv'
    OBVIOUS
  <2>1. [Finished!Next]_(Finished!vars)
    BY ClientStep, StepRefines, SameLifecycle
  <2> QED BY <2>1, ShownInvStep
<1> QED BY <1>1, <1>2, <1>3, <1>4, ClientTypeCorrect, PTL DEF ClientSpec

\* The menu shows a verdict only with the columns it stands for, all from one
\* response: output and exit code 0, or an error text and another code.
THEOREM ShownComplete ==
  ASSUME "db" \notin Faults, "stall" \notin Faults, "crash" \notin Faults
  PROVE  ClientSpec => []ShownJobIsComplete
<1>1. ShownInv => ShownJobIsComplete
  <2>1. /\ Ended.error = "output" /\ Ended.exitCode = "nonzero"
        /\ \A text : Aborted(text).error = text /\ Aborted(text).exitCode = "minusOne"
    BY DEF Ended, Aborted
  <2>2. Succeeded = [output |-> TRUE, error |-> "null", exitCode |-> "zero"]
    BY DEF Succeeded
  <2>3. \A job \in Failures :
          job.exitCode \in {"nonzero", "minusOne"} /\ Lifecycle!Explains(job.error, job.exitCode)
    BY <2>1 DEF Failures, Lifecycle!Explains
  <2> QED BY <2>2, <2>3 DEF ShownInv, ShownJobIsComplete
<1> QED BY <1>1, ShownInvariant, PTL

\* What the menu printed stays true, although it stops at the first terminal
\* status: the FAILED that follows a timeout changes neither the verdict nor the
\* output nor the exit code, and of the error text only "Execution timeout (30s)",
\* into the message of the error that was taken for a timeout.
THEOREM ShownStands ==
  ASSUME "db" \notin Faults, "stall" \notin Faults, "crash" \notin Faults
  PROVE  ClientSpec => []ShownVerdictStands
<1>1. \A printed, row : Restated(printed, row) => StillReads(row, printed)
  <2>1. Aborted("timeout").error = "timeout"
    BY DEF Aborted
  <2>2. Aborted("fault") = [Aborted("timeout") EXCEPT !.error = "fault"]
    <3> DEFINE corrected == [Aborted("timeout") EXCEPT !.error = "fault"]
    <3>1. /\ Aborted("fault") \in Result /\ Aborted("fault").output = FALSE
          /\ Aborted("fault").error = "fault" /\ Aborted("fault").exitCode = "minusOne"
      BY DEF Aborted, Result, ErrorText, ExitCode
    <3>2. /\ corrected \in Result /\ corrected.output = FALSE
          /\ corrected.error = "fault" /\ corrected.exitCode = "minusOne"
      BY DEF Aborted, Result, ErrorText, ExitCode
    <3> HIDE DEF corrected
    <3>3. Aborted("fault") = corrected
      BY <3>1, <3>2, ResultEqual
    <3> QED BY <3>3 DEF corrected
  <2> QED BY <2>1, <2>2 DEF Restated, StillReads
<1>2. LifeInv /\ ShownInv => ShownVerdictStands
  <2> SUFFICES ASSUME LifeInv, ShownInv, NEW j \in Jobs,
                      screen[j].message \in {"success", "failure"}
               PROVE  /\ StillReads(result[j], screen[j].job)
                      /\ \A status \in Reported(j) \cap Terminal :
                           (status = "FINISHED_WITH_SUCCESS") <=> (screen[j].message = "success")
    BY DEF ShownVerdictStands
  <2>1. Restated(screen[j].job, result[j])
    BY DEF ShownInv, Restated
  <2>2. screen[j].message = "success" <=> result[j] = Succeeded
    BY VerdictsDiffer DEF ShownInv
  <2>3. ASSUME NEW status \in Reported(j) \cap Terminal
        PROVE  (status = "FINISHED_WITH_SUCCESS") <=> (result[j] = Succeeded)
    BY <2>3, ReportedSettles, VerdictsDiffer
  <2> QED BY <1>1, <2>1, <2>2, <2>3
<1> QED BY <1>2, ShownInvariant, PTL
================================================================================
