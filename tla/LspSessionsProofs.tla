--------------------------- MODULE LspSessionsProofs ---------------------------
(***************************************************************************)
(* The containers of the language server sessions, for every number of      *)
(* sessions, calls, overlapping scans and cleanups, and every set of faults.*)
(***************************************************************************)
EXTENDS LspSessions, TLAPS

--------------------------------------------------------------------------------
(* The types *)

\* The shared DEFs of the leaves: the tuples of variables.
USE DEF vars, apiVars, workerVars, failVars

LEMMA DataType == NoData \in Data
BY DEF NoData, Data

LEMMA SetexType ==
  ASSUME TypeOK, NEW s \in Sessions, NEW ttl \in 0 .. TTL, NEW data \in Data, Setex(s, ttl, data)
  PROVE  key' \in [Sessions -> Key \cup {NoKey}]
BY DEF TypeOK, Setex, Key

LEMMA ExpireInType ==
  ASSUME TypeOK, NEW s \in Sessions, NEW ttl \in 0 .. TTL, ExpireIn(s, ttl)
  PROVE  key' \in [Sessions -> Key \cup {NoKey}]
<1>1. key[s] # NoKey => [key[s] EXCEPT !.ttl = ttl] \in Key
  BY DEF TypeOK, Key
<1> QED BY <1>1 DEF TypeOK, ExpireIn

LEMMA TtlType == ASSUME TypeOK, NEW s \in Sessions PROVE TtlOf(s) \in 0 .. TTL
BY TTLAssumption DEF TypeOK, TtlOf, Live, Key

LEMMA KeyType ==
  ASSUME TypeOK, NEW s \in Sessions, Live(s)
  PROVE  key[s].data \in Data /\ key[s].data.id \in Ids \cup {NoId} /\ key[s].ttl \in 0 .. TTL
BY DEF TypeOK, Live, Key, Data

\* A handler, a scan, a cleanup and an entry of the shutdown that move on.
LEMMA CallGotoType ==
  ASSUME TypeOK, NEW r \in Calls, NEW pc \in {"get", "mkdir", "write", "ttl", "setex", "done", "failed"},
         CallGoto(r, pc)
  PROVE  call' \in [Calls -> Call]
BY DEF TypeOK, CallGoto, Call

LEMMA ScanGotoType ==
  ASSUME TypeOK, NEW k \in Scans,
         NEW pc \in {"next", "get", "mkdir", "create", "start", "reload", "ttl", "setex"}, ScanGoto(k, pc)
  PROVE  scan' \in [Scans -> Scan]
<1>1. [scan[k] EXCEPT !.pc = pc] \in Scan
  BY DEF TypeOK, Scan
<1> QED BY <1>1 DEF TypeOK, ScanGoto

LEMMA CleanupGotoType ==
  ASSUME TypeOK, NEW k \in Cleanups, NEW pc \in {"next", "stop", "remove", "rm"}, CleanupGoto(k, pc)
  PROVE  cleanup' \in [Cleanups -> Cleanup]
<1>1. [cleanup[k] EXCEPT !.pc = pc] \in Cleanup
  BY DEF TypeOK, Cleanup
<1> QED BY <1>1 DEF TypeOK, CleanupGoto

LEMMA ShutdownGotoType ==
  ASSUME TypeOK, NEW s \in Sessions, NEW pc \in {"remove", "rm", "failed", "done"}, ShutdownGoto(s, pc)
  PROVE  shutdown' \in [Sessions -> Stopping]
BY DEF TypeOK, ShutdownGoto, Stopping

LEMMA FaultType == ASSUME TypeOK, NEW kind, Fault(kind) PROVE faults' \in 0 .. MaxFaults
BY MaxFaultsAssumption DEF TypeOK, Fault

\* A container changes its state only.
LEMMA ContainerType ==
  ASSUME TypeOK, NEW i, NEW state \in {"running", "exited", "absent"},
         container' = [container EXCEPT ![i].state = state]
  PROVE  container' \in [Ids -> Container]
<1>1. i \in Ids => [container[i] EXCEPT !.state = state] \in Container
  BY DEF TypeOK, Container
<1> QED BY <1>1 DEF TypeOK

LEMMA MakeDirectoryType ==
  ASSUME TypeOK, NEW s \in Sessions, MakeDirectory(s)
  PROVE  directory' \in [Sessions -> (SUBSET Files) \cup {NoDir}]
BY DEF TypeOK, MakeDirectory

--------------------------------------------------------------------------------
(* Every step keeps the types *)

LEMMA EnvironmentType ==
  ASSUME TypeOK, NEW s \in Sessions, Tick \/ Expire(s)
  PROVE  TypeOK'
<1>1. CASE Tick
  <2>1. key' \in [Sessions -> Key \cup {NoKey}]
    <3>1. ASSUME NEW q \in Sessions, Live(q) PROVE [key[q] EXCEPT !.ttl = @ - 1] \in Key
      <4>1. key[q] \in Key /\ key[q].ttl > 0
        BY <1>1, <3>1 DEF TypeOK, Live, Tick
      <4> QED BY <4>1, TTLAssumption DEF Key
    <3> QED BY <1>1, <3>1 DEF Tick
  <2>2. renewal' \in [Sessions -> {"idle", "due", "expire"}]
    BY <1>1 DEF Tick
  <2> QED BY <1>1, <2>1, <2>2 DEF Tick, TypeOK
<1>2. CASE Expire(s)
  BY <1>2 DEF Expire, TypeOK
<1> QED BY <1>1, <1>2

LEMMA CliType ==
  ASSUME TypeOK, NEW s \in Sessions, Cli(s) \/ Renew(s) \/ RenewFails(s)
  PROVE  TypeOK'
<1>1. CASE CreateSession(s)
  <2>1. key' \in [Sessions -> Key \cup {NoKey}]
    BY <1>1, SetexType, DataType, TTLAssumption DEF CreateSession
  <2> QED BY <1>1, <2>1 DEF CreateSession, TypeOK
<1>2. CASE Open(s) \/ OpenFails(s) \/ Prompt(s) \/ AnswerPrompt(s)
  BY <1>2 DEF Open, OpenFails, Prompt, AnswerPrompt, CliMoves, TypeOK
<1>3. CASE CloseSession(s)
  BY <1>3 DEF CloseSession, TypeOK
<1>4. CASE RenewGet(s)
  BY <1>4 DEF RenewGet, TypeOK
<1>5. CASE RenewExpire(s)
  <2>1. key' \in [Sessions -> Key \cup {NoKey}]
    BY <1>5, ExpireInType, TTLAssumption DEF RenewExpire
  <2> QED BY <1>5, <2>1 DEF RenewExpire, TypeOK
<1>6. CASE RenewFails(s)
  BY <1>6, FaultType DEF RenewFails, TypeOK
<1> QED BY <1>1, <1>2, <1>3, <1>4, <1>5, <1>6 DEF Cli, Renew

\* A call of the CLI or of the gateway that comes in.
LEMMA ReceiveTakes ==
  ASSUME NEW r, Receive(r)
  PROVE  \E kind \in Kinds, s \in Sessions, f \in Files :
           /\ kind = "upload" => Holding(s)
           /\ kind = "activity" => client[s] # "none" /\ Connectable(s)
           /\ call' = [call EXCEPT ![r].kind = kind, ![r].session = s, ![r].file = f, ![r].pc = "get"]
BY Zenon DEF Receive

LEMMA CallType ==
  ASSUME TypeOK, NEW r \in Calls, Receive(r) \/ Handle(r) \/ CallRedisFails(r)
  PROVE  TypeOK'
<1> USE DEF Call
<1>0. call[r] \in Call /\ call[r].session \in Sessions
  BY DEF TypeOK
<1>1. ASSUME call' \in [Calls -> Call],
             key' \in [Sessions -> Key \cup {NoKey}],
             directory' \in [Sessions -> (SUBSET Files) \cup {NoDir}],
             faults' \in 0 .. MaxFaults,
             UNCHANGED <<client, renewal, container, workerVars, shutdown, missed>>
      PROVE  TypeOK'
  BY <1>1 DEF TypeOK
<1>2. /\ key \in [Sessions -> Key \cup {NoKey}] /\ faults \in 0 .. MaxFaults
      /\ directory \in [Sessions -> (SUBSET Files) \cup {NoDir}]
  BY DEF TypeOK
<1>3. CASE Receive(r)
  <2>1. PICK kind \in Kinds, s \in Sessions, f \in Files :
          /\ kind = "upload" => Holding(s)
          /\ kind = "activity" => client[s] # "none" /\ Connectable(s)
          /\ call' = [call EXCEPT ![r].kind = kind, ![r].session = s, ![r].file = f, ![r].pc = "get"]
    BY <1>3, ReceiveTakes
  <2>2. [call[r] EXCEPT !.kind = kind, !.session = s, !.file = f, !.pc = "get"] \in Call
    BY <1>0, KindsAssumption
  <2>3. call' = [call EXCEPT ![r] = [call[r] EXCEPT !.kind = kind, !.session = s, !.file = f,
                                        !.pc = "get"]]
    BY <2>1 DEF TypeOK
  <2>4. call' \in [Calls -> Call]
    BY <2>2, <2>3 DEF TypeOK
  <2> QED BY <1>1, <1>2, <1>3, <2>4 DEF Receive
<1>4. CASE GetSession(r)
  <2>1. call' \in [Calls -> Call]
    <3>1. CASE Live(call[r].session)
      <4> DEFINE pc == IF call[r].kind = "upload" THEN "mkdir" ELSE "setex"
                 data == key[call[r].session].data
                 n == [call[r] EXCEPT !.data = data, !.pc = pc, !.ttl = TTL]
      <4>1. pc \in {"mkdir", "setex"} /\ data \in Data /\ TTL \in 0 .. TTL
        BY <1>0, <3>1, KeyType, TTLAssumption
      <4>2. call' = [call EXCEPT ![r] = n]
        BY <1>4, <3>1 DEF GetSession, TypeOK
      <4>3. n \in Call
        <5> HIDE DEF pc, data
        <5> QED BY <1>0, <4>1
      <4> QED BY <4>2, <4>3 DEF TypeOK
    <3>2. CASE ~Live(call[r].session)
      BY <1>4, <3>2, CallGotoType DEF GetSession
    <3> QED BY <3>1, <3>2
  <2> QED BY <1>1, <1>2, <1>4, <2>1 DEF GetSession
<1>5. CASE UploadMkdir(r)
  BY <1>0, <1>1, <1>2, <1>5, CallGotoType, MakeDirectoryType DEF UploadMkdir
<1>6. CASE UploadWrite(r)
  <2>1. CASE directory[call[r].session] = NoDir
    BY <1>1, <1>2, <1>6, <2>1, CallGotoType DEF UploadWrite
  <2>2. CASE directory[call[r].session] # NoDir
    <3> DEFINE n == [call[r] EXCEPT !.pc = "ttl", !.data.files = @ \cup {call[r].file}]
    <3>1. call[r].data \in Data /\ call[r].file \in Files
      BY <1>0
    <3>2. [call[r].data EXCEPT !.files = @ \cup {call[r].file}] \in Data
      BY <3>1 DEF Data
    <3>3. n \in Call
      BY <1>0, <3>2
    <3>4. call' = [call EXCEPT ![r] = n]
      BY <1>6, <2>2 DEF UploadWrite, TypeOK
    <3>5. call' \in [Calls -> Call]
      BY <3>3, <3>4 DEF TypeOK
    <3>6. directory' \in [Sessions -> (SUBSET Files) \cup {NoDir}]
      BY <1>0, <1>6, <2>2, <3>1 DEF UploadWrite, TypeOK
    <3> QED BY <1>1, <1>2, <1>6, <3>5, <3>6 DEF UploadWrite
  <2> QED BY <2>1, <2>2
<1>7. CASE UploadTtl(r)
  <2> DEFINE ttl == TtlOf(call[r].session)
             n == [call[r] EXCEPT !.pc = IF ttl > 0 THEN "setex" ELSE "done", !.ttl = ttl]
  <2>1. ttl \in 0 .. TTL
    BY <1>0, TtlType
  <2>2. n \in Call
    <3> HIDE DEF ttl
    <3> QED BY <1>0, <2>1
  <2>3. call' \in [Calls -> Call]
    BY <1>7, <2>2 DEF UploadTtl, TypeOK
  <2> QED BY <1>1, <1>2, <1>7, <2>3 DEF UploadTtl
<1>8. CASE CallSetex(r)
  <2>1. call[r].ttl \in 0 .. TTL /\ call[r].data \in Data
    BY <1>0
  <2> QED BY <1>0, <1>1, <1>2, <1>8, <2>1, CallGotoType, SetexType DEF CallSetex
<1>9. CASE CallRedisFails(r)
  BY <1>1, <1>2, <1>9, CallGotoType, FaultType DEF CallRedisFails
<1> QED BY <1>3, <1>4, <1>5, <1>6, <1>7, <1>8, <1>9 DEF Handle

LEMMA ScanType ==
  ASSUME TypeOK, NEW k \in Scans, ScanAndCreate(k) \/ ScanDockerFails(k) \/ ScanRedisFails(k)
  PROVE  TypeOK'
<1> DEFINE s == scan[k].session
<1>0. scan[k] \in Scan /\ s \in Sessions
  BY DEF TypeOK, Scan
<1>1. ASSUME scan' \in [Scans -> Scan],
             key' \in [Sessions -> Key \cup {NoKey}],
             directory' \in [Sessions -> (SUBSET Files) \cup {NoDir}],
             containerMap' \in [Sessions -> Ids \cup {NoId}],
             container' \in [Ids -> Container],
             faults' \in 0 .. MaxFaults,
             UNCHANGED <<apiVars, cleanup, shutdown, missed>>
      PROVE  TypeOK'
  BY <1>1 DEF TypeOK
<1>2. /\ scan \in [Scans -> Scan] /\ key \in [Sessions -> Key \cup {NoKey}]
      /\ directory \in [Sessions -> (SUBSET Files) \cup {NoDir}]
      /\ containerMap \in [Sessions -> Ids \cup {NoId}] /\ container \in [Ids -> Container]
      /\ faults \in 0 .. MaxFaults
  BY DEF TypeOK
<1>3. IdleScan \in Scan
  BY <1>0, TTLAssumption, DataType DEF IdleScan, AnySession, Scan
<1> HIDE DEF s
<1>4. CASE ScanStart(k)
  <2>1. [IdleScan EXCEPT !.pc = "next", !.todo = {q \in Sessions : Live(q)}] \in Scan
    BY <1>3 DEF Scan
  <2> QED BY <1>1, <1>2, <1>4, <2>1 DEF ScanStart
<1>5. CASE ScanNext(k)
  <2>1. PICK q \in scan[k].todo :
          scan' = [scan EXCEPT ![k].todo = @ \ {q}, ![k].session = q,
                     ![k].pc = IF containerMap[q] # NoId THEN "next" ELSE "get"]
    BY <1>5 DEF ScanNext
  <2> DEFINE pc == IF containerMap[q] # NoId THEN "next" ELSE "get"
             n == [scan[k] EXCEPT !.todo = @ \ {q}, !.session = q, !.pc = pc]
  <2>2. pc \in {"next", "get"} /\ q \in Sessions
    BY <1>0, <2>1 DEF Scan
  <2>3. scan' = [scan EXCEPT ![k] = n]
    BY <2>1, <1>2
  <2>4. n \in Scan
    <3> HIDE DEF pc
    <3> QED BY <1>0, <2>2 DEF Scan
  <2>5. scan' \in [Scans -> Scan]
    BY <1>2, <2>3, <2>4
  <2> QED BY <1>1, <1>2, <1>5, <2>5 DEF ScanNext
<1>6. CASE ScanEnd(k)
  BY <1>1, <1>2, <1>3, <1>6 DEF ScanEnd
<1>7. CASE ScanGet(k)
  <2>1. scan' \in [Scans -> Scan]
    BY <1>7, ScanGotoType DEF ScanGet
  <2>2. containerMap' \in [Sessions -> Ids \cup {NoId}]
    BY <1>0, <1>2, <1>7, KeyType DEF ScanGet, s
  <2> QED BY <1>1, <1>2, <1>7, <2>1, <2>2 DEF ScanGet
<1>8. CASE ScanMkdir(k)
  BY <1>0, <1>1, <1>2, <1>8, ScanGotoType, MakeDirectoryType DEF ScanMkdir, s
<1>9. CASE ScanCreate(k)
  <2>1. CASE NameInUse(s) /\ ScanGoto(k, "next") /\ UNCHANGED container
    BY <1>1, <1>2, <1>9, <2>1, ScanGotoType DEF ScanCreate
  <2>2. ASSUME NEW i \in Ids,
               container' = [container EXCEPT ![i] = [session |-> s, state |-> "created"]],
               scan' = [scan EXCEPT ![k].id = i, ![k].pc = "start"]
        PROVE  TypeOK'
    <3>1. container' \in [Ids -> Container]
      BY <1>0, <1>2, <2>2 DEF Container
    <3>2. [scan[k] EXCEPT !.id = i, !.pc = "start"] \in Scan
      BY <1>0 DEF Scan
    <3>3. scan' = [scan EXCEPT ![k] = [scan[k] EXCEPT !.id = i, !.pc = "start"]]
      BY <1>2, <2>2
    <3>4. scan' \in [Scans -> Scan]
      BY <1>2, <3>2, <3>3
    <3> QED BY <1>1, <1>2, <1>9, <3>1, <3>4 DEF ScanCreate
  <2> QED BY <1>9, <2>1, <2>2 DEF ScanCreate, s
<1>10. CASE ScanLaunch(k)
  <2>1. container' \in [Ids -> Container]
    BY <1>10, ContainerType DEF ScanLaunch
  <2>2. containerMap' \in [Sessions -> Ids \cup {NoId}]
    BY <1>0, <1>2, <1>10 DEF ScanLaunch, Scan
  <2> QED BY <1>1, <1>2, <1>10, <2>1, <2>2, ScanGotoType DEF ScanLaunch
<1>11. CASE ScanReload(k)
  <2>1. CASE ~Live(s)
    BY <1>1, <1>2, <1>11, <2>1, ScanGotoType DEF ScanReload, s
  <2>2. CASE Live(s)
    <3> DEFINE data == [key[s].data EXCEPT !.id = scan[k].id]
               n == [scan[k] EXCEPT !.data = data, !.pc = "ttl"]
    <3>1. data \in Data
      BY <1>0, <2>2, KeyType DEF Data, Scan
    <3>2. n \in Scan
      <4> HIDE DEF data
      <4> QED BY <1>0, <3>1 DEF Scan
    <3>3. scan' = [scan EXCEPT ![k] = n]
      BY <1>2, <1>11, <2>2 DEF ScanReload, s
    <3>4. scan' \in [Scans -> Scan]
      BY <1>2, <3>2, <3>3
    <3> QED BY <1>1, <1>2, <1>11, <3>4 DEF ScanReload
  <2> QED BY <2>1, <2>2
<1>12. CASE ScanTtl(k)
  <2> DEFINE ttl == TtlOf(s)
             n == [scan[k] EXCEPT !.pc = IF ttl > 0 THEN "setex" ELSE "next", !.ttl = ttl]
  <2>1. ttl \in 0 .. TTL
    BY <1>0, TtlType
  <2>2. n \in Scan
    <3> HIDE DEF ttl
    <3> QED BY <1>0, <2>1 DEF Scan
  <2>3. scan' = [scan EXCEPT ![k] = n]
    BY <1>2, <1>12 DEF ScanTtl, s
  <2>4. scan' \in [Scans -> Scan]
    BY <1>2, <2>2, <2>3
  <2> QED BY <1>1, <1>2, <1>12, <2>4 DEF ScanTtl
<1>13. CASE ScanSetex(k)
  <2>1. scan[k].ttl \in 0 .. TTL /\ scan[k].data \in Data
    BY <1>0 DEF Scan
  <2> QED BY <1>0, <1>1, <1>2, <1>13, <2>1, ScanGotoType, SetexType DEF ScanSetex, s
<1>14. CASE ScanDockerFails(k)
  <2>1. [scan[k] EXCEPT !.pc = "next", !.id = NoId] \in Scan
    BY <1>0 DEF Scan
  <2>2. scan' = [scan EXCEPT ![k] = [scan[k] EXCEPT !.pc = "next", !.id = NoId]]
    BY <1>2, <1>14 DEF ScanDockerFails
  <2>3. scan' \in [Scans -> Scan]
    BY <1>2, <2>1, <2>2
  <2> QED BY <1>1, <1>2, <1>14, <2>3, FaultType DEF ScanDockerFails
<1>15. CASE ScanRedisFails(k)
  <2>1. scan' \in [Scans -> Scan]
    BY <1>2, <1>3, <1>15, ScanGotoType DEF ScanRedisFails
  <2> QED BY <1>1, <1>2, <1>15, <2>1, FaultType DEF ScanRedisFails
<1> QED BY <1>4, <1>5, <1>6, <1>7, <1>8, <1>9, <1>10, <1>11, <1>12, <1>13, <1>14, <1>15
        DEF ScanAndCreate

LEMMA CleanupType ==
  ASSUME TypeOK, NEW k \in Cleanups,
         CleanExpired(k) \/ CleanupDockerFails(k) \/ CleanupRedisFails(k)
  PROVE  TypeOK'
<1>0. cleanup[k] \in Cleanup /\ cleanup \in [Cleanups -> Cleanup]
  BY DEF TypeOK
<1>1. ASSUME cleanup' \in [Cleanups -> Cleanup],
             directory' \in [Sessions -> (SUBSET Files) \cup {NoDir}],
             containerMap' \in [Sessions -> Ids \cup {NoId}],
             container' \in [Ids -> Container],
             faults' \in 0 .. MaxFaults,
             UNCHANGED <<apiVars, key, scan, shutdown, missed>>
      PROVE  TypeOK'
  BY <1>1 DEF TypeOK
<1>2. /\ directory \in [Sessions -> (SUBSET Files) \cup {NoDir}] /\ faults \in 0 .. MaxFaults
      /\ containerMap \in [Sessions -> Ids \cup {NoId}] /\ container \in [Ids -> Container]
  BY DEF TypeOK
<1>3. IdleCleanup \in Cleanup
  BY <1>0 DEF IdleCleanup, AnySession, Cleanup
<1>4. CASE CleanupStart(k)
  <2>1. [IdleCleanup EXCEPT !.pc = "next"] \in Cleanup
    BY <1>3 DEF Cleanup
  <2> QED BY <1>0, <1>1, <1>2, <1>4, <2>1 DEF CleanupStart
<1>5. CASE CleanupNext(k)
  <2>1. PICK s \in Unseen(k) :
          \/ cleanup' = [cleanup EXCEPT ![k].seen = @ \cup {s}]
          \/ cleanup' = [cleanup EXCEPT ![k].seen = @ \cup {s}, ![k].cleaned = @ \cup {s},
                           ![k].session = s, ![k].id = containerMap[s], ![k].pc = "stop"]
    BY <1>5 DEF CleanupNext
  <2> DEFINE seen == [cleanup[k] EXCEPT !.seen = @ \cup {s}]
             gone == [cleanup[k] EXCEPT !.seen = @ \cup {s}, !.cleaned = @ \cup {s},
                                        !.session = s, !.id = containerMap[s], !.pc = "stop"]
  <2>2. s \in Sessions /\ containerMap[s] \in Ids \cup {NoId}
    BY <1>2, <2>1 DEF Unseen
  <2>3. seen \in Cleanup /\ gone \in Cleanup
    BY <1>0, <2>2 DEF Cleanup
  <2>4. \/ cleanup' = [cleanup EXCEPT ![k] = seen]
        \/ cleanup' = [cleanup EXCEPT ![k] = gone]
    BY <1>0, <2>1
  <2>5. cleanup' \in [Cleanups -> Cleanup]
    <3> HIDE DEF seen, gone
    <3> QED BY <1>0, <2>3, <2>4
  <2> QED BY <1>1, <1>2, <1>5, <2>5 DEF CleanupNext
<1>6. CASE CleanupEnd(k)
  BY <1>0, <1>1, <1>2, <1>3, <1>6 DEF CleanupEnd
<1>7. CASE StopContainer(k)
  BY <1>1, <1>2, <1>7, CleanupGotoType, ContainerType DEF StopContainer
<1>8. CASE RemoveContainer(k)
  BY <1>1, <1>2, <1>8, CleanupGotoType, ContainerType DEF RemoveContainer
<1>9. CASE RemoveDirectory(k)
  BY <1>1, <1>2, <1>9, CleanupGotoType DEF RemoveDirectory
<1>10. CASE CleanupDockerFails(k)
  BY <1>1, <1>2, <1>10, CleanupGotoType, FaultType DEF CleanupDockerFails
<1>11. CASE CleanupRedisFails(k)
  BY <1>0, <1>1, <1>2, <1>3, <1>11, FaultType DEF CleanupRedisFails
<1> QED BY <1>4, <1>5, <1>6, <1>7, <1>8, <1>9, <1>10, <1>11 DEF CleanExpired

LEMMA RestartType ==
  ASSUME TypeOK, Restart, faults' \in 0 .. MaxFaults
  PROVE  TypeOK'
<1>1. ASSUME NEW k \in Scans PROVE IdleScan \in Scan
  <2>1. scan[k] \in Scan
    BY DEF TypeOK
  <2> QED BY <2>1, TTLAssumption, DataType DEF IdleScan, AnySession, Scan
<1>2. ASSUME NEW k \in Cleanups PROVE IdleCleanup \in Cleanup
  <2>1. cleanup[k] \in Cleanup
    BY DEF TypeOK
  <2> QED BY <2>1 DEF IdleCleanup, AnySession, Cleanup
<1>3. NotStopping \in Stopping
  BY DEF NotStopping, Stopping
<1> QED BY <1>1, <1>2, <1>3 DEF Restart, TypeOK

LEMMA ShutdownType ==
  ASSUME TypeOK, StopAll \/ Sigterm \/ \E s \in Sessions : ShutdownDockerFails(s)
  PROVE  TypeOK'
<1>1. ASSUME shutdown' \in [Sessions -> Stopping],
             directory' \in [Sessions -> (SUBSET Files) \cup {NoDir}],
             container' \in [Ids -> Container],
             faults' \in 0 .. MaxFaults,
             UNCHANGED <<apiVars, key, workerVars, missed>>
      PROVE  TypeOK'
  BY <1>1 DEF TypeOK
<1>2. /\ directory \in [Sessions -> (SUBSET Files) \cup {NoDir}] /\ faults \in 0 .. MaxFaults
      /\ containerMap \in [Sessions -> Ids \cup {NoId}] /\ container \in [Ids -> Container]
  BY DEF TypeOK
<1>3. CASE Sigterm
  <2>1. shutdown' \in [Sessions -> Stopping]
    BY <1>2, <1>3 DEF Sigterm, Stopping
  <2> QED BY <1>1, <1>2, <1>3, <2>1, FaultType DEF Sigterm
<1>4. CASE ShutdownEnds
  BY <1>2, <1>4, RestartType DEF ShutdownEnds
<1>5. ASSUME NEW s \in Sessions, ShutdownStep(s) PROVE TypeOK'
  <2>1. shutdown' \in [Sessions -> Stopping]
    BY <1>5, ShutdownGotoType DEF ShutdownStep
  <2>2. container' \in [Ids -> Container]
    BY <1>2, <1>5, ContainerType DEF ShutdownStep
  <2>3. directory' \in [Sessions -> (SUBSET Files) \cup {NoDir}]
    BY <1>2, <1>5 DEF ShutdownStep
  <2> QED BY <1>1, <1>2, <1>5, <2>1, <2>2, <2>3 DEF ShutdownStep
<1>6. ASSUME NEW s \in Sessions, ShutdownDockerFails(s) PROVE TypeOK'
  BY <1>1, <1>2, <1>6, ShutdownGotoType, FaultType DEF ShutdownDockerFails
<1> QED BY <1>3, <1>4, <1>5, <1>6 DEF StopAll

LEMMA InitType == Init => TypeOK
<1> SUFFICES ASSUME Init PROVE TypeOK
  OBVIOUS
<1>1. AnySession \in Sessions /\ (CHOOSE f \in Files : TRUE) \in Files
  BY SomeAssumption DEF AnySession
<1>2. IdleScan \in Scan /\ IdleCleanup \in Cleanup /\ NewCall \in Call
  BY <1>1, DataType, TTLAssumption DEF IdleScan, IdleCleanup, NewCall, Scan, Cleanup, Call
<1>3. [s \in Sessions |-> NotStopping] \in [Sessions -> Stopping]
  BY DEF NotStopping, Stopping
<1>4. [i \in Ids |-> [session |-> AnySession, state |-> "absent"]] \in [Ids -> Container]
  BY <1>1 DEF Container
<1> QED BY <1>2, <1>3, <1>4, MaxFaultsAssumption DEF Init, TypeOK

LEMMA NextType == TypeOK /\ [Next]_vars => TypeOK'
<1> SUFFICES ASSUME TypeOK, [Next]_vars PROVE TypeOK'
  OBVIOUS
<1>1. CASE Crash
  BY <1>1, RestartType, FaultType DEF Crash
<1>2. CASE UNCHANGED vars
  BY <1>2 DEF TypeOK
<1>3. CASE Tick
  <2>1. PICK s \in Sessions : Live(s)
    BY <1>3 DEF Tick
  <2> QED BY <1>3, <2>1, EnvironmentType
<1> QED BY <1>1, <1>2, <1>3, EnvironmentType, CliType, CallType, ScanType, CleanupType, ShutdownType
        DEF Next, Fail

\* Every variable keeps its type.
THEOREM TypeCorrect == Spec => []TypeOK
BY InitType, NextType, PTL DEF Spec

--------------------------------------------------------------------------------
(* One container per session *)

\* The names alone are not enough: a scan that has created its container will
\* start it later, by its id.  Until then nobody else starts, stops or removes it.
InHand(k) == scan[k].pc = "start"

Names ==
  /\ OneContainerPerSession
  /\ \A k \in Scans : InHand(k) =>
       scan[k].id \in Ids /\ container[scan[k].id].state = "created"
  /\ \A k, l \in Scans : InHand(k) /\ InHand(l) /\ k # l => scan[k].id # scan[l].id

\* Steps that create and start nothing: only running and exited containers move.
LEMMA NamesKept ==
  ASSUME TypeOK, Names,
         \A i \in Ids :
           \/ container'[i] = container[i]
           \/ /\ container[i].state \in {"running", "exited"}
              /\ container'[i].session = container[i].session,
         \A k \in Scans : InHand(k)' => InHand(k) /\ scan'[k].id = scan[k].id
  PROVE  Names'
<1>1. \A i \in Ids : container'[i].session = container[i].session /\ (Exists(i)' => Exists(i))
  BY DEF Exists
<1>2. OneContainerPerSession'
  BY <1>1 DEF Names, OneContainerPerSession
<1>3. ASSUME NEW k \in Scans, InHand(k)'
      PROVE  scan'[k].id \in Ids /\ container'[scan'[k].id].state = "created"
  BY <1>3 DEF Names
<1>4. \A k, l \in Scans : InHand(k)' /\ InHand(l)' /\ k # l => scan'[k].id # scan'[l].id
  BY DEF Names
<1> QED BY <1>2, <1>3, <1>4 DEF Names, InHand

LEMMA NamesCreate ==
  ASSUME TypeOK, Names, NEW k \in Scans, ScanCreate(k)
  PROVE  Names'
<1> DEFINE s == scan[k].session
<1>1. CASE ScanGoto(k, "next") /\ UNCHANGED container
  <2>1. \A l \in Scans : InHand(l)' => InHand(l) /\ scan'[l].id = scan[l].id
    BY <1>1 DEF ScanGoto, InHand, TypeOK, Scan
  <2> QED BY <1>1, <2>1, NamesKept
<1>2. ASSUME ~NameInUse(s), NEW i \in Ids, ~Exists(i),
             container' = [container EXCEPT ![i] = [session |-> s, state |-> "created"]],
             scan' = [scan EXCEPT ![k].id = i, ![k].pc = "start"]
      PROVE  Names'
  <2>1. /\ container'[i] = [session |-> s, state |-> "created"]
        /\ \A n \in Ids \ {i} : container'[n] = container[n]
    BY <1>2 DEF TypeOK
  <2>2. /\ scan'[k].id = i /\ InHand(k)'
        /\ \A l \in Scans \ {k} : scan'[l] = scan[l]
    BY <1>2 DEF InHand, TypeOK, Scan
  <2>3. \A n \in Ids : Exists(n) => container[n].session # s /\ n # i
    BY <1>2 DEF NameInUse
  <2>4. ASSUME NEW n \in Ids, NEW m \in Ids, Exists(n)', Exists(m)',
               container'[n].session = container'[m].session
        PROVE  n = m
    <3>1. CASE n = i /\ m # i
      <4>1. Exists(m) /\ container[m].session = s
        BY <2>1, <2>4, <3>1 DEF Exists
      <4> QED BY <2>3, <4>1
    <3>2. CASE n # i /\ m = i
      <4>1. Exists(n) /\ container[n].session = s
        BY <2>1, <2>4, <3>2 DEF Exists
      <4> QED BY <2>3, <4>1
    <3>3. CASE n # i /\ m # i
      BY <2>1, <2>4, <3>3 DEF Names, OneContainerPerSession, Exists
    <3> QED BY <3>1, <3>2, <3>3
  <2>5. ASSUME NEW l \in Scans \ {k}, InHand(l)'
        PROVE  scan'[l].id \in Ids \ {i} /\ container'[scan'[l].id].state = "created"
    <3>1. scan[l].id \in Ids /\ container[scan[l].id].state = "created"
      BY <2>2, <2>5 DEF InHand, Names
    <3>2. scan[l].id # i
      BY <1>2, <3>1 DEF Exists
    <3> QED BY <2>1, <2>2, <3>1, <3>2
  <2>6. ASSUME NEW l \in Scans, InHand(l)'
        PROVE  scan'[l].id \in Ids /\ container'[scan'[l].id].state = "created"
    BY <2>1, <2>2, <2>5, <2>6
  <2>7. ASSUME NEW l \in Scans, NEW m \in Scans, InHand(l)', InHand(m)', l # m
        PROVE  scan'[l].id # scan'[m].id
    <3>1. CASE l = k \/ m = k
      BY <2>2, <2>5, <2>7, <3>1
    <3>2. CASE l # k /\ m # k
      BY <2>2, <2>7, <3>2 DEF Names, InHand
    <3> QED BY <3>1, <3>2
  <2> QED BY <2>4, <2>6, <2>7 DEF Names, OneContainerPerSession
<1> QED BY <1>1, <1>2 DEF ScanCreate, Fresh

LEMMA NamesLaunch ==
  ASSUME TypeOK, Names, NEW k \in Scans, ScanLaunch(k)
  PROVE  Names'
<1> DEFINE i == scan[k].id
<1>1. InHand(k) /\ i \in Ids /\ container[i].state = "created"
  BY DEF ScanLaunch, InHand, Names
<1>2. /\ container'[i] = [container[i] EXCEPT !.state = "running"]
      /\ \A n \in Ids \ {i} : container'[n] = container[n]
  BY <1>1 DEF ScanLaunch, TypeOK
<1>3. container'[i].session = container[i].session
  BY <1>1, <1>2 DEF TypeOK, Container
<1>4. ~InHand(k)' /\ \A l \in Scans \ {k} : scan'[l] = scan[l]
  BY DEF ScanLaunch, ScanGoto, InHand, TypeOK, Scan
<1>5. OneContainerPerSession'
  <2>1. ASSUME NEW n \in Ids
        PROVE  container'[n].session = container[n].session /\ (Exists(n)' => Exists(n))
    <3>1. CASE n = i
      BY <1>1, <1>3, <3>1 DEF Exists
    <3>2. CASE n # i
      BY <1>2, <3>2 DEF Exists
    <3> QED BY <3>1, <3>2
  <2> QED BY <2>1 DEF Names, OneContainerPerSession
<1>6. ASSUME NEW l \in Scans, InHand(l)'
      PROVE  l # k /\ scan'[l] = scan[l] /\ InHand(l) /\ scan[l].id # i
  BY <1>1, <1>4, <1>6 DEF Names, InHand
<1>7. ASSUME NEW l \in Scans, InHand(l)'
      PROVE  scan'[l].id \in Ids /\ container'[scan'[l].id].state = "created"
  BY <1>2, <1>6, <1>7 DEF Names
<1>8. \A l, m \in Scans : InHand(l)' /\ InHand(m)' /\ l # m => scan'[l].id # scan'[m].id
  BY <1>6 DEF Names
<1> QED BY <1>5, <1>7, <1>8 DEF Names

\* The other steps of the scanner put no container in hand.
LEMMA NamesScan ==
  ASSUME TypeOK, Names, NEW k \in Scans, ScanAndCreate(k) \/ ScanDockerFails(k) \/ ScanRedisFails(k)
  PROVE  Names'
<1>1. ASSUME UNCHANGED container, ~InHand(k)', \A l \in Scans \ {k} : scan'[l] = scan[l]
      PROVE  Names'
  BY <1>1, NamesKept DEF InHand
<1> USE DEF InHand, TypeOK, Scan
<1>2. CASE ScanStart(k)
  <2>1. /\ scan'[k] = [IdleScan EXCEPT !.pc = "next", !.todo = {s \in Sessions : Live(s)}]
        /\ \A l \in Scans \ {k} : scan'[l] = scan[l]
        /\ UNCHANGED container
    BY <1>2 DEF ScanStart
  <2>2. scan'[k].pc = "next"
    BY <2>1 DEF IdleScan
  <2> QED BY <1>1, <2>1, <2>2
<1>7. CASE ScanEnd(k)
  BY <1>1, <1>7 DEF ScanEnd, IdleScan
<1>6. CASE ScanNext(k)
  <2>1. PICK s \in scan[k].todo :
          scan' = [scan EXCEPT ![k].todo = @ \ {s}, ![k].session = s,
                     ![k].pc = IF containerMap[s] # NoId THEN "next" ELSE "get"]
    BY <1>6 DEF ScanNext
  <2>2. scan'[k].pc \in {"next", "get"}
    BY <2>1
  <2>3. \A l \in Scans \ {k} : scan'[l] = scan[l]
    BY <2>1
  <2>4. UNCHANGED container
    BY <1>6 DEF ScanNext
  <2> QED BY <1>1, <2>2, <2>3, <2>4
<1>3. CASE ScanGet(k) \/ ScanMkdir(k) \/ ScanSetex(k)
  BY <1>1, <1>3 DEF ScanGet, ScanMkdir, ScanSetex, ScanGoto
<1>4. CASE ScanReload(k) \/ ScanTtl(k)
  BY <1>1, <1>4 DEF ScanReload, ScanTtl, ScanGoto
<1>5. CASE ScanDockerFails(k) \/ ScanRedisFails(k)
  BY <1>1, <1>5 DEF ScanDockerFails, ScanRedisFails, ScanGoto, IdleScan
<1> QED BY <1>2, <1>3, <1>4, <1>5, <1>6, <1>7, NamesCreate, NamesLaunch DEF ScanAndCreate

\* Only what runs is stopped, and only what has exited is removed.
LEMMA NamesStop ==
  ASSUME TypeOK, Names,
         (\E k \in Cleanups : CleanExpired(k) \/ CleanupDockerFails(k) \/ CleanupRedisFails(k))
         \/ \E s \in Sessions : ShutdownStep(s)
  PROVE  Names'
<1>1. UNCHANGED scan
  BY DEF CleanExpired, CleanupStart, CleanupNext, CleanupEnd, StopContainer, RemoveContainer,
         RemoveDirectory, CleanupDockerFails, CleanupRedisFails, ShutdownStep
<1>2. ASSUME NEW i, container[i].state \in {"running", "exited"}, NEW state,
             container' = [container EXCEPT ![i].state = state]
      PROVE  Names'
  <2>1. \A n \in Ids : \/ container'[n] = container[n]
                       \/ /\ container[n].state \in {"running", "exited"}
                          /\ container'[n].session = container[n].session
    BY <1>2 DEF TypeOK, Container
  <2> QED BY <1>1, <2>1, NamesKept DEF InHand
<1>3. ASSUME UNCHANGED container PROVE Names'
  BY <1>1, <1>3, NamesKept DEF InHand
<1>4. ASSUME NEW k \in Cleanups, CleanExpired(k) \/ CleanupDockerFails(k) \/ CleanupRedisFails(k)
      PROVE  Names'
  <2>1. CASE StopContainer(k) \/ RemoveContainer(k)
    BY <1>2, <1>3, <2>1 DEF StopContainer, RemoveContainer
  <2>2. CASE ~(StopContainer(k) \/ RemoveContainer(k))
    BY <1>3, <1>4, <2>2 DEF CleanExpired, CleanupStart, CleanupNext, CleanupEnd, RemoveDirectory,
                            CleanupDockerFails, CleanupRedisFails
  <2> QED BY <2>1, <2>2
<1>5. ASSUME NEW s \in Sessions, ShutdownStep(s) PROVE Names'
  BY <1>2, <1>3, <1>5 DEF ShutdownStep
<1> QED BY <1>4, <1>5

LEMMA NamesNext == TypeOK /\ Names /\ [Next]_vars => Names'
<1> SUFFICES ASSUME TypeOK, Names, [Next]_vars PROVE Names'
  OBVIOUS
<1>1. ASSUME UNCHANGED <<container, scan>> PROVE Names'
  BY <1>1, NamesKept DEF InHand
<1>2. ASSUME Restart PROVE Names'
  <2>1. UNCHANGED container /\ \A k \in Scans : ~InHand(k)'
    BY <1>2 DEF Restart, InHand, IdleScan
  <2> QED BY <2>1, NamesKept
<1>3. CASE Crash \/ ShutdownEnds
  BY <1>2, <1>3 DEF Crash, ShutdownEnds
<1>4. ASSUME NEW s \in Sessions, Expire(s) \/ Cli(s) \/ Renew(s) \/ RenewFails(s) \/ ShutdownDockerFails(s)
      PROVE  Names'
  BY <1>1, <1>4 DEF Expire, Cli, CreateSession, Open, OpenFails, Prompt, AnswerPrompt, CliMoves,
                    CloseSession, Renew, RenewGet, RenewExpire, RenewFails, ShutdownDockerFails
<1>5. ASSUME NEW r \in Calls, Receive(r) \/ Handle(r) \/ CallRedisFails(r) PROVE Names'
  BY <1>1, <1>5 DEF Receive, Handle, GetSession, UploadMkdir, UploadWrite, UploadTtl, CallSetex,
                    CallRedisFails
<1>6. CASE Tick \/ Sigterm \/ UNCHANGED vars
  BY <1>1, <1>6 DEF Tick, Sigterm
<1> QED BY <1>3, <1>4, <1>5, <1>6, NamesScan, NamesStop DEF Next, StopAll, Fail

\* However scans, restarts, shutdowns and Docker errors overlap, a session never
\* has two containers.
THEOREM OneContainer == Spec => []OneContainerPerSession
<1>1. Init => Names
  BY DEF Init, Names, OneContainerPerSession, Exists, InHand, IdleScan
<1>2. Names => OneContainerPerSession
  BY DEF Names
<1> QED BY <1>1, <1>2, InitType, NextType, NamesNext, PTL DEF Spec

--------------------------------------------------------------------------------
(* A shutdown stops what it knows *)

\* An id that is read somewhere, to be stopped, named or taken over later, belongs
\* to a container that has been started.
Launched(i)     == i \in Ids => container[i].state # "created"
LaunchedNext(i) == i \in Ids => container'[i].state # "created"

KeyKnown      == \A s \in Sessions : Live(s) => Launched(key[s].data.id)
MapKnown      == \A s \in Sessions : Launched(containerMap[s])
CallKnown     == \A r \in Calls : Launched(call[r].data.id)
ScanKnown     == \A k \in Scans :
  Launched(scan[k].data.id) /\ (scan[k].pc = "reload" => Launched(scan[k].id))
CleanupKnown  == \A k \in Cleanups : Launched(cleanup[k].id)
Halted(s)     == shutdown[s].pc \in {"remove", "rm", "done"} /\ shutdown[s].id \in Ids
                   => container[shutdown[s].id].state # "running"
ShutdownKnown == \A s \in Sessions : Launched(shutdown[s].id) /\ Halted(s)

Known == KeyKnown /\ MapKnown /\ CallKnown /\ ScanKnown /\ CleanupKnown /\ ShutdownKnown

\* No container that has been started becomes a created one, and none that a
\* shutdown has stopped runs again.
Preserved ==
  /\ \A i : Launched(i) => LaunchedNext(i)
  /\ \A i \in Ids : container[i].state \notin {"running", "created"} =>
       container'[i].state \notin {"running", "created"}

\* A step that leaves the containers alone starts and stops none.
LEMMA SameContainers == ASSUME UNCHANGED container PROVE Preserved
BY DEF Preserved, Launched, LaunchedNext

\* Stopping or removing containers takes none back to running.
LEMMA FewerContainers ==
  ASSUME TypeOK, NEW i, container[i].state # "created", NEW state \in {"exited", "absent"},
         container' = [container EXCEPT ![i].state = state]
  PROVE  Preserved
<1>1. \A n \in Ids : container'[n] = container[n] \/ container'[n].state = state
  BY DEF TypeOK, Container
<1> QED BY <1>1 DEF Preserved, Launched, LaunchedNext

\* What a step leaves alone stays known.
LEMMA Unmoved ==
  ASSUME Known, Preserved
  PROVE  /\ UNCHANGED key => KeyKnown'
         /\ UNCHANGED containerMap => MapKnown'
         /\ UNCHANGED call => CallKnown'
         /\ UNCHANGED scan => ScanKnown'
         /\ UNCHANGED cleanup => CleanupKnown'
         /\ UNCHANGED shutdown => ShutdownKnown'
<1> USE DEF Known, Preserved, Launched, LaunchedNext
<1>1. UNCHANGED key => KeyKnown'
  BY DEF KeyKnown, Live
<1>2. UNCHANGED containerMap => MapKnown'
  BY DEF MapKnown
<1>3. UNCHANGED call => CallKnown'
  BY DEF CallKnown
<1>4. UNCHANGED scan => ScanKnown'
  BY DEF ScanKnown
<1>5. UNCHANGED cleanup => CleanupKnown'
  BY DEF CleanupKnown
<1>6. UNCHANGED shutdown => ShutdownKnown'
  BY DEF ShutdownKnown, Halted
<1> QED BY <1>1, <1>2, <1>3, <1>4, <1>5, <1>6

\* Setex writes a value whose id is known, EXPIRE and the passing of time none.
LEMMA KeyKept ==
  ASSUME TypeOK, Known, UNCHANGED container,
         \A s \in Sessions : key'[s] # NoKey =>
           \/ Live(s) /\ key'[s].data = key[s].data
           \/ Launched(key'[s].data.id)
  PROVE  KeyKnown'
BY DEF Known, KeyKnown, Launched, Live

\* What setSession writes keeps every key known.
LEMMA SetexKept ==
  ASSUME TypeOK, Known, UNCHANGED container, NEW s \in Sessions, NEW ttl, NEW data,
         Setex(s, ttl, data), Launched(data.id)
  PROVE  KeyKnown'
<1>1. \A q \in Sessions : key'[q] = IF q = s THEN [ttl |-> ttl, data |-> data] ELSE key[q]
  BY DEF Setex, TypeOK
<1> QED BY <1>1, KeyKept DEF Live

\* The CLI reads and writes no container id of its own.
LEMMA KnownClients ==
  ASSUME TypeOK, Known, NEW s \in Sessions, Tick \/ Expire(s) \/ Cli(s) \/ Renew(s) \/ RenewFails(s)
  PROVE  Known'
<1>1. ASSUME KeyKnown', UNCHANGED <<call, container, workerVars, shutdown>>
      PROVE  Known'
  BY <1>1, SameContainers, Unmoved DEF Known
<1>2. CASE Tick
  <2>1. \A q \in Sessions : key'[q] = IF Live(q) THEN [key[q] EXCEPT !.ttl = @ - 1] ELSE NoKey
    BY <1>2 DEF Tick
  <2>2. \A q \in Sessions : Live(q) => [key[q] EXCEPT !.ttl = @ - 1].data = key[q].data
    BY DEF TypeOK, Key, Live
  <2>3. UNCHANGED <<call, container, workerVars, shutdown>>
    BY <1>2 DEF Tick
  <2> QED BY <1>1, <2>1, <2>2, <2>3, KeyKept
<1>3. CASE Expire(s)
  <2>1. \A q \in Sessions : key'[q] # NoKey => key'[q] = key[q]
    BY <1>3 DEF Expire, TypeOK
  <2> QED BY <1>1, <1>3, <2>1, KeyKept DEF Expire, Live
<1>4. CASE CreateSession(s)
  <2>1. Launched(NoData.id)
    BY NoIdAssumption DEF Launched, NoData
  <2> QED BY <1>1, <1>4, <2>1, SetexKept DEF CreateSession
<1>5. CASE RenewExpire(s)
  <2>1. \A q \in Sessions : key'[q] # NoKey => key[q] # NoKey /\ key'[q].data = key[q].data
    BY <1>5 DEF RenewExpire, ExpireIn, TypeOK, Key
  <2> QED BY <1>1, <1>5, <2>1, KeyKept DEF RenewExpire, Live
<1>6. CASE RenewGet(s) \/ RenewFails(s) \/ CloseSession(s)
  BY <1>1, <1>6, SameContainers, Unmoved DEF RenewGet, RenewFails, CloseSession
<1>7. CASE Open(s) \/ OpenFails(s) \/ Prompt(s) \/ AnswerPrompt(s)
  BY <1>1, <1>7, SameContainers, Unmoved DEF Open, OpenFails, Prompt, AnswerPrompt, CliMoves
<1> QED BY <1>2, <1>3, <1>4, <1>5, <1>6, <1>7 DEF Cli, Renew

\* A call of the API server writes back only an id it has read.
LEMMA KnownCalls ==
  ASSUME TypeOK, Known, NEW r \in Calls, Receive(r) \/ Handle(r) \/ CallRedisFails(r)
  PROVE  Known'
<1>1. ASSUME CallKnown', KeyKnown', UNCHANGED <<container, workerVars, shutdown>>
      PROVE  Known'
  BY <1>1, SameContainers, Unmoved DEF Known
<1>2. ASSUME UNCHANGED container, \A q \in Calls \ {r} : call'[q] = call[q],
             Launched(call'[r].data.id)
      PROVE  CallKnown'
  BY <1>2 DEF Known, CallKnown, Launched
<1>3. UNCHANGED container /\ UNCHANGED key => KeyKnown'
  BY SameContainers, Unmoved
<1>4. call[r] \in Call /\ Launched(call[r].data.id) /\ call[r].session \in Sessions
  BY DEF TypeOK, Call, Known, CallKnown
<1>5. CASE Receive(r)
  <2>1. PICK kind \in Kinds, s \in Sessions, f \in Files :
          /\ kind = "upload" => Holding(s)
          /\ kind = "activity" => client[s] # "none" /\ Connectable(s)
          /\ call' = [call EXCEPT ![r].kind = kind, ![r].session = s, ![r].file = f, ![r].pc = "get"]
    BY <1>5, ReceiveTakes
  <2>2. call'[r].data = call[r].data /\ \A q \in Calls \ {r} : call'[q] = call[q]
    BY <1>4, <2>1 DEF TypeOK, Call
  <2>3. UNCHANGED <<key, container, workerVars, shutdown>>
    BY <1>5 DEF Receive
  <2> QED BY <1>1, <1>2, <1>3, <1>4, <2>2, <2>3
<1>6. CASE GetSession(r)
  <2>1. Live(call[r].session) => Launched(key[call[r].session].data.id)
    BY <1>4 DEF Known, KeyKnown
  <2>2. \/ Live(call[r].session) /\ call'[r].data = key[call[r].session].data
        \/ call'[r].data = call[r].data
    BY <1>6 DEF GetSession, CallGoto, TypeOK, Call
  <2>3. \A q \in Calls \ {r} : call'[q] = call[q]
    BY <1>6 DEF GetSession, CallGoto, TypeOK
  <2>4. UNCHANGED <<key, container, workerVars, shutdown>>
    BY <1>6 DEF GetSession
  <2> QED BY <1>1, <1>2, <1>3, <1>4, <2>1, <2>2, <2>3, <2>4
<1>7. CASE UploadMkdir(r) \/ UploadTtl(r) \/ CallRedisFails(r)
  BY <1>1, <1>2, <1>3, <1>4, <1>7 DEF UploadMkdir, UploadTtl, CallRedisFails, CallGoto, TypeOK, Call
<1>8. CASE UploadWrite(r)
  <2>1. call'[r].data.id = call[r].data.id
    BY <1>4, <1>8 DEF UploadWrite, CallGoto, TypeOK, Call, Data
  <2>2. \A q \in Calls \ {r} : call'[q] = call[q]
    BY <1>8 DEF UploadWrite, CallGoto, TypeOK
  <2>3. UNCHANGED <<key, container, workerVars, shutdown>>
    BY <1>8 DEF UploadWrite
  <2> QED BY <1>1, <1>2, <1>3, <1>4, <2>1, <2>2, <2>3
<1>9. CASE CallSetex(r)
  <2>1. KeyKnown'
    BY <1>4, <1>9, SetexKept DEF CallSetex
  <2> QED BY <1>1, <1>2, <1>4, <1>9, <2>1 DEF CallSetex, CallGoto, TypeOK, Call
<1> QED BY <1>5, <1>6, <1>7, <1>8, <1>9 DEF Handle

\* A scan registers and stores only what it has started or has found in the key.
LEMMA KnownScans ==
  ASSUME TypeOK, Names, Known, NEW k \in Scans,
         ScanAndCreate(k) \/ ScanDockerFails(k) \/ ScanRedisFails(k)
  PROVE  Known'
<1>1. ASSUME ScanKnown', KeyKnown', MapKnown', Preserved, UNCHANGED <<call, cleanup, shutdown>>
      PROVE  Known'
  BY <1>1, Unmoved DEF Known
<1>2. ASSUME Preserved, \A l \in Scans \ {k} : scan'[l] = scan[l],
             LaunchedNext(scan'[k].data.id), scan'[k].pc = "reload" => LaunchedNext(scan'[k].id)
      PROVE  ScanKnown'
  BY <1>2 DEF Preserved, Known, ScanKnown, Launched, LaunchedNext
<1>3. /\ scan[k] \in Scan /\ scan[k].session \in Sessions
      /\ Launched(scan[k].data.id) /\ (scan[k].pc = "reload" => Launched(scan[k].id))
  BY DEF TypeOK, Scan, Known, ScanKnown
\* The steps that start nothing and read nothing.
<1>4. ASSUME UNCHANGED <<key, container, containerMap, call, cleanup, shutdown>>,
             \A l \in Scans \ {k} : scan'[l] = scan[l],
             Launched(scan'[k].data.id), scan'[k].pc # "reload"
      PROVE  Known'
  <2>1. Preserved /\ LaunchedNext(scan'[k].data.id)
    BY <1>4, SameContainers DEF Launched, LaunchedNext
  <2> QED BY <1>1, <1>2, <1>4, <2>1, Unmoved
<1>5. Launched(IdleScan.data.id) /\ IdleScan.data = NoData
  BY NoIdAssumption DEF Launched, IdleScan, NoData
<1>6. CASE ScanStart(k)
  <2> DEFINE started == [IdleScan EXCEPT !.pc = "next", !.todo = {s \in Sessions : Live(s)}]
  <2>1. started.data = IdleScan.data /\ started.pc = "next"
    BY DEF IdleScan
  <2>2. /\ scan'[k] = started /\ \A l \in Scans \ {k} : scan'[l] = scan[l]
        /\ UNCHANGED <<key, container, containerMap, call, cleanup, shutdown>>
    BY <1>6 DEF ScanStart, TypeOK
  <2> QED BY <1>4, <1>5, <2>1, <2>2
<1>7. CASE ScanNext(k)
  <2>1. PICK s \in scan[k].todo :
          scan' = [scan EXCEPT ![k].todo = @ \ {s}, ![k].session = s,
                     ![k].pc = IF containerMap[s] # NoId THEN "next" ELSE "get"]
    BY <1>7 DEF ScanNext
  <2>2. scan'[k].data = scan[k].data /\ scan'[k].pc # "reload"
    BY <1>3, <2>1 DEF TypeOK, Scan
  <2>3. \A l \in Scans \ {k} : scan'[l] = scan[l]
    BY <2>1 DEF TypeOK
  <2> QED BY <1>3, <1>4, <1>7, <2>2, <2>3 DEF ScanNext
<1>8. CASE ScanEnd(k)
  <2>1. scan'[k] = IdleScan /\ \A l \in Scans \ {k} : scan'[l] = scan[l]
    BY <1>8 DEF ScanEnd, TypeOK
  <2>2. IdleScan.pc # "reload"
    BY DEF IdleScan
  <2> QED BY <1>4, <1>5, <1>8, <2>1, <2>2 DEF ScanEnd
<1>9. ASSUME NEW pc, ScanGoto(k, pc)
      PROVE  /\ \A l \in Scans \ {k} : scan'[l] = scan[l]
             /\ scan'[k].data = scan[k].data /\ scan'[k].id = scan[k].id /\ scan'[k].pc = pc
  BY <1>3, <1>9 DEF ScanGoto, TypeOK, Scan
<1>10. CASE ScanGet(k)
  <2> DEFINE s == scan[k].session
  <2>1. PICK pc \in {"mkdir", "next"} : ScanGoto(k, pc)
    BY <1>10 DEF ScanGet
  <2>2. \A q \in Sessions : \/ containerMap'[q] = containerMap[q]
                            \/ Live(q) /\ containerMap'[q] = key[q].data.id
    BY <1>3, <1>10 DEF ScanGet, TypeOK
  <2>3. UNCHANGED <<key, container, call, cleanup, shutdown>>
    BY <1>10 DEF ScanGet
  <2>4. MapKnown'
    BY <2>2, <2>3 DEF Known, KeyKnown, MapKnown, Launched
  <2>5. Preserved /\ KeyKnown'
    BY <2>3, SameContainers, Unmoved
  <2>6. ScanKnown'
    BY <1>2, <1>3, <1>9, <2>1, <2>5 DEF Preserved
  <2> QED BY <1>1, <2>3, <2>4, <2>5, <2>6
<1>11. CASE ScanMkdir(k)
  BY <1>3, <1>4, <1>9, <1>11 DEF ScanMkdir
<1>12. CASE ScanCreate(k)
  <2>1. CASE ScanGoto(k, "next") /\ UNCHANGED container
    BY <1>3, <1>4, <1>9, <1>12, <2>1 DEF ScanCreate
  <2>2. CASE ~(ScanGoto(k, "next") /\ UNCHANGED container)
    <3>1. PICK i \in Ids :
            /\ Fresh(i)
            /\ container' = [container EXCEPT ![i] = [session |-> scan[k].session, state |-> "created"]]
            /\ scan' = [scan EXCEPT ![k].id = i, ![k].pc = "start"]
      BY <1>12, <2>2 DEF ScanCreate
    <3>2. \A n \in Ids \ {i} : container'[n] = container[n]
      BY <3>1 DEF TypeOK
    <3>3. \A n : n # i /\ Launched(n) => LaunchedNext(n)
      BY <3>2 DEF Launched, LaunchedNext
    <3>4. UNCHANGED <<key, containerMap, call, cleanup, shutdown>>
      BY <1>12 DEF ScanCreate
    <3>5. Fresh(i)
      BY <3>1
    <3>6. KeyKnown' /\ MapKnown'
      BY <3>3, <3>4, <3>5 DEF Known, KeyKnown, MapKnown, Fresh, Live, Launched, LaunchedNext
    <3>7. CallKnown' /\ CleanupKnown'
      BY <3>3, <3>4, <3>5 DEF Known, CallKnown, CleanupKnown, Fresh, Launched, LaunchedNext
    <3>8. ShutdownKnown'
      BY <3>2, <3>4, <3>5 DEF Known, ShutdownKnown, Halted, Fresh, Launched
    <3>9. ScanKnown'
      <4>1. scan \in [Scans -> Scan]
        BY DEF TypeOK
      <4>2. \A l \in Scans \ {k} : scan'[l] = scan[l]
        BY <3>1, <4>1
      <4>3. scan'[k] = [scan[k] EXCEPT !.id = i, !.pc = "start"]
        BY <3>1, <4>1
      <4>4. scan'[k].data = scan[k].data /\ scan'[k].pc = "start"
        BY <1>3, <4>3 DEF Scan
      <4>5. \A l \in Scans : scan[l].id # i /\ scan[l].data.id # i
        BY <3>1, Zenon DEF Fresh
      <4> QED BY <3>3, <4>2, <4>4, <4>5 DEF Known, ScanKnown, Launched, LaunchedNext
    <3> QED BY <3>6, <3>7, <3>8, <3>9 DEF Known
  <2> QED BY <2>1, <2>2
<1>13. CASE ScanLaunch(k)
  <2> DEFINE i == scan[k].id
  <2>1. i \in Ids /\ container[i].state = "created"
    BY <1>13 DEF ScanLaunch, Names, InHand
  <2>2. container'[i].state = "running" /\ \A n \in Ids \ {i} : container'[n] = container[n]
    BY <1>13, <2>1 DEF ScanLaunch, TypeOK, Container
  <2>3. Preserved
    BY <2>1, <2>2 DEF Preserved, Launched, LaunchedNext
  <2>4. UNCHANGED <<key, call, cleanup, shutdown>> /\ ScanGoto(k, "reload")
    BY <1>13 DEF ScanLaunch
  <2>5. LaunchedNext(i)
    BY <2>2 DEF LaunchedNext
  <2>6. ScanKnown'
    BY <1>2, <1>3, <1>9, <2>3, <2>4, <2>5 DEF Preserved
  <2>7. \A s \in Sessions : containerMap'[s] = containerMap[s] \/ containerMap'[s] = i
    BY <1>13 DEF ScanLaunch, TypeOK
  <2>8. MapKnown'
    BY <2>3, <2>5, <2>7 DEF Preserved, Known, MapKnown, Launched, LaunchedNext
  <2>9. KeyKnown'
    BY <2>3, <2>4, Unmoved
  <2> QED BY <1>1, <2>3, <2>4, <2>6, <2>8, <2>9
<1>14. CASE ScanReload(k)
  <2> DEFINE s == scan[k].session
  <2>1. CASE Live(s)
    <3>1. key[s].data \in Data
      BY <1>3, <2>1, KeyType
    <3>2. [key[s].data EXCEPT !.id = scan[k].id].id = scan[k].id
      BY <3>1 DEF Data
    <3>3. /\ scan'[k].data.id = scan[k].id /\ scan'[k].pc = "ttl"
          /\ \A l \in Scans \ {k} : scan'[l] = scan[l]
      BY <1>3, <1>14, <2>1, <3>2 DEF ScanReload, TypeOK, Scan
    <3> QED BY <1>3, <1>4, <1>14, <3>3 DEF ScanReload
  <2>2. CASE ~Live(s)
    BY <1>3, <1>4, <1>9, <1>14, <2>2 DEF ScanReload
  <2> QED BY <2>1, <2>2
<1>15. CASE ScanTtl(k)
  <2>1. /\ scan'[k].data = scan[k].data /\ scan'[k].pc \in {"setex", "next"}
        /\ \A l \in Scans \ {k} : scan'[l] = scan[l]
    BY <1>3, <1>15 DEF ScanTtl, TypeOK, Scan
  <2> QED BY <1>3, <1>4, <1>15, <2>1 DEF ScanTtl
<1>16. CASE ScanSetex(k)
  <2>1. UNCHANGED <<container, containerMap, call, cleanup, shutdown>> /\ ScanGoto(k, "next")
    BY <1>16 DEF ScanSetex
  <2>2. KeyKnown'
    BY <1>3, <1>16, <2>1, SetexKept DEF ScanSetex
  <2>3. Preserved /\ MapKnown'
    BY <2>1, SameContainers, Unmoved
  <2>4. ScanKnown'
    BY <1>2, <1>3, <1>9, <2>1, <2>3 DEF Preserved
  <2> QED BY <1>1, <2>1, <2>2, <2>3, <2>4
<1>17. CASE ScanDockerFails(k)
  <2>1. /\ scan'[k].data = scan[k].data /\ scan'[k].pc = "next"
        /\ \A l \in Scans \ {k} : scan'[l] = scan[l]
    BY <1>3, <1>17 DEF ScanDockerFails, TypeOK, Scan
  <2> QED BY <1>3, <1>4, <1>17, <2>1 DEF ScanDockerFails
<1>18. CASE ScanRedisFails(k)
  <2>1. CASE scan' = [scan EXCEPT ![k] = IdleScan]
    <3>1. scan'[k] = IdleScan /\ IdleScan.pc # "reload" /\ \A l \in Scans \ {k} : scan'[l] = scan[l]
      BY <2>1 DEF TypeOK, IdleScan
    <3> QED BY <1>4, <1>5, <1>18, <3>1 DEF ScanRedisFails
  <2>2. CASE ScanGoto(k, "next")
    BY <1>3, <1>4, <1>9, <1>18, <2>2 DEF ScanRedisFails
  <2> QED BY <1>18, <2>1, <2>2 DEF ScanRedisFails
<1> QED BY <1>6, <1>7, <1>8, <1>10, <1>11, <1>12, <1>13, <1>14, <1>15, <1>16, <1>17, <1>18
        DEF ScanAndCreate

\* A cleanup stops only what it has found in the map.
LEMMA KnownCleanups ==
  ASSUME TypeOK, Known, NEW k \in Cleanups,
         CleanExpired(k) \/ CleanupDockerFails(k) \/ CleanupRedisFails(k)
  PROVE  Known'
<1>1. ASSUME Preserved, MapKnown', CleanupKnown', UNCHANGED <<key, call, scan, shutdown>>
      PROVE  Known'
  BY <1>1, Unmoved DEF Known
<1>2. ASSUME Preserved, Launched(cleanup'[k].id), \A l \in Cleanups \ {k} : cleanup'[l] = cleanup[l]
      PROVE  CleanupKnown'
  BY <1>2 DEF Preserved, Known, CleanupKnown, Launched, LaunchedNext
<1>3. cleanup[k] \in Cleanup /\ Launched(cleanup[k].id)
  BY DEF TypeOK, Known, CleanupKnown
<1>4. ASSUME NEW pc, CleanupGoto(k, pc)
      PROVE  cleanup'[k].id = cleanup[k].id /\ \A l \in Cleanups \ {k} : cleanup'[l] = cleanup[l]
  BY <1>3, <1>4 DEF CleanupGoto, TypeOK, Cleanup
<1>5. Launched(IdleCleanup.id)
  BY NoIdAssumption DEF Launched, IdleCleanup
<1>6. CASE CleanupStart(k)
  <2>1. /\ cleanup'[k].id = IdleCleanup.id /\ \A l \in Cleanups \ {k} : cleanup'[l] = cleanup[l]
        /\ UNCHANGED <<key, call, scan, shutdown, container, containerMap>>
    BY <1>6 DEF CleanupStart, TypeOK, IdleCleanup
  <2> QED BY <1>1, <1>2, <1>5, <2>1, SameContainers, Unmoved
<1>7. CASE CleanupNext(k)
  <2>1. PICK s \in Unseen(k) :
          \/ cleanup' = [cleanup EXCEPT ![k].seen = @ \cup {s}]
          \/ cleanup' = [cleanup EXCEPT ![k].seen = @ \cup {s}, ![k].cleaned = @ \cup {s},
                           ![k].session = s, ![k].id = containerMap[s], ![k].pc = "stop"]
    BY <1>7 DEF CleanupNext
  <2>2. /\ cleanup'[k].id \in {cleanup[k].id, containerMap[s]}
        /\ \A l \in Cleanups \ {k} : cleanup'[l] = cleanup[l]
    BY <1>3, <2>1 DEF TypeOK, Cleanup
  <2>3. Launched(containerMap[s])
    BY <2>1 DEF Unseen, Known, MapKnown
  <2>4. UNCHANGED <<key, call, scan, shutdown, container, containerMap>>
    BY <1>7 DEF CleanupNext
  <2>5. Preserved /\ MapKnown'
    BY <2>4, SameContainers, Unmoved
  <2> QED BY <1>1, <1>2, <1>3, <2>2, <2>3, <2>4, <2>5
<1>8. CASE CleanupEnd(k)
  <2>1. /\ cleanup'[k].id = IdleCleanup.id /\ \A l \in Cleanups \ {k} : cleanup'[l] = cleanup[l]
        /\ UNCHANGED <<key, call, scan, shutdown, container>>
    BY <1>8 DEF CleanupEnd, TypeOK, IdleCleanup
  <2>2. MapKnown'
    BY <1>8, NoIdAssumption DEF CleanupEnd, Known, MapKnown, Launched
  <2> QED BY <1>1, <1>2, <1>5, <2>1, <2>2, SameContainers
<1>9. CASE StopContainer(k) \/ RemoveContainer(k)
  <2>1. PICK pc : CleanupGoto(k, pc)
    BY <1>9 DEF StopContainer, RemoveContainer
  <2>2. Preserved
    BY <1>9, SameContainers, FewerContainers DEF StopContainer, RemoveContainer
  <2>3. UNCHANGED <<key, call, scan, shutdown, containerMap>>
    BY <1>9 DEF StopContainer, RemoveContainer
  <2> QED BY <1>1, <1>2, <1>3, <1>4, <2>1, <2>2, <2>3, Unmoved
<1>10. CASE RemoveDirectory(k) \/ CleanupDockerFails(k)
  <2>1. PICK pc : CleanupGoto(k, pc)
    BY <1>10 DEF RemoveDirectory, CleanupDockerFails
  <2>2. UNCHANGED <<key, call, scan, shutdown, container, containerMap>>
    BY <1>10 DEF RemoveDirectory, CleanupDockerFails
  <2> QED BY <1>1, <1>2, <1>3, <1>4, <2>1, <2>2, SameContainers, Unmoved
<1>11. CASE CleanupRedisFails(k)
  <2>1. /\ cleanup'[k].id = IdleCleanup.id /\ \A l \in Cleanups \ {k} : cleanup'[l] = cleanup[l]
        /\ UNCHANGED <<key, call, scan, shutdown, container, containerMap>>
    BY <1>11 DEF CleanupRedisFails, TypeOK, IdleCleanup
  <2> QED BY <1>1, <1>2, <1>5, <2>1, SameContainers, Unmoved
<1> QED BY <1>6, <1>7, <1>8, <1>9, <1>10, <1>11 DEF CleanExpired

\* A shutdown takes its entries from the map and stops them one by one.
LEMMA KnownShutdown ==
  ASSUME TypeOK, Known, NEW s \in Sessions, Sigterm \/ ShutdownStep(s) \/ ShutdownDockerFails(s)
  PROVE  Known'
<1>1. ASSUME Preserved, ShutdownKnown', UNCHANGED <<key, call, workerVars>>
      PROVE  Known'
  BY <1>1, Unmoved DEF Known
<1>2. CASE Sigterm
  <2>1. \A q \in Sessions : /\ shutdown'[q].id = containerMap[q]
                            /\ shutdown'[q].pc = IF containerMap[q] = NoId THEN "done" ELSE "stop"
    BY <1>2 DEF Sigterm
  <2>2. UNCHANGED <<key, call, workerVars, container>>
    BY <1>2 DEF Sigterm
  <2>3. ShutdownKnown'
    BY <2>1, <2>2, NoIdAssumption DEF Known, MapKnown, ShutdownKnown, Halted, Launched
  <2> QED BY <1>1, <2>2, <2>3, SameContainers
<1>3. ASSUME NEW pc, ShutdownGoto(s, pc)
      PROVE  /\ shutdown'[s].id = shutdown[s].id /\ shutdown'[s].pc = pc
             /\ \A q \in Sessions \ {s} : shutdown'[q] = shutdown[q]
  BY <1>3 DEF ShutdownGoto, TypeOK, Stopping
<1>4. ASSUME Preserved, NEW pc, ShutdownGoto(s, pc),
             pc # "failed" /\ shutdown[s].id \in Ids => container'[shutdown[s].id].state # "running"
      PROVE  ShutdownKnown'
  <2>1. \A q \in Sessions : Launched(shutdown[q].id) /\ Halted(q)
    BY DEF Known, ShutdownKnown
  <2>2. \A q \in Sessions : LaunchedNext(shutdown'[q].id)
    BY <1>3, <1>4, <2>1 DEF Preserved
  <2>3. ASSUME NEW q \in Sessions PROVE Halted(q)'
    BY <1>3, <1>4, <2>1 DEF Preserved, Halted, Launched
  <2> QED BY <2>2, <2>3 DEF ShutdownKnown, Launched, LaunchedNext
<1>5. CASE ShutdownStep(s)
  <2> DEFINE i == shutdown[s].id
  <2>1. Preserved
    BY <1>5, SameContainers, FewerContainers DEF ShutdownStep
  <2>2. UNCHANGED <<key, call, workerVars>>
    BY <1>5 DEF ShutdownStep
  <2>3. PICK pc \in {"remove", "rm", "done"} : ShutdownGoto(s, pc)
    BY <1>5 DEF ShutdownStep
  <2>4. i \in Ids => container'[i].state # "running"
    BY <1>5 DEF ShutdownStep, TypeOK, Container, Known, ShutdownKnown, Halted
  <2> QED BY <1>1, <1>4, <2>1, <2>2, <2>3, <2>4
<1>6. CASE ShutdownDockerFails(s)
  BY <1>1, <1>4, <1>6, SameContainers DEF ShutdownDockerFails
<1> QED BY <1>2, <1>5, <1>6

\* Every step keeps the known ids known.
LEMMA KnownNext == TypeOK /\ Names /\ Known /\ [Next]_vars => Known'
<1> SUFFICES ASSUME TypeOK, Names, Known, [Next]_vars PROVE Known'
  OBVIOUS
<1>1. CASE Crash \/ ShutdownEnds
  <2>1. /\ UNCHANGED <<key, call, container>>
        /\ \A s \in Sessions : containerMap'[s] = NoId /\ shutdown'[s] = NotStopping
        /\ \A k \in Scans : scan'[k] = IdleScan
        /\ \A k \in Cleanups : cleanup'[k] = IdleCleanup
    BY <1>1 DEF Crash, ShutdownEnds, Restart
  <2>2. KeyKnown' /\ CallKnown'
    BY <2>1, SameContainers, Unmoved
  <2>3. MapKnown' /\ ShutdownKnown'
    BY <2>1, NoIdAssumption DEF MapKnown, ShutdownKnown, Halted, NotStopping, Launched
  <2>4. ScanKnown' /\ CleanupKnown'
    BY <2>1, NoIdAssumption DEF ScanKnown, CleanupKnown, IdleScan, IdleCleanup, NoData, Launched
  <2> QED BY <2>2, <2>3, <2>4 DEF Known
<1>2. CASE UNCHANGED vars
  BY <1>2, SameContainers, Unmoved DEF Known
<1>3. CASE Tick \/ Sigterm
  BY <1>3, SomeAssumption, KnownClients, KnownShutdown
<1> QED BY <1>1, <1>2, <1>3, KnownClients, KnownCalls, KnownScans, KnownCleanups, KnownShutdown
        DEF Next, StopAll, Fail

\* At the start nothing is known.
LEMMA InitKnown == Init => Known
<1> SUFFICES ASSUME Init PROVE Known
  OBVIOUS
<1> USE NoIdAssumption DEF Init, Launched
<1>1. KeyKnown /\ MapKnown
  BY DEF KeyKnown, MapKnown, Live
<1>2. CallKnown /\ ScanKnown /\ CleanupKnown
  BY DEF CallKnown, ScanKnown, CleanupKnown, NewCall, IdleScan, IdleCleanup, NoData
<1>3. ShutdownKnown
  BY DEF ShutdownKnown, Halted, NotStopping
<1> QED BY <1>1, <1>2, <1>3 DEF Known

\* While a shutdown is under way its entries stay stopped.
LEMMA ShutdownGoesOn ==
  ASSUME TypeOK, Known, [Next]_vars, NEW s \in Sessions,
         shutdown[s].id # NoId, shutdown'[s].id = NoId, faults' = faults
  PROVE  shutdown[s].pc = "failed" \/ container'[shutdown[s].id].state # "running"
<1>1. shutdown[s].id \in Ids /\ faults \in Nat
  BY MaxFaultsAssumption DEF TypeOK, Stopping
<1>2. CASE ShutdownEnds
  <2>1. UNCHANGED container /\ shutdown[s].pc \in {"done", "failed"}
    BY <1>2 DEF ShutdownEnds, Restart
  <2> QED BY <1>1, <2>1 DEF Known, ShutdownKnown, Halted
<1>3. shutdown'[s].id # shutdown[s].id
  OBVIOUS
<1>4. ~Crash
  BY <1>1 DEF Crash, Fault
<1>5. ~Sigterm
  BY DEF Sigterm, NotStopping
<1>6. ASSUME NEW q \in Sessions, NEW pc, ShutdownGoto(q, pc) PROVE FALSE
  BY <1>3, <1>6 DEF ShutdownGoto, TypeOK, Stopping
<1>7. ASSUME NEW q \in Sessions, ShutdownStep(q) \/ ShutdownDockerFails(q) PROVE FALSE
  BY <1>6, <1>7 DEF ShutdownStep, ShutdownDockerFails
<1>8. ~(Tick \/ UNCHANGED vars)
  BY <1>3 DEF Tick
<1>9. ASSUME NEW q \in Sessions, Expire(q) \/ Cli(q) \/ Renew(q) \/ RenewFails(q) PROVE FALSE
  BY <1>3, <1>9 DEF Expire, Cli, CreateSession, Open, OpenFails, Prompt, AnswerPrompt, CliMoves,
                    CloseSession, Renew, RenewGet, RenewExpire, RenewFails
<1>10. ASSUME NEW r \in Calls, Receive(r) \/ Handle(r) \/ CallRedisFails(r) PROVE FALSE
  BY <1>3, <1>10 DEF Receive, Handle, GetSession, UploadMkdir, UploadWrite, UploadTtl, CallSetex,
                     CallRedisFails
<1>11. ASSUME NEW k \in Scans, ScanAndCreate(k) \/ ScanDockerFails(k) \/ ScanRedisFails(k) PROVE FALSE
  BY <1>3, <1>11 DEF ScanAndCreate, ScanStart, ScanNext, ScanEnd, ScanGet, ScanMkdir, ScanCreate,
                     ScanLaunch, ScanReload, ScanTtl, ScanSetex, ScanDockerFails, ScanRedisFails
<1>12. ASSUME NEW k \in Cleanups, CleanExpired(k) \/ CleanupDockerFails(k) \/ CleanupRedisFails(k)
       PROVE  FALSE
  BY <1>3, <1>12 DEF CleanExpired, CleanupStart, CleanupNext, CleanupEnd, StopContainer,
                     RemoveContainer, RemoveDirectory, CleanupDockerFails, CleanupRedisFails
<1> QED BY <1>2, <1>4, <1>5, <1>7, <1>8, <1>9, <1>10, <1>11, <1>12 DEF Next, StopAll, Fail

\* A worker that was told to stop leaves no container running that it knew of,
\* whatever cleanups, scans and calls were under way (stopAllContainers).
THEOREM ShutdownCorrect == Spec => ShutdownStops
<1>1. Init => Names
  BY DEF Init, Names, OneContainerPerSession, Exists, InHand, IdleScan
<1>2. TypeOK /\ Known /\ [Next]_vars =>
        [\A s \in Sessions :
           shutdown[s].id # NoId /\ shutdown'[s].id = NoId /\ faults' = faults
             => shutdown[s].pc = "failed" \/ container'[shutdown[s].id].state # "running"]_vars
  BY ShutdownGoesOn
<1> QED BY <1>1, <1>2, InitType, NextType, NamesNext, InitKnown, KnownNext, PTL DEF Spec, ShutdownStops

================================================================================
