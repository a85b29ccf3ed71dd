------------------------- MODULE LspSessionsLifeProofs -------------------------
(***************************************************************************)
(* The two ends of a language server session: its key lives as long as a    *)
(* CLI holds it, and its container stays in somebody's hands.               *)
(***************************************************************************)
EXTENDS LspSessionsProofs

USE DEF vars, apiVars, workerVars, failVars

--------------------------------------------------------------------------------
(* The renewal.  Redis is set from four sides: the renewal, the handlers and     *)
(* the scanner write the ttl, and time takes from it.  A scanner writes what it  *)
(* has read a while ago, which could take back a renewal; it does not, since it  *)
(* writes only for a session that named no container when the scanner read it,   *)
(* and a session that a CLI holds names one.  A renewal that fails lets the key  *)
(* go; one that finds it in time has the same to say of it as before.            *)

Owned(s)   == client[s] \in {"connecting", "open", "prompt"}
Writing(k) == scan[k].pc \in {"mkdir", "create", "start", "reload", "ttl", "setex"}
Busy(r)    == call[r].pc \notin {"new", "done", "failed"}

\* Nobody knows a session that was not created.
Untouched(s) == client[s] = "none" =>
  /\ key[s] = NoKey
  /\ \A r \in Calls : Busy(r) => call[r].session # s
  /\ \A k \in Scans : s \notin scan[k].todo /\ (scan[k].pc \notin {"idle", "next"} => scan[k].session # s)

\* Only a session that was open has a renewal.
Unrenewed(s) == client[s] \in {"none", "connecting"} => renewal[s] = "idle" /\ s \notin missed

\* An interval costs at most one unit, and the renewal gives it back.
KeyLasts(s) ==
  /\ Owned(s) /\ s \notin missed =>
       /\ Live(s) /\ key[s].ttl >= TTL - 1
       /\ renewal[s] = "idle" => key[s].ttl = TTL
  /\ Holding(s) /\ Live(s) => key[s].data.id # NoId

\* A message writes the whole ttl and a container's id.
CallKept(r) ==
  /\ call[r].kind # "upload" /\ call[r].pc \notin {"mkdir", "write", "ttl"}
  /\ call[r].pc = "setex" => call[r].ttl = TTL
  /\ Owned(call[r].session) =>
       /\ call[r].pc = "get" /\ Live(call[r].session) => key[call[r].session].data.id # NoId
       /\ call[r].pc = "setex" => call[r].data.id # NoId

\* A scan writes a container's id, and what it writes is as good as what is there:
\* no renewal is due or missed while it writes.
ScanKept(k) ==
  /\ scan[k].pc = "reload" => scan[k].id # NoId
  /\ scan[k].pc \in {"ttl", "setex"} => scan[k].data.id # NoId
  /\ Owned(scan[k].session) =>
       /\ Writing(k) => renewal[scan[k].session] = "idle" /\ scan[k].session \notin missed
       /\ scan[k].pc = "setex" => scan[k].ttl = TTL

KeepInv ==
  /\ \A s \in Sessions : Untouched(s) /\ Unrenewed(s) /\ KeyLasts(s)
  /\ \A r \in Calls : CallKept(r)
  /\ \A k \in Scans : ScanKept(k)

\* A step that leaves all of this alone.
LEMMA KeepSame ==
  ASSUME KeepInv, UNCHANGED <<client, renewal, missed, key, call, scan>>
  PROVE  KeepInv'
BY DEF KeepInv, Untouched, Unrenewed, KeyLasts, CallKept, ScanKept, Owned, Writing, Busy, Holding, Live

\* A step that changes keys and renewals in a way that no CLI, handler or scan minds.
LEMMA KeepKeys ==
  ASSUME KeepInv, TypeOK, UNCHANGED <<client, call, scan>>,
         \A s \in Sessions : Live(s)' => Live(s) /\ key'[s].data.id = key[s].data.id,
         \A s \in Sessions : Owned(s) /\ s \notin missed' =>
           /\ Live(s)' /\ key'[s].ttl >= TTL - 1
           /\ renewal'[s] = "idle" => key'[s].ttl = TTL,
         \A s \in Sessions :
           \/ renewal'[s] = renewal[s] /\ (s \in missed' => s \in missed)
           \/ client[s] \notin {"none", "connecting"} /\ \A k \in Scans : ~(Writing(k) /\ Owned(s) /\ scan[k].session = s)
  PROVE  KeepInv'
<1>1. \A s \in Sessions : Untouched(s)'
  BY DEF KeepInv, Untouched, Live, Busy
<1>2. \A s \in Sessions : Unrenewed(s)'
  BY DEF KeepInv, Unrenewed
<1>3. \A s \in Sessions : KeyLasts(s)'
  BY DEF KeepInv, KeyLasts, Owned, Holding, Live
<1>4. \A r \in Calls : CallKept(r)'
  BY DEF KeepInv, CallKept, Owned, TypeOK, Call
<1>5. \A k \in Scans : ScanKept(k)'
  <2> SUFFICES ASSUME NEW k \in Scans PROVE ScanKept(k)'
    OBVIOUS
  <2>1. scan[k].session \in Sessions /\ ScanKept(k)
    BY DEF TypeOK, Scan, KeepInv
  <2> QED BY <2>1 DEF ScanKept, Owned, Writing
<1> QED BY <1>1, <1>2, <1>3, <1>4, <1>5 DEF KeepInv

LEMMA KeepTick ==
  ASSUME TypeOK, KeepInv, ~IdleUsers, TTL >= 2, NEW s \in Sessions, Tick \/ Expire(s)
  PROVE  KeepInv'
<1> USE TTLAssumption
<1>0. \A q \in Sessions : Live(q) => key[q] \in Key /\ key[q].ttl \in 0 .. TTL
  BY DEF TypeOK, Live, Key
<1>1. CASE Expire(s)
  <2>1. ~(Owned(s) /\ s \notin missed)
    BY <1>0, <1>1 DEF Expire, KeepInv, KeyLasts
  <2>2. /\ UNCHANGED <<client, renewal, missed, call, scan>>
        /\ key' = [key EXCEPT ![s] = NoKey]
    BY <1>1 DEF Expire
  <2>3. \A q \in Sessions : IF q = s THEN ~Live(q)' ELSE key'[q] = key[q]
    BY <2>2 DEF TypeOK, Live
  <2>4. \A q \in Sessions : Live(q)' => Live(q) /\ key'[q].data.id = key[q].data.id
    BY <2>3 DEF Live
  <2>5. \A q \in Sessions : Owned(q) /\ q \notin missed' =>
           /\ Live(q)' /\ key'[q].ttl >= TTL - 1
           /\ renewal'[q] = "idle" => key'[q].ttl = TTL
    BY <2>1, <2>2, <2>3 DEF KeepInv, KeyLasts, Live
  <2> QED BY <2>2, <2>4, <2>5, KeepKeys
<1>2. CASE Tick
  <2>1. /\ UNCHANGED <<client, missed, call, scan>>
        /\ \A q \in Sessions : client[q] # "connecting" /\ client[q] # "prompt" /\ renewal[q] = "idle"
        /\ \A k \in Scans : ~Writing(k)
    BY <1>2 DEF Tick, Quiet, Blocked, Writing
  <2>2. /\ \A q \in Sessions : key'[q] = IF Live(q) THEN [key[q] EXCEPT !.ttl = @ - 1] ELSE NoKey
        /\ \A q \in Sessions : renewal'[q] = IF Holding(q) THEN "due" ELSE "idle"
    BY <1>2 DEF Tick
  <2>3. ASSUME NEW q \in Sessions, Live(q)
        PROVE  key'[q] \in Key /\ key'[q].ttl = key[q].ttl - 1 /\ key'[q].data = key[q].data
    <3>1. key[q] \in Key /\ key[q].ttl > 0 /\ key'[q] = [key[q] EXCEPT !.ttl = @ - 1]
      BY <1>0, <1>2, <2>2, <2>3 DEF Tick
    <3> QED BY <3>1 DEF Key
  <2>4. \A q \in Sessions : Live(q)' => Live(q) /\ key'[q].data.id = key[q].data.id
    BY <2>2, <2>3 DEF Live
  <2>5. \A q \in Sessions : Owned(q) /\ q \notin missed' =>
           /\ Live(q)' /\ key'[q].ttl >= TTL - 1
           /\ renewal'[q] = "idle" => key'[q].ttl = TTL
    <3> SUFFICES ASSUME NEW q \in Sessions, Owned(q), q \notin missed
                 PROVE  Live(q)' /\ key'[q].ttl >= TTL - 1 /\ renewal'[q] = "due"
      BY <2>1
    <3>1. Live(q) /\ key[q].ttl = TTL
      BY <2>1 DEF KeepInv, KeyLasts
    <3>2. key'[q] \in Key /\ key'[q].ttl = TTL - 1
      BY <2>3, <3>1
    <3>3. renewal'[q] = "due"
      BY <2>1, <2>2 DEF Owned, Holding
    <3> QED BY <3>2, <3>3, NoKeyAssumption DEF Live
  <2>6. \A q \in Sessions :
           \/ renewal'[q] = renewal[q] /\ (q \in missed' => q \in missed)
           \/ client[q] \notin {"none", "connecting"} /\ \A k \in Scans : ~(Writing(k) /\ Owned(q) /\ scan[k].session = q)
    BY <2>1, <2>2 DEF Holding
  <2> QED BY <2>1, <2>4, <2>5, <2>6, KeepKeys
<1> QED BY <1>1, <1>2

LEMMA KeepCli ==
  ASSUME TypeOK, KeepInv, TTL >= 2, NEW s \in Sessions, Cli(s)
  PROVE  KeepInv'
<1> USE TTLAssumption
<1>1. CASE CreateSession(s)
  <2>1. /\ client[s] = "none" /\ client' = [client EXCEPT ![s] = "connecting"]
        /\ key' = [key EXCEPT ![s] = [ttl |-> TTL, data |-> NoData]]
        /\ UNCHANGED <<renewal, missed, call, scan>>
    BY <1>1 DEF CreateSession, Setex
  <2>2. /\ client'[s] = "connecting" /\ key'[s] = [ttl |-> TTL, data |-> NoData]
        /\ \A q \in Sessions \ {s} : client'[q] = client[q] /\ key'[q] = key[q]
    BY <2>1 DEF TypeOK
  <2>3. key'[s] \in Key /\ key'[s].ttl = TTL
    BY <2>2, DataType DEF Key
  <2>4. /\ \A r \in Calls : Busy(r) => call[r].session # s
        /\ \A k \in Scans : scan[k].pc \notin {"idle", "next"} => scan[k].session # s
    BY <2>1 DEF KeepInv, Untouched
  <2>5. \A q \in Sessions : Untouched(q)'
    BY <2>1, <2>2 DEF KeepInv, Untouched, Busy
  <2>6. \A q \in Sessions : KeyLasts(q)' /\ Unrenewed(q)'
    BY <2>1, <2>2, <2>3, NoKeyAssumption DEF KeepInv, KeyLasts, Unrenewed, Owned, Holding, Live
  <2>7. \A r \in Calls : CallKept(r)'
    BY <2>1, <2>2, <2>4 DEF KeepInv, CallKept, Owned, Live, Busy, TypeOK, Call
  <2>8. \A k \in Scans : ScanKept(k)'
    BY <2>1, <2>2, <2>4 DEF KeepInv, ScanKept, Owned, Writing, TypeOK, Scan
  <2> QED BY <2>5, <2>6, <2>7, <2>8 DEF KeepInv
<1>2. CASE Open(s) \/ OpenFails(s) \/ Prompt(s) \/ AnswerPrompt(s) \/ CloseSession(s)
  <2>1. /\ client[s] # "none" /\ client'[s] \in {"open", "prompt", "closed"}
        /\ \A q \in Sessions \ {s} : client'[q] = client[q] /\ renewal'[q] = renewal[q]
        /\ client'[s] # "closed" => Owned(s) /\ renewal' = renewal
        /\ missed' = missed
        /\ UNCHANGED <<key, call, scan>>
    BY <1>2 DEF Open, OpenFails, Prompt, AnswerPrompt, CliMoves, CloseSession, Owned, TypeOK
  <2>2. client[s] = "connecting" /\ client'[s] # "closed" => Live(s) /\ key[s].data.id # NoId
    BY <1>2, NoIdAssumption DEF Open, OpenFails, Prompt, AnswerPrompt, CliMoves, CloseSession,
                                Connectable, TypeOK
  <2>3. \A q \in Sessions : Owned(q)' => Owned(q)
    BY <2>1 DEF Owned
  <2>4. \A q \in Sessions : Untouched(q)'
    BY <2>1 DEF KeepInv, Untouched, Busy
  <2>5. \A q \in Sessions : KeyLasts(q)' /\ Unrenewed(q)'
    BY <2>1, <2>2, <2>3 DEF KeepInv, KeyLasts, Unrenewed, Owned, Holding, Live
  <2>6. \A r \in Calls : CallKept(r)'
    BY <2>1, <2>3 DEF KeepInv, CallKept, Live, TypeOK, Call
  <2>7. \A k \in Scans : ScanKept(k)'
    BY <2>1, <2>3 DEF KeepInv, ScanKept, Owned, Writing, TypeOK, Scan
  <2> QED BY <2>4, <2>5, <2>6, <2>7 DEF KeepInv
<1> QED BY <1>1, <1>2 DEF Cli

LEMMA KeepRenew ==
  ASSUME TypeOK, KeepInv, TTL >= 2, NEW s \in Sessions, Renew(s) \/ RenewFails(s)
  PROVE  KeepInv'
<1> USE TTLAssumption
<1>1. /\ UNCHANGED <<client, call, scan>> /\ renewal[s] # "idle"
      /\ \A q \in Sessions \ {s} : renewal'[q] = renewal[q] /\ (q \in missed' <=> q \in missed)
      /\ renewal'[s] \in {"idle", "expire"}
  BY DEF Renew, RenewGet, RenewExpire, RenewFails, TypeOK
<1>2. \A q \in Sessions :
         \/ renewal'[q] = renewal[q] /\ (q \in missed' => q \in missed)
         \/ client[q] \notin {"none", "connecting"} /\ \A k \in Scans : ~(Writing(k) /\ Owned(q) /\ scan[k].session = q)
  BY <1>1 DEF KeepInv, Unrenewed, ScanKept
<1>3. CASE RenewGet(s) \/ RenewFails(s)
  <2>1. /\ key' = key /\ missed \subseteq missed'
        /\ s \in missed' \/ (Live(s) => renewal'[s] = "expire")
    BY <1>3 DEF RenewGet, RenewFails, TypeOK
  <2>2. \A q \in Sessions : Owned(q) /\ q \notin missed' =>
           /\ Live(q)' /\ key'[q].ttl >= TTL - 1
           /\ renewal'[q] = "idle" => key'[q].ttl = TTL
    BY <1>1, <2>1 DEF KeepInv, KeyLasts, Live
  <2> QED BY <1>1, <1>2, <2>1, <2>2, KeepKeys DEF Live
<1>4. CASE RenewExpire(s)
  <2>1. /\ key' = [key EXCEPT ![s] = IF key[s] = NoKey THEN key[s] ELSE [key[s] EXCEPT !.ttl = TTL]]
        /\ missed' = IF Live(s) THEN missed \ {s} ELSE missed
    BY <1>4 DEF RenewExpire, ExpireIn
  <2>2. \A q \in Sessions \ {s} : key'[q] = key[q]
    BY <2>1 DEF TypeOK
  <2>3. Live(s) => Live(s)' /\ key'[s].ttl = TTL /\ key'[s].data = key[s].data
    <3>1. Live(s) => key[s] \in Key /\ key'[s] = [key[s] EXCEPT !.ttl = TTL]
      BY <2>1 DEF Live, TypeOK
    <3>2. Live(s) => key'[s] \in Key
      BY <3>1 DEF Key
    <3> QED BY <3>1, <3>2, NoKeyAssumption DEF Live, Key
  <2>4. Live(s)' => Live(s)
    BY <2>1 DEF TypeOK, Live
  <2>5. \A q \in Sessions : Live(q)' => Live(q) /\ key'[q].data.id = key[q].data.id
    BY <2>2, <2>3, <2>4 DEF Live
  <2>6. \A q \in Sessions : Owned(q) /\ q \notin missed' =>
           /\ Live(q)' /\ key'[q].ttl >= TTL - 1
           /\ renewal'[q] = "idle" => key'[q].ttl = TTL
    <3>1. ASSUME NEW q \in Sessions \ {s}, Owned(q), q \notin missed'
          PROVE  /\ Live(q)' /\ key'[q].ttl >= TTL - 1
                 /\ renewal'[q] = "idle" => key'[q].ttl = TTL
      BY <1>1, <2>2, <3>1 DEF KeepInv, KeyLasts, Live
    <3>2. Owned(s) /\ s \notin missed' => Live(s)
      BY <2>1 DEF KeepInv, KeyLasts
    <3> QED BY <2>3, <3>1, <3>2
  <2> QED BY <1>1, <1>2, <2>5, <2>6, KeepKeys
<1> QED BY <1>3, <1>4 DEF Renew

\* A step of one handler that writes nothing.
LEMMA KeepCall ==
  ASSUME KeepInv, NEW r \in Calls, UNCHANGED <<client, renewal, missed, key, scan>>,
         \A q \in Calls \ {r} : call'[q] = call[q],
         CallKept(r)', Busy(r)' => client[call'[r].session] # "none"
  PROVE  KeepInv'
<1>1. \A s \in Sessions : Untouched(s)' /\ Unrenewed(s)'
  BY DEF KeepInv, Untouched, Unrenewed, Busy
<1>2. \A s \in Sessions : KeyLasts(s)'
  BY DEF KeepInv, KeyLasts, Owned, Holding, Live
<1>3. \A q \in Calls : CallKept(q)'
  BY DEF KeepInv, CallKept, Owned, Live
<1>4. \A k \in Scans : ScanKept(k)'
  BY DEF KeepInv, ScanKept, Owned, Writing
<1> QED BY <1>1, <1>2, <1>3, <1>4 DEF KeepInv

\* Whoever writes a key writes a whole ttl and a container's id, and not to a
\* session nobody has created.
LEMMA KeepSetex ==
  ASSUME TypeOK, KeepInv, TTL >= 2, NEW s \in Sessions, NEW ttl \in 0 .. TTL, NEW data \in Data,
         Setex(s, ttl, data)
  PROVE  /\ \A q \in Sessions \ {s} : key'[q] = key[q]
         /\ key'[s] # NoKey /\ key'[s].data.id = data.id /\ key'[s].ttl = ttl
<1>1. key'[s] = [ttl |-> ttl, data |-> data] /\ \A q \in Sessions \ {s} : key'[q] = key[q]
  BY DEF Setex, TypeOK
<1>2. key'[s] \in Key
  BY <1>1 DEF Key
<1> QED BY <1>1, <1>2, NoKeyAssumption

LEMMA KeepCalls ==
  ASSUME TypeOK, KeepInv, "upload" \notin Kinds, TTL >= 2, NEW r \in Calls,
         Receive(r) \/ Handle(r) \/ CallRedisFails(r)
  PROVE  KeepInv'
<1> USE TTLAssumption
<1> DEFINE s == call[r].session
<1>0. call \in [Calls -> Call] /\ call[r] \in Call /\ s \in Sessions /\ CallKept(r)
  BY DEF TypeOK, Call, KeepInv
<1>1. Busy(r) => client[s] # "none"
  BY <1>0 DEF KeepInv, Untouched
<1>2. CASE Receive(r)
  <2>1. PICK kind \in Kinds, q \in Sessions, f \in Files :
          /\ kind = "upload" => Holding(q)
          /\ kind = "activity" => client[q] # "none" /\ Connectable(q)
          /\ call' = [call EXCEPT ![r].kind = kind, ![r].session = q, ![r].file = f, ![r].pc = "get"]
    BY <1>2, ReceiveTakes
  <2>2. kind # "upload" /\ client[q] # "none" /\ key[q].data.id # NoId
    BY <2>1, KindsAssumption, NoIdAssumption DEF Connectable
  <2>3. call' = [call EXCEPT ![r] = [call[r] EXCEPT !.kind = kind, !.session = q, !.file = f, !.pc = "get"]]
    BY <1>0, <2>1
  <2>4. /\ call'[r].kind = kind /\ call'[r].session = q /\ call'[r].pc = "get"
        /\ \A n \in Calls \ {r} : call'[n] = call[n]
    BY <1>0, <2>3 DEF Call
  <2>5. UNCHANGED <<client, renewal, missed, key, scan>>
    BY <1>2 DEF Receive
  <2>6. CallKept(r)'
    BY <2>2, <2>4, <2>5 DEF CallKept
  <2> QED BY <2>2, <2>4, <2>5, <2>6, KeepCall
<1>3. CASE GetSession(r)
  <2>1. UNCHANGED <<client, renewal, missed, key, scan>> /\ call[r].pc = "get"
    BY <1>3 DEF GetSession
  <2>2. /\ call'[r].kind = call[r].kind /\ call'[r].session = s
        /\ \A n \in Calls \ {r} : call'[n] = call[n]
        /\ \/ call'[r].pc = "failed"
           \/ call'[r].pc = "setex" /\ Live(s) /\ call'[r].data = key[s].data /\ call'[r].ttl = TTL
    <3>1. CASE Live(s)
      <4>1. call' = [call EXCEPT ![r] = [call[r] EXCEPT !.data = key[s].data,
                        !.pc = IF call[r].kind = "upload" THEN "mkdir" ELSE "setex", !.ttl = TTL]]
        BY <1>0, <1>3, <3>1 DEF GetSession
      <4> QED BY <1>0, <3>1, <4>1 DEF Call, CallKept
    <3>2. CASE ~Live(s)
      BY <1>0, <1>3, <3>2 DEF GetSession, CallGoto, Call
    <3> QED BY <3>1, <3>2
  <2>3. Owned(s) /\ Live(s) => key[s].data.id # NoId
    BY <1>0, <2>1 DEF CallKept
  <2>4. CallKept(r)'
    BY <1>0, <2>1, <2>2, <2>3 DEF CallKept, Owned
  <2>5. client[s] # "none"
    BY <1>1, <2>1 DEF Busy
  <2> QED BY <2>1, <2>2, <2>4, <2>5, KeepCall
<1>4. CASE UploadMkdir(r) \/ UploadWrite(r) \/ UploadTtl(r)
  BY <1>0, <1>4 DEF UploadMkdir, UploadWrite, UploadTtl, CallKept
<1>5. CASE CallSetex(r)
  <2>1. /\ call[r].pc = "setex" /\ Setex(s, call[r].ttl, call[r].data) /\ CallGoto(r, "done")
        /\ UNCHANGED <<client, renewal, missed, scan>>
    BY <1>5 DEF CallSetex
  <2>2. call[r].ttl = TTL /\ client[s] # "none" /\ call[r].data \in Data /\ (Owned(s) => call[r].data.id # NoId)
    BY <1>0, <1>1, <2>1 DEF Busy, CallKept, Call
  <2>3. /\ \A q \in Sessions \ {s} : key'[q] = key[q]
        /\ key'[s] # NoKey /\ key'[s].data.id = call[r].data.id /\ key'[s].ttl = TTL
    <3> DEFINE t == call[r].ttl
               d == call[r].data
    <3>1. /\ s \in Sessions /\ t \in 0 .. TTL /\ d \in Data /\ Setex(s, t, d)
      BY <1>0, <2>1, <2>2
    <3> HIDE DEF t, d, s
    <3>2. /\ \A q \in Sessions \ {s} : key'[q] = key[q]
          /\ key'[s] # NoKey /\ key'[s].data.id = d.id /\ key'[s].ttl = t
      BY <3>1, KeepSetex
    <3> QED BY <2>2, <3>2 DEF t, d
  <2>4. /\ call'[r].pc = "done" /\ call'[r].kind = call[r].kind
        /\ \A n \in Calls \ {r} : call'[n] = call[n]
    BY <1>0, <2>1 DEF CallGoto, Call
  <2>5. \A q \in Sessions : Untouched(q)' /\ Unrenewed(q)'
    BY <2>1, <2>2, <2>3, <2>4 DEF KeepInv, Untouched, Unrenewed, Busy
  <2>6. \A q \in Sessions : KeyLasts(q)'
    <3>1. ASSUME NEW q \in Sessions \ {s} PROVE KeyLasts(q)'
      BY <2>1, <2>3 DEF KeepInv, KeyLasts, Owned, Holding, Live
    <3>2. ASSUME NEW q \in Sessions, q = s PROVE KeyLasts(q)'
      BY <2>1, <2>2, <2>3, <3>2 DEF KeepInv, KeyLasts, Owned, Holding, Live
    <3> QED BY <3>1, <3>2
  <2>7. \A n \in Calls : CallKept(n)'
    <3> SUFFICES ASSUME NEW n \in Calls \ {r} PROVE CallKept(n)'
      BY <1>0, <2>4 DEF CallKept
    <3>1. CallKept(n) /\ call'[n] = call[n] /\ call[n].session \in Sessions
      BY <1>0, <2>4 DEF KeepInv, Call
    <3> QED BY <2>1, <2>2, <2>3, <3>1 DEF CallKept, Owned, Live
  <2>8. \A k \in Scans : ScanKept(k)'
    BY <2>1, <2>2, <2>3 DEF KeepInv, ScanKept, Owned, Writing, TypeOK, Scan
  <2> QED BY <2>5, <2>6, <2>7, <2>8 DEF KeepInv
<1>6. CASE CallRedisFails(r)
  <2>1. UNCHANGED <<client, renewal, missed, key, scan>> /\ CallGoto(r, "failed")
    BY <1>6 DEF CallRedisFails
  <2>2. /\ call'[r].pc = "failed" /\ call'[r].kind = call[r].kind
        /\ \A n \in Calls \ {r} : call'[n] = call[n]
    BY <1>0, <2>1 DEF CallGoto, Call
  <2>3. CallKept(r)' /\ ~Busy(r)'
    BY <1>0, <2>2 DEF CallKept, Busy
  <2> QED BY <2>1, <2>2, <2>3, KeepCall
<1> QED BY <1>2, <1>3, <1>4, <1>5, <1>6 DEF Handle

\* A step of one scan that writes nothing.
LEMMA KeepScan ==
  ASSUME KeepInv, NEW k \in Scans, UNCHANGED <<client, renewal, missed, key, call>>,
         \A l \in Scans \ {k} : scan'[l] = scan[l],
         ScanKept(k)', \A s \in scan'[k].todo : client[s] # "none",
         scan'[k].pc \notin {"idle", "next"} => client[scan'[k].session] # "none"
  PROVE  KeepInv'
<1>1. \A s \in Sessions : Untouched(s)' /\ Unrenewed(s)'
  BY DEF KeepInv, Untouched, Unrenewed, Busy
<1>2. \A s \in Sessions : KeyLasts(s)'
  BY DEF KeepInv, KeyLasts, Owned, Holding, Live
<1>3. \A q \in Calls : CallKept(q)'
  BY DEF KeepInv, CallKept, Owned, Live
<1>4. \A l \in Scans : ScanKept(l)'
  BY DEF KeepInv, ScanKept, Owned, Writing
<1> QED BY <1>1, <1>2, <1>3, <1>4 DEF KeepInv

LEMMA KeepScans ==
  ASSUME TypeOK, Names, KeepInv, TTL >= 2, NEW k \in Scans,
         ScanAndCreate(k) \/ ScanDockerFails(k) \/ ScanRedisFails(k)
  PROVE  KeepInv'
<1> USE TTLAssumption
<1> DEFINE s == scan[k].session
<1>0. /\ scan \in [Scans -> Scan] /\ scan[k] \in Scan /\ s \in Sessions /\ ScanKept(k)
      /\ scan[k].todo \subseteq Sessions
  BY DEF TypeOK, Scan, KeepInv
<1>1. /\ scan[k].pc \notin {"idle", "next"} => client[s] # "none"
      /\ \A q \in scan[k].todo : client[q] # "none"
  BY <1>0 DEF KeepInv, Untouched
<1>2. /\ IdleScan.pc = "idle" /\ IdleScan.todo = {}
  BY DEF IdleScan
\* The scan goes on with the same session, id and value.
<1>3. ASSUME NEW pc, ScanGoto(k, pc), UNCHANGED <<client, renewal, missed, key, call>>,
             pc \in {"idle", "next", "get", "create", "start"}
               \/ (pc = "mkdir" /\ (Owned(s) => renewal[s] = "idle" /\ s \notin missed))
               \/ (pc = "reload" /\ scan[k].id # NoId),
             scan[k].pc \notin {"idle", "next"},
             Writing(k) \/ pc \in {"next", "get", "mkdir"}
      PROVE  KeepInv'
  <2>1. /\ scan'[k] = [scan[k] EXCEPT !.pc = pc] /\ \A l \in Scans \ {k} : scan'[l] = scan[l]
    BY <1>0, <1>3 DEF ScanGoto
  <2>2. /\ scan'[k].pc = pc /\ scan'[k].session = s /\ scan'[k].todo = scan[k].todo
        /\ scan'[k].id = scan[k].id
    BY <1>0, <2>1 DEF Scan
  <2>3. ScanKept(k)'
    BY <1>0, <1>3, <2>2 DEF ScanKept, Owned, Writing
  <2> QED BY <1>1, <1>3, <2>1, <2>2, <2>3, KeepScan
<1>4. CASE ScanStart(k)
  <2>1. /\ scan' = [scan EXCEPT ![k] = [IdleScan EXCEPT !.pc = "next", !.todo = {q \in Sessions : Live(q)}]]
        /\ UNCHANGED <<client, renewal, missed, key, call>>
    BY <1>4 DEF ScanStart
  <2>2. /\ scan'[k].pc = "next" /\ scan'[k].todo = {q \in Sessions : Live(q)}
        /\ \A l \in Scans \ {k} : scan'[l] = scan[l]
    BY <1>0, <2>1 DEF IdleScan
  <2>3. \A q \in scan'[k].todo : client[q] # "none"
    BY <2>2 DEF KeepInv, Untouched, Live
  <2>4. ScanKept(k)'
    BY <2>2 DEF ScanKept, Writing
  <2> QED BY <2>1, <2>2, <2>3, <2>4, KeepScan
<1>5. CASE ScanNext(k)
  <2>1. PICK q \in scan[k].todo :
          scan' = [scan EXCEPT ![k].todo = @ \ {q}, ![k].session = q,
                     ![k].pc = IF containerMap[q] # NoId THEN "next" ELSE "get"]
    BY <1>5 DEF ScanNext
  <2>2. scan'[k] = [scan[k] EXCEPT !.todo = @ \ {q}, !.session = q,
                      !.pc = IF containerMap[q] # NoId THEN "next" ELSE "get"]
        /\ \A l \in Scans \ {k} : scan'[l] = scan[l]
    BY <1>0, <2>1
  <2>3. scan'[k].pc \in {"next", "get"} /\ scan'[k].todo \subseteq scan[k].todo /\ scan'[k].session = q
    BY <1>0, <2>2 DEF Scan
  <2>4. ScanKept(k)'
    BY <2>3 DEF ScanKept, Writing
  <2>5. UNCHANGED <<client, renewal, missed, key, call>>
    BY <1>5 DEF ScanNext
  <2> QED BY <1>1, <2>2, <2>3, <2>4, <2>5, KeepScan
<1>6. ASSUME scan' = [scan EXCEPT ![k] = IdleScan], UNCHANGED <<client, renewal, missed, key, call>>
      PROVE  KeepInv'
  <2>1. scan'[k] = IdleScan /\ \A l \in Scans \ {k} : scan'[l] = scan[l]
    BY <1>0, <1>6
  <2>2. ScanKept(k)'
    BY <1>2, <2>1 DEF ScanKept, Writing
  <2> QED BY <1>2, <1>6, <2>1, <2>2, KeepScan
<1>7. CASE ScanEnd(k)
  BY <1>6, <1>7 DEF ScanEnd
<1>8. CASE ScanGet(k)
  <2>1. UNCHANGED <<client, renewal, missed, key, call>> /\ scan[k].pc = "get"
    BY <1>8 DEF ScanGet
  <2>2. CASE Live(s) /\ key[s].data.id = NoId
    <3>1. Owned(s) => renewal[s] = "idle" /\ s \notin missed
      BY <1>0, <2>2 DEF KeepInv, KeyLasts, Unrenewed, Owned, Holding
    <3> QED BY <1>3, <1>8, <2>1, <2>2, <3>1 DEF ScanGet
  <2>3. CASE ~(Live(s) /\ key[s].data.id = NoId)
    <3>1. ScanGoto(k, "next")
      BY <1>8, <2>3 DEF ScanGet
    <3> QED BY <1>3, <2>1, <3>1
  <2> QED BY <2>2, <2>3
<1>9. CASE ScanMkdir(k)
  BY <1>3, <1>9 DEF ScanMkdir, Writing
<1>10. CASE ScanCreate(k)
  <2>1. UNCHANGED <<client, renewal, missed, key, call>> /\ scan[k].pc = "create"
    BY <1>10 DEF ScanCreate
  <2>2. CASE ScanGoto(k, "next")
    BY <1>3, <2>1, <2>2
  <2>3. ASSUME NEW i \in Ids, scan' = [scan EXCEPT ![k].id = i, ![k].pc = "start"] PROVE KeepInv'
    <3>1. scan'[k] = [scan[k] EXCEPT !.id = i, !.pc = "start"] /\ \A l \in Scans \ {k} : scan'[l] = scan[l]
      BY <1>0, <2>3
    <3>2. scan'[k].pc = "start" /\ scan'[k].session = s /\ scan'[k].todo = scan[k].todo
      BY <1>0, <3>1 DEF Scan
    <3>3. ScanKept(k)'
      BY <1>0, <2>1, <3>2 DEF ScanKept, Writing, Owned
    <3> QED BY <1>1, <2>1, <3>1, <3>2, <3>3, KeepScan
  <2> QED BY <1>10, <2>2, <2>3 DEF ScanCreate
<1>11. CASE ScanLaunch(k)
  <2>1. scan[k].id # NoId
    BY <1>11, NoIdAssumption DEF ScanLaunch, Names, InHand
  <2> QED BY <1>3, <1>11, <2>1 DEF ScanLaunch, Writing
<1>12. CASE ScanReload(k)
  <2>1. UNCHANGED <<client, renewal, missed, key, call>> /\ scan[k].pc = "reload" /\ scan[k].id # NoId
    BY <1>0, <1>12 DEF ScanReload, ScanKept
  <2>2. CASE ~Live(s)
    BY <1>3, <1>12, <2>1, <2>2 DEF ScanReload
  <2>3. CASE Live(s)
    <3>1. key[s].data \in Data
      BY <1>0, <2>3, KeyType
    <3> DEFINE data == [key[s].data EXCEPT !.id = scan[k].id]
    <3>2. data.id = scan[k].id
      BY <3>1 DEF Data
    <3>3. scan' = [scan EXCEPT ![k].data = data, ![k].pc = "ttl"]
      BY <1>12, <2>3 DEF ScanReload
    <3> HIDE DEF data
    <3>4. scan'[k] = [scan[k] EXCEPT !.data = data, !.pc = "ttl"] /\ \A l \in Scans \ {k} : scan'[l] = scan[l]
      BY <1>0, <3>3
    <3>5. /\ scan'[k].pc = "ttl" /\ scan'[k].session = s /\ scan'[k].todo = scan[k].todo
          /\ scan'[k].data.id = scan[k].id
      BY <1>0, <3>2, <3>4 DEF Scan
    <3>6. ScanKept(k)'
      BY <1>0, <2>1, <3>5 DEF ScanKept, Writing, Owned
    <3> QED BY <1>1, <2>1, <3>4, <3>5, <3>6, KeepScan
  <2> QED BY <2>2, <2>3
<1>13. CASE ScanTtl(k)
  <2> DEFINE ttl == TtlOf(s)
             pc == IF ttl > 0 THEN "setex" ELSE "next"
  <2>1. UNCHANGED <<client, renewal, missed, key, call>> /\ scan[k].pc = "ttl"
    BY <1>13 DEF ScanTtl
  <2>2. Owned(s) => ttl = TTL
    BY <1>0, <2>1 DEF KeepInv, KeyLasts, ScanKept, Writing, TtlOf
  <2>3. pc \in {"setex", "next"} /\ scan' = [scan EXCEPT ![k].pc = pc, ![k].ttl = ttl]
    BY <1>13 DEF ScanTtl
  <2> HIDE DEF ttl, pc
  <2>4. scan'[k] = [scan[k] EXCEPT !.pc = pc, !.ttl = ttl] /\ \A l \in Scans \ {k} : scan'[l] = scan[l]
    BY <1>0, <2>3
  <2>5. /\ scan'[k].pc = pc /\ scan'[k].session = s /\ scan'[k].todo = scan[k].todo
        /\ scan'[k].data = scan[k].data /\ scan'[k].ttl = ttl
    BY <1>0, <2>4 DEF Scan
  <2>6. ScanKept(k)'
    BY <1>0, <2>1, <2>2, <2>3, <2>5 DEF ScanKept, Writing, Owned
  <2> QED BY <1>1, <2>1, <2>4, <2>5, <2>6, KeepScan
<1>14. CASE ScanSetex(k)
  <2>1. /\ scan[k].pc = "setex" /\ Setex(s, scan[k].ttl, scan[k].data) /\ ScanGoto(k, "next")
        /\ UNCHANGED <<client, renewal, missed, call>>
    BY <1>14 DEF ScanSetex
  <2>2. /\ client[s] # "none" /\ scan[k].data \in Data /\ scan[k].data.id # NoId /\ scan[k].ttl \in 0 .. TTL
        /\ Owned(s) => scan[k].ttl = TTL
    BY <1>0, <1>1, <2>1 DEF ScanKept, Scan
  <2>3. /\ \A q \in Sessions \ {s} : key'[q] = key[q]
        /\ key'[s] # NoKey /\ key'[s].data.id = scan[k].data.id /\ key'[s].ttl = scan[k].ttl
    <3> DEFINE t == scan[k].ttl
               d == scan[k].data
    <3>1. /\ s \in Sessions /\ t \in 0 .. TTL /\ d \in Data /\ Setex(s, t, d)
      BY <1>0, <2>1, <2>2
    <3> HIDE DEF t, d, s
    <3>2. /\ \A q \in Sessions \ {s} : key'[q] = key[q]
          /\ key'[s] # NoKey /\ key'[s].data.id = d.id /\ key'[s].ttl = t
      BY <3>1, KeepSetex
    <3> QED BY <2>2, <3>2 DEF t, d
  <2>4. /\ scan'[k].pc = "next" /\ scan'[k].todo = scan[k].todo
        /\ \A l \in Scans \ {k} : scan'[l] = scan[l]
    BY <1>0, <2>1 DEF ScanGoto, Scan
  <2>5. \A q \in Sessions : Untouched(q)' /\ Unrenewed(q)'
    BY <2>1, <2>2, <2>3, <2>4 DEF KeepInv, Untouched, Unrenewed, Busy
  <2>6. \A q \in Sessions : KeyLasts(q)'
    <3>1. ASSUME NEW q \in Sessions \ {s} PROVE KeyLasts(q)'
      BY <2>1, <2>3 DEF KeepInv, KeyLasts, Owned, Holding, Live
    <3>2. ASSUME NEW q \in Sessions, q = s PROVE KeyLasts(q)'
      BY <2>1, <2>2, <2>3, <3>2 DEF KeepInv, KeyLasts, Owned, Holding, Live
    <3> QED BY <3>1, <3>2
  <2>7. \A n \in Calls : CallKept(n)'
    BY <2>1, <2>2, <2>3 DEF KeepInv, CallKept, Owned, Live, TypeOK, Call
  <2>8. \A l \in Scans : ScanKept(l)'
    <3> SUFFICES ASSUME NEW l \in Scans \ {k} PROVE ScanKept(l)'
      BY <2>4 DEF ScanKept, Writing
    <3>1. ScanKept(l) /\ scan'[l] = scan[l] /\ scan[l].session \in Sessions
      BY <1>0, <2>4 DEF KeepInv, Scan
    <3> QED BY <2>1, <2>2, <2>3, <3>1 DEF ScanKept, Owned, Writing
  <2> QED BY <2>5, <2>6, <2>7, <2>8 DEF KeepInv
<1>15. CASE ScanDockerFails(k)
  <2>1. /\ scan' = [scan EXCEPT ![k].pc = "next", ![k].id = NoId] /\ UNCHANGED <<client, renewal, missed, key, call>>
    BY <1>15 DEF ScanDockerFails
  <2>2. scan'[k] = [scan[k] EXCEPT !.pc = "next", !.id = NoId] /\ \A l \in Scans \ {k} : scan'[l] = scan[l]
    BY <1>0, <2>1
  <2>3. scan'[k].pc = "next" /\ scan'[k].todo = scan[k].todo
    BY <1>0, <2>2 DEF Scan
  <2>4. ScanKept(k)'
    BY <2>3 DEF ScanKept, Writing
  <2> QED BY <1>1, <2>1, <2>2, <2>3, <2>4, KeepScan
<1>16. CASE ScanRedisFails(k)
  <2>1. CASE ScanGoto(k, "next")
    BY <1>3, <1>16, <2>1 DEF ScanRedisFails
  <2>2. CASE scan' = [scan EXCEPT ![k] = IdleScan]
    BY <1>6, <1>16, <2>2 DEF ScanRedisFails
  <2> QED BY <1>16, <2>1, <2>2 DEF ScanRedisFails
<1> QED BY <1>4, <1>5, <1>7, <1>8, <1>9, <1>10, <1>11, <1>12, <1>13, <1>14, <1>15, <1>16
        DEF ScanAndCreate

LEMMA KeepInvHolds ==
  ASSUME ~IdleUsers, "upload" \notin Kinds, TTL >= 2
  PROVE  Spec => []KeepInv
<1>1. Init => Names
  BY DEF Init, Names, OneContainerPerSession, Exists, InHand, IdleScan
<1>2. Init => KeepInv
  BY DEF Init, KeepInv, Untouched, Unrenewed, KeyLasts, CallKept, ScanKept, Owned, Holding, Writing, Busy,
         NewCall, IdleScan
<1>3. TypeOK /\ Names /\ KeepInv /\ [Next]_vars => KeepInv'
  <2> SUFFICES ASSUME TypeOK, Names, KeepInv, [Next]_vars PROVE KeepInv'
    OBVIOUS
  <2>1. CASE Crash \/ ShutdownEnds
    <3>1. UNCHANGED <<client, renewal, missed, key, call>> /\ \A k \in Scans : scan'[k] = IdleScan
      BY <2>1 DEF Crash, ShutdownEnds, Restart
    <3>2. IdleScan.pc = "idle" /\ IdleScan.todo = {}
      BY DEF IdleScan
    <3> QED BY <3>1, <3>2 DEF KeepInv, Untouched, Unrenewed, KeyLasts, CallKept, ScanKept, Owned, Writing, Busy, Holding, Live
  <2>2. CASE Sigterm \/ UNCHANGED vars \/ \E s \in Sessions : ShutdownStep(s) \/ ShutdownDockerFails(s)
    BY <2>2, KeepSame DEF Sigterm, ShutdownStep, ShutdownDockerFails
  <2>3. CASE \E k \in Cleanups : CleanExpired(k) \/ CleanupDockerFails(k) \/ CleanupRedisFails(k)
    BY <2>3, KeepSame DEF CleanExpired, CleanupStart, CleanupNext, CleanupEnd, StopContainer,
         RemoveContainer, RemoveDirectory, CleanupDockerFails, CleanupRedisFails
  <2>4. CASE Tick
    BY <2>4, KeepTick, SomeAssumption
  <2> QED BY <2>1, <2>2, <2>3, <2>4, KeepTick, KeepCli, KeepRenew, KeepCalls, KeepScans
          DEF Next, StopAll, Fail
<1> QED BY <1>1, <1>2, <1>3, InitType, NextType, NamesNext, PTL DEF Spec

\* A session lives as long as a CLI holds it (startRenewal) and no renewal of it has
\* failed since the last that succeeded: if the CLI answers its prompts at once, no
\* upload overlaps a renewal, and the ttl is at least two renewal intervals, then
\* whatever scans, messages and crashes do, and whatever Docker and Redis refuse.
THEOREM RenewalHolds ==
  ASSUME ~IdleUsers, "upload" \notin Kinds, TTL >= 2
  PROVE  Spec => []RenewedStaysAlive
<1>1. KeepInv => RenewedStaysAlive
  BY DEF KeepInv, KeyLasts, Owned, Holding, RenewedStaysAlive
<1> QED BY <1>1, KeepInvHolds, PTL

--------------------------------------------------------------------------------
(* Names.  A key names no container only between the creation of the session and *)
(* the end of the scan that finds it: nobody writes a value without an id, since *)
(* a handler gets to read a session only when it names a container.              *)

Nameless(s) == Live(s) /\ key[s].data.id = NoId
HasRead(r)  == call[r].pc \in {"mkdir", "write", "ttl", "setex"}

Unborn(s) == client[s] = "none" =>
  /\ Untouched(s)
  /\ containerMap[s] = NoId
  /\ \A i \in Ids : Exists(i) => container[i].session # s
  /\ \A c \in Cleanups : s \notin cleanup[c].cleaned

CallNames(r) == /\ Busy(r) => ~Nameless(call[r].session)
                /\ HasRead(r) => call[r].data.id # NoId
ScanNames(k) == /\ scan[k].pc = "reload" => scan[k].id # NoId
                /\ scan[k].pc \in {"ttl", "setex"} => scan[k].data.id # NoId

NameInv ==
  /\ \A s \in Sessions : Unborn(s) /\ (Holding(s) => ~Nameless(s))
  /\ \A r \in Calls : CallNames(r)
  /\ \A k \in Scans : ScanNames(k)

\* What a step may do: touch only sessions that were created, and read and write
\* values with an id.
LEMMA NameStep ==
  ASSUME NameInv,
         \A s \in Sessions :
           /\ client'[s] = "none" => client[s] = "none" /\ key'[s] = key[s]
           /\ Nameless(s)' => Nameless(s) \/ client[s] = "none"
           /\ Holding(s)' => ~Nameless(s)'
           /\ containerMap'[s] \in {containerMap[s], NoId} \/ client[s] # "none",
         \A r \in Calls :
           \/ call'[r] = call[r]
           \/ /\ Busy(r)' => client[call'[r].session] # "none" /\ ~Nameless(call[r].session)'
              /\ HasRead(r)' => call'[r].data.id # NoId,
         \A k \in Scans :
           \/ scan'[k] = scan[k]
           \/ /\ \A s \in scan'[k].todo : client[s] # "none"
              /\ scan'[k].pc \notin {"idle", "next"} => client[scan'[k].session] # "none"
              /\ ScanNames(k)',
         \A i \in Ids : Exists(i)' =>
           \/ Exists(i) /\ container'[i].session = container[i].session
           \/ client[container'[i].session] # "none",
         \A c \in Cleanups : \A s \in cleanup'[c].cleaned :
           s \in cleanup[c].cleaned \/ client[s] # "none",
         TypeOK
  PROVE  NameInv'
<1>1. ASSUME NEW s \in Sessions PROVE Unborn(s)'
  <2> SUFFICES ASSUME client'[s] = "none"
               PROVE  /\ Untouched(s)'
                      /\ containerMap'[s] = NoId
                      /\ \A i \in Ids : Exists(i)' => container'[i].session # s
                      /\ \A c \in Cleanups : s \notin cleanup'[c].cleaned
    BY DEF Unborn
  <2>1. client[s] = "none" /\ Unborn(s) /\ Untouched(s) /\ key'[s] = NoKey
    BY DEF NameInv, Unborn, Untouched
  <2>2. \A r \in Calls : Busy(r)' => call'[r].session # s
    BY <2>1 DEF Untouched, Busy
  <2>3. \A k \in Scans : s \notin scan'[k].todo /\ (scan'[k].pc \notin {"idle", "next"} => scan'[k].session # s)
    BY <2>1 DEF Untouched
  <2>4. Untouched(s)'
    BY <2>1, <2>2, <2>3 DEF Untouched
  <2> QED BY <2>1, <2>4 DEF Unborn
<1>2. \A s \in Sessions : Holding(s)' => ~Nameless(s)'
  OBVIOUS
<1>3. ASSUME NEW r \in Calls PROVE CallNames(r)'
  <2>1. CASE call'[r] = call[r]
    <3>1. call[r].session \in Sessions /\ CallNames(r)
      BY DEF TypeOK, Call, NameInv
    <3>2. Busy(r) => client[call[r].session] # "none"
      BY <3>1 DEF NameInv, Unborn, Untouched
    <3> QED BY <2>1, <3>1, <3>2 DEF CallNames, Busy, HasRead
  <2>2. CASE call'[r] # call[r]
    BY <2>2 DEF CallNames
  <2> QED BY <2>1, <2>2
<1>4. \A k \in Scans : ScanNames(k)'
  BY DEF NameInv, ScanNames
<1> QED BY <1>1, <1>2, <1>3, <1>4 DEF NameInv

LEMMA NameTime ==
  ASSUME TypeOK, NameInv, NEW s \in Sessions, Tick \/ Expire(s)
  PROVE  NameInv'
<1>1. /\ UNCHANGED <<client, call, scan, containerMap, container, cleanup>>
      /\ \A q \in Sessions : /\ key[q] = NoKey => key'[q] = NoKey
                             /\ key'[q] # NoKey => key'[q].data = key[q].data
  <2>1. CASE Tick
    <3>1. UNCHANGED <<client, call, scan, containerMap, container, cleanup>>
      BY <2>1 DEF Tick
    <3>2. \A q \in Sessions : key'[q] = IF Live(q) THEN [key[q] EXCEPT !.ttl = @ - 1] ELSE NoKey
      BY <2>1 DEF Tick
    <3>3. \A q \in Sessions : Live(q) => key[q] \in Key
      BY DEF TypeOK, Live
    <3> QED BY <3>1, <3>2, <3>3 DEF Live, Key
  <2>2. CASE Expire(s)
    BY <2>2 DEF Expire, TypeOK
  <2> QED BY <2>1, <2>2
<1>2. \A q \in Sessions : /\ Nameless(q)' => Nameless(q)
                          /\ Holding(q)' => Holding(q)
                          /\ client[q] = "none" => key'[q] = key[q]
  BY <1>1 DEF Nameless, Live, Holding, NameInv, Unborn, Untouched
<1>3. \A q \in Sessions : Holding(q)' => ~Nameless(q)'
  BY <1>2 DEF NameInv
<1>4. \A i \in Ids : Exists(i)' => Exists(i)
  BY <1>1 DEF Exists
<1> QED BY <1>1, <1>2, <1>3, <1>4, NameStep

LEMMA NameCli ==
  ASSUME TypeOK, NameInv, NEW s \in Sessions, Cli(s) \/ Renew(s) \/ RenewFails(s)
  PROVE  NameInv'
<1>1. UNCHANGED <<call, scan, containerMap, container, cleanup>> /\ \A i \in Ids : Exists(i)' => Exists(i)
  BY DEF Cli, CreateSession, Open, OpenFails, Prompt, AnswerPrompt, CliMoves, CloseSession, Renew,
         RenewGet, RenewExpire, RenewFails, Exists
<1>2. CASE CreateSession(s)
  <2>1. /\ client[s] = "none" /\ client'[s] = "connecting" /\ \A q \in Sessions \ {s} : client'[q] = client[q] /\ key'[q] = key[q]
    BY <1>2 DEF CreateSession, Setex, TypeOK
  <2>2. \A q \in Sessions : Holding(q)' => q # s /\ Holding(q) /\ (Nameless(q)' <=> Nameless(q))
    BY <2>1 DEF Holding, Nameless, Live
  <2>3. \A q \in Sessions : Nameless(q)' => Nameless(q) \/ client[q] = "none"
    BY <2>1 DEF Nameless, Live
  <2>4. \A q \in Sessions : Holding(q)' => ~Nameless(q)'
    BY <2>2 DEF NameInv
  <2> QED BY <1>1, <2>1, <2>3, <2>4, NameStep
<1>3. CASE Open(s) \/ OpenFails(s) \/ Prompt(s) \/ AnswerPrompt(s) \/ CloseSession(s)
  <2>1. /\ client[s] # "none" /\ client'[s] \in {"open", "prompt", "closed"} /\ key' = key
        /\ \A q \in Sessions \ {s} : client'[q] = client[q]
        /\ client'[s] # "closed" => Holding(s) \/ Connectable(s)
    BY <1>3 DEF Open, OpenFails, Prompt, AnswerPrompt, CliMoves, CloseSession, Holding, TypeOK
  <2>2. Connectable(s) => ~Nameless(s)
    BY NoIdAssumption DEF Connectable, Nameless
  <2>3. \A q \in Sessions : Nameless(q)' <=> Nameless(q)
    BY <2>1 DEF Nameless, Live
  <2>4. \A q \in Sessions : Holding(q)' => ~Nameless(q)'
    BY <2>1, <2>2, <2>3 DEF Holding, NameInv
  <2> QED BY <1>1, <2>1, <2>3, <2>4, NameStep
<1>4. CASE Renew(s) \/ RenewFails(s)
  <2>1. /\ client' = client
        /\ \A q \in Sessions : key'[q] = key[q] \/ (key[q] # NoKey /\ key'[q].data = key[q].data)
    <3>1. CASE RenewGet(s) \/ RenewFails(s)
      BY <3>1 DEF RenewGet, RenewFails
    <3>2. CASE RenewExpire(s)
      <4>1. /\ client' = client
            /\ key' = [key EXCEPT ![s] = IF key[s] = NoKey THEN key[s] ELSE [key[s] EXCEPT !.ttl = TTL]]
        BY <3>2 DEF RenewExpire, ExpireIn
      <4>2. key[s] # NoKey => key[s] \in Key
        BY DEF TypeOK
      <4> QED BY <4>1, <4>2 DEF TypeOK, Key
    <3> QED BY <1>4, <3>1, <3>2 DEF Renew
  <2>2. \A q \in Sessions : Nameless(q)' => Nameless(q)
    BY <2>1 DEF Nameless, Live
  <2>3. \A q \in Sessions : Holding(q)' => ~Nameless(q)'
    BY <2>1, <2>2 DEF Holding, NameInv
  <2>4. \A q \in Sessions : client[q] = "none" => key'[q] = key[q]
    BY <2>1 DEF NameInv, Unborn, Untouched
  <2> QED BY <1>1, <2>1, <2>2, <2>3, <2>4, NameStep
<1> QED BY <1>2, <1>3, <1>4 DEF Cli

\* Who leaves the clients and the keys alone names nothing anew.
LEMMA NameSame ==
  ASSUME NameInv, UNCHANGED <<client, key>>
  PROVE  \A s \in Sessions :
           /\ client'[s] = "none" => client[s] = "none" /\ key'[s] = key[s]
           /\ Nameless(s)' => Nameless(s) \/ client[s] = "none"
           /\ Holding(s)' => ~Nameless(s)'
BY DEF NameInv, Nameless, Live, Holding

\* Who writes a value with an id to a session that was created leaves no session
\* without a name that had one.
LEMMA NameSetex ==
  ASSUME TypeOK, NameInv, NEW s \in Sessions, NEW ttl, NEW data, Setex(s, ttl, data), data.id # NoId,
         client[s] # "none", UNCHANGED client
  PROVE  /\ key'[s] = [ttl |-> ttl, data |-> data]
         /\ ~Nameless(s)'
         /\ \A q \in Sessions :
              /\ client'[q] = "none" => client[q] = "none" /\ key'[q] = key[q]
              /\ Nameless(q)' => Nameless(q)
              /\ Holding(q)' => ~Nameless(q)'
<1>1. key'[s] = [ttl |-> ttl, data |-> data] /\ \A q \in Sessions \ {s} : key'[q] = key[q]
  BY DEF Setex, TypeOK
<1>2. ~Nameless(s)'
  BY <1>1 DEF Nameless
<1> QED BY <1>1, <1>2 DEF NameInv, Nameless, Live, Holding

LEMMA NameCalls ==
  ASSUME TypeOK, NameInv, NEW r \in Calls, Receive(r) \/ Handle(r) \/ CallRedisFails(r)
  PROVE  NameInv'
<1> DEFINE s == call[r].session
<1>0. call \in [Calls -> Call] /\ call[r] \in Call /\ s \in Sessions /\ CallNames(r)
  BY DEF TypeOK, Call, NameInv
<1>1. Busy(r) => client[s] # "none"
  BY <1>0 DEF NameInv, Unborn, Untouched
<1>2. ASSUME UNCHANGED <<client, key, scan, containerMap, container, cleanup>>,
             \A n \in Calls \ {r} : call'[n] = call[n],
             Busy(r)' => client[call'[r].session] # "none" /\ ~Nameless(call[r].session)',
             HasRead(r)' => call'[r].data.id # NoId
      PROVE  NameInv'
  <2>1. \A i \in Ids : Exists(i)' => Exists(i)
    BY <1>2 DEF Exists
  <2>2. \A n \in Calls : \/ call'[n] = call[n]
                         \/ /\ Busy(n)' => client[call'[n].session] # "none" /\ ~Nameless(call[n].session)'
                            /\ HasRead(n)' => call'[n].data.id # NoId
    BY <1>2
  <2> QED BY <1>2, <2>1, <2>2, NameSame, NameStep
\* The handler goes on with the same session, or ends.
<1>3. ASSUME UNCHANGED <<client, key, scan, containerMap, container, cleanup>>, Busy(r),
             \A n \in Calls \ {r} : call'[n] = call[n],
             call'[r].session = s, HasRead(r)' => call'[r].data.id # NoId
      PROVE  NameInv'
  <2>1. ~Nameless(s)
    BY <1>0, <1>3 DEF CallNames
  <2>2. ~Nameless(call[r].session)'
    BY <1>3, <2>1 DEF Nameless, Live
  <2> HIDE DEF s
  <2> QED BY <1>1, <1>2, <1>3, <2>2
<1>4. ASSUME NEW pc, UNCHANGED <<client, key, scan, containerMap, container, cleanup>>, Busy(r), CallGoto(r, pc),
             HasRead(r) \/ pc = "failed"
      PROVE  NameInv'
  <2>1. /\ call'[r].pc = pc /\ call'[r].session = s /\ call'[r].data = call[r].data
        /\ \A n \in Calls \ {r} : call'[n] = call[n]
    BY <1>0, <1>4 DEF CallGoto, Call
  <2>2. HasRead(r)' => call'[r].data.id # NoId
    BY <1>0, <1>4, <2>1 DEF HasRead, CallNames
  <2> QED BY <1>3, <1>4, <2>1, <2>2
<1>5. CASE Receive(r)
  <2>1. PICK kind \in Kinds, q \in Sessions, f \in Files :
          /\ kind = "upload" => Holding(q)
          /\ kind = "activity" => client[q] # "none" /\ Connectable(q)
          /\ call' = [call EXCEPT ![r].kind = kind, ![r].session = q, ![r].file = f, ![r].pc = "get"]
    BY <1>5, ReceiveTakes
  <2>2. client[q] # "none" /\ ~Nameless(q)
    BY <2>1, KindsAssumption, NoIdAssumption DEF NameInv, Holding, Connectable, Nameless
  <2>3. call' = [call EXCEPT ![r] = [call[r] EXCEPT !.kind = kind, !.session = q, !.file = f, !.pc = "get"]]
    BY <1>0, <2>1
  <2>4. /\ call'[r].session = q /\ call'[r].pc = "get"
        /\ \A n \in Calls \ {r} : call'[n] = call[n]
    BY <1>0, <2>3 DEF Call
  <2>5. UNCHANGED <<client, key, scan, containerMap, container, cleanup>>
    BY <1>5 DEF Receive
  <2>6. ~Nameless(call[r].session)'
    BY <2>2, <2>4, <2>5 DEF Nameless, Live
  <2>7. ~HasRead(r)'
    BY <2>4 DEF HasRead
  <2> QED BY <1>2, <2>2, <2>4, <2>5, <2>6, <2>7
<1>6. CASE GetSession(r)
  <2>1. UNCHANGED <<client, key, scan, containerMap, container, cleanup>> /\ call[r].pc = "get" /\ Busy(r)
    BY <1>6 DEF GetSession, Busy
  <2>2. CASE ~Live(s)
    BY <1>4, <1>6, <2>1, <2>2 DEF GetSession
  <2>3. CASE Live(s)
    <3>1. call' = [call EXCEPT ![r] = [call[r] EXCEPT !.data = key[s].data,
                      !.pc = IF call[r].kind = "upload" THEN "mkdir" ELSE "setex", !.ttl = TTL]]
      BY <1>0, <1>6, <2>3 DEF GetSession
    <3>2. /\ call'[r].session = s /\ call'[r].data = key[s].data
          /\ \A n \in Calls \ {r} : call'[n] = call[n]
      BY <1>0, <3>1 DEF Call
    <3>3. key[s].data.id # NoId
      BY <1>0, <2>1, <2>3 DEF CallNames, Nameless
    <3> QED BY <1>3, <2>1, <3>2, <3>3
  <2> QED BY <2>2, <2>3
<1>7. CASE UploadMkdir(r)
  BY <1>4, <1>7 DEF UploadMkdir, Busy, HasRead
<1>8. CASE UploadWrite(r)
  <2>1. UNCHANGED <<client, key, scan, containerMap, container, cleanup>> /\ Busy(r) /\ HasRead(r)
    BY <1>8 DEF UploadWrite, Busy, HasRead
  <2>2. CASE CallGoto(r, "failed")
    BY <1>4, <2>1, <2>2
  <2>3. CASE call' = [call EXCEPT ![r].pc = "ttl", ![r].data.files = @ \cup {call[r].file}]
    <3> DEFINE data == [call[r].data EXCEPT !.files = @ \cup {call[r].file}]
    <3>1. data.id = call[r].data.id
      BY <1>0 DEF Call, Data
    <3>2. call' = [call EXCEPT ![r] = [call[r] EXCEPT !.pc = "ttl", !.data = data]]
      BY <1>0, <2>3
    <3> HIDE DEF data
    <3>3. /\ call'[r].session = s /\ call'[r].data = data
          /\ \A n \in Calls \ {r} : call'[n] = call[n]
      BY <1>0, <3>2 DEF Call
    <3> QED BY <1>0, <1>3, <2>1, <3>1, <3>3 DEF CallNames
  <2> QED BY <1>8, <2>2, <2>3 DEF UploadWrite
<1>9. CASE UploadTtl(r)
  <2> DEFINE ttl == TtlOf(s)
             pc == IF ttl > 0 THEN "setex" ELSE "done"
  <2>1. UNCHANGED <<client, key, scan, containerMap, container, cleanup>> /\ Busy(r) /\ HasRead(r)
    BY <1>9 DEF UploadTtl, Busy, HasRead
  <2>2. call' = [call EXCEPT ![r].pc = pc, ![r].ttl = ttl]
    BY <1>9 DEF UploadTtl
  <2> HIDE DEF ttl, pc
  <2>3. call'[r] = [call[r] EXCEPT !.pc = pc, !.ttl = ttl] /\ \A n \in Calls \ {r} : call'[n] = call[n]
    BY <1>0, <2>2
  <2>4. call'[r].session = s /\ call'[r].data = call[r].data
    BY <1>0, <2>3 DEF Call
  <2> QED BY <1>0, <1>3, <2>1, <2>3, <2>4 DEF CallNames
<1>10. CASE CallSetex(r)
  <2> DEFINE t == call[r].ttl
             d == call[r].data
  <2>1. /\ Setex(s, t, d) /\ CallGoto(r, "done") /\ UNCHANGED <<client, scan, containerMap, container, cleanup>>
        /\ Busy(r) /\ HasRead(r)
    BY <1>10 DEF CallSetex, Busy, HasRead
  <2>2. d.id # NoId /\ client[s] # "none"
    BY <1>0, <1>1, <2>1 DEF CallNames
  <2>3. call'[r].pc = "done" /\ \A n \in Calls \ {r} : call'[n] = call[n]
    BY <1>0, <2>1 DEF CallGoto, Call
  <2>4. ~Busy(r)' /\ ~HasRead(r)'
    BY <2>3 DEF Busy, HasRead
  <2>5. \A i \in Ids : Exists(i)' => Exists(i)
    BY <2>1 DEF Exists
  <2> HIDE DEF t, d, s
  <2>6. \A q \in Sessions :
          /\ client'[q] = "none" => client[q] = "none" /\ key'[q] = key[q]
          /\ Nameless(q)' => Nameless(q)
          /\ Holding(q)' => ~Nameless(q)'
    BY <1>0, <2>1, <2>2, NameSetex
  <2>7. \A n \in Calls : \/ call'[n] = call[n]
                         \/ /\ Busy(n)' => client[call'[n].session] # "none" /\ ~Nameless(call[n].session)'
                            /\ HasRead(n)' => call'[n].data.id # NoId
    BY <2>3, <2>4
  <2> QED BY <2>1, <2>5, <2>6, <2>7, NameStep
<1>11. CASE CallRedisFails(r)
  BY <1>4, <1>11 DEF CallRedisFails, Busy
<1> QED BY <1>5, <1>6, <1>7, <1>8, <1>9, <1>10, <1>11 DEF Handle

LEMMA NameScans ==
  ASSUME TypeOK, Names, NameInv, NEW k \in Scans,
         ScanAndCreate(k) \/ ScanDockerFails(k) \/ ScanRedisFails(k)
  PROVE  NameInv'
<1> DEFINE s == scan[k].session
<1>0. /\ scan \in [Scans -> Scan] /\ scan[k] \in Scan /\ s \in Sessions /\ ScanNames(k)
      /\ scan[k].todo \subseteq Sessions
  BY DEF TypeOK, Scan, NameInv
<1>1. /\ scan[k].pc \notin {"idle", "next"} => client[s] # "none"
      /\ \A q \in scan[k].todo : client[q] # "none"
  BY <1>0 DEF NameInv, Unborn, Untouched
\* A step of the scan that writes no key.
<1>2. ASSUME UNCHANGED <<client, key, call, cleanup>>,
             \A l \in Scans \ {k} : scan'[l] = scan[l],
             \A q \in scan'[k].todo : client[q] # "none",
             scan'[k].pc \notin {"idle", "next"} => client[scan'[k].session] # "none",
             ScanNames(k)',
             \A q \in Sessions : containerMap'[q] \in {containerMap[q], NoId} \/ client[q] # "none",
             \A i \in Ids : Exists(i)' =>
               \/ Exists(i) /\ container'[i].session = container[i].session
               \/ client[container'[i].session] # "none"
      PROVE  NameInv'
  <2>1. \A l \in Scans : \/ scan'[l] = scan[l]
                         \/ /\ \A q \in scan'[l].todo : client[q] # "none"
                            /\ scan'[l].pc \notin {"idle", "next"} => client[scan'[l].session] # "none"
                            /\ ScanNames(l)'
    BY <1>2
  <2> QED BY <1>2, <2>1, NameSame, NameStep
\* The scan goes on with the same session, id and value.
<1>3. ASSUME NEW pc, ScanGoto(k, pc), UNCHANGED <<client, key, call, cleanup>>,
             pc \in {"next", "get", "mkdir", "create"} \/ (pc = "reload" /\ scan[k].id # NoId),
             scan[k].pc \notin {"idle", "next"},
             \A q \in Sessions : containerMap'[q] = containerMap[q] \/ client[q] # "none",
             \A i \in Ids : Exists(i)' => Exists(i) /\ container'[i].session = container[i].session
      PROVE  NameInv'
  <2>1. /\ scan'[k] = [scan[k] EXCEPT !.pc = pc] /\ \A l \in Scans \ {k} : scan'[l] = scan[l]
    BY <1>0, <1>3 DEF ScanGoto
  <2>2. /\ scan'[k].pc = pc /\ scan'[k].session = s /\ scan'[k].todo = scan[k].todo
        /\ scan'[k].id = scan[k].id
    BY <1>0, <2>1 DEF Scan
  <2>3. ScanNames(k)'
    BY <1>3, <2>2 DEF ScanNames
  <2> QED BY <1>1, <1>2, <1>3, <2>1, <2>2, <2>3
<1>4. ASSUME UNCHANGED <<container, containerMap>>
      PROVE  /\ \A q \in Sessions : containerMap'[q] = containerMap[q]
             /\ \A i \in Ids : Exists(i)' => Exists(i) /\ container'[i].session = container[i].session
  BY <1>4 DEF Exists
<1>5. /\ IdleScan.pc = "idle" /\ IdleScan.todo = {}
  BY DEF IdleScan
<1>6. ASSUME scan' = [scan EXCEPT ![k] = IdleScan], UNCHANGED <<client, key, call, cleanup, container, containerMap>>
      PROVE  NameInv'
  <2>1. scan'[k] = IdleScan /\ \A l \in Scans \ {k} : scan'[l] = scan[l]
    BY <1>0, <1>6
  <2>2. ScanNames(k)'
    BY <1>5, <2>1 DEF ScanNames
  <2> QED BY <1>2, <1>4, <1>5, <1>6, <2>1, <2>2
<1>7. CASE ScanStart(k)
  <2>1. /\ scan' = [scan EXCEPT ![k] = [IdleScan EXCEPT !.pc = "next", !.todo = {q \in Sessions : Live(q)}]]
        /\ UNCHANGED <<client, key, call, cleanup, container, containerMap>>
    BY <1>7 DEF ScanStart
  <2>2. /\ scan'[k].pc = "next" /\ scan'[k].todo = {q \in Sessions : Live(q)}
        /\ \A l \in Scans \ {k} : scan'[l] = scan[l]
    BY <1>0, <2>1 DEF IdleScan
  <2>3. \A q \in scan'[k].todo : client[q] # "none"
    BY <2>2 DEF NameInv, Unborn, Untouched, Live
  <2>4. ScanNames(k)'
    BY <2>2 DEF ScanNames
  <2> QED BY <1>2, <1>4, <2>1, <2>2, <2>3, <2>4
<1>8. CASE ScanNext(k)
  <2>1. PICK q \in scan[k].todo :
          scan' = [scan EXCEPT ![k].todo = @ \ {q}, ![k].session = q,
                     ![k].pc = IF containerMap[q] # NoId THEN "next" ELSE "get"]
    BY <1>8 DEF ScanNext
  <2>2. scan'[k] = [scan[k] EXCEPT !.todo = @ \ {q}, !.session = q,
                      !.pc = IF containerMap[q] # NoId THEN "next" ELSE "get"]
        /\ \A l \in Scans \ {k} : scan'[l] = scan[l]
    BY <1>0, <2>1
  <2>3. scan'[k].pc \in {"next", "get"} /\ scan'[k].todo \subseteq scan[k].todo /\ scan'[k].session = q
    BY <1>0, <2>2 DEF Scan
  <2>4. ScanNames(k)'
    BY <2>3 DEF ScanNames
  <2>5. UNCHANGED <<client, key, call, cleanup, container, containerMap>>
    BY <1>8 DEF ScanNext
  <2> QED BY <1>1, <1>2, <1>4, <2>2, <2>3, <2>4, <2>5
<1>9. CASE ScanEnd(k)
  BY <1>6, <1>9 DEF ScanEnd
<1>10. CASE ScanGet(k)
  <2>1. UNCHANGED <<client, key, call, cleanup, container>> /\ scan[k].pc = "get" /\ client[s] # "none"
    BY <1>1, <1>10 DEF ScanGet
  <2>2. \A i \in Ids : Exists(i)' => Exists(i) /\ container'[i].session = container[i].session
    BY <2>1 DEF Exists
  <2>3. \A q \in Sessions : containerMap'[q] = containerMap[q] \/ client[q] # "none"
    BY <1>10, <2>1 DEF ScanGet, TypeOK
  <2>4. ScanGoto(k, "mkdir") \/ ScanGoto(k, "next")
    BY <1>10 DEF ScanGet
  <2> QED BY <1>3, <2>1, <2>2, <2>3, <2>4
<1>11. CASE ScanMkdir(k)
  BY <1>3, <1>4, <1>11 DEF ScanMkdir
<1>12. CASE ScanCreate(k)
  <2>1. UNCHANGED <<client, key, call, cleanup, containerMap>> /\ scan[k].pc = "create" /\ client[s] # "none"
    BY <1>1, <1>12 DEF ScanCreate
  <2>2. CASE ScanGoto(k, "next") /\ UNCHANGED container
    BY <1>3, <1>4, <2>1, <2>2
  <2>3. ASSUME NEW i \in Ids, container' = [container EXCEPT ![i] = [session |-> s, state |-> "created"]],
               scan' = [scan EXCEPT ![k].id = i, ![k].pc = "start"]
        PROVE  NameInv'
    <3>1. scan'[k] = [scan[k] EXCEPT !.id = i, !.pc = "start"] /\ \A l \in Scans \ {k} : scan'[l] = scan[l]
      BY <1>0, <2>3
    <3>2. scan'[k].pc = "start" /\ scan'[k].session = s /\ scan'[k].todo = scan[k].todo
      BY <1>0, <3>1 DEF Scan
    <3>3. ScanNames(k)'
      BY <3>2 DEF ScanNames
    <3>4. \A n \in Ids : Exists(n)' =>
               \/ Exists(n) /\ container'[n].session = container[n].session
               \/ client[container'[n].session] # "none"
      <4>1. container'[i].session = s /\ \A n \in Ids \ {i} : container'[n] = container[n]
        BY <2>3 DEF TypeOK
      <4> QED BY <2>1, <4>1 DEF Exists
    <3> QED BY <1>1, <1>2, <2>1, <3>1, <3>2, <3>3, <3>4
  <2> QED BY <1>12, <2>2, <2>3 DEF ScanCreate
<1>13. CASE ScanLaunch(k)
  <2>1. UNCHANGED <<client, key, call, cleanup>> /\ scan[k].pc = "start" /\ client[s] # "none" /\ ScanGoto(k, "reload")
    BY <1>1, <1>13 DEF ScanLaunch
  <2>2. scan[k].id \in Ids /\ scan[k].id # NoId /\ Exists(scan[k].id)
    BY <2>1, NoIdAssumption DEF Names, InHand, Exists
  <2>3. \A q \in Sessions : containerMap'[q] = containerMap[q] \/ client[q] # "none"
    BY <1>13, <2>1 DEF ScanLaunch, TypeOK
  <2>4. \A n \in Ids : container'[n].session = container[n].session /\ (Exists(n)' => Exists(n))
    BY <1>13, <2>2 DEF ScanLaunch, TypeOK, Container, Exists
  <2> QED BY <1>3, <2>1, <2>2, <2>3, <2>4
<1>14. CASE ScanReload(k)
  <2>1. UNCHANGED <<client, key, call, cleanup, container, containerMap>> /\ scan[k].pc = "reload" /\ scan[k].id # NoId
    BY <1>0, <1>14 DEF ScanReload, ScanNames
  <2>2. CASE ~Live(s)
    BY <1>3, <1>4, <1>14, <2>1, <2>2 DEF ScanReload
  <2>3. CASE Live(s)
    <3>1. key[s].data \in Data
      BY <1>0, <2>3, KeyType
    <3> DEFINE data == [key[s].data EXCEPT !.id = scan[k].id]
    <3>2. data.id = scan[k].id
      BY <3>1 DEF Data
    <3>3. scan' = [scan EXCEPT ![k].data = data, ![k].pc = "ttl"]
      BY <1>14, <2>3 DEF ScanReload
    <3> HIDE DEF data
    <3>4. scan'[k] = [scan[k] EXCEPT !.data = data, !.pc = "ttl"] /\ \A l \in Scans \ {k} : scan'[l] = scan[l]
      BY <1>0, <3>3
    <3>5. /\ scan'[k].pc = "ttl" /\ scan'[k].session = s /\ scan'[k].todo = scan[k].todo
          /\ scan'[k].data.id = scan[k].id
      BY <1>0, <3>2, <3>4 DEF Scan
    <3>6. ScanNames(k)'
      BY <2>1, <3>5 DEF ScanNames
    <3> QED BY <1>1, <1>2, <1>4, <2>1, <3>4, <3>5, <3>6
  <2> QED BY <2>2, <2>3
<1>15. CASE ScanTtl(k)
  <2> DEFINE ttl == TtlOf(s)
             pc == IF ttl > 0 THEN "setex" ELSE "next"
  <2>1. UNCHANGED <<client, key, call, cleanup, container, containerMap>> /\ scan[k].pc = "ttl"
    BY <1>15 DEF ScanTtl
  <2>2. pc \in {"setex", "next"} /\ scan' = [scan EXCEPT ![k].pc = pc, ![k].ttl = ttl]
    BY <1>15 DEF ScanTtl
  <2> HIDE DEF ttl, pc
  <2>3. scan'[k] = [scan[k] EXCEPT !.pc = pc, !.ttl = ttl] /\ \A l \in Scans \ {k} : scan'[l] = scan[l]
    BY <1>0, <2>2
  <2>4. /\ scan'[k].pc = pc /\ scan'[k].session = s /\ scan'[k].todo = scan[k].todo
        /\ scan'[k].data = scan[k].data
    BY <1>0, <2>3 DEF Scan
  <2>5. ScanNames(k)'
    BY <1>0, <2>1, <2>2, <2>4 DEF ScanNames
  <2> QED BY <1>1, <1>2, <1>4, <2>1, <2>3, <2>4, <2>5
<1>16. CASE ScanSetex(k)
  <2> DEFINE t == scan[k].ttl
             d == scan[k].data
  <2>1. /\ Setex(s, t, d) /\ ScanGoto(k, "next") /\ UNCHANGED <<client, call, container, containerMap, cleanup>>
        /\ scan[k].pc = "setex"
    BY <1>16 DEF ScanSetex
  <2>2. d.id # NoId /\ client[s] # "none"
    BY <1>0, <1>1, <2>1 DEF ScanNames
  <2>3. /\ scan'[k].pc = "next" /\ scan'[k].todo = scan[k].todo
        /\ \A l \in Scans \ {k} : scan'[l] = scan[l]
    BY <1>0, <2>1 DEF ScanGoto, Scan
  <2>4. ScanNames(k)'
    BY <2>3 DEF ScanNames
  <2>5. \A i \in Ids : Exists(i)' => Exists(i)
    BY <2>1 DEF Exists
  <2>6. \A l \in Scans : \/ scan'[l] = scan[l]
                         \/ /\ \A q \in scan'[l].todo : client[q] # "none"
                            /\ scan'[l].pc \notin {"idle", "next"} => client[scan'[l].session] # "none"
                            /\ ScanNames(l)'
    BY <1>1, <2>3, <2>4
  <2> HIDE DEF t, d, s
  <2>7. \A q \in Sessions :
          /\ client'[q] = "none" => client[q] = "none" /\ key'[q] = key[q]
          /\ Nameless(q)' => Nameless(q)
          /\ Holding(q)' => ~Nameless(q)'
    BY <1>0, <2>1, <2>2, NameSetex
  <2> QED BY <2>1, <2>5, <2>6, <2>7, NameStep
<1>17. CASE ScanDockerFails(k)
  <2>1. /\ scan' = [scan EXCEPT ![k].pc = "next", ![k].id = NoId]
        /\ UNCHANGED <<client, key, call, cleanup, container, containerMap>>
    BY <1>17 DEF ScanDockerFails
  <2>2. scan'[k] = [scan[k] EXCEPT !.pc = "next", !.id = NoId] /\ \A l \in Scans \ {k} : scan'[l] = scan[l]
    BY <1>0, <2>1
  <2>3. scan'[k].pc = "next" /\ scan'[k].todo = scan[k].todo
    BY <1>0, <2>2 DEF Scan
  <2>4. ScanNames(k)'
    BY <2>3 DEF ScanNames
  <2> QED BY <1>1, <1>2, <1>4, <2>1, <2>2, <2>3, <2>4
<1>18. CASE ScanRedisFails(k)
  <2>1. UNCHANGED <<client, key, call, cleanup, container, containerMap>> /\ scan[k].pc \notin {"idle", "next"}
    BY <1>18 DEF ScanRedisFails
  <2>2. ScanGoto(k, "next") \/ scan' = [scan EXCEPT ![k] = IdleScan]
    BY <1>18 DEF ScanRedisFails
  <2> QED BY <1>3, <1>4, <1>6, <2>1, <2>2
<1> QED BY <1>7, <1>8, <1>9, <1>10, <1>11, <1>12, <1>13, <1>14, <1>15, <1>16, <1>17, <1>18
        DEF ScanAndCreate

LEMMA NameCleanups ==
  ASSUME TypeOK, NameInv, NEW c \in Cleanups,
         CleanExpired(c) \/ CleanupDockerFails(c) \/ CleanupRedisFails(c)
  PROVE  NameInv'
<1>0. cleanup \in [Cleanups -> Cleanup] /\ cleanup[c] \in Cleanup
  BY DEF TypeOK
<1>1. UNCHANGED <<client, key, call, scan>>
  BY DEF CleanExpired, CleanupStart, CleanupNext, CleanupEnd, StopContainer, RemoveContainer,
         RemoveDirectory, CleanupDockerFails, CleanupRedisFails
<1>2. \A i \in Ids : Exists(i)' => Exists(i) /\ container'[i].session = container[i].session
  <2>1. CASE StopContainer(c) \/ RemoveContainer(c)
    BY <2>1 DEF StopContainer, RemoveContainer, Exists, TypeOK, Container
  <2>2. CASE UNCHANGED container
    BY <2>2 DEF Exists
  <2> QED BY <2>1, <2>2 DEF CleanExpired, CleanupStart, CleanupNext, CleanupEnd, RemoveDirectory,
               CleanupDockerFails, CleanupRedisFails
<1>3. \A q \in Sessions : containerMap'[q] \in {containerMap[q], NoId}
  BY DEF CleanExpired, CleanupStart, CleanupNext, CleanupEnd, StopContainer, RemoveContainer,
         RemoveDirectory, CleanupDockerFails, CleanupRedisFails
<1>4. \A d \in Cleanups : \A q \in cleanup'[d].cleaned : q \in cleanup[d].cleaned \/ client[q] # "none"
  <2>0. IdleCleanup.cleaned = {} /\ [IdleCleanup EXCEPT !.pc = "next"].cleaned = {}
    BY DEF IdleCleanup
  <2>1. ASSUME NEW pc, CleanupGoto(c, pc) PROVE \A d \in Cleanups : cleanup'[d].cleaned = cleanup[d].cleaned
    BY <1>0, <2>1 DEF CleanupGoto, Cleanup
  <2>2. CASE CleanupNext(c)
    <3>1. PICK s \in Unseen(c) :
            \/ cleanup' = [cleanup EXCEPT ![c].seen = @ \cup {s}]
            \/ cleanup' = [cleanup EXCEPT ![c].seen = @ \cup {s}, ![c].cleaned = @ \cup {s},
                             ![c].session = s, ![c].id = containerMap[s], ![c].pc = "stop"]
      BY <2>2 DEF CleanupNext
    <3>2. client[s] # "none" /\ s \in Sessions
      BY <3>1 DEF Unseen, NameInv, Unborn
    <3>3. /\ \A d \in Cleanups \ {c} : cleanup'[d] = cleanup[d]
          /\ cleanup'[c].cleaned \subseteq cleanup[c].cleaned \cup {s}
      <4>1. CASE cleanup' = [cleanup EXCEPT ![c].seen = @ \cup {s}]
        BY <1>0, <4>1 DEF Cleanup
      <4>2. CASE cleanup' = [cleanup EXCEPT ![c].seen = @ \cup {s}, ![c].cleaned = @ \cup {s},
                               ![c].session = s, ![c].id = containerMap[s], ![c].pc = "stop"]
        <5>1. cleanup' = [cleanup EXCEPT ![c] = [cleanup[c] EXCEPT !.seen = @ \cup {s}, !.cleaned = @ \cup {s},
                               !.session = s, !.id = containerMap[s], !.pc = "stop"]]
          BY <1>0, <4>2
        <5> QED BY <1>0, <5>1 DEF Cleanup
      <4> QED BY <3>1, <4>1, <4>2
    <3> QED BY <3>2, <3>3
  <2>3. CASE CleanupStart(c) \/ CleanupEnd(c) \/ CleanupRedisFails(c)
    <3>1. /\ \A d \in Cleanups \ {c} : cleanup'[d] = cleanup[d]
          /\ cleanup'[c].cleaned = {}
      BY <1>0, <2>0, <2>3 DEF CleanupStart, CleanupEnd, CleanupRedisFails
    <3> QED BY <3>1
  <2> QED BY <2>1, <2>2, <2>3 DEF CleanExpired, StopContainer, RemoveContainer, RemoveDirectory, CleanupDockerFails
<1> QED BY <1>1, <1>2, <1>3, <1>4, NameSame, NameStep

LEMMA NameInvNext == TypeOK /\ Names /\ NameInv /\ [Next]_vars => NameInv'
<1> SUFFICES ASSUME TypeOK, Names, NameInv, [Next]_vars PROVE NameInv'
  OBVIOUS
<1>1. ASSUME UNCHANGED <<client, key, call, scan, containerMap, cleanup>>,
             \A i \in Ids : Exists(i)' => Exists(i) /\ container'[i].session = container[i].session
      PROVE  NameInv'
  BY <1>1, NameSame, NameStep
<1>2. CASE Crash \/ ShutdownEnds
  <2>1. /\ UNCHANGED <<client, key, call, container>> /\ \A s \in Sessions : containerMap'[s] = NoId
        /\ \A k \in Scans : scan'[k] = IdleScan
        /\ \A c \in Cleanups : cleanup'[c] = IdleCleanup
    BY <1>2 DEF Crash, ShutdownEnds, Restart
  <2>2. IdleScan.pc = "idle" /\ IdleScan.todo = {} /\ IdleCleanup.cleaned = {}
    BY DEF IdleScan, IdleCleanup
  <2>3. \A k \in Scans : /\ \A s \in scan'[k].todo : client[s] # "none"
                         /\ scan'[k].pc \in {"idle", "next"}
                         /\ ScanNames(k)'
    BY <2>1, <2>2 DEF ScanNames
  <2>4. \A i \in Ids : Exists(i)' => Exists(i)
    BY <2>1 DEF Exists
  <2> QED BY <2>1, <2>2, <2>3, <2>4, NameSame, NameStep
<1>3. CASE Sigterm \/ UNCHANGED vars \/ \E s \in Sessions : ShutdownDockerFails(s)
  BY <1>1, <1>3 DEF Sigterm, ShutdownDockerFails, Exists
<1>4. ASSUME NEW s \in Sessions, ShutdownStep(s) PROVE NameInv'
  <2>1. UNCHANGED <<client, key, call, scan, containerMap, cleanup>>
    BY <1>4 DEF ShutdownStep
  <2> DEFINE n == shutdown[s].id
  <2>2. /\ container \in [Ids -> Container]
        /\ \/ UNCHANGED container
           \/ /\ container[n].state \in {"running", "exited"}
              /\ \E state \in {"exited", "absent"} :
                   container' = [container EXCEPT ![n].state = state]
    BY <1>4 DEF ShutdownStep, TypeOK, Container
  <2> HIDE DEF n
  <2>3. \A i \in Ids : Exists(i)' => Exists(i) /\ container'[i].session = container[i].session
    BY <2>2 DEF Exists, Container
  <2> QED BY <1>1, <2>1, <2>3
<1>5. ASSUME NEW s \in Sessions, Tick \/ Expire(s) \/ Cli(s) \/ Renew(s) \/ RenewFails(s)
      PROVE  NameInv'
  BY <1>5, NameTime, NameCli
<1>6. ASSUME NEW r \in Calls, Receive(r) \/ Handle(r) \/ CallRedisFails(r) PROVE NameInv'
  BY <1>6, NameCalls
<1>7. ASSUME NEW k \in Scans, ScanAndCreate(k) \/ ScanDockerFails(k) \/ ScanRedisFails(k)
      PROVE  NameInv'
  BY <1>7, NameScans
<1>8. ASSUME NEW k \in Cleanups, CleanExpired(k) \/ CleanupDockerFails(k) \/ CleanupRedisFails(k)
      PROVE  NameInv'
  BY <1>8, NameCleanups
<1>9. CASE Fail \/ StopAll
  BY <1>2, <1>3, <1>4, <1>5, <1>6, <1>7, <1>8, <1>9 DEF Fail, StopAll
<1> QED BY <1>3, <1>5, <1>6, <1>7, <1>8, <1>9, SomeAssumption DEF Next

LEMMA NameInvInit == Init => NameInv
BY DEF Init, NameInv, Unborn, Untouched, CallNames, ScanNames, Busy, HasRead, Nameless, Live, Holding, Exists,
       NewCall, IdleScan, IdleCleanup

--------------------------------------------------------------------------------
(* Who knows which container.  An id that somebody holds for a session is the id *)
(* of its container, if it has one; while a scan works on a session, nobody else *)
(* has touched it; and what a cleanup has found gone, somebody removes.          *)

KeyTo(s, i)      == Live(s) /\ key[s].data.id = i
CallTo(r, s, i)  == call[r].session = s /\ HasRead(r) /\ call[r].data.id = i
ScanTo(k, s, i)  == /\ scan[k].session = s
                    /\ \/ scan[k].pc \in {"start", "reload"} /\ scan[k].id = i
                       \/ scan[k].pc \in {"ttl", "setex"} /\ scan[k].data.id = i
CleanTo(c, s, i) == cleanup[c].session = s /\ cleanup[c].pc \in {"stop", "remove"} /\ cleanup[c].id = i

Refers(s, i) ==
  \/ KeyTo(s, i)
  \/ containerMap[s] = i
  \/ \E r \in Calls : CallTo(r, s, i)
  \/ \E k \in Scans : ScanTo(k, s, i)
  \/ \E c \in Cleanups : CleanTo(c, s, i)

Right(s, i) == \A n \in Ids : Exists(n) => (n = i <=> container[n].session = s)

Starting(i) == \E k \in Scans : InHand(k) /\ scan[k].id = i
Removing(i) == \E c \in Cleanups : cleanup[c].pc = "remove" /\ cleanup[c].id = i

\* A session that waits for the scanner, or that the scanner is working on.
WorkedOn(k, s) == scan[k].session = s /\ (Writing(k) \/ (scan[k].pc = "get" /\ Nameless(s)))
Young(s) == (Nameless(s) /\ containerMap[s] = NoId) \/ \E k \in Scans : WorkedOn(k, s)

\* No time has passed since it was created or renewed, for the key and for all
\* who are about to write it.
WholeTtl(s) ==
  /\ Live(s) /\ key[s].ttl = TTL
  /\ \A r \in Calls : call[r].session = s /\ call[r].pc = "setex" => call[r].ttl = TTL
  /\ \A k \in Scans : scan[k].session = s /\ scan[k].pc = "setex" => scan[k].ttl = TTL

Cleaned(s) == \E c \in Cleanups : s \in cleanup[c].cleaned

YoungKept(s) == Young(s) =>
  WholeTtl(s) /\ ~Cleaned(s) /\ \A i \in Ids : Refers(s, i) => Exists(i)

Tracked(i) ==
  /\ Exists(i) => containerMap[container[i].session] = i \/ Starting(i) \/ Removing(i)
  /\ container[i].state = "exited" => Removing(i)
  /\ container[i].state = "created" => Starting(i)

\* What a cleanup found gone is being removed, by whichever cleanup got there first.
CleanedGone(c, s) == \A i \in Ids :
  ~(cleanup[c].pc = "stop" /\ cleanup[c].session = s) /\ Exists(i) /\ container[i].session = s
    => Removing(i)

CleanKept(c) ==
  /\ cleanup[c].pc \in {"stop", "remove"} => cleanup[c].session \in cleanup[c].cleaned /\ cleanup[c].id \in Ids
  /\ cleanup[c].pc = "remove" => container[cleanup[c].id].state \in {"exited", "absent"}
  /\ \A s \in cleanup[c].cleaned : ~Nameless(s) /\ CleanedGone(c, s)

TrackInv ==
  /\ shutdown = [s \in Sessions |-> NotStopping]
  /\ \A s \in Sessions, i \in Ids : Refers(s, i) => Right(s, i)
  /\ \A s \in Sessions : YoungKept(s)
  /\ \A i \in Ids : Tracked(i)
  /\ \A c \in Cleanups : CleanKept(c)

\* Nobody holds an id for a session that was not created.
LEMMA UnbornUnknown ==
  ASSUME TypeOK, NameInv, TrackInv, NEW s \in Sessions, client[s] = "none"
  PROVE  /\ \A i \in Ids : ~Refers(s, i)
         /\ ~Cleaned(s) /\ key[s] = NoKey /\ containerMap[s] = NoId
         /\ \A r \in Calls : call[r].session = s => call[r].pc \notin {"get", "mkdir", "write", "ttl", "setex"}
         /\ \A k \in Scans : scan[k].session = s => scan[k].pc \in {"idle", "next"}
<1>1. /\ key[s] = NoKey /\ containerMap[s] = NoId
      /\ \A c \in Cleanups : s \notin cleanup[c].cleaned
      /\ \A r \in Calls : call[r].session = s => call[r].pc \in {"new", "done", "failed"}
      /\ \A k \in Scans : scan[k].session = s => scan[k].pc \in {"idle", "next"}
  BY DEF NameInv, Unborn, Untouched, Busy
<1>2. ASSUME NEW i \in Ids PROVE ~Refers(s, i)
  <2>1. ~KeyTo(s, i) /\ containerMap[s] # i
    BY <1>1, NoIdAssumption DEF KeyTo, Live
  <2>2. \A r \in Calls : ~CallTo(r, s, i)
    BY <1>1 DEF CallTo, HasRead
  <2>3. \A k \in Scans : ~ScanTo(k, s, i)
    BY <1>1 DEF ScanTo
  <2>4. \A c \in Cleanups : ~CleanTo(c, s, i)
    BY <1>1 DEF CleanTo, TrackInv, CleanKept
  <2> QED BY <2>1, <2>2, <2>3, <2>4 DEF Refers
<1> QED BY <1>1, <1>2 DEF Cleaned

\* A step that moves no container and no cleanup, and makes nobody hold an id
\* that was not held for the same session before.
LEMMA TrackStep ==
  ASSUME TypeOK, NameInv, TrackInv, UNCHANGED <<container, cleanup, shutdown>>,
         \A s \in Sessions, i \in Ids : Refers(s, i)' => Refers(s, i),
         \A s \in Sessions :
           /\ Nameless(s)' => Nameless(s) \/ client[s] = "none"
           /\ Young(s)' => WholeTtl(s)' /\ (Young(s) \/ client[s] = "none")
           /\ containerMap'[s] = containerMap[s] \/ (containerMap'[s] \in Ids /\ Refers(s, containerMap'[s])),
         \A k \in Scans : InHand(k) => InHand(k)' /\ scan'[k].id = scan[k].id
  PROVE  TrackInv'
<1>1. \A i \in Ids : /\ Exists(i)' <=> Exists(i)
                     /\ Removing(i)' <=> Removing(i)
                     /\ Starting(i) => Starting(i)'
  BY DEF Exists, Removing, Starting
<1>2. \A s \in Sessions, i \in Ids : Refers(s, i)' => Right(s, i)'
  BY <1>1 DEF TrackInv, Right
<1>3. ASSUME NEW s \in Sessions PROVE YoungKept(s)'
  <2> SUFFICES ASSUME Young(s)' PROVE ~Cleaned(s)' /\ \A i \in Ids : Refers(s, i)' => Exists(i)'
    BY DEF YoungKept
  <2>1. ~Cleaned(s) /\ \A i \in Ids : Refers(s, i) => Exists(i)
    BY UnbornUnknown DEF TrackInv, YoungKept
  <2> QED BY <1>1, <2>1 DEF Cleaned
<1>4. ASSUME NEW i \in Ids PROVE Tracked(i)'
  <2> DEFINE s == container[i].session
  <2>1. s \in Sessions /\ Tracked(i)
    BY DEF TypeOK, Container, TrackInv
  <2>2. Exists(i) /\ containerMap[s] = i => containerMap'[s] = i
    BY <2>1 DEF TrackInv, Right
  <2> QED BY <1>1, <2>1, <2>2 DEF Tracked
<1>5. ASSUME NEW c \in Cleanups PROVE CleanKept(c)'
  <2>1. CleanKept(c) /\ cleanup[c].cleaned \subseteq Sessions
    BY DEF TrackInv, TypeOK, Cleanup
  <2>2. \A s \in cleanup[c].cleaned : client[s] # "none"
    BY <2>1 DEF NameInv, Unborn
  <2>3. \A s \in cleanup[c].cleaned : ~Nameless(s)' /\ CleanedGone(c, s)'
    BY <1>1, <2>1, <2>2 DEF CleanKept, CleanedGone
  <2> QED BY <2>1, <2>3 DEF CleanKept
<1> QED BY <1>2, <1>3, <1>4, <1>5 DEF TrackInv

LEMMA TrackTime ==
  ASSUME TypeOK, NameInv, TrackInv, NEW s \in Sessions, Tick \/ Expire(s)
  PROVE  TrackInv'
<1>1. /\ UNCHANGED <<client, call, scan, containerMap, container, cleanup, shutdown>>
      /\ \A q \in Sessions : /\ key[q] = NoKey => key'[q] = NoKey
                             /\ key'[q] # NoKey => key'[q].data = key[q].data
  <2>1. CASE Tick
    <3>1. UNCHANGED <<client, call, scan, containerMap, container, cleanup, shutdown>>
      BY <2>1 DEF Tick
    <3>2. \A q \in Sessions : key'[q] = IF Live(q) THEN [key[q] EXCEPT !.ttl = @ - 1] ELSE NoKey
      BY <2>1 DEF Tick
    <3>3. \A q \in Sessions : Live(q) => key[q] \in Key
      BY DEF TypeOK, Live
    <3> QED BY <3>1, <3>2, <3>3 DEF Live, Key
  <2>2. CASE Expire(s)
    BY <2>2 DEF Expire, TypeOK
  <2> QED BY <2>1, <2>2
<1>2. \A q \in Sessions : Nameless(q)' => Nameless(q)
  BY <1>1 DEF Nameless, Live
<1>3. ASSUME NEW q \in Sessions, NEW i \in Ids, Refers(q, i)' PROVE Refers(q, i)
  <2>1. KeyTo(q, i)' => KeyTo(q, i)
    BY <1>1 DEF KeyTo, Live
  <2> QED BY <1>1, <1>3, <2>1 DEF Refers, CallTo, HasRead, ScanTo, CleanTo
<1>4. \A q \in Sessions : Young(q)' => Young(q)
  BY <1>1, <1>2 DEF Young, WorkedOn, Writing
<1>5. ASSUME NEW q \in Sessions, Young(q) PROVE WholeTtl(q)'
  <2>1. WholeTtl(q)
    BY <1>5 DEF TrackInv, YoungKept
  <2>2. CASE Expire(s)
    <3>1. q # s
      BY <2>1, <2>2, TTLAssumption DEF Expire, WholeTtl
    <3>2. key'[q] = key[q]
      BY <2>2, <3>1 DEF Expire, TypeOK
    <3> QED BY <1>1, <2>1, <3>2 DEF WholeTtl, Live
  \* The scanner has seen every session, so none waits for it.
  <2>3. CASE Tick
    <3>1. /\ \A k \in Scans : scan[k].pc = "idle"
          /\ \A c \in Cleanups : cleanup[c].pc = "idle"
      BY <2>3 DEF Tick, Quiet
    <3>2. Nameless(q) /\ containerMap[q] = NoId
      BY <1>5, <3>1 DEF Young, WorkedOn, Writing
    <3>3. Scanned(q)
      BY <2>3, <3>2 DEF Tick, Nameless
    <3>4. PICK i \in Ids : Exists(i) /\ container[i].session = q
      BY <3>2, <3>3 DEF Scanned, NameInUse
    <3>5. Tracked(i) /\ ~Starting(i) /\ ~Removing(i)
      BY <3>1 DEF TrackInv, Starting, InHand, Removing
    <3> QED BY <3>2, <3>4, <3>5, NoIdAssumption DEF Tracked
  <2> QED BY <2>2, <2>3
<1>6. \A k \in Scans : InHand(k) => InHand(k)' /\ scan'[k].id = scan[k].id
  BY <1>1 DEF InHand
<1> QED BY <1>1, <1>2, <1>3, <1>4, <1>5, <1>6, TrackStep

LEMMA TrackCli ==
  ASSUME TypeOK, NameInv, TrackInv, NEW s \in Sessions, Cli(s) \/ Renew(s) \/ RenewFails(s)
  PROVE  TrackInv'
<1>1. UNCHANGED <<call, scan, containerMap, container, cleanup, shutdown>>
  BY DEF Cli, CreateSession, Open, OpenFails, Prompt, AnswerPrompt, CliMoves, CloseSession, Renew,
         RenewGet, RenewExpire, RenewFails
<1>2. \A k \in Scans : InHand(k) => InHand(k)' /\ scan'[k].id = scan[k].id
  BY <1>1 DEF InHand
\* The key stays, but for a ttl that is whole again.
<1>3. ASSUME \A q \in Sessions :
               \/ key'[q] = key[q]
               \/ key[q] # NoKey /\ key'[q] # NoKey /\ key'[q].data = key[q].data /\ key'[q].ttl = TTL
      PROVE  TrackInv'
  <2>1. \A q \in Sessions : Nameless(q)' => Nameless(q)
    BY <1>3 DEF Nameless, Live
  <2>2. ASSUME NEW q \in Sessions, NEW i \in Ids, Refers(q, i)' PROVE Refers(q, i)
    <3>1. KeyTo(q, i)' => KeyTo(q, i)
      BY <1>3 DEF KeyTo, Live
    <3> QED BY <1>1, <2>2, <3>1 DEF Refers, CallTo, HasRead, ScanTo, CleanTo
  <2>3. \A q \in Sessions : Young(q)' => Young(q)
    BY <1>1, <2>1 DEF Young, WorkedOn, Writing
  <2>4. ASSUME NEW q \in Sessions, Young(q) PROVE WholeTtl(q)'
    <3>1. WholeTtl(q)
      BY <2>4 DEF TrackInv, YoungKept
    <3> QED BY <1>1, <1>3, <3>1 DEF WholeTtl, Live
  <2> QED BY <1>1, <1>2, <2>1, <2>2, <2>3, <2>4, TrackStep
<1>4. CASE CreateSession(s)
  <2>1. /\ client[s] = "none"
        /\ key' = [key EXCEPT ![s] = [ttl |-> TTL, data |-> NoData]]
    BY <1>4 DEF CreateSession, Setex
  <2>2. /\ key'[s] = [ttl |-> TTL, data |-> NoData]
        /\ \A q \in Sessions \ {s} : key'[q] = key[q]
    BY <2>1 DEF TypeOK
  <2>3. key'[s] \in Key /\ key'[s].ttl = TTL /\ key'[s].data.id = NoId
    BY <2>2, DataType, TTLAssumption DEF Key, NoData
  <2>4. \A q \in Sessions : Nameless(q)' => Nameless(q) \/ client[q] = "none"
    BY <2>1, <2>2 DEF Nameless, Live
  <2>5. ASSUME NEW q \in Sessions, NEW i \in Ids, Refers(q, i)' PROVE Refers(q, i)
    <3>1. KeyTo(q, i)' => KeyTo(q, i)
      BY <2>2, <2>3, NoIdAssumption DEF KeyTo, Live
    <3> QED BY <1>1, <2>5, <3>1 DEF Refers, CallTo, HasRead, ScanTo, CleanTo
  <2>6. \A q \in Sessions \ {s} : Young(q)' => Young(q) /\ WholeTtl(q)'
    <3>1. ASSUME NEW q \in Sessions \ {s}, Young(q)' PROVE Young(q) /\ WholeTtl(q)'
      <4>1. Young(q)
        BY <1>1, <2>2, <3>1 DEF Young, WorkedOn, Writing, Nameless, Live
      <4>2. WholeTtl(q)
        BY <4>1 DEF TrackInv, YoungKept
      <4> QED BY <1>1, <2>2, <4>1, <4>2 DEF WholeTtl, Live
    <3> QED BY <3>1
  <2>7. WholeTtl(s)'
    <3>1. /\ \A r \in Calls : call[r].session = s => call[r].pc # "setex"
          /\ \A k \in Scans : scan[k].session = s => scan[k].pc # "setex"
      BY <2>1, UnbornUnknown
    <3> QED BY <1>1, <2>3, <3>1, NoKeyAssumption DEF WholeTtl, Live
  <2> QED BY <1>1, <1>2, <2>1, <2>4, <2>5, <2>6, <2>7, TrackStep
<1>5. CASE Open(s) \/ OpenFails(s) \/ Prompt(s) \/ AnswerPrompt(s) \/ CloseSession(s)
             \/ RenewGet(s) \/ RenewFails(s)
  BY <1>3, <1>5 DEF Open, OpenFails, Prompt, AnswerPrompt, CliMoves, CloseSession, RenewGet, RenewFails
<1>6. CASE RenewExpire(s)
  <2>1. key' = [key EXCEPT ![s] = IF key[s] = NoKey THEN key[s] ELSE [key[s] EXCEPT !.ttl = TTL]]
    BY <1>6 DEF RenewExpire, ExpireIn
  <2>2. \A q \in Sessions \ {s} : key'[q] = key[q]
    BY <2>1 DEF TypeOK
  <2>3. key[s] = NoKey => key'[s] = key[s]
    BY <2>1 DEF TypeOK
  <2>4. key[s] # NoKey => key'[s] # NoKey /\ key'[s].data = key[s].data /\ key'[s].ttl = TTL
    <3> SUFFICES ASSUME key[s] # NoKey PROVE key'[s] # NoKey /\ key'[s].data = key[s].data /\ key'[s].ttl = TTL
      OBVIOUS
    <3>1. key[s] \in Key /\ key'[s] = [key[s] EXCEPT !.ttl = TTL]
      BY <2>1 DEF TypeOK
    <3>2. key'[s] \in Key
      BY <3>1, TTLAssumption DEF Key
    <3> QED BY <3>1, <3>2, NoKeyAssumption DEF Key
  <2> QED BY <1>3, <2>2, <2>3, <2>4
<1> QED BY <1>4, <1>5, <1>6 DEF Cli, Renew

LEMMA TrackCalls ==
  ASSUME TypeOK, NameInv, TrackInv, NEW r \in Calls, Receive(r) \/ Handle(r) \/ CallRedisFails(r)
  PROVE  TrackInv'
<1> DEFINE s == call[r].session
<1>0. call \in [Calls -> Call] /\ call[r] \in Call /\ s \in Sessions /\ CallNames(r)
  BY DEF TypeOK, Call, NameInv
<1>1. UNCHANGED <<client, scan, containerMap, container, cleanup, shutdown>>
  BY DEF Receive, Handle, GetSession, UploadMkdir, UploadWrite, UploadTtl, CallSetex, CallRedisFails
<1>2. \A k \in Scans : InHand(k) => InHand(k)' /\ scan'[k].id = scan[k].id
  BY <1>1 DEF InHand
\* A handler that writes nothing, and has an id only from the key or from before.
<1>3. ASSUME UNCHANGED key, \A n \in Calls \ {r} : call'[n] = call[n],
             \A q \in Sessions, i \in Ids : CallTo(r, q, i)' => CallTo(r, q, i) \/ KeyTo(q, i),
             call'[r].pc = "setex" => call'[r].ttl \in {TTL, TtlOf(call'[r].session)}
      PROVE  TrackInv'
  <2>1. \A q \in Sessions : Nameless(q)' => Nameless(q)
    BY <1>3 DEF Nameless, Live
  <2>2. ASSUME NEW q \in Sessions, NEW i \in Ids, Refers(q, i)' PROVE Refers(q, i)
    <3>1. KeyTo(q, i)' => KeyTo(q, i)
      BY <1>3 DEF KeyTo, Live
    <3>2. \A n \in Calls : CallTo(n, q, i)' => CallTo(n, q, i) \/ KeyTo(q, i)
      BY <1>3 DEF CallTo, HasRead
    <3> QED BY <1>1, <2>2, <3>1, <3>2 DEF Refers, ScanTo, CleanTo
  <2>3. \A q \in Sessions : Young(q)' => Young(q)
    BY <1>1, <2>1 DEF Young, WorkedOn, Writing
  <2>4. ASSUME NEW q \in Sessions, Young(q) PROVE WholeTtl(q)'
    <3>1. WholeTtl(q)
      BY <2>4 DEF TrackInv, YoungKept
    <3>2. TtlOf(q) = TTL
      BY <3>1 DEF WholeTtl, TtlOf
    <3>3. ASSUME NEW n \in Calls, call'[n].session = q, call'[n].pc = "setex" PROVE call'[n].ttl = TTL
      BY <1>3, <3>1, <3>2, <3>3 DEF WholeTtl
    <3> QED BY <1>1, <1>3, <3>1, <3>3 DEF WholeTtl, Live
  <2> QED BY <1>1, <1>2, <2>1, <2>2, <2>3, <2>4, TrackStep
<1>4. ASSUME NEW pc, UNCHANGED key, CallGoto(r, pc), pc # "setex", HasRead(r) \/ pc = "failed"
      PROVE  TrackInv'
  <2>1. /\ call'[r].pc = pc /\ call'[r].session = s /\ call'[r].data = call[r].data
        /\ \A n \in Calls \ {r} : call'[n] = call[n]
    BY <1>0, <1>4 DEF CallGoto, Call
  <2>2. \A q \in Sessions, i \in Ids : CallTo(r, q, i)' => CallTo(r, q, i)
    BY <1>4, <2>1 DEF CallTo, HasRead
  <2> QED BY <1>3, <1>4, <2>1, <2>2
<1>5. CASE Receive(r)
  <2>1. PICK kind \in Kinds, q \in Sessions, f \in Files :
          /\ kind = "upload" => Holding(q)
          /\ kind = "activity" => client[q] # "none" /\ Connectable(q)
          /\ call' = [call EXCEPT ![r].kind = kind, ![r].session = q, ![r].file = f, ![r].pc = "get"]
    BY <1>5, ReceiveTakes
  <2>2. call' = [call EXCEPT ![r] = [call[r] EXCEPT !.kind = kind, !.session = q, !.file = f, !.pc = "get"]]
    BY <1>0, <2>1
  <2>3. call'[r].pc = "get" /\ \A n \in Calls \ {r} : call'[n] = call[n]
    BY <1>0, <2>2 DEF Call
  <2>4. UNCHANGED key
    BY <1>5 DEF Receive
  <2>5. \A p \in Sessions, i \in Ids : ~CallTo(r, p, i)'
    BY <2>3 DEF CallTo, HasRead
  <2> QED BY <1>3, <2>3, <2>4, <2>5
<1>6. CASE GetSession(r)
  <2>1. UNCHANGED key /\ call[r].pc = "get"
    BY <1>6 DEF GetSession
  <2>2. CASE ~Live(s)
    BY <1>4, <1>6, <2>1, <2>2 DEF GetSession
  <2>3. CASE Live(s)
    <3>1. call' = [call EXCEPT ![r] = [call[r] EXCEPT !.data = key[s].data,
                      !.pc = IF call[r].kind = "upload" THEN "mkdir" ELSE "setex", !.ttl = TTL]]
      BY <1>0, <1>6, <2>3 DEF GetSession
    <3>2. /\ call'[r].session = s /\ call'[r].data = key[s].data /\ call'[r].ttl = TTL
          /\ \A n \in Calls \ {r} : call'[n] = call[n]
      BY <1>0, <3>1 DEF Call
    <3>3. \A q \in Sessions, i \in Ids : CallTo(r, q, i)' => KeyTo(q, i)
      BY <2>3, <3>2 DEF CallTo, KeyTo
    <3> QED BY <1>3, <2>1, <3>2, <3>3
  <2> QED BY <2>2, <2>3
<1>7. CASE UploadMkdir(r)
  BY <1>4, <1>7 DEF UploadMkdir, HasRead
<1>8. CASE UploadWrite(r)
  <2>1. UNCHANGED key /\ HasRead(r)
    BY <1>8 DEF UploadWrite, HasRead
  <2>2. CASE CallGoto(r, "failed")
    BY <1>4, <2>1, <2>2
  <2>3. CASE call' = [call EXCEPT ![r].pc = "ttl", ![r].data.files = @ \cup {call[r].file}]
    <3> DEFINE data == [call[r].data EXCEPT !.files = @ \cup {call[r].file}]
    <3>1. data.id = call[r].data.id
      BY <1>0 DEF Call, Data
    <3>2. call' = [call EXCEPT ![r] = [call[r] EXCEPT !.pc = "ttl", !.data = data]]
      BY <1>0, <2>3
    <3> HIDE DEF data
    <3>3. /\ call'[r].session = s /\ call'[r].data = data /\ call'[r].pc = "ttl"
          /\ \A n \in Calls \ {r} : call'[n] = call[n]
      BY <1>0, <3>2 DEF Call
    <3>4. \A q \in Sessions, i \in Ids : CallTo(r, q, i)' => CallTo(r, q, i)
      BY <2>1, <3>1, <3>3 DEF CallTo
    <3> QED BY <1>3, <2>1, <3>3, <3>4
  <2> QED BY <1>8, <2>2, <2>3 DEF UploadWrite
<1>9. CASE UploadTtl(r)
  <2> DEFINE ttl == TtlOf(s)
             pc == IF ttl > 0 THEN "setex" ELSE "done"
  <2>1. UNCHANGED key /\ HasRead(r)
    BY <1>9 DEF UploadTtl, HasRead
  <2>2. call' = [call EXCEPT ![r].pc = pc, ![r].ttl = ttl]
    BY <1>9 DEF UploadTtl
  <2> HIDE DEF ttl, pc
  <2>3. call'[r] = [call[r] EXCEPT !.pc = pc, !.ttl = ttl] /\ \A n \in Calls \ {r} : call'[n] = call[n]
    BY <1>0, <2>2
  <2>4. call'[r].session = s /\ call'[r].data = call[r].data /\ call'[r].ttl = ttl
    BY <1>0, <2>3 DEF Call
  <2>5. \A q \in Sessions, i \in Ids : CallTo(r, q, i)' => CallTo(r, q, i)
    BY <2>1, <2>4 DEF CallTo
  <2>6. call'[r].ttl = TtlOf(call'[r].session)
    BY <2>4 DEF ttl
  <2> QED BY <1>3, <2>1, <2>3, <2>5, <2>6
<1>10. CASE CallSetex(r)
  <2> DEFINE t == call[r].ttl
             d == call[r].data
  <2>1. Setex(s, t, d) /\ CallGoto(r, "done") /\ call[r].pc = "setex" /\ HasRead(r) /\ Busy(r)
    BY <1>10 DEF CallSetex, HasRead, Busy
  <2>2. d.id # NoId /\ client[s] # "none" /\ d \in Data /\ t \in 0 .. TTL
    BY <1>0, <2>1 DEF CallNames, NameInv, Unborn, Untouched, Call
  <2>3. call'[r].pc = "done" /\ \A n \in Calls \ {r} : call'[n] = call[n]
    BY <1>0, <2>1 DEF CallGoto, Call
  <2>4. \A i \in Ids : d.id = i => CallTo(r, s, i)
    BY <2>1 DEF CallTo
  <2>5. Young(s) => t = TTL
    BY <1>0, <2>1 DEF TrackInv, YoungKept, WholeTtl
  <2> HIDE DEF t, d, s
  <2>6. /\ key'[s] = [ttl |-> t, data |-> d] /\ \A q \in Sessions \ {s} : key'[q] = key[q]
    BY <1>0, <2>1 DEF Setex, TypeOK
  <2>7. key'[s] \in Key
    BY <2>2, <2>6 DEF Key
  <2>8. key'[s] # NoKey /\ key'[s].data.id = d.id /\ key'[s].ttl = t
    BY <2>6, <2>7, NoKeyAssumption
  <2>9. \A q \in Sessions : Nameless(q)' => Nameless(q)
    BY <2>2, <2>6, <2>8 DEF Nameless, Live
  <2>10. ASSUME NEW q \in Sessions, NEW i \in Ids, Refers(q, i)' PROVE Refers(q, i)
    <3>1. KeyTo(q, i)' => KeyTo(q, i) \/ CallTo(r, q, i)
      BY <2>4, <2>6, <2>8 DEF KeyTo, Live
    <3>2. \A n \in Calls : CallTo(n, q, i)' => CallTo(n, q, i)
      BY <2>3 DEF CallTo, HasRead
    <3> QED BY <1>1, <2>10, <3>1, <3>2 DEF Refers, ScanTo, CleanTo
  <2>11. \A q \in Sessions : Young(q)' => Young(q)
    BY <1>1, <2>9 DEF Young, WorkedOn, Writing
  <2>12. ASSUME NEW q \in Sessions, Young(q) PROVE WholeTtl(q)'
    <3>1. WholeTtl(q)
      BY <2>12 DEF TrackInv, YoungKept
    <3>2. key'[q] # NoKey /\ key'[q].ttl = TTL
      BY <2>5, <2>6, <2>8, <2>12, <3>1 DEF WholeTtl, Live
    <3>3. \A n \in Calls : call'[n].pc = "setex" => call'[n] = call[n]
      BY <2>3
    <3> QED BY <1>1, <3>1, <3>2, <3>3 DEF WholeTtl, Live
  <2> QED BY <1>1, <1>2, <2>9, <2>10, <2>11, <2>12, TrackStep
<1>11. CASE CallRedisFails(r)
  BY <1>4, <1>11 DEF CallRedisFails
<1> QED BY <1>5, <1>6, <1>7, <1>8, <1>9, <1>10, <1>11 DEF Handle

\* The steps of a scan that create and start no container.
LEMMA TrackScans ==
  ASSUME TypeOK, NameInv, TrackInv, NEW k \in Scans,
         \/ ScanStart(k) \/ ScanNext(k) \/ ScanEnd(k) \/ ScanGet(k) \/ ScanMkdir(k)
         \/ ScanReload(k) \/ ScanTtl(k) \/ ScanSetex(k) \/ ScanRedisFails(k)
  PROVE  TrackInv'
<1> DEFINE s == scan[k].session
<1>0. /\ scan \in [Scans -> Scan] /\ scan[k] \in Scan /\ s \in Sessions /\ ScanNames(k)
  BY DEF TypeOK, Scan, NameInv
<1>1. UNCHANGED <<client, call, container, cleanup, shutdown>> /\ ~InHand(k)
  BY DEF ScanStart, ScanNext, ScanEnd, ScanGet, ScanMkdir, ScanReload, ScanTtl, ScanSetex, ScanRedisFails, InHand
\* A scan that writes no key: it has an id from before, works on a session only if
\* that is young, and writes the ttl that is there.
<1>2. ASSUME UNCHANGED key, \A l \in Scans \ {k} : scan'[l] = scan[l],
             \A q \in Sessions, i \in Ids : ScanTo(k, q, i)' => ScanTo(k, q, i),
             \A q \in Sessions : WorkedOn(k, q)' => Young(q),
             scan'[k].pc = "setex" => scan'[k].ttl = TtlOf(scan'[k].session),
             \A q \in Sessions : containerMap'[q] = containerMap[q]
                                   \/ (KeyTo(q, containerMap'[q]) /\ containerMap'[q] \in Ids)
      PROVE  TrackInv'
  <2>1. \A q \in Sessions : Nameless(q)' => Nameless(q)
    BY <1>2 DEF Nameless, Live
  <2>2. ASSUME NEW q \in Sessions, NEW i \in Ids, Refers(q, i)' PROVE Refers(q, i)
    <3>1. KeyTo(q, i)' => KeyTo(q, i)
      BY <1>2 DEF KeyTo, Live
    <3>2. \A l \in Scans : ScanTo(l, q, i)' => ScanTo(l, q, i)
      BY <1>2 DEF ScanTo
    <3>3. containerMap'[q] = i => containerMap[q] = i \/ KeyTo(q, i)
      BY <1>2
    <3> QED BY <1>1, <2>2, <3>1, <3>2, <3>3 DEF Refers, CallTo, HasRead, CleanTo
  <2>3. ASSUME NEW q \in Sessions, Young(q)' PROVE Young(q)
    <3>1. ASSUME NEW l \in Scans, WorkedOn(l, q)' PROVE Young(q)
      <4>1. CASE l = k
        BY <1>2, <3>1, <4>1
      <4>2. CASE l # k
        BY <1>2, <2>1, <3>1, <4>2 DEF Young, WorkedOn, Writing
      <4> QED BY <4>1, <4>2
    <3>2. CASE Nameless(q)' /\ containerMap'[q] = NoId
      BY <1>2, <2>1, <3>2, NoIdAssumption DEF Young
    <3> QED BY <2>3, <3>1, <3>2 DEF Young
  <2>4. ASSUME NEW q \in Sessions, Young(q) PROVE WholeTtl(q)'
    <3>1. WholeTtl(q)
      BY <2>4 DEF TrackInv, YoungKept
    <3>2. TtlOf(q) = TTL
      BY <3>1 DEF WholeTtl, TtlOf
    <3>3. ASSUME NEW l \in Scans, scan'[l].session = q, scan'[l].pc = "setex" PROVE scan'[l].ttl = TTL
      BY <1>2, <3>1, <3>2, <3>3 DEF WholeTtl
    <3> QED BY <1>1, <1>2, <3>1, <3>3 DEF WholeTtl, Live
  <2>5. \A l \in Scans : InHand(l) => InHand(l)' /\ scan'[l].id = scan[l].id
    BY <1>1, <1>2 DEF InHand
  <2>6. \A q \in Sessions : containerMap'[q] = containerMap[q] \/ (containerMap'[q] \in Ids /\ Refers(q, containerMap'[q]))
    BY <1>2 DEF Refers
  <2> QED BY <1>1, <2>1, <2>2, <2>3, <2>4, <2>5, <2>6, TrackStep
\* A scan that works on nothing.
<1>3. ASSUME UNCHANGED <<key, containerMap>>, \A l \in Scans \ {k} : scan'[l] = scan[l],
             scan'[k].pc \in {"idle", "next"}
      PROVE  TrackInv'
  <2>1. \A q \in Sessions, i \in Ids : ~ScanTo(k, q, i)'
    BY <1>3 DEF ScanTo
  <2>2. \A q \in Sessions : ~WorkedOn(k, q)'
    BY <1>3 DEF WorkedOn, Writing
  <2> QED BY <1>2, <1>3, <2>1, <2>2
<1>4. ASSUME NEW pc, ScanGoto(k, pc)
      PROVE  /\ scan'[k].pc = pc /\ scan'[k].session = s /\ scan'[k].data = scan[k].data
             /\ scan'[k].id = scan[k].id
             /\ \A l \in Scans \ {k} : scan'[l] = scan[l]
  BY <1>0, <1>4 DEF ScanGoto, Scan
<1>5. CASE ScanStart(k) \/ ScanEnd(k)
  <2> DEFINE first == [IdleScan EXCEPT !.pc = "next", !.todo = {q \in Sessions : Live(q)}]
  <2>1. IdleScan.pc = "idle" /\ first.pc = "next"
    BY DEF IdleScan
  <2>2. scan' = [scan EXCEPT ![k] = first] \/ scan' = [scan EXCEPT ![k] = IdleScan]
    BY <1>5 DEF ScanStart, ScanEnd
  <2> HIDE DEF first
  <2>3. scan'[k] \in {first, IdleScan} /\ \A l \in Scans \ {k} : scan'[l] = scan[l]
    BY <1>0, <2>2
  <2>4. scan'[k].pc \in {"idle", "next"}
    BY <2>1, <2>3
  <2>5. UNCHANGED <<key, containerMap>>
    BY <1>5 DEF ScanStart, ScanEnd
  <2> QED BY <1>3, <2>3, <2>4, <2>5
<1>6. CASE ScanNext(k)
  <2>1. PICK q \in scan[k].todo :
          scan' = [scan EXCEPT ![k].todo = @ \ {q}, ![k].session = q,
                     ![k].pc = IF containerMap[q] # NoId THEN "next" ELSE "get"]
    BY <1>6 DEF ScanNext
  <2>2. scan'[k] = [scan[k] EXCEPT !.todo = @ \ {q}, !.session = q,
                      !.pc = IF containerMap[q] # NoId THEN "next" ELSE "get"]
        /\ \A l \in Scans \ {k} : scan'[l] = scan[l]
    BY <1>0, <2>1
  <2>3. scan'[k].pc = (IF containerMap[q] # NoId THEN "next" ELSE "get") /\ scan'[k].session = q
    BY <1>0, <2>2 DEF Scan
  <2>4. UNCHANGED <<key, containerMap>>
    BY <1>6 DEF ScanNext
  <2>5. \A p \in Sessions, i \in Ids : ~ScanTo(k, p, i)'
    BY <2>3 DEF ScanTo
  <2>6. \A p \in Sessions : WorkedOn(k, p)' => Young(p)
    BY <2>3, <2>4 DEF WorkedOn, Writing, Young, Nameless, Live
  <2> QED BY <1>2, <2>2, <2>3, <2>4, <2>5, <2>6
<1>7. CASE ScanGet(k)
  <2>1. UNCHANGED key /\ scan[k].pc = "get"
    BY <1>7 DEF ScanGet
  <2>2. CASE Nameless(s)
    <3>1. ScanGoto(k, "mkdir") /\ UNCHANGED containerMap
      BY <1>7, <2>2 DEF ScanGet, Nameless
    <3>2. \A q \in Sessions, i \in Ids : ~ScanTo(k, q, i)'
      BY <1>4, <3>1 DEF ScanTo
    <3>3. Young(s)
      BY <2>1, <2>2 DEF Young, WorkedOn
    <3>4. \A q \in Sessions : WorkedOn(k, q)' => Young(q)
      BY <1>4, <3>1, <3>3 DEF WorkedOn
    <3> QED BY <1>2, <1>4, <2>1, <3>1, <3>2, <3>4
  <2>3. CASE ~Nameless(s)
    <3>1. /\ ScanGoto(k, "next")
          /\ containerMap' = [containerMap EXCEPT ![s] = IF Live(s) THEN key[s].data.id ELSE containerMap[s]]
      BY <1>7, <2>3 DEF ScanGet, Nameless
    <3>2. Live(s) => key[s].data.id \in Ids
      BY <1>0, <2>3, KeyType DEF Nameless
    <3>3. \A q \in Sessions : containerMap'[q] = containerMap[q]
                                   \/ (KeyTo(q, containerMap'[q]) /\ containerMap'[q] \in Ids)
      BY <1>0, <3>1, <3>2 DEF KeyTo, TypeOK
    <3>4. \A q \in Sessions, i \in Ids : ~ScanTo(k, q, i)'
      BY <1>4, <3>1 DEF ScanTo
    <3>5. \A q \in Sessions : ~WorkedOn(k, q)'
      BY <1>4, <3>1 DEF WorkedOn, Writing
    <3> QED BY <1>2, <1>4, <2>1, <3>1, <3>3, <3>4, <3>5
  <2> QED BY <2>2, <2>3
<1>8. CASE ScanMkdir(k)
  <2>1. UNCHANGED <<key, containerMap>> /\ scan[k].pc = "mkdir" /\ ScanGoto(k, "create")
    BY <1>8 DEF ScanMkdir
  <2>2. \A q \in Sessions, i \in Ids : ~ScanTo(k, q, i)'
    BY <1>4, <2>1 DEF ScanTo
  <2>3. \A q \in Sessions : WorkedOn(k, q)' => Young(q)
    BY <1>4, <2>1 DEF WorkedOn, Writing, Young
  <2> QED BY <1>2, <1>4, <2>1, <2>2, <2>3
<1>9. CASE ScanReload(k)
  <2>1. UNCHANGED <<key, containerMap>> /\ scan[k].pc = "reload"
    BY <1>9 DEF ScanReload
  <2>2. CASE ~Live(s)
    BY <1>3, <1>4, <1>9, <2>1, <2>2 DEF ScanReload
  <2>3. CASE Live(s)
    <3>1. key[s].data \in Data
      BY <1>0, <2>3, KeyType
    <3> DEFINE data == [key[s].data EXCEPT !.id = scan[k].id]
    <3>2. data.id = scan[k].id
      BY <3>1 DEF Data
    <3>3. scan' = [scan EXCEPT ![k].data = data, ![k].pc = "ttl"]
      BY <1>9, <2>3 DEF ScanReload
    <3> HIDE DEF data
    <3>4. scan'[k] = [scan[k] EXCEPT !.data = data, !.pc = "ttl"] /\ \A l \in Scans \ {k} : scan'[l] = scan[l]
      BY <1>0, <3>3
    <3>5. /\ scan'[k].pc = "ttl" /\ scan'[k].session = s /\ scan'[k].data.id = scan[k].id
      BY <1>0, <3>2, <3>4 DEF Scan
    <3>6. \A q \in Sessions, i \in Ids : ScanTo(k, q, i)' => ScanTo(k, q, i)
      BY <2>1, <3>5 DEF ScanTo
    <3>7. \A q \in Sessions : WorkedOn(k, q)' => Young(q)
      BY <2>1, <3>5 DEF WorkedOn, Writing, Young
    <3> QED BY <1>2, <2>1, <3>4, <3>5, <3>6, <3>7
  <2> QED BY <2>2, <2>3
<1>10. CASE ScanTtl(k)
  <2> DEFINE ttl == TtlOf(s)
             pc == IF ttl > 0 THEN "setex" ELSE "next"
  <2>1. UNCHANGED <<key, containerMap>> /\ scan[k].pc = "ttl"
    BY <1>10 DEF ScanTtl
  <2>2. pc \in {"setex", "next"} /\ scan' = [scan EXCEPT ![k].pc = pc, ![k].ttl = ttl]
    BY <1>10 DEF ScanTtl
  <2> HIDE DEF ttl, pc
  <2>3. scan'[k] = [scan[k] EXCEPT !.pc = pc, !.ttl = ttl] /\ \A l \in Scans \ {k} : scan'[l] = scan[l]
    BY <1>0, <2>2
  <2>4. scan'[k].pc = pc /\ scan'[k].session = s /\ scan'[k].data = scan[k].data /\ scan'[k].ttl = ttl
    BY <1>0, <2>3 DEF Scan
  <2>5. \A q \in Sessions, i \in Ids : ScanTo(k, q, i)' => ScanTo(k, q, i)
    BY <2>1, <2>2, <2>4 DEF ScanTo
  <2>6. \A q \in Sessions : WorkedOn(k, q)' => Young(q)
    BY <2>1, <2>2, <2>4 DEF WorkedOn, Writing, Young
  <2>7. scan'[k].ttl = TtlOf(scan'[k].session)
    BY <2>4 DEF ttl
  <2> QED BY <1>2, <2>1, <2>3, <2>5, <2>6, <2>7
<1>11. CASE ScanSetex(k)
  <2> DEFINE t == scan[k].ttl
             d == scan[k].data
  <2>1. Setex(s, t, d) /\ ScanGoto(k, "next") /\ UNCHANGED containerMap /\ scan[k].pc = "setex"
    BY <1>11 DEF ScanSetex
  <2>2. d.id # NoId /\ d \in Data /\ t \in 0 .. TTL
    BY <1>0, <2>1 DEF ScanNames, Scan
  <2>3. \A i \in Ids : d.id = i => ScanTo(k, s, i)
    BY <2>1 DEF ScanTo
  <2>4. Young(s) => t = TTL
    BY <1>0, <2>1 DEF TrackInv, YoungKept, WholeTtl
  <2>5. /\ \A q \in Sessions, i \in Ids : ~ScanTo(k, q, i)'
        /\ \A q \in Sessions : ~WorkedOn(k, q)'
        /\ scan'[k].pc = "next"
        /\ \A l \in Scans \ {k} : scan'[l] = scan[l]
    BY <1>4, <2>1 DEF ScanTo, WorkedOn, Writing
  <2> HIDE DEF t, d, s
  <2>6. /\ key'[s] = [ttl |-> t, data |-> d] /\ \A q \in Sessions \ {s} : key'[q] = key[q]
    BY <1>0, <2>1 DEF Setex, TypeOK
  <2>7. key'[s] \in Key
    BY <2>2, <2>6 DEF Key
  <2>8. key'[s] # NoKey /\ key'[s].data.id = d.id /\ key'[s].ttl = t
    BY <2>6, <2>7, NoKeyAssumption
  <2>9. \A q \in Sessions : Nameless(q)' => Nameless(q)
    BY <2>2, <2>6, <2>8 DEF Nameless, Live
  <2>10. ASSUME NEW q \in Sessions, NEW i \in Ids, Refers(q, i)' PROVE Refers(q, i)
    <3>1. KeyTo(q, i)' => KeyTo(q, i) \/ ScanTo(k, q, i)
      BY <2>3, <2>6, <2>8 DEF KeyTo, Live
    <3>2. \A l \in Scans : ScanTo(l, q, i)' => ScanTo(l, q, i)
      BY <2>5 DEF ScanTo
    <3> QED BY <1>1, <2>1, <2>10, <3>1, <3>2 DEF Refers, CallTo, HasRead, CleanTo
  <2>11. ASSUME NEW q \in Sessions, Young(q)' PROVE Young(q)
    <3>1. \A l \in Scans : WorkedOn(l, q)' => WorkedOn(l, q)
      BY <2>5, <2>9 DEF WorkedOn, Writing
    <3> QED BY <2>1, <2>9, <2>11, <3>1 DEF Young
  <2>12. ASSUME NEW q \in Sessions, Young(q) PROVE WholeTtl(q)'
    <3>1. WholeTtl(q)
      BY <2>12 DEF TrackInv, YoungKept
    <3>2. key'[q] # NoKey /\ key'[q].ttl = TTL
      BY <2>4, <2>6, <2>8, <2>12, <3>1 DEF WholeTtl, Live
    <3>3. \A l \in Scans : scan'[l].pc = "setex" => scan'[l] = scan[l]
      BY <2>5
    <3> QED BY <1>1, <3>1, <3>2, <3>3 DEF WholeTtl, Live
  <2>13. \A l \in Scans : InHand(l) => InHand(l)' /\ scan'[l].id = scan[l].id
    BY <1>1, <2>5 DEF InHand
  <2> QED BY <1>1, <2>1, <2>9, <2>10, <2>11, <2>12, <2>13, TrackStep
<1>12. CASE ScanRedisFails(k)
  <2>1. UNCHANGED <<key, containerMap>>
    BY <1>12 DEF ScanRedisFails
  <2>2. CASE ScanGoto(k, "next")
    BY <1>3, <1>4, <2>1, <2>2
  <2>3. CASE scan' = [scan EXCEPT ![k] = IdleScan]
    <3>1. scan'[k].pc = "idle" /\ \A l \in Scans \ {k} : scan'[l] = scan[l]
      BY <1>0, <2>3 DEF IdleScan
    <3> QED BY <1>3, <2>1, <3>1
  <2> QED BY <1>12, <2>2, <2>3 DEF ScanRedisFails
<1> QED BY <1>5, <1>6, <1>7, <1>8, <1>9, <1>10, <1>11, <1>12

\* The container a scan creates is the first that anybody knows of its session.
LEMMA TrackCreate ==
  ASSUME TypeOK, NameInv, TrackInv, NEW k \in Scans, ScanCreate(k)
  PROVE  TrackInv'
<1> DEFINE s == scan[k].session
<1>0. scan \in [Scans -> Scan] /\ scan[k] \in Scan /\ s \in Sessions /\ scan[k].pc = "create"
  BY DEF TypeOK, Scan, ScanCreate
<1>1. UNCHANGED <<client, key, call, containerMap, cleanup, shutdown>>
  BY DEF ScanCreate
<1>2. CASE ScanGoto(k, "next") /\ UNCHANGED container
  <2>1. scan'[k].pc = "next" /\ \A l \in Scans \ {k} : scan'[l] = scan[l]
    BY <1>0, <1>2 DEF ScanGoto, Scan
  <2>2. \A q \in Sessions : Nameless(q)' => Nameless(q)
    BY <1>1 DEF Nameless, Live
  <2>3. \A l \in Scans : \A q \in Sessions : WorkedOn(l, q)' => WorkedOn(l, q)
    BY <2>1, <2>2 DEF WorkedOn, Writing
  <2>4. \A q \in Sessions : Young(q)' => Young(q)
    BY <1>1, <2>2, <2>3 DEF Young
  <2>5. \A q \in Sessions, i \in Ids : Refers(q, i)' => Refers(q, i)
    <3>1. \A l \in Scans, q \in Sessions, i \in Ids : ScanTo(l, q, i)' => ScanTo(l, q, i)
      BY <2>1 DEF ScanTo
    <3> QED BY <1>1, <3>1 DEF Refers, KeyTo, Live, CallTo, HasRead, CleanTo
  <2>6. ASSUME NEW q \in Sessions, Young(q) PROVE WholeTtl(q)'
    <3>1. WholeTtl(q)
      BY <2>6 DEF TrackInv, YoungKept
    <3>2. \A l \in Scans : scan'[l].pc = "setex" => scan'[l] = scan[l]
      BY <2>1
    <3> QED BY <1>1, <3>1, <3>2 DEF WholeTtl, Live
  <2>7. \A l \in Scans : InHand(l) => InHand(l)' /\ scan'[l].id = scan[l].id
    BY <1>0, <2>1 DEF InHand
  <2> QED BY <1>1, <1>2, <2>2, <2>4, <2>5, <2>6, <2>7, TrackStep
<1>3. ASSUME ~NameInUse(s), NEW i \in Ids, Fresh(i),
             container' = [container EXCEPT ![i] = [session |-> s, state |-> "created"]],
             scan' = [scan EXCEPT ![k].id = i, ![k].pc = "start"]
      PROVE  TrackInv'
  <2>1. /\ container'[i] = [session |-> s, state |-> "created"]
        /\ \A n \in Ids \ {i} : container'[n] = container[n]
    BY <1>3 DEF TypeOK
  <2>2. scan'[k] = [scan[k] EXCEPT !.id = i, !.pc = "start"] /\ \A l \in Scans \ {k} : scan'[l] = scan[l]
    BY <1>0, <1>3
  <2>3. scan'[k].pc = "start" /\ scan'[k].session = s /\ scan'[k].id = i
    BY <1>0, <2>2 DEF Scan
  <2>4. \A n \in Ids : Exists(n)' <=> Exists(n) \/ n = i
    BY <2>1 DEF Exists
  <2>5. \A n \in Ids : Exists(n) => container[n].session # s /\ n # i
    BY <1>3 DEF NameInUse, Fresh
  <2>6. \A q \in Sessions : Nameless(q)' <=> Nameless(q)
    BY <1>1 DEF Nameless, Live
  <2>7. WorkedOn(k, s)
    BY <1>0 DEF WorkedOn, Writing
  <2>8. ASSUME NEW q \in Sessions, Young(q)' PROVE Young(q)
    <3>1. \A l \in Scans : WorkedOn(l, q)' => WorkedOn(l, q)
      BY <1>0, <2>2, <2>3, <2>6 DEF WorkedOn, Writing
    <3> QED BY <1>1, <2>6, <2>8, <3>1 DEF Young
  <2>9. Young(s) /\ YoungKept(s)
    BY <1>0, <2>7 DEF Young, TrackInv
  <2>10. \A n \in Ids : ~Refers(s, n)
    BY <1>0, <2>5, <2>9 DEF TrackInv, YoungKept, Right
  <2>11. \A q \in Sessions : ~Refers(q, i)
    BY <1>3 DEF Fresh, Refers, KeyTo, CallTo, ScanTo, CleanTo
  <2>12. ASSUME NEW q \in Sessions, NEW n \in Ids, Refers(q, n)'
         PROVE  Refers(q, n) \/ (q = s /\ n = i)
    <3>1. KeyTo(q, n)' => KeyTo(q, n)
      BY <1>1 DEF KeyTo, Live
    <3>2. ASSUME NEW l \in Scans, ScanTo(l, q, n)' PROVE ScanTo(l, q, n) \/ (q = s /\ n = i)
      BY <2>2, <2>3, <3>2 DEF ScanTo
    <3>3. \A r \in Calls : CallTo(r, q, n)' => CallTo(r, q, n)
      BY <1>1 DEF CallTo, HasRead
    <3>4. \A c \in Cleanups : CleanTo(c, q, n)' => CleanTo(c, q, n)
      BY <1>1 DEF CleanTo
    <3> HIDE DEF s
    <3> QED BY <1>1, <2>12, <3>1, <3>2, <3>3, <3>4 DEF Refers
  <2>13. ASSUME NEW q \in Sessions, NEW n \in Ids, Refers(q, n)' PROVE Right(q, n)'
    <3>1. CASE q = s /\ n = i
      BY <2>1, <2>4, <2>5, <3>1 DEF Right
    <3>2. CASE q # s /\ n # i /\ Refers(q, n)
      <4>1. Right(q, n)
        BY <3>2 DEF TrackInv
      <4> QED BY <2>1, <2>4, <3>2, <4>1 DEF Right
    <3> QED BY <2>10, <2>11, <2>12, <2>13, <3>1, <3>2
  <2>14. ASSUME NEW q \in Sessions PROVE YoungKept(q)'
    <3> SUFFICES ASSUME Young(q)'
                 PROVE  WholeTtl(q)' /\ ~Cleaned(q)' /\ \A n \in Ids : Refers(q, n)' => Exists(n)'
      BY DEF YoungKept
    <3>1. WholeTtl(q) /\ ~Cleaned(q) /\ \A n \in Ids : Refers(q, n) => Exists(n)
      BY <2>8 DEF TrackInv, YoungKept
    <3>2. \A l \in Scans : scan'[l].pc = "setex" => scan'[l] = scan[l]
      BY <2>2, <2>3
    <3>3. WholeTtl(q)'
      BY <1>1, <3>1, <3>2 DEF WholeTtl, Live
    <3>4. ~Cleaned(q)'
      BY <1>1, <3>1 DEF Cleaned
    <3> QED BY <2>4, <2>12, <3>1, <3>3, <3>4
  <2>15. /\ \A n \in Ids : Removing(n)' <=> Removing(n)
         /\ \A n \in Ids : Starting(n) => Starting(n)'
         /\ Starting(i)' /\ ~Removing(i)
    <3>1. \A l \in Scans : InHand(l) => l # k
      BY <1>0 DEF InHand
    <3>2. ~Removing(i)
      BY <1>3 DEF Fresh, Removing
    <3> QED BY <1>1, <2>2, <2>3, <3>1, <3>2 DEF Removing, Starting, InHand
  <2>16. ASSUME NEW n \in Ids PROVE Tracked(n)'
    <3>1. Tracked(n)
      BY DEF TrackInv
    <3>2. CASE n = i
      BY <2>1, <2>15, <3>2 DEF Tracked
    <3>3. CASE n # i
      BY <1>1, <2>1, <2>4, <2>15, <3>1, <3>3 DEF Tracked
    <3> QED BY <3>2, <3>3
  <2>17. ASSUME NEW c \in Cleanups PROVE CleanKept(c)'
    <3>1. CleanKept(c) /\ cleanup'[c] = cleanup[c] /\ cleanup[c].id # i
      BY <1>1, <1>3 DEF TrackInv, Fresh
    <3>2. cleanup[c].pc = "remove" => container'[cleanup[c].id].state \in {"exited", "absent"}
      BY <2>1, <3>1 DEF CleanKept
    <3>3. ASSUME NEW q \in cleanup[c].cleaned PROVE ~Nameless(q)' /\ CleanedGone(c, q)'
      <4>1. q # s /\ q \in Sessions
        BY <2>9, <3>3 DEF YoungKept, Cleaned, TypeOK, Cleanup
      <4>2. ~Nameless(q) /\ CleanedGone(c, q)
        BY <3>1, <3>3 DEF CleanKept
      <4>3. \A n \in Ids : Exists(n)' /\ container'[n].session = q => n # i /\ Exists(n) /\ container[n].session = q
        BY <2>1, <2>4, <4>1
      <4>4. CleanedGone(c, q)'
        BY <2>15, <3>1, <4>2, <4>3 DEF CleanedGone
      <4> QED BY <2>6, <4>1, <4>2, <4>4
    <3> QED BY <3>1, <3>2, <3>3 DEF CleanKept
  <2>18. shutdown' = [q \in Sessions |-> NotStopping]
    BY <1>1 DEF TrackInv
  <2> QED BY <2>13, <2>14, <2>16, <2>17, <2>18 DEF TrackInv
<1> QED BY <1>2, <1>3 DEF ScanCreate

\* The container a scan starts goes from its hands into the map.
LEMMA TrackLaunch ==
  ASSUME TypeOK, Names, NameInv, TrackInv, NEW k \in Scans, ScanLaunch(k)
  PROVE  TrackInv'
<1> DEFINE s == scan[k].session
           i == scan[k].id
<1>0. /\ scan \in [Scans -> Scan] /\ scan[k] \in Scan /\ s \in Sessions /\ InHand(k)
      /\ i \in Ids /\ container[i].state = "created"
  BY DEF TypeOK, Scan, ScanLaunch, InHand, Names
<1>1. UNCHANGED <<client, key, call, cleanup, shutdown>>
  BY DEF ScanLaunch
<1>2. /\ scan'[k].pc = "reload" /\ scan'[k].session = s /\ scan'[k].id = i
      /\ \A l \in Scans \ {k} : scan'[l] = scan[l]
  BY <1>0 DEF ScanLaunch, ScanGoto, Scan
<1>3. containerMap'[s] = i /\ \A q \in Sessions \ {s} : containerMap'[q] = containerMap[q]
  BY <1>0 DEF ScanLaunch, TypeOK
<1>4. container'[i] = [container[i] EXCEPT !.state = "running"] /\ \A n \in Ids \ {i} : container'[n] = container[n]
  BY <1>0 DEF ScanLaunch, TypeOK
<1>5. container'[i].state = "running" /\ container'[i].session = container[i].session
  BY <1>0, <1>4 DEF TypeOK, Container
<1>6. /\ \A n \in Ids : Exists(n)' <=> Exists(n)
      /\ \A n \in Ids : container'[n].session = container[n].session
  BY <1>0, <1>4, <1>5 DEF Exists
<1>7. Refers(s, i) /\ Right(s, i)
  <2>1. ScanTo(k, s, i)
    BY <1>0 DEF ScanTo, InHand
  <2> QED BY <1>0, <2>1 DEF Refers, TrackInv
<1>8. \A q \in Sessions : Nameless(q)' <=> Nameless(q)
  BY <1>1 DEF Nameless, Live
<1>9. ASSUME NEW q \in Sessions, NEW n \in Ids, Refers(q, n)' PROVE Refers(q, n)
  <2>1. KeyTo(q, n)' => KeyTo(q, n)
    BY <1>1 DEF KeyTo, Live
  <2>2. \A l \in Scans : ScanTo(l, q, n)' => ScanTo(l, q, n)
    BY <1>0, <1>2 DEF ScanTo, InHand
  <2>3. \A r \in Calls : CallTo(r, q, n)' => CallTo(r, q, n)
    BY <1>1 DEF CallTo, HasRead
  <2>4. \A c \in Cleanups : CleanTo(c, q, n)' => CleanTo(c, q, n)
    BY <1>1 DEF CleanTo
  <2>5. containerMap'[q] = n => Refers(q, n)
    BY <1>3, <1>7 DEF Refers
  <2> QED BY <1>9, <2>1, <2>2, <2>3, <2>4, <2>5 DEF Refers
<1>10. ASSUME NEW q \in Sessions, Young(q)' PROVE Young(q)
  <2>1. \A l \in Scans : WorkedOn(l, q)' => WorkedOn(l, q)
    BY <1>0, <1>2, <1>8 DEF WorkedOn, Writing, InHand
  <2>2. containerMap'[q] = NoId => containerMap[q] = NoId
    BY <1>0, <1>3, NoIdAssumption
  <2> QED BY <1>8, <1>10, <2>1, <2>2 DEF Young
<1>11. ASSUME NEW q \in Sessions PROVE YoungKept(q)'
  <2> SUFFICES ASSUME Young(q)'
               PROVE  WholeTtl(q)' /\ ~Cleaned(q)' /\ \A n \in Ids : Refers(q, n)' => Exists(n)'
    BY DEF YoungKept
  <2>1. WholeTtl(q) /\ ~Cleaned(q) /\ \A n \in Ids : Refers(q, n) => Exists(n)
    BY <1>10 DEF TrackInv, YoungKept
  <2>2. \A l \in Scans : scan'[l].pc = "setex" => scan'[l] = scan[l]
    BY <1>2
  <2>3. WholeTtl(q)'
    BY <1>1, <2>1, <2>2 DEF WholeTtl, Live
  <2>4. ~Cleaned(q)'
    BY <1>1, <2>1 DEF Cleaned
  <2> QED BY <1>6, <1>9, <2>1, <2>3, <2>4
<1>12. \A q \in Sessions, n \in Ids : Refers(q, n)' => Right(q, n)'
  BY <1>6, <1>9 DEF TrackInv, Right
<1>13. \A n \in Ids : /\ Removing(n)' <=> Removing(n)
                      /\ Starting(n) /\ n # i => Starting(n)'
  BY <1>1, <1>2 DEF Removing, Starting, InHand
<1>14. ASSUME NEW n \in Ids PROVE Tracked(n)'
  <2>1. Tracked(n) /\ container[n].session \in Sessions
    BY DEF TrackInv, TypeOK, Container
  <2>2. CASE n = i
    <3>1. container[i].session = s
      BY <1>0, <1>7 DEF Right, Exists
    <3> QED BY <1>3, <1>5, <2>2, <3>1 DEF Tracked
  <2>3. CASE n # i
    <3>1. Exists(n) => container[n].session # s
      BY <1>7, <2>3 DEF Right
    <3> QED BY <1>3, <1>4, <1>6, <1>13, <2>1, <2>3, <3>1 DEF Tracked, Exists
  <2> QED BY <2>2, <2>3
<1>15. ASSUME NEW c \in Cleanups PROVE CleanKept(c)'
  <2>1. CleanKept(c) /\ cleanup'[c] = cleanup[c]
    BY <1>1 DEF TrackInv
  <2>2. cleanup[c].pc = "remove" => container'[cleanup[c].id].state \in {"exited", "absent"}
    BY <1>0, <1>4, <2>1 DEF CleanKept
  <2>3. ASSUME NEW q \in cleanup[c].cleaned PROVE ~Nameless(q)' /\ CleanedGone(c, q)'
    <3>1. ~Nameless(q) /\ CleanedGone(c, q) /\ q \in Sessions
      BY <2>1, <2>3 DEF CleanKept, TypeOK, Cleanup
    <3>2. CleanedGone(c, q)'
      BY <1>6, <1>13, <2>1, <3>1 DEF CleanedGone
    <3> QED BY <1>8, <3>1, <3>2
  <2> QED BY <2>1, <2>2, <2>3 DEF CleanKept
<1>16. shutdown' = [q \in Sessions |-> NotStopping]
  BY <1>1 DEF TrackInv
<1> QED BY <1>11, <1>12, <1>14, <1>15, <1>16 DEF TrackInv

\* A cleanup is between two containers, before and after: it holds nothing.
LEMMA TrackIdle ==
  ASSUME TypeOK, TrackInv, NEW c \in Cleanups,
         CleanupStart(c) \/ CleanupEnd(c) \/ RemoveDirectory(c) \/ CleanupRedisFails(c)
           \/ (CleanupNext(c) /\ cleanup'[c].pc = "next")
  PROVE  TrackInv'
<1>0. cleanup \in [Cleanups -> Cleanup] /\ cleanup[c] \in Cleanup /\ cleanup[c].cleaned \subseteq Sessions
  BY DEF TypeOK, Cleanup
<1>1. UNCHANGED <<client, key, call, scan, container, shutdown>> /\ cleanup[c].pc \notin {"stop", "remove"}
  BY DEF CleanupStart, CleanupEnd, RemoveDirectory, CleanupRedisFails, CleanupNext
<1>2. /\ cleanup'[c].pc \notin {"stop", "remove"} /\ cleanup'[c].cleaned \subseteq cleanup[c].cleaned
      /\ \A d \in Cleanups \ {c} : cleanup'[d] = cleanup[d]
  <2>1. CASE CleanupStart(c)
    BY <1>0, <2>1 DEF CleanupStart, IdleCleanup
  <2>2. CASE CleanupEnd(c) \/ CleanupRedisFails(c)
    BY <1>0, <2>2 DEF CleanupEnd, CleanupRedisFails, IdleCleanup
  <2>3. CASE RemoveDirectory(c)
    BY <1>0, <2>3 DEF RemoveDirectory, CleanupGoto, Cleanup
  <2>4. CASE CleanupNext(c) /\ cleanup'[c].pc = "next"
    <3>1. PICK s \in Unseen(c) :
            \/ cleanup' = [cleanup EXCEPT ![c].seen = @ \cup {s}]
            \/ cleanup' = [cleanup EXCEPT ![c].seen = @ \cup {s}, ![c].cleaned = @ \cup {s},
                             ![c].session = s, ![c].id = containerMap[s], ![c].pc = "stop"]
      BY <2>4 DEF CleanupNext
    <3>2. CASE cleanup' = [cleanup EXCEPT ![c].seen = @ \cup {s}]
      BY <1>0, <2>4, <3>2 DEF Cleanup
    <3>3. CASE cleanup' = [cleanup EXCEPT ![c].seen = @ \cup {s}, ![c].cleaned = @ \cup {s},
                             ![c].session = s, ![c].id = containerMap[s], ![c].pc = "stop"]
      <4>1. cleanup' = [cleanup EXCEPT ![c] = [cleanup[c] EXCEPT !.seen = @ \cup {s}, !.cleaned = @ \cup {s},
                             !.session = s, !.id = containerMap[s], !.pc = "stop"]]
        BY <1>0, <3>3
      <4>2. cleanup'[c].pc = "stop"
        BY <1>0, <4>1 DEF Cleanup
      <4> QED BY <2>4, <4>2
    <3> QED BY <3>1, <3>2, <3>3
  <2> QED BY <2>1, <2>2, <2>3, <2>4
<1>3. \A n \in Ids : /\ Exists(n)' <=> Exists(n)
                     /\ Removing(n)' <=> Removing(n)
                     /\ Starting(n)' <=> Starting(n)
  BY <1>1, <1>2 DEF Exists, Removing, Starting, InHand
<1>4. \A q \in Sessions : Nameless(q)' <=> Nameless(q)
  BY <1>1 DEF Nameless, Live
\* Only the map may lose what this cleanup has cleaned.
<1>5. \A q \in Sessions :
        \/ containerMap'[q] = containerMap[q]
        \/ cleanup[c].pc = "next" /\ q \in cleanup[c].cleaned /\ containerMap'[q] = NoId
  BY DEF CleanupStart, CleanupEnd, RemoveDirectory, CleanupRedisFails, CleanupNext, TypeOK
<1>6. CleanKept(c) /\ \A q \in cleanup[c].cleaned : ~Nameless(q) /\ CleanedGone(c, q)
  BY DEF TrackInv, CleanKept
<1>7. ASSUME NEW q \in Sessions, NEW n \in Ids, Refers(q, n)' PROVE Refers(q, n)
  <2>1. \A d \in Cleanups : CleanTo(d, q, n)' => CleanTo(d, q, n)
    BY <1>2 DEF CleanTo
  <2>2. containerMap'[q] = n => containerMap[q] = n
    BY <1>5, NoIdAssumption
  <2> QED BY <1>1, <1>7, <2>1, <2>2 DEF Refers, KeyTo, Live, CallTo, HasRead, ScanTo
<1>8. ASSUME NEW q \in Sessions, Young(q)' PROVE Young(q)
  <2>1. \A l \in Scans : WorkedOn(l, q)' => WorkedOn(l, q)
    BY <1>1, <1>4 DEF WorkedOn, Writing
  <2> QED BY <1>4, <1>5, <1>6, <1>8, <2>1 DEF Young
<1>9. \A q \in Sessions, n \in Ids : Refers(q, n)' => Right(q, n)'
  BY <1>1, <1>3, <1>7 DEF TrackInv, Right
<1>10. ASSUME NEW q \in Sessions PROVE YoungKept(q)'
  <2> SUFFICES ASSUME Young(q)'
               PROVE  WholeTtl(q)' /\ ~Cleaned(q)' /\ \A n \in Ids : Refers(q, n)' => Exists(n)'
    BY DEF YoungKept
  <2>1. WholeTtl(q) /\ ~Cleaned(q) /\ \A n \in Ids : Refers(q, n) => Exists(n)
    BY <1>8 DEF TrackInv, YoungKept
  <2>2. WholeTtl(q)'
    BY <1>1, <2>1 DEF WholeTtl, Live
  <2>3. ~Cleaned(q)'
    BY <1>2, <2>1 DEF Cleaned
  <2> QED BY <1>3, <1>7, <2>1, <2>2, <2>3
<1>11. ASSUME NEW n \in Ids PROVE Tracked(n)'
  <2> DEFINE q == container[n].session
  <2>1. Tracked(n) /\ q \in Sessions
    BY DEF TrackInv, TypeOK, Container
  <2>2. Exists(n) /\ containerMap[q] = n => containerMap'[q] = n \/ Removing(n)
    BY <1>5, <1>6, <2>1 DEF CleanedGone
  <2> QED BY <1>1, <1>3, <2>1, <2>2 DEF Tracked
<1>12. ASSUME NEW d \in Cleanups PROVE CleanKept(d)'
  <2>1. CleanKept(d)
    BY DEF TrackInv
  <2>2. cleanup'[d].pc \in {"stop", "remove"} => cleanup'[d] = cleanup[d]
    BY <1>2
  <2>3. ASSUME NEW q \in cleanup'[d].cleaned PROVE ~Nameless(q)' /\ CleanedGone(d, q)'
    <3>1. q \in cleanup[d].cleaned /\ q \in Sessions
      BY <1>2, <2>3 DEF TypeOK, Cleanup
    <3>2. ~Nameless(q) /\ CleanedGone(d, q)
      BY <2>1, <3>1 DEF CleanKept
    <3>3. cleanup[d].pc = "stop" => cleanup'[d] = cleanup[d]
      BY <1>1, <1>2
    <3>4. CleanedGone(d, q)'
      BY <1>1, <1>3, <3>2, <3>3 DEF CleanedGone
    <3> QED BY <1>4, <3>1, <3>2, <3>4
  <2> QED BY <1>1, <2>1, <2>2, <2>3 DEF CleanKept
<1>13. shutdown' = [q \in Sessions |-> NotStopping]
  BY <1>1 DEF TrackInv
<1> QED BY <1>9, <1>10, <1>11, <1>12, <1>13 DEF TrackInv

\* A cleanup finds a session gone: no scan is working on it, or it would be live.
LEMMA TrackFound ==
  ASSUME TypeOK, TrackInv, NEW c \in Cleanups, CleanupNext(c), cleanup'[c].pc # "next"
  PROVE  TrackInv'
<1>0. cleanup \in [Cleanups -> Cleanup] /\ cleanup[c] \in Cleanup /\ cleanup[c].pc = "next"
  BY DEF TypeOK, CleanupNext
<1>1. UNCHANGED <<client, key, call, scan, container, containerMap, shutdown>>
  BY DEF CleanupNext
<1>2. PICK s \in Sessions :
        /\ containerMap[s] # NoId /\ ~Live(s)
        /\ cleanup' = [cleanup EXCEPT ![c].seen = @ \cup {s}, ![c].cleaned = @ \cup {s},
                         ![c].session = s, ![c].id = containerMap[s], ![c].pc = "stop"]
  <2>1. PICK s \in Unseen(c) :
          \/ cleanup' = [cleanup EXCEPT ![c].seen = @ \cup {s}]
          \/ /\ ~Live(s)
             /\ cleanup' = [cleanup EXCEPT ![c].seen = @ \cup {s}, ![c].cleaned = @ \cup {s},
                              ![c].session = s, ![c].id = containerMap[s], ![c].pc = "stop"]
    BY DEF CleanupNext
  <2>2. CASE cleanup' = [cleanup EXCEPT ![c].seen = @ \cup {s}]
    BY <1>0, <2>2 DEF Cleanup
  <2> QED BY <2>1, <2>2 DEF Unseen
<1>3. /\ cleanup'[c] = [cleanup[c] EXCEPT !.seen = @ \cup {s}, !.cleaned = @ \cup {s},
                          !.session = s, !.id = containerMap[s], !.pc = "stop"]
      /\ \A d \in Cleanups \ {c} : cleanup'[d] = cleanup[d]
  BY <1>0, <1>2
<1>4. /\ cleanup'[c].pc = "stop" /\ cleanup'[c].session = s /\ cleanup'[c].id = containerMap[s]
      /\ cleanup'[c].cleaned = cleanup[c].cleaned \cup {s}
  BY <1>0, <1>3 DEF Cleanup
<1>5. containerMap[s] \in Ids
  BY <1>2 DEF TypeOK
<1>6. \A n \in Ids : /\ Exists(n)' <=> Exists(n)
                     /\ Removing(n)' <=> Removing(n)
                     /\ Starting(n)' <=> Starting(n)
  <2>1. \A d \in Cleanups : cleanup'[d].pc = "remove" \/ cleanup[d].pc = "remove" => cleanup'[d] = cleanup[d]
    BY <1>0, <1>3, <1>4
  <2>2. \A n \in Ids : Removing(n)' <=> Removing(n)
    BY <2>1 DEF Removing
  <2> QED BY <1>1, <2>2 DEF Exists, Starting, InHand
<1>7. \A q \in Sessions : Nameless(q)' <=> Nameless(q)
  BY <1>1 DEF Nameless, Live
<1>8. ASSUME NEW q \in Sessions, NEW n \in Ids, Refers(q, n)' PROVE Refers(q, n)
  <2>1. \A d \in Cleanups : CleanTo(d, q, n)' => CleanTo(d, q, n) \/ containerMap[q] = n
    BY <1>3, <1>4 DEF CleanTo
  <2> QED BY <1>1, <1>8, <2>1 DEF Refers, KeyTo, Live, CallTo, HasRead, ScanTo
<1>9. \A q \in Sessions : Young(q)' => Young(q)
  BY <1>1, <1>7 DEF Young, WorkedOn, Writing
<1>10. \A q \in Sessions, n \in Ids : Refers(q, n)' => Right(q, n)'
  BY <1>1, <1>6, <1>8 DEF TrackInv, Right
<1>11. ASSUME NEW q \in Sessions PROVE YoungKept(q)'
  <2> SUFFICES ASSUME Young(q)'
               PROVE  WholeTtl(q)' /\ ~Cleaned(q)' /\ \A n \in Ids : Refers(q, n)' => Exists(n)'
    BY DEF YoungKept
  <2>1. WholeTtl(q) /\ ~Cleaned(q) /\ \A n \in Ids : Refers(q, n) => Exists(n)
    BY <1>9 DEF TrackInv, YoungKept
  <2>2. WholeTtl(q)'
    BY <1>1, <2>1 DEF WholeTtl, Live
  <2>3. q # s
    BY <1>2, <2>1 DEF WholeTtl
  <2>4. ~Cleaned(q)'
    BY <1>3, <1>4, <2>1, <2>3 DEF Cleaned
  <2> QED BY <1>6, <1>8, <2>1, <2>2, <2>4
<1>12. \A n \in Ids : Tracked(n)'
  BY <1>1, <1>6 DEF TrackInv, Tracked
<1>13. ASSUME NEW d \in Cleanups PROVE CleanKept(d)'
  <2>1. CleanKept(d)
    BY DEF TrackInv
  <2>2. CASE d # c
    <3>1. ASSUME NEW q \in cleanup[d].cleaned PROVE ~Nameless(q)' /\ CleanedGone(d, q)'
      <4>1. q \in Sessions /\ ~Nameless(q) /\ CleanedGone(d, q)
        BY <2>1, <3>1 DEF CleanKept, TypeOK, Cleanup
      <4>2. CleanedGone(d, q)'
        BY <1>1, <1>3, <1>6, <2>2, <4>1 DEF CleanedGone
      <4> QED BY <1>7, <4>1, <4>2
    <3> QED BY <1>1, <1>3, <2>1, <2>2, <3>1 DEF CleanKept
  <2>3. CASE d = c
    <3>1. ASSUME NEW q \in cleanup[c].cleaned PROVE ~Nameless(q)' /\ CleanedGone(c, q)'
      <4>1. q \in Sessions /\ ~Nameless(q) /\ CleanedGone(c, q)
        BY <2>1, <2>3, <3>1 DEF CleanKept, TypeOK, Cleanup
      <4>2. CleanedGone(c, q)'
        BY <1>0, <1>1, <1>6, <4>1 DEF CleanedGone
      <4> QED BY <1>7, <4>1, <4>2
    <3>2. ~Nameless(s)' /\ CleanedGone(c, s)'
      BY <1>2, <1>4, <1>7 DEF Nameless, CleanedGone
    <3>3. \A q \in cleanup'[c].cleaned : ~Nameless(q)' /\ CleanedGone(c, q)'
      BY <1>4, <3>1, <3>2
    <3> QED BY <1>4, <1>5, <2>3, <3>3 DEF CleanKept
  <2> QED BY <2>2, <2>3
<1>14. shutdown' = [q \in Sessions |-> NotStopping]
  BY <1>1 DEF TrackInv
<1> QED BY <1>10, <1>11, <1>12, <1>13, <1>14 DEF TrackInv

\* A cleanup that goes on with its container: stops it, removes it, or finds that
\* somebody else has.
LEMMA TrackStop ==
  ASSUME TypeOK, TrackInv, NEW c \in Cleanups, StopContainer(c) \/ RemoveContainer(c),
         NEW i, i = cleanup[c].id, NEW s, s = cleanup[c].session
  PROVE  TrackInv'
<1>0. /\ cleanup \in [Cleanups -> Cleanup] /\ cleanup[c] \in Cleanup /\ CleanKept(c)
      /\ cleanup[c].pc \in {"stop", "remove"} /\ s \in cleanup[c].cleaned /\ s \in Sessions /\ i \in Ids
  BY DEF TypeOK, Cleanup, TrackInv, CleanKept, StopContainer, RemoveContainer
<1>1. UNCHANGED <<client, key, call, scan, containerMap, shutdown>>
  BY DEF StopContainer, RemoveContainer
<1>2. Right(s, i)
  BY <1>0 DEF TrackInv, Refers, CleanTo
<1>3. /\ ~Young(s)
      /\ \A n \in Ids : Exists(n) /\ container[n].session = s => n = i
  BY <1>0, <1>2 DEF TrackInv, YoungKept, Cleaned, Right
<1>4. \A q \in Sessions : Nameless(q)' <=> Nameless(q)
  BY <1>1 DEF Nameless, Live
<1>5. ASSUME NEW pc, CleanupGoto(c, pc)
      PROVE  /\ cleanup'[c].pc = pc /\ cleanup'[c].session = s /\ cleanup'[c].id = i
             /\ cleanup'[c].cleaned = cleanup[c].cleaned
             /\ \A d \in Cleanups \ {c} : cleanup'[d] = cleanup[d]
  BY <1>0, <1>5 DEF CleanupGoto, Cleanup
\* It suffices that the same containers are tracked as before.
<1>6. ASSUME NEW pc \in {"next", "remove", "rm"}, CleanupGoto(c, pc),
             \A n \in Ids \ {i} : container'[n] = container[n],
             container'[i].session = container[i].session,
             Exists(i)' => Exists(i),
             ~Exists(i)' => pc # "remove",
             pc = "remove" => container'[i].state = "exited",
             container'[i].state # "running" \/ container'[i] = container[i],
             \A d \in Cleanups : cleanup'[d].pc = "remove" /\ cleanup'[d].id = i
               => container'[i].state \in {"exited", "absent"},
             Exists(i)' => Removing(i)' /\ container'[i].state # "created",
             cleanup[c].pc = "remove" => ~Exists(i)'
      PROVE  TrackInv'
  <2>1. /\ cleanup'[c].pc = pc /\ cleanup'[c].session = s /\ cleanup'[c].id = i
        /\ cleanup'[c].cleaned = cleanup[c].cleaned
        /\ \A d \in Cleanups \ {c} : cleanup'[d] = cleanup[d]
    BY <1>5, <1>6
  <2>2. \A n \in Ids : /\ Exists(n)' => Exists(n) /\ (Removing(n) => Removing(n)')
                       /\ Starting(n)' <=> Starting(n)
                       /\ container'[n].session = container[n].session
    <3>1. \A n \in Ids : Starting(n)' <=> Starting(n)
      BY <1>1 DEF Starting, InHand
    <3>2. \A n \in Ids \ {i} : Exists(n)' <=> Exists(n)
      BY <1>6 DEF Exists
    <3>3. \A n \in Ids \ {i} : Removing(n) => Removing(n)'
      BY <2>1 DEF Removing
    <3> QED BY <1>0, <1>6, <3>1, <3>2, <3>3
  <2>3. \A n \in Ids \ {i} : Exists(n) => Exists(n)'
    BY <1>6 DEF Exists
  <2>4. ASSUME NEW q \in Sessions, NEW n \in Ids, Refers(q, n)' PROVE Refers(q, n)
    <3>1. \A d \in Cleanups : CleanTo(d, q, n)' => CleanTo(d, q, n)
      BY <1>0, <2>1 DEF CleanTo
    <3> QED BY <1>1, <2>4, <3>1 DEF Refers, KeyTo, Live, CallTo, HasRead, ScanTo
  <2>5. \A q \in Sessions : Young(q)' => Young(q)
    BY <1>1, <1>4 DEF Young, WorkedOn, Writing
  <2>6. \A q \in Sessions, n \in Ids : Refers(q, n)' => Right(q, n)'
    BY <2>2, <2>4 DEF TrackInv, Right
  <2>7. ASSUME NEW q \in Sessions PROVE YoungKept(q)'
    <3> SUFFICES ASSUME Young(q)'
                 PROVE  WholeTtl(q)' /\ ~Cleaned(q)' /\ \A n \in Ids : Refers(q, n)' => Exists(n)'
      BY DEF YoungKept
    <3>1. WholeTtl(q) /\ ~Cleaned(q) /\ \A n \in Ids : Refers(q, n) => Exists(n) /\ Right(q, n)
      BY <2>5 DEF TrackInv, YoungKept
    <3>2. WholeTtl(q)'
      BY <1>1, <3>1 DEF WholeTtl, Live
    <3>3. ~Cleaned(q)'
      BY <2>1, <3>1 DEF Cleaned
    <3>4. q # s
      BY <1>3, <2>5
    <3>5. ~Refers(q, i)
      BY <1>0, <1>2, <3>1, <3>4 DEF Right
    <3>6. \A n \in Ids : Refers(q, n)' => Exists(n)'
      BY <2>3, <2>4, <3>1, <3>5
    <3> QED BY <3>2, <3>3, <3>6
  <2>8. ASSUME NEW n \in Ids PROVE Tracked(n)'
    <3>1. CASE n = i
      BY <1>6, <3>1 DEF Tracked, Exists
    <3>2. CASE n # i
      <4>1. Tracked(n) /\ container'[n] = container[n]
        BY <1>6, <3>2 DEF TrackInv
      <4> QED BY <1>1, <2>2, <2>3, <3>2, <4>1 DEF Tracked, Exists
    <3> QED BY <3>1, <3>2
  <2>9. ASSUME NEW d \in Cleanups PROVE CleanKept(d)'
    <3>1. CleanKept(d)
      BY DEF TrackInv
    <3>2. cleanup'[d].pc \in {"stop", "remove"} => cleanup'[d].session \in cleanup'[d].cleaned /\ cleanup'[d].id \in Ids
      BY <1>0, <2>1, <3>1 DEF CleanKept
    <3>3. cleanup'[d].pc = "remove" => container'[cleanup'[d].id].state \in {"exited", "absent"}
      <4>1. CASE cleanup'[d].id = i
        BY <1>6, <4>1
      <4>2. CASE cleanup'[d].id # i
        BY <1>6, <2>1, <3>1, <3>2, <4>2 DEF CleanKept
      <4> QED BY <4>1, <4>2
    <3>4. ASSUME NEW q \in cleanup'[d].cleaned PROVE ~Nameless(q)' /\ CleanedGone(d, q)'
      <4>1. q \in cleanup[d].cleaned /\ q \in Sessions
        BY <2>1, <3>4 DEF TypeOK, Cleanup
      <4>2. ~Nameless(q) /\ CleanedGone(d, q)
        BY <3>1, <4>1 DEF CleanKept
      <4>3. ASSUME NEW n \in Ids, ~(cleanup'[d].pc = "stop" /\ cleanup'[d].session = q), Exists(n)',
                   container'[n].session = q
            PROVE  Removing(n)'
        <5>1. CASE n = i
          BY <1>6, <4>3, <5>1
        <5>2. CASE n # i
          <6>1. Exists(n) /\ container[n].session = q /\ q # s
            BY <1>3, <2>2, <4>3, <5>2
          <6>2. ~(cleanup[d].pc = "stop" /\ cleanup[d].session = q)
            BY <2>1, <4>3, <6>1
          <6> QED BY <2>2, <4>2, <4>3, <6>1, <6>2 DEF CleanedGone
        <5> QED BY <5>1, <5>2
      <4>4. CleanedGone(d, q)'
        BY <4>3 DEF CleanedGone
      <4> QED BY <1>4, <4>1, <4>2, <4>4
    <3> QED BY <3>2, <3>3, <3>4 DEF CleanKept
  <2>10. shutdown' = [q \in Sessions |-> NotStopping]
    BY <1>1 DEF TrackInv
  <2> QED BY <2>6, <2>7, <2>8, <2>9, <2>10 DEF TrackInv
\* Whoever else removes the container has found it stopped.
<1>7. \A d \in Cleanups : cleanup[d].pc = "remove" /\ cleanup[d].id = i => container[i].state \in {"exited", "absent"}
  BY DEF TrackInv, CleanKept
<1>8. container[i].state \in {"absent", "created", "running", "exited"}
  BY <1>0 DEF TypeOK, Container
\* Nobody is about to start it: a scan would be working on the session.
<1>9. container[i].state # "created"
  <2> SUFFICES ASSUME container[i].state = "created" PROVE FALSE
    OBVIOUS
  <2>1. PICK k \in Scans : InHand(k) /\ scan[k].id = i
    BY <1>0 DEF TrackInv, Tracked, Starting
  <2>2. scan[k].session \in Sessions /\ Exists(i)
    BY DEF TypeOK, Scan, Exists
  <2>3. Right(scan[k].session, i)
    BY <1>0, <2>1, <2>2 DEF TrackInv, Refers, ScanTo, InHand
  <2>4. scan[k].session = s
    BY <1>0, <1>2, <2>2, <2>3 DEF Right
  <2>5. Young(s)
    BY <2>1, <2>4 DEF Young, WorkedOn, Writing, InHand
  <2> QED BY <1>3, <2>5
<1>10. CASE StopContainer(c) /\ container[i].state = "running"
  <2>1. CleanupGoto(c, "remove") /\ container' = [container EXCEPT ![i].state = "exited"]
    BY <1>10 DEF StopContainer
  <2>2. /\ container'[i].state = "exited" /\ container'[i].session = container[i].session
        /\ \A n \in Ids \ {i} : container'[n] = container[n]
    BY <1>0, <2>1 DEF TypeOK, Container
  <2>3. Removing(i)'
    BY <1>5, <2>1 DEF Removing
  <2>4. Exists(i) /\ Exists(i)'
    BY <1>10, <2>2 DEF Exists
  <2>5. cleanup[c].pc = "stop"
    BY <1>10 DEF StopContainer
  <2> QED BY <1>6, <2>1, <2>2, <2>3, <2>4, <2>5
<1>11. CASE RemoveContainer(c) /\ container[i].state = "exited"
  <2>1. CleanupGoto(c, "rm") /\ container' = [container EXCEPT ![i].state = "absent"]
    BY <1>11 DEF RemoveContainer
  <2>2. /\ container'[i].state = "absent" /\ container'[i].session = container[i].session
        /\ \A n \in Ids \ {i} : container'[n] = container[n]
    BY <1>0, <2>1 DEF TypeOK, Container
  <2>3. ~Exists(i)'
    BY <2>2 DEF Exists
  <2> QED BY <1>6, <2>1, <2>2, <2>3
<1>12. CASE /\ CleanupGoto(c, "next") /\ UNCHANGED container
            /\ cleanup[c].pc = "stop" => container[i].state # "running"
            /\ cleanup[c].pc = "remove" => container[i].state = "absent"
  <2>1. Exists(i) => cleanup[c].pc = "stop" /\ container[i].state = "exited"
    BY <1>0, <1>8, <1>9, <1>12 DEF Exists
  <2>2. Exists(i) => Removing(i)
    BY <1>0, <2>1 DEF TrackInv, Tracked
  <2>3. Exists(i) => Removing(i)'
    BY <1>5, <1>12, <2>1, <2>2 DEF Removing
  <2>4. Exists(i)' <=> Exists(i)
    BY <1>12 DEF Exists
  <2>5. container'[i].state \in {"exited", "absent"}
    BY <1>12, <2>1 DEF Exists
  <2>6. cleanup[c].pc = "remove" => ~Exists(i)
    BY <1>12 DEF Exists
  <2>7. container' = container
    BY <1>12
  <2>8. /\ container'[i].session = container[i].session /\ container'[i] = container[i]
        /\ \A n \in Ids \ {i} : container'[n] = container[n]
    BY <2>7
  <2> QED BY <1>6, <1>9, <1>12, <2>3, <2>4, <2>5, <2>6, <2>7, <2>8
<1>13. /\ cleanup[c].pc = "remove" => container[i].state \in {"exited", "absent"}
       /\ StopContainer(c) => cleanup[c].pc = "stop"
       /\ RemoveContainer(c) => cleanup[c].pc = "remove"
  BY <1>0 DEF CleanKept, StopContainer, RemoveContainer
<1>14. CASE StopContainer(c) /\ container[i].state # "running"
  BY <1>12, <1>13, <1>14 DEF StopContainer
<1>15. CASE RemoveContainer(c) /\ container[i].state # "exited"
  BY <1>12, <1>13, <1>15 DEF RemoveContainer
<1> QED BY <1>10, <1>11, <1>14, <1>15

LEMMA TrackNext ==
  ASSUME "crash" \notin Faults, "stop" \notin Faults, "docker" \notin Faults,
         TypeOK, Names, NameInv, TrackInv, [Next]_vars
  PROVE  TrackInv'
<1>1. CASE UNCHANGED vars
  <2>1. \A s \in Sessions, i \in Ids : Refers(s, i)' => Refers(s, i)
    BY <1>1 DEF Refers, KeyTo, Live, CallTo, HasRead, ScanTo, CleanTo
  <2>2. \A s \in Sessions : /\ Nameless(s)' => Nameless(s)
                            /\ Young(s)' => Young(s)
                            /\ WholeTtl(s) => WholeTtl(s)'
    BY <1>1 DEF Nameless, Live, Young, WorkedOn, Writing, WholeTtl
  <2>3. \A s \in Sessions : Young(s) => WholeTtl(s)
    BY DEF TrackInv, YoungKept
  <2>4. \A k \in Scans : InHand(k) => InHand(k)' /\ scan'[k].id = scan[k].id
    BY <1>1 DEF InHand
  <2> QED BY <1>1, <2>1, <2>2, <2>3, <2>4, TrackStep
\* The worker is not told to stop, does not die, and Docker does what it is asked.
<1>2. ~(Crash \/ Sigterm \/ ShutdownEnds)
  BY SomeAssumption DEF Crash, Sigterm, ShutdownEnds, Fault, TrackInv, NotStopping
<1>3. \A s \in Sessions : ~(ShutdownStep(s) \/ ShutdownDockerFails(s))
  BY DEF ShutdownStep, ShutdownDockerFails, Fault, TrackInv, NotStopping
<1>4. /\ \A k \in Scans : ~ScanDockerFails(k)
      /\ \A c \in Cleanups : ~CleanupDockerFails(c)
  BY DEF ScanDockerFails, CleanupDockerFails, Fault
<1>5. ASSUME NEW c \in Cleanups, CleanExpired(c) \/ CleanupRedisFails(c) PROVE TrackInv'
  BY <1>5, TrackIdle, TrackFound, TrackStop DEF CleanExpired
<1>6. ASSUME NEW k \in Scans, ScanAndCreate(k) \/ ScanRedisFails(k) PROVE TrackInv'
  BY <1>6, TrackScans, TrackCreate, TrackLaunch DEF ScanAndCreate
<1>7. CASE Tick
  BY <1>7, TrackTime, SomeAssumption
<1> QED BY <1>1, <1>2, <1>3, <1>4, <1>5, <1>6, <1>7, TrackTime, TrackCli, TrackCalls
        DEF Next, StopAll, Fail

LEMMA TrackInit == Init => TrackInv
<1> SUFFICES ASSUME Init PROVE TrackInv
  OBVIOUS
<1>1. /\ \A s \in Sessions : key[s] = NoKey /\ containerMap[s] = NoId
      /\ \A r \in Calls : call[r].pc = "new"
      /\ \A k \in Scans : scan[k].pc = "idle"
      /\ \A c \in Cleanups : cleanup[c].pc = "idle" /\ cleanup[c].cleaned = {}
      /\ \A i \in Ids : container[i].state = "absent"
      /\ shutdown = [s \in Sessions |-> NotStopping]
  BY DEF Init, NewCall, IdleScan, IdleCleanup
<1>2. \A s \in Sessions, i \in Ids : ~Refers(s, i)
  BY <1>1, NoIdAssumption DEF Refers, KeyTo, Live, CallTo, HasRead, ScanTo, CleanTo
<1>3. \A s \in Sessions : ~Young(s)
  BY <1>1 DEF Young, Nameless, Live, WorkedOn, Writing
<1>4. \A i \in Ids : Tracked(i)
  BY <1>1 DEF Tracked, Exists
<1>5. \A c \in Cleanups : CleanKept(c)
  BY <1>1 DEF CleanKept
<1> QED BY <1>1, <1>2, <1>3, <1>4, <1>5 DEF TrackInv, YoungKept

\* While the worker lives and Docker obeys it, it loses no container: however
\* scans and cleanups overlap with each other, with an expiry, with a late call
\* that brings a session back and with errors of Redis, the container is in the
\* map, about to be started or about to be removed (scanAndCreateContainers,
\* cleanupExpiredSessions).  This is ContainerTracked, and more: it needs none of
\* its condition that Redis has not failed.
THEOREM ContainersTracked ==
  ASSUME "crash" \notin Faults, "stop" \notin Faults, "docker" \notin Faults
  PROVE  Spec => [](ContainerTracked /\ \A i \in Ids : Exists(i) => Findable(i))
<1>1. Init => Names
  BY DEF Init, Names, OneContainerPerSession, Exists, InHand, IdleScan
<1>2. TypeOK /\ TrackInv => ContainerTracked /\ \A i \in Ids : Exists(i) => Findable(i)
  <2> SUFFICES ASSUME TypeOK, TrackInv, NEW i \in Ids, Exists(i)
               PROVE  \/ \E s \in Sessions : containerMap[s] = i
                      \/ Starting(i)
                      \/ Removing(i)
    BY DEF ContainerTracked, Findable, Starting, InHand, Removing
  <2>1. Tracked(i) /\ container[i].session \in Sessions
    BY DEF TrackInv, TypeOK, Container
  <2> QED BY <2>1 DEF Tracked
<1>3. TypeOK /\ Names /\ NameInv /\ TrackInv /\ [Next]_vars => TrackInv'
  BY TrackNext
<1> QED BY <1>1, <1>2, <1>3, InitType, NextType, NamesNext, NameInvInit, NameInvNext, TrackInit, PTL DEF Spec
================================================================================
