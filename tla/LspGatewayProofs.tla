---------------------------- MODULE LspGatewayProofs ----------------------------
(***************************************************************************)
(* Type correctness of the gateway, what the client believes of its stream, *)
(* and what becomes of its requests, for any number of lsp-connect attempts *)
(* and requests and for every fault.                                        *)
(***************************************************************************)
EXTENDS LspGateway, SequenceTheorems, FiniteSetTheorems, TLAPS

--------------------------------------------------------------------------------
(* The types *)

LEMMA SendType ==
  ASSUME TypeOK, NEW messages \in Seq(Upward), Send(messages)
  PROVE  up' \in Seq(Upward)
BY ConcatProperties DEF Send, TypeOK

LEMMA EmitType ==
  ASSUME TypeOK, NEW events \in Seq(Downward), Emit(events)
  PROVE  down' \in Seq(Downward)
BY ConcatProperties DEF Emit, TypeOK

LEMMA ErrorType ==
  ASSUME TypeOK, NEW code \in Nat, Error(code)
  PROVE  down' \in Seq(Downward)
<1>1. <<[event |-> "lsp-error", n |-> code]>> \in Seq(Downward)
  BY DEF Downward
<1> QED BY <1>1, EmitType DEF Error

\* Receiving an event leaves the rest of the queue.
LEMMA ReceiveType ==
  ASSUME TypeOK, down # <<>>, down' = Tail(down)
  PROVE  down' \in Seq(Downward) /\ Head(down) \in Downward
BY HeadTailProperties DEF TypeOK

\* A handler or a connection of one attempt changes its record and no other.
LEMMA TcpToType ==
  ASSUME TypeOK, NEW n, NEW tcp \in {"none", "lookup", "refused", "connecting", "open",
                                 "ended", "destroyed", "ending", "closed"},
         TcpTo(n, tcp)
  PROVE  conn' \in [Attempts -> Conn]
BY DEF TypeOK, TcpTo, Conn

\* A message of the client: what it does to the connection of the entry, and that
\* the client hears of nothing but errors.
LEMMA WriteDoes ==
  ASSUME TypeOK, HandleLSPMessage
  PROVE  /\ entry = NoConn => conn' = conn
         /\ entry # NoConn /\ conn[entry].tcp = "open" =>
              conn' = [conn EXCEPT ![entry] =
                [conn[entry] EXCEPT !.got = conn[entry].got \cup {Head(up).event},
                                    !.todo = conn[entry].todo \cup ({Head(up).n} \ {0})]]
         /\ entry # NoConn /\ conn[entry].tcp # "open" =>
              conn' = [conn EXCEPT ![entry] = [conn[entry] EXCEPT !.tcp = "destroyed"]]
BY DEF HandleLSPMessage, Write, TcpTo

Errors(events) == Emit(events) /\ \A i \in 1 .. Len(events) : events[i].event = "lsp-error"
Quiet == down' = down \/ \E events \in Seq(Downward) : Errors(events)

LEMMA ErrorQuiet ==
  ASSUME NEW code \in Nat, Error(code)
  PROVE  Quiet
<1> DEFINE e == <<[event |-> "lsp-error", n |-> code]>>
<1>1. e \in Seq(Downward) /\ Len(e) = 1 /\ e[1].event = "lsp-error"
  BY DEF Downward
<1>2. Emit(e)
  BY DEF Error
<1> HIDE DEF e
<1> QED BY <1>1, <1>2 DEF Quiet, Errors

LEMMA MessageQuiet ==
  ASSUME TypeOK, HandleLSPMessage
  PROVE  Quiet
<1>1. CASE entry = NoConn
  <2>1. Error(400)
    BY <1>1 DEF HandleLSPMessage
  <2> QED BY <2>1, ErrorQuiet
<1>2. CASE entry # NoConn
  <2>1. PICK k \in 0 .. Failures(entry) : Emit([i \in 1 .. k |-> [event |-> "lsp-error", n |-> 500]])
    BY <1>2 DEF HandleLSPMessage
  <2> DEFINE e == [i \in 1 .. k |-> [event |-> "lsp-error", n |-> 500]]
  <2>2. k \in Nat
    BY DEF Failures
  <2>3. e \in Seq(Downward) /\ Len(e) = k /\ \A i \in 1 .. k : e[i].event = "lsp-error"
    BY <2>2 DEF Downward
  <2> HIDE DEF e
  <2>4. Emit(e)
    BY <2>1 DEF e
  <2> QED BY <2>3, <2>4 DEF Quiet, Errors
<1> QED BY <1>1, <1>2

LEMMA QuietType == TypeOK /\ Quiet => down' \in Seq(Downward)
BY EmitType DEF Quiet, Errors, TypeOK

LEMMA InitType == Init => TypeOK
<1> SUFFICES ASSUME Init PROVE TypeOK
  OBVIOUS
<1>1. conn \in [Attempts -> Conn]
  BY DEF Init, NewConn, Conn
<1>2. up \in Seq(Upward) /\ down \in Seq(Downward)
  <2>1. up = <<>> /\ down = <<>>
    BY DEF Init
  <2> QED BY <2>1, EmptySeq
<1>3. 0 \in 0 .. MaxRetries 
  BY BoundsAssumption
<1>4. /\ pc \in PC /\ state \in LspState
      /\ pending \subseteq Nat \ {0} /\ attempt = 0 /\ nextId = 1
      /\ completer \in {"none", "pending", "done"}
      /\ link \in {"off", "up", "kicked", "lost", "closed"} /\ served \in BOOLEAN
      /\ entry \in Attempts \cup {NoConn}
  BY DEF Init, PC, LspState
<1> QED BY <1>1, <1>2, <1>3, <1>4 DEF TypeOK

LEMMA ClientType == TypeOK /\ Client => TypeOK'
<1> SUFFICES ASSUME TypeOK, Client PROVE TypeOK'
  OBVIOUS
<1> USE BoundsAssumption DEF PC, LspState
<1>1. CASE Open
  BY <1>1 DEF TypeOK, Open, Gateway
<1>2. CASE Connected
  <2>1. up' \in Seq(Upward)
    BY <1>2 DEF Connected, Upward
  <2> QED BY <1>2, <2>1 DEF TypeOK, Connected, Try, Gateway
<1>3. CASE Kicked
  BY <1>3 DEF TypeOK, Kicked, Try, Gateway
<1>4. CASE ConnectError
  BY <1>4 DEF TypeOK, ConnectError, Gateway
<1>5. CASE RetryTimeout
  <2>1. CASE attempt < MaxRetries
    <3>1. <<[event |-> "lsp-connect", n |-> attempt + 1]>> \in Seq(Upward)
      BY DEF TypeOK, Upward
    <3>2. Send(<<[event |-> "lsp-connect", n |-> attempt + 1]>>) /\ Try(attempt + 1)
      BY <1>5, <2>1 DEF RetryTimeout, TypeOK
    <3>3. up' \in Seq(Upward)
      BY <3>1, <3>2, SendType
    <3> QED BY <1>5, <2>1, <3>2, <3>3 DEF TypeOK, RetryTimeout, Try, Gateway
  <2>2. CASE attempt = MaxRetries
    BY <1>5, <2>2 DEF TypeOK, RetryTimeout, Gateway
  <2> QED BY <1>5, <2>1, <2>2 DEF RetryTimeout
<1>6. CASE LspConnected
  <2>1. down' \in Seq(Downward)
    BY <1>6, ReceiveType DEF LspConnected, Receive
  <2>2. CASE pc = "waiting"
    <3>1. <<[event |-> "initialize", n |-> nextId]>> \in Seq(Upward)
      BY DEF TypeOK, Upward, Message
    <3>2. up' \in Seq(Upward)
      BY <1>6, <2>2, <3>1, SendType DEF LspConnected
    <3>3. pc' = "initializing" /\ state' = "initializing" /\ pending' = {nextId}
          /\ nextId' = nextId + 1
      BY <1>6, <2>2 DEF LspConnected
    <3> QED BY <1>6, <2>1, <3>2, <3>3 DEF TypeOK, LspConnected, Gateway
  <2>3. CASE pc = "failed"
    <3>1. state' = "connected" /\ UNCHANGED <<pc, pending, nextId, up>>
      BY <1>6, <2>3 DEF LspConnected
    <3>2. completer' = "done" /\ UNCHANGED <<attempt, link, served, conn, entry>>
      BY <1>6 DEF LspConnected, Gateway
    <3> QED BY <2>1, <3>1, <3>2 DEF TypeOK
  <2> QED BY <1>6, <2>2, <2>3 DEF LspConnected
<1>7. CASE ConnectedTwice
  BY <1>7 DEF TypeOK, ConnectedTwice, Unlink, Gateway
<1>8. CASE LspError
  <2>1. down' \in Seq(Downward)
    BY <1>8, ReceiveType DEF LspError, Receive
  <2> QED BY <1>8, <2>1 DEF TypeOK, LspError, Gateway
<1>9. CASE LspDisconnected
  <2>1. down' \in Seq(Downward)
    BY <1>9, ReceiveType DEF LspDisconnected, Receive
  <2> QED BY <1>9, <2>1 DEF TypeOK, LspDisconnected, Gateway
<1>10. CASE Response
  <2>1. down' \in Seq(Downward)
    BY <1>10, ReceiveType DEF Response, Receive
  <2>2. <<[event |-> "initialized", n |-> 0]>> \in Seq(Upward)
    BY DEF Upward, Message
  <2>3. up' \in Seq(Upward)
    BY <1>10, <2>2, SendType DEF Response, TypeOK
  <2>4. pc' \in PC /\ state' \in LspState /\ pending' \subseteq Nat \ {0}
    BY <1>10 DEF TypeOK, Response
  <2> QED BY <1>10, <2>1, <2>3, <2>4 DEF TypeOK, Response, Gateway
<1>11. CASE RequestTimeout
  BY <1>11 DEF TypeOK, RequestTimeout, Gateway
<1>12. CASE GoToDefinition
  <2>1. <<[event |-> "didOpen", n |-> 0], [event |-> "definition", n |-> nextId]>> \in Seq(Upward)
    BY DEF TypeOK, Upward, Message
  <2>2. up' \in Seq(Upward)
    BY <1>12, <2>1, SendType DEF GoToDefinition
  <2> QED BY <1>12, <2>2 DEF TypeOK, GoToDefinition, Gateway
<1>13. CASE Disconnect
  BY <1>13 DEF TypeOK, Disconnect, Unlink, Gateway
<1>14. CASE Exit
  BY <1>14 DEF TypeOK, Exit, Unlink, Gateway
<1> QED
  BY <1>1, <1>2, <1>3, <1>4, <1>5, <1>6, <1>7, <1>8, <1>9, <1>10, <1>11, <1>12, <1>13, <1>14
  DEF Client

LEMMA HandlersType == TypeOK /\ Handlers => TypeOK'
<1> SUFFICES ASSUME TypeOK, Handlers PROVE TypeOK'
  OBVIOUS
<1>1. CASE HandleLSPConnect
  <2>1. conn' \in [Attempts -> Conn]
    BY <1>1, TcpToType DEF HandleLSPConnect
  <2>2. up' \in Seq(Upward)
    BY <1>1, HeadTailProperties DEF HandleLSPConnect, TypeOK
  <2> QED BY <1>1, <2>1, <2>2 DEF TypeOK, HandleLSPConnect, cliVars
<1>2. CASE HandleLSPMessage
  <2>1. /\ up' \in Seq(Upward)
        /\ Head(up) \in Upward
    BY <1>2, HeadTailProperties DEF HandleLSPMessage, TypeOK
  <2>2. down' \in Seq(Downward)
    BY <1>2, MessageQuiet, QuietType
  <2>3. conn' \in [Attempts -> Conn]
    <3>1. CASE entry # NoConn
      <4>1. entry \in Attempts /\ conn \in [Attempts -> Conn] /\ conn[entry] \in Conn
        BY <3>1 DEF TypeOK
      <4>2. Head(up).event \in Message /\ Head(up).n \in Nat
        BY <1>2, <2>1 DEF HandleLSPMessage, Upward
      <4>3. /\ [conn[entry] EXCEPT !.got = conn[entry].got \cup {Head(up).event},
                                   !.todo = conn[entry].todo \cup ({Head(up).n} \ {0})] \in Conn
            /\ [conn[entry] EXCEPT !.tcp = "destroyed"] \in Conn
        BY <4>1, <4>2 DEF Conn
      <4> QED BY <1>2, <3>1, <4>1, <4>3, WriteDoes
    <3>2. CASE entry = NoConn
      BY <1>2, <3>2, WriteDoes DEF TypeOK
    <3> QED BY <3>1, <3>2
  <2> QED BY <1>2, <2>1, <2>2, <2>3 DEF TypeOK, HandleLSPMessage, cliVars
<1>3. ASSUME NEW n \in Attempts, Lookup(n) PROVE TypeOK'
  <2>1. CASE LookupFinds(n)
    <3>1. conn' \in [Attempts -> Conn]
      BY <2>1 DEF LookupFinds, TypeOK, Conn
    <3> QED BY <2>1, <3>1 DEF TypeOK, LookupFinds, cliVars
  <2>2. CASE LookupRefuses(n)
    <3>1. conn' \in [Attempts -> Conn]
      BY <2>2, TcpToType DEF LookupRefuses
    <3>2. down' \in Seq(Downward)
      BY <2>2, ErrorType DEF LookupRefuses
    <3> QED BY <2>2, <3>1, <3>2 DEF TypeOK, LookupRefuses, cliVars
  <2>3. CASE LookupFails(n)
    <3>1. conn' \in [Attempts -> Conn]
      BY <2>3, TcpToType DEF LookupFails
    <3>2. down' \in Seq(Downward)
      BY <2>3, ErrorType DEF LookupFails
    <3> QED BY <2>3, <3>1, <3>2 DEF TypeOK, LookupFails, cliVars
  <2> QED BY <1>3, <2>1, <2>2, <2>3 DEF Lookup
<1>4. ASSUME NEW n \in Attempts, Activity(n) PROVE TypeOK'
  <2>1. conn' \in [Attempts -> Conn]
    <3>1. conn' = [conn EXCEPT ![n].activity = FALSE]
      BY <1>4 DEF Activity, ActivityUpdated, ActivityFails
    <3> QED BY <3>1 DEF TypeOK, Conn
  <2>2. down' \in Seq(Downward)
    <3>1. down' = down \/ Error(500)
      BY <1>4 DEF Activity, ActivityUpdated, ActivityFails
    <3> QED BY <3>1, ErrorType DEF TypeOK
  <2> QED BY <1>4, <2>1, <2>2 DEF TypeOK, Activity, ActivityUpdated, ActivityFails, cliVars
<1>5. ASSUME NEW n \in Attempts, Tcp(n) PROVE TypeOK'
  <2>1. CASE TcpConnected(n)
    <3>1. conn' \in [Attempts -> Conn]
      BY <2>1, TcpToType DEF TcpConnected
    <3>2. <<[event |-> "lsp-connected", n |-> 0]>> \in Seq(Downward)
      BY DEF Downward
    <3>3. down' \in Seq(Downward)
      BY <2>1, <3>2, EmitType DEF TcpConnected
    <3> QED BY <2>1, <3>1, <3>3 DEF TypeOK, TcpConnected, cliVars
  <2>2. CASE TcpFails(n)
    <3>1. conn' \in [Attempts -> Conn]
      BY <2>2, TcpToType DEF TcpFails
    <3>2. down' \in Seq(Downward)
      BY <2>2, ErrorType DEF TcpFails
    <3> QED BY <2>2, <3>1, <3>2 DEF TypeOK, TcpFails, cliVars
  <2>3. CASE ServerExits(n)
    <3>1. conn' \in [Attempts -> Conn]
      BY <2>3, TcpToType DEF ServerExits
    <3> QED BY <2>3, <3>1 DEF TypeOK, ServerExits, cliVars
  <2>4. CASE Closed(n)
    <3>1. conn' \in [Attempts -> Conn]
      BY <2>4, TcpToType DEF Closed
    <3>2. <<[event |-> "lsp-disconnected", n |-> 0]>> \in Seq(Downward)
      BY DEF Downward
    <3>3. down' \in Seq(Downward)
      BY <2>4, <3>2, EmitType DEF Closed
    <3> QED BY <2>4, <3>1, <3>3 DEF TypeOK, Closed, cliVars
  <2> QED BY <1>5, <2>1, <2>2, <2>3, <2>4 DEF Tcp
<1>6. ASSUME NEW n \in Attempts, ServerAnswers(n) PROVE TypeOK'
  <2>1. PICK i \in conn[n].todo, event \in {"lsp-result", "lsp-failure"} :
          /\ conn' = [conn EXCEPT ![n].todo = @ \ {i}]
          /\ Emit(<<[event |-> event, n |-> i]>>)
    BY <1>6 DEF ServerAnswers
  <2>2. conn' \in [Attempts -> Conn]
    BY <2>1 DEF TypeOK, Conn
  <2>3. <<[event |-> event, n |-> i]>> \in Seq(Downward)
    <3>1. i \in Nat
      BY DEF TypeOK, Conn
    <3> QED BY <3>1 DEF Downward
  <2>4. down' \in Seq(Downward)
    BY <2>1, <2>3, EmitType
  <2> QED BY <1>6, <2>2, <2>4 DEF TypeOK, ServerAnswers, cliVars
<1>7. CASE HandleDisconnect
  <2>1. conn' \in [Attempts -> Conn]
    BY <1>7 DEF HandleDisconnect, TypeOK, Conn
  <2> QED BY <1>7, <2>1 DEF TypeOK, HandleDisconnect, cliVars
<1> QED BY <1>1, <1>2, <1>3, <1>4, <1>5, <1>6, <1>7 DEF Handlers

LEMMA NextType == TypeOK /\ [Next]_vars => TypeOK'
<1> SUFFICES ASSUME TypeOK, [Next]_vars PROVE TypeOK'
  OBVIOUS
<1>1. CASE Client
  BY <1>1, ClientType
<1>2. CASE Drop
  BY <1>2 DEF TypeOK, Drop, Unlink, cliVars, Gateway
<1>3. CASE Reconnect
  BY <1>3 DEF TypeOK, Reconnect, Unlink, Gateway, PC
<1>4. CASE Handlers
  BY <1>4, HandlersType
<1>5. CASE UNCHANGED vars
  BY <1>5 DEF TypeOK, vars, cliVars
<1> QED BY <1>1, <1>2, <1>3, <1>4, <1>5 DEF Next

\* Type correctness of the client, the gateway and the events between them.
THEOREM TypeCorrect == Spec => []TypeOK
BY InitType, NextType, PTL DEF Spec

--------------------------------------------------------------------------------
(* The entry of the client.  HandleLSPConnect puts an attempt into "lookup"      *)
(* whatever it was before, so that the close of the entry's stream is still to   *)
(* come takes that the gateway hears of an attempt once: those under way to it   *)
(* are new, in order and among the ones the client has made.                     *)

IsAttempt(i) == up[i].event = "lsp-connect"

HeardOnce ==
  /\ \A i \in DOMAIN up : IsAttempt(i) => up[i].n \in 1 .. attempt /\ conn[up[i].n].tcp = "none"
  /\ \A i, k \in DOMAIN up : IsAttempt(i) /\ IsAttempt(k) /\ i < k => up[i].n < up[k].n
  /\ \A n \in Attempts : n > attempt => conn[n].tcp = "none"
  /\ pc \in {"idle", "connecting"} => attempt = 0

\* The entry goes with "close", or before the stream is ended.
EntryUnclosed == entry # NoConn => conn[entry].tcp \in {"open", "ended", "destroyed"}

EntryInv == TypeOK /\ HeardOnce /\ EntryUnclosed

\* Sending messages that are no attempts leaves the attempts where they are.
LEMMA SendKeeps ==
  ASSUME TypeOK, HeardOnce, NEW messages \in Seq(Upward),
         \A i \in DOMAIN messages : messages[i].event # "lsp-connect",
         Send(messages) \/ up' = up,
         UNCHANGED <<attempt, conn>>, pc' \notin {"idle", "connecting"}
  PROVE  HeardOnce'
<1>1. CASE up' = up
  BY <1>1 DEF HeardOnce, IsAttempt
<1>2. CASE up' = up \o messages
  <2>1. /\ up \in Seq(Upward)
        /\ Len(up') = Len(up) + Len(messages)
        /\ \A i \in 1 .. Len(up') : up'[i] = IF i <= Len(up) THEN up[i] ELSE messages[i - Len(up)]
        /\ up' \in Seq(Upward)
    BY <1>2, ConcatProperties DEF TypeOK
  <2>2. /\ DOMAIN up = 1 .. Len(up) /\ Len(up) \in Nat
        /\ DOMAIN up' = 1 .. Len(up') /\ Len(up') \in Nat
        /\ DOMAIN messages = 1 .. Len(messages) /\ Len(messages) \in Nat
    BY <2>1, LenProperties
  <2>3. \A i \in DOMAIN up' : IsAttempt(i)' => i \in DOMAIN up /\ up'[i] = up[i] /\ IsAttempt(i)
    <3> SUFFICES ASSUME NEW i \in 1 .. Len(up'), up'[i].event = "lsp-connect"
                 PROVE  i \in 1 .. Len(up) /\ up'[i] = up[i]
      BY <2>2 DEF IsAttempt
    <3>1. ASSUME ~(i <= Len(up)) PROVE FALSE
      <4>1. i - Len(up) \in DOMAIN messages
        BY <2>1, <2>2, <3>1
      <4>2. up'[i] = messages[i - Len(up)]
        BY <2>1, <3>1
      <4> QED BY <4>1, <4>2
    <3> QED BY <2>1, <2>2, <3>1
  <2> QED BY <2>3 DEF HeardOnce
<1> QED BY <1>1, <1>2 DEF Send

\* So does dropping the events that are under way.
LEMMA UnlinkKeeps ==
  ASSUME TypeOK, HeardOnce, up' = <<>>, UNCHANGED <<attempt, conn>>,
         pc' \notin {"idle", "connecting"} \/ pc' = pc
  PROVE  HeardOnce'
<1>1. DOMAIN up' = {}
  OBVIOUS
<1> QED BY <1>1 DEF HeardOnce

\* So does a step of the gateway that moves attempts it has heard of.
LEMMA HeardKeeps ==
  ASSUME HeardOnce, UNCHANGED <<up, attempt, pc>>,
         \A n \in Attempts : conn[n].tcp = "none" => conn'[n].tcp = "none",
         TypeOK
  PROVE  HeardOnce'
<1>1. \A i \in DOMAIN up : IsAttempt(i) => up[i].n \in Attempts
  BY BoundsAssumption DEF HeardOnce, TypeOK, Attempts
<1> QED BY <1>1 DEF HeardOnce, IsAttempt

\* And so does taking the first event, whatever becomes of its own attempt.
LEMMA TakeKeeps ==
  ASSUME TypeOK, HeardOnce, up # <<>>, up' = Tail(up), UNCHANGED <<attempt, pc>>,
         \A n \in Attempts : conn[n].tcp = "none" =>
           conn'[n].tcp = "none" \/ (IsAttempt(1) /\ n = up[1].n)
  PROVE  HeardOnce'
<1>1. /\ Len(up) \in Nat \ {0} /\ DOMAIN up = 1 .. Len(up)
      /\ DOMAIN up' = 1 .. Len(up) - 1
      /\ \A i \in 1 .. Len(up) - 1 : up'[i] = up[i + 1]
  BY HeadTailProperties, LenProperties, EmptySeq DEF TypeOK
<1>2. \A i \in DOMAIN up' : /\ i \in 1 .. Len(up) - 1 /\ i + 1 \in DOMAIN up /\ 1 \in DOMAIN up
                            /\ up'[i] = up[i + 1] /\ 1 < i + 1
  BY <1>1
<1>3. \A i \in DOMAIN up : IsAttempt(i) => up[i].n \in Attempts /\ up[i].n \in Nat
  BY BoundsAssumption DEF HeardOnce, TypeOK, Attempts
<1>4. ASSUME NEW i \in DOMAIN up', IsAttempt(i)'
      PROVE  up'[i].n \in 1 .. attempt /\ conn'[up'[i].n].tcp = "none"
  <2>1. IsAttempt(i + 1) /\ i + 1 \in DOMAIN up /\ up'[i] = up[i + 1]
    BY <1>2, <1>4 DEF IsAttempt
  <2>2. IsAttempt(1) => up[1].n # up[i + 1].n
    BY <1>2, <1>3, <2>1 DEF HeardOnce
  <2> QED BY <1>3, <2>1, <2>2 DEF HeardOnce
<1>5. ASSUME NEW i \in DOMAIN up', NEW k \in DOMAIN up', IsAttempt(i)', IsAttempt(k)', i < k
      PROVE  up'[i].n < up'[k].n
  <2>1. IsAttempt(i + 1) /\ IsAttempt(k + 1) /\ i + 1 < k + 1
    BY <1>1, <1>2, <1>5 DEF IsAttempt
  <2> QED BY <1>2, <2>1 DEF HeardOnce
<1>6. ASSUME NEW n \in Attempts, n > attempt
      PROVE  conn'[n].tcp = "none"
  <2>1. IsAttempt(1) => up[1].n \in 1 .. attempt
    BY <1>1 DEF HeardOnce
  <2>2. ~(IsAttempt(1) /\ n = up[1].n)
    BY <1>6, <2>1 DEF TypeOK, Attempts
  <2> QED BY <1>6, <2>2 DEF HeardOnce
<1> QED BY <1>4, <1>5, <1>6 DEF HeardOnce

LEMMA ClientHeard == TypeOK /\ HeardOnce /\ Client => HeardOnce'
<1> SUFFICES ASSUME TypeOK, HeardOnce, Client PROVE HeardOnce'
  OBVIOUS
<1>1. CASE Open
  BY <1>1 DEF Open, HeardOnce, IsAttempt, Gateway
<1>2. CASE Connected \/ Kicked
  <2>1. attempt = 0 /\ attempt' = 1 /\ pc' = "waiting" /\ conn' = conn
    BY <1>2 DEF Connected, Kicked, Try, HeardOnce, Gateway
  <2>2. \A n \in Attempts : conn[n].tcp = "none"
    BY <2>1 DEF HeardOnce, Attempts
  <2>3. 1 \in Attempts
    BY BoundsAssumption DEF Attempts
  <2>4. CASE Connected
    <3>1. up' = <<[event |-> "lsp-connect", n |-> 1]>>
      BY <2>4 DEF Connected
    <3>2. DOMAIN up' = {1} /\ up'[1].n = 1
      BY <3>1
    <3> QED BY <2>1, <2>2, <2>3, <3>2 DEF HeardOnce
  <2>5. CASE Kicked
    <3>1. up' = up
      BY <2>5 DEF Kicked
    <3>2. \A i \in DOMAIN up : ~IsAttempt(i)
      BY <2>1 DEF HeardOnce
    <3> QED BY <2>1, <2>2, <3>1, <3>2 DEF HeardOnce, IsAttempt
  <2> QED BY <1>2, <2>4, <2>5
<1>3. CASE RetryTimeout
  <2>1. CASE attempt < MaxRetries
    <3> DEFINE m == [event |-> "lsp-connect", n |-> attempt + 1]
    <3>1. /\ attempt \in Nat /\ attempt' = attempt + 1 /\ pc' = "waiting" /\ conn' = conn
          /\ attempt + 1 \in Attempts /\ Send(<<m>>)
      BY <1>3, <2>1, BoundsAssumption DEF RetryTimeout, Try, TypeOK, Gateway, Attempts
    <3>2. conn[attempt + 1].tcp = "none"
      BY <3>1 DEF HeardOnce
    <3>3. \A i \in DOMAIN up : IsAttempt(i) => up[i].n \in 1 .. attempt
      BY DEF HeardOnce
    <3>4. CASE up' = up
      <4>1. \A i \in DOMAIN up : IsAttempt(i)' <=> IsAttempt(i)
        BY <3>4 DEF IsAttempt
      <4>2. \A i \in DOMAIN up : IsAttempt(i) => up[i].n \in 1 .. attempt' /\ conn[up[i].n].tcp = "none"
        BY <3>1 DEF HeardOnce
      <4>3. \A n \in Attempts : n > attempt' => conn[n].tcp = "none"
        BY <3>1 DEF HeardOnce, Attempts
      <4>4. \A i, k \in DOMAIN up : IsAttempt(i) /\ IsAttempt(k) /\ i < k => up[i].n < up[k].n
        BY DEF HeardOnce
      <4> QED BY <3>1, <3>4, <4>1, <4>2, <4>3, <4>4 DEF HeardOnce
    <3>5. CASE up' = up \o <<m>>
      <4>1. up \in Seq(Upward) /\ <<m>> \in Seq(Upward) /\ Len(<<m>>) = 1 /\ <<m>>[1] = m
        BY <3>1 DEF TypeOK, Upward
      <4>2. /\ Len(up) \in Nat /\ DOMAIN up = 1 .. Len(up)
            /\ Len(up') = Len(up) + 1 /\ DOMAIN up' = 1 .. Len(up) + 1
            /\ \A i \in 1 .. Len(up) + 1 :
                 up'[i] = IF i <= Len(up) THEN up[i] ELSE <<m>>[i - Len(up)]
        BY <3>5, <4>1, ConcatProperties, LenProperties
      <4>3. up'[Len(up) + 1] = m
        BY <4>1, <4>2
      <4>4. \A i \in DOMAIN up' :
              \/ i \in DOMAIN up /\ up'[i] = up[i] /\ (IsAttempt(i)' <=> IsAttempt(i))
              \/ i = Len(up) + 1 /\ up'[i].n = attempt + 1
        BY <4>2, <4>3 DEF IsAttempt
      <4>5. ASSUME NEW i \in DOMAIN up', IsAttempt(i)'
            PROVE  up'[i].n \in 1 .. attempt' /\ conn'[up'[i].n].tcp = "none"
        BY <3>1, <3>2, <3>3, <4>4, <4>5 DEF HeardOnce
      <4>6. ASSUME NEW i \in DOMAIN up', NEW k \in DOMAIN up', IsAttempt(i)', IsAttempt(k)', i < k
            PROVE  up'[i].n < up'[k].n
        <5>1. i \in DOMAIN up /\ up'[i] = up[i] /\ IsAttempt(i)
          BY <4>2, <4>4, <4>6
        <5> QED BY <3>1, <3>3, <4>4, <4>6, <5>1 DEF HeardOnce
      <4>7. \A n \in Attempts : n > attempt' => conn'[n].tcp = "none"
        BY <3>1 DEF HeardOnce, Attempts
      <4> QED BY <3>1, <4>5, <4>6, <4>7 DEF HeardOnce
    <3> QED BY <3>1, <3>4, <3>5 DEF Send
  <2>2. CASE attempt = MaxRetries
    BY <1>3, <2>2 DEF RetryTimeout, HeardOnce, IsAttempt, Gateway, TypeOK
  <2> QED BY <1>3, <2>1, <2>2 DEF RetryTimeout
<1>4. CASE LspConnected
  <2> DEFINE m == [event |-> "initialize", n |-> nextId]
  <2>1. /\ <<m>> \in Seq(Upward)
        /\ \A i \in DOMAIN <<m>> : <<m>>[i].event # "lsp-connect"
    BY DEF TypeOK, Upward, Message
  <2>2. (Send(<<m>>) \/ up' = up) /\ pc' \notin {"idle", "connecting"} /\ UNCHANGED <<attempt, conn>>
    BY <1>4 DEF LspConnected, Gateway
  <2> QED BY <2>1, <2>2, SendKeeps
<1>5. CASE Response
  <2> DEFINE m == [event |-> "initialized", n |-> 0]
  <2>1. /\ <<m>> \in Seq(Upward)
        /\ \A i \in DOMAIN <<m>> : <<m>>[i].event # "lsp-connect"
    BY DEF Upward, Message
  <2>2. UNCHANGED <<attempt, conn>>
    BY <1>5 DEF Response, Gateway
  <2>3. CASE pc' = pc /\ up' = up
    BY <2>2, <2>3 DEF HeardOnce, IsAttempt
  <2>4. CASE (Send(<<m>>) \/ up' = up) /\ pc' \notin {"idle", "connecting"}
    BY <2>1, <2>2, <2>4, SendKeeps
  <2> QED BY <1>5, <2>3, <2>4 DEF Response
<1>6. CASE GoToDefinition
  <2> DEFINE ms == <<[event |-> "didOpen", n |-> 0], [event |-> "definition", n |-> nextId]>>
  <2>1. /\ ms \in Seq(Upward)
        /\ \A i \in DOMAIN ms : ms[i].event # "lsp-connect"
    BY DEF TypeOK, Upward, Message
  <2>2. Send(ms) /\ pc' \notin {"idle", "connecting"} /\ UNCHANGED <<attempt, conn>>
    BY <1>6 DEF GoToDefinition, Gateway
  <2> QED BY <2>1, <2>2, SendKeeps
<1>7. CASE ConnectError \/ LspError \/ LspDisconnected \/ RequestTimeout
  BY <1>7 DEF ConnectError, LspError, LspDisconnected, RequestTimeout, HeardOnce, IsAttempt, Gateway
<1>8. CASE ConnectedTwice \/ Disconnect \/ Exit
  BY <1>8, UnlinkKeeps DEF ConnectedTwice, Disconnect, Exit, Unlink, Gateway
<1> QED BY <1>1, <1>2, <1>3, <1>4, <1>5, <1>6, <1>7, <1>8 DEF Client

\* What an attempt's own handler and connection do to it.
LEMMA AttemptStep ==
  ASSUME TypeOK, HeardOnce, EntryUnclosed, NEW n \in Attempts,
         Lookup(n) \/ Activity(n) \/ Tcp(n) \/ ServerAnswers(n)
  PROVE  HeardOnce' /\ EntryUnclosed'
<1>1. UNCHANGED <<up, attempt, pc>>
  BY DEF Lookup, LookupFinds, LookupRefuses, LookupFails, Activity, ActivityUpdated, ActivityFails,
         Tcp, TcpConnected, TcpFails, ServerExits, Closed, ServerAnswers, cliVars
<1>2. conn \in [Attempts -> Conn] /\ entry \in Attempts \cup {NoConn}
  BY DEF TypeOK
<1>3. /\ conn[n].tcp = "none" => conn'[n].tcp = "none"
      /\ \A k \in Attempts \ {n} : conn'[k] = conn[k]
      /\ entry' # NoConn =>
           \/ entry' = n /\ conn'[n].tcp = "open"
           \/ /\ entry' = entry
              /\ conn[n].tcp \in {"open", "ended", "destroyed"} =>
                   conn'[n].tcp \in {"open", "ended", "destroyed"}
  <2>1. CASE Lookup(n)
    BY <1>2, <2>1 DEF Lookup, LookupFinds, LookupRefuses, LookupFails, TcpTo, EntryUnclosed, Conn
  <2>2. CASE Activity(n)
    <3>1. conn' = [conn EXCEPT ![n].activity = FALSE] /\ entry' = entry /\ conn[n].activity
      BY <2>2 DEF Activity, ActivityUpdated, ActivityFails
    <3> QED BY <1>2, <3>1 DEF Conn
  <2>3. CASE Tcp(n)
    <3>1. CASE TcpConnected(n)
      BY <1>2, <3>1, NoConnAssumption DEF TcpConnected, TcpTo, Conn
    <3>2. CASE TcpFails(n) \/ ServerExits(n)
      <4>1. /\ conn[n].tcp # "none" /\ entry' = entry
            /\ \/ conn' = [conn EXCEPT ![n].tcp = "destroyed"]
               \/ conn' = [conn EXCEPT ![n].tcp = "ended"]
        BY <3>2 DEF TcpFails, ServerExits, TcpTo
      <4> QED BY <1>2, <4>1 DEF Conn
    <3>3. CASE Closed(n)
      <4>1. conn[n].tcp # "none" /\ conn' = [conn EXCEPT ![n].tcp = "closed"] /\ entry' = NoConn
        BY <3>3 DEF Closed, TcpTo
      <4> QED BY <1>2, <4>1
    <3> QED BY <2>3, <3>1, <3>2, <3>3 DEF Tcp
  <2>4. CASE ServerAnswers(n)
    <3>1. PICK i \in conn[n].todo : conn' = [conn EXCEPT ![n].todo = @ \ {i}] /\ entry' = entry
      BY <2>4 DEF ServerAnswers
    <3> QED BY <1>2, <3>1 DEF Conn
  <2> QED BY <2>1, <2>2, <2>3, <2>4
<1>4. HeardOnce'
  BY <1>1, <1>3, HeardKeeps
<1>5. EntryUnclosed'
  BY <1>2, <1>3 DEF EntryUnclosed
<1> QED BY <1>4, <1>5

\* A message destroys a stream that has ended already.
LEMMA MessageTcp ==
  ASSUME TypeOK, EntryUnclosed, HandleLSPMessage
  PROVE  \A n \in Attempts :
           /\ conn'[n].tcp = conn[n].tcp \/ (n = entry /\ conn'[n].tcp = "destroyed")
           /\ n = entry => conn[n].tcp \in {"open", "ended", "destroyed"}
<1>1. CASE entry # NoConn
  BY <1>1, WriteDoes DEF TypeOK, Conn, EntryUnclosed
<1>2. CASE entry = NoConn
  BY <1>2, WriteDoes, NoConnAssumption
<1> QED BY <1>1, <1>2

LEMMA HandlersStep ==
  ASSUME TypeOK, HeardOnce, EntryUnclosed, Handlers
  PROVE  HeardOnce' /\ EntryUnclosed'
<1> USE DEF TypeOK
<1>1. CASE HandleLSPConnect
  <2> DEFINE n == Head(up).n
  <2>1. /\ up # <<>> /\ up' = Tail(up) /\ IsAttempt(1) /\ n = up[1].n
        /\ conn' = [conn EXCEPT ![n].tcp = "lookup"]
        /\ UNCHANGED <<attempt, pc, entry>>
    BY <1>1 DEF HandleLSPConnect, TcpTo, IsAttempt, cliVars
  <2>2. 1 \in DOMAIN up
    BY <2>1, LenProperties, EmptySeq
  <2>3. conn[n].tcp = "none"
    BY <2>1, <2>2 DEF HeardOnce
  <2>4. HeardOnce'
    BY <2>1, TakeKeeps
  <2>5. EntryUnclosed'
    BY <2>1, <2>3 DEF EntryUnclosed
  <2> QED BY <2>4, <2>5
<1>2. CASE HandleLSPMessage
  <2>1. /\ up # <<>> /\ up' = Tail(up) /\ UNCHANGED <<attempt, pc, entry>>
    BY <1>2 DEF HandleLSPMessage, cliVars
  <2>2. /\ \A n \in Attempts : conn[n].tcp = "none" => conn'[n].tcp = "none"
        /\ EntryUnclosed'
    BY <1>2, <2>1, MessageTcp DEF EntryUnclosed
  <2>3. HeardOnce'
    BY <2>1, <2>2, TakeKeeps
  <2> QED BY <2>2, <2>3
<1>3. CASE HandleDisconnect
  <2>1. /\ entry' = NoConn /\ UNCHANGED <<up, attempt, pc>>
        /\ conn' = [n \in Attempts |-> IF n = entry /\ conn[n].tcp = "open"
                                      THEN [conn[n] EXCEPT !.tcp = "ending"] ELSE conn[n]]
    BY <1>3 DEF HandleDisconnect, cliVars
  <2>2. \A n \in Attempts : conn[n].tcp = "none" => conn'[n].tcp = "none"
    BY <2>1
  <2>3. HeardOnce'
    BY <2>1, <2>2, HeardKeeps
  <2> QED BY <2>1, <2>3 DEF EntryUnclosed
<1>4. CASE \E n \in Attempts : Lookup(n) \/ Activity(n) \/ Tcp(n) \/ ServerAnswers(n)
  BY <1>4, AttemptStep
<1> QED BY <1>1, <1>2, <1>3, <1>4 DEF Handlers

LEMMA EntryInvHolds == Spec => []EntryInv
<1>1. Init => EntryInv
  <2>1. Init => HeardOnce /\ EntryUnclosed
    BY DEF Init, HeardOnce, EntryUnclosed, NewConn
  <2> QED BY <2>1, InitType DEF EntryInv
<1>2. EntryInv /\ [Next]_vars => EntryInv'
  <2> SUFFICES ASSUME TypeOK, HeardOnce, EntryUnclosed, [Next]_vars PROVE HeardOnce' /\ EntryUnclosed'
    BY NextType DEF EntryInv
  <2>1. CASE Client
    <3>1. UNCHANGED <<conn, entry>>
      BY <2>1 DEF Client, Open, Connected, Kicked, ConnectError, RetryTimeout, LspConnected,
         ConnectedTwice, LspError, LspDisconnected, Response, RequestTimeout, GoToDefinition,
         Disconnect, Exit, Gateway
    <3> QED BY <2>1, <3>1, ClientHeard DEF EntryUnclosed
  <2>2. CASE Drop \/ Reconnect
    <3>1. /\ up' = <<>> /\ UNCHANGED <<attempt, conn, entry>>
          /\ pc' \notin {"idle", "connecting"} \/ pc' = pc
      BY <2>2 DEF Drop, Reconnect, Unlink, cliVars, Gateway
    <3> QED BY <3>1, UnlinkKeeps DEF EntryUnclosed
  <2>3. CASE Handlers
    BY <2>3, HandlersStep
  <2>4. CASE UNCHANGED vars
    BY <2>4 DEF vars, cliVars, HeardOnce, EntryUnclosed, IsAttempt
  <2> QED BY <2>1, <2>2, <2>3, <2>4 DEF Next
<1> QED BY <1>1, <1>2, PTL DEF Spec

--------------------------------------------------------------------------------
(* What the client believes.  Three things reach the client from a connection:   *)
(* lsp-connected, the responses of the server, and lsp-disconnected.  While one  *)
(* attempt at most dials, the entry is missing only before the first and after   *)
(* the last of these, so that whatever makes the client believe it is connected  *)
(* was sent over a connection that has the entry still, or is followed by the    *)
(* lsp-disconnected that took the entry away.                                    *)

OneDialed == \A m, n \in Dialed : m = n
Believing == {"connected", "initializing", "initialized"}

\* There is a stream, or the client hears after the event at i that there is none.
Known(i) == entry # NoConn \/ \E k \in DOMAIN down : k > i /\ down[k].event = "lsp-disconnected"

BeforeLink      == pc \in {"idle", "connecting"} => link = "off" /\ state \notin Believing
NothingUnderWay == link # "up" => down = <<>>
OpenIsEntry     == \A n \in Attempts : conn[n].tcp = "open" => entry = n
BeliefKnown     == state \in Believing => Known(0)
NewsKnown ==
  \A i \in DOMAIN down : down[i].event \in {"lsp-connected", "lsp-result"} => Known(i)

StreamKnown == link = "up" /\ OneDialed => OpenIsEntry /\ BeliefKnown /\ NewsKnown

ServedInv == BeforeLink /\ NothingUnderWay /\ StreamKnown

\* What is emitted is appended.
LEMMA EmitAppends ==
  ASSUME TypeOK, link = "up", NEW events \in Seq(Downward), Emit(events)
  PROVE  /\ DOMAIN down = 1 .. Len(down) /\ Len(down) \in Nat
         /\ DOMAIN down' = 1 .. Len(down) + Len(events) /\ Len(events) \in Nat
         /\ \A i \in DOMAIN down : i \in DOMAIN down' /\ down'[i] = down[i]
         /\ \A i \in DOMAIN down' \ DOMAIN down :
              i - Len(down) \in 1 .. Len(events) /\ down'[i] = events[i - Len(down)]
<1>1. down' = down \o events /\ down \in Seq(Downward)
  BY DEF Emit, TypeOK
<1>2. down \o events \in Seq(Downward) /\ Len(down \o events) = Len(down) + Len(events)
      /\ \A i \in 1 .. Len(down) + Len(events) : (down \o events)[i] =
           IF i <= Len(down) THEN down[i] ELSE events[i - Len(down)]
  BY <1>1, ConcatProperties
<1>3. /\ DOMAIN down = 1 .. Len(down) /\ Len(down) \in Nat /\ Len(events) \in Nat
      /\ DOMAIN (down \o events) = 1 .. Len(down \o events)
  BY <1>1, <1>2, LenProperties
<1> QED BY <1>1, <1>2, <1>3

\* Events that bring no news of a stream leave what is known.
LEMMA EmitKeeps ==
  ASSUME TypeOK, link = "up", NewsKnown, NEW events \in Seq(Downward), Emit(events),
         entry' = entry,
         \A i \in 1 .. Len(events) : events[i].event \in {"lsp-connected", "lsp-result"} => entry # NoConn
  PROVE  NewsKnown' /\ (Known(0) => Known(0)')
<1>1. \A i : Known(i) => Known(i)'
  BY EmitAppends DEF Known
<1>2. \A i \in DOMAIN down' :
        \/ i \in DOMAIN down /\ down'[i] = down[i]
        \/ down'[i].event \in {"lsp-connected", "lsp-result"} => entry # NoConn
  BY EmitAppends
<1>3. NewsKnown'
  BY <1>1, <1>2 DEF NewsKnown, Known
<1> QED BY <1>1, <1>3

LEMMA QuietKeeps ==
  ASSUME TypeOK, link = "up", NewsKnown, Quiet, entry' = entry
  PROVE  NewsKnown' /\ (Known(0) => Known(0)')
<1>1. CASE down' = down
  BY <1>1 DEF NewsKnown, Known
<1>2. ASSUME NEW events \in Seq(Downward), Errors(events)
      PROVE  NewsKnown' /\ (Known(0) => Known(0)')
  BY <1>2, EmitKeeps DEF Errors
<1> QED BY <1>1, <1>2 DEF Quiet

\* Taking the first event keeps what is known after it.
LEMMA TakeKnows ==
  ASSUME TypeOK, NewsKnown, down # <<>>, down' = Tail(down), entry' = entry
  PROVE  /\ NewsKnown'
         /\ Known(0) /\ Head(down).event # "lsp-disconnected" => Known(0)'
         /\ Head(down).event \in {"lsp-connected", "lsp-result"} => Known(0)'
<1>1. /\ Len(down) \in Nat \ {0} /\ DOMAIN down = 1 .. Len(down)
      /\ DOMAIN down' = 1 .. Len(down) - 1 /\ Head(down) = down[1]
      /\ \A i \in 1 .. Len(down) - 1 : down'[i] = down[i + 1]
  BY HeadTailProperties, LenProperties, EmptySeq DEF TypeOK
<1>2. ASSUME NEW i \in Nat, Known(i + 1) PROVE Known(i)'
  <2>1. CASE entry # NoConn
    BY <2>1 DEF Known
  <2>2. ASSUME NEW k \in DOMAIN down, k > i + 1, down[k].event = "lsp-disconnected"
        PROVE  Known(i)'
    <3>1. k - 1 \in DOMAIN down' /\ k - 1 > i /\ down'[k - 1] = down[k]
      BY <1>1, <2>2
    <3> QED BY <2>2, <3>1 DEF Known
  <2> QED BY <1>2, <2>1, <2>2 DEF Known
<1>3. NewsKnown'
  <2> SUFFICES ASSUME NEW i \in DOMAIN down', down'[i].event \in {"lsp-connected", "lsp-result"}
               PROVE  Known(i)'
    BY DEF NewsKnown
  <2>1. i \in Nat /\ i + 1 \in DOMAIN down /\ down'[i] = down[i + 1]
    BY <1>1
  <2>2. Known(i + 1)
    BY <2>1 DEF NewsKnown
  <2> QED BY <1>2, <2>1, <2>2
<1>4. Known(0) /\ Head(down).event # "lsp-disconnected" => Known(1)
  BY <1>1 DEF Known
<1>5. Head(down).event \in {"lsp-connected", "lsp-result"} => Known(1)
  BY <1>1 DEF NewsKnown
<1>6. Known(1) => Known(0)'
  BY <1>2
<1> QED BY <1>3, <1>4, <1>5, <1>6

\* Nothing believed and nothing under way needs a stream.
LEMMA UnlinkServes ==
  ASSUME link' # "up", down' = <<>>, pc' \notin {"idle", "connecting"}
  PROVE  ServedInv'
BY DEF ServedInv, BeforeLink, NothingUnderWay, StreamKnown

\* A step of the client that neither links nor unlinks.
LEMMA ClientServes ==
  ASSUME TypeOK, ServedInv, link = "up", UNCHANGED <<link, conn, entry>>,
         pc' \notin {"idle", "connecting"} \/ (pc' = pc /\ state' = state),
         OneDialed /\ NewsKnown /\ BeliefKnown => NewsKnown' /\ BeliefKnown'
  PROVE  ServedInv'
<1>1. OneDialed' <=> OneDialed
  BY DEF OneDialed, Dialed
<1>2. OpenIsEntry' <=> OpenIsEntry
  BY DEF OpenIsEntry
<1>3. BeforeLink'
  BY DEF ServedInv, BeforeLink
<1> QED BY <1>1, <1>2, <1>3 DEF ServedInv, NothingUnderWay, StreamKnown

LEMMA ClientServed ==
  ASSUME TypeOK, HeardOnce, EntryUnclosed, ServedInv, Client
  PROVE  ServedInv'
<1>1. CASE Open
  <2>1. link' # "up" /\ link' = "off" /\ state' \notin Believing /\ down' = <<>>
    BY <1>1 DEF Open, ServedInv, BeforeLink, NothingUnderWay, Believing
  <2> QED BY <2>1 DEF ServedInv, BeforeLink, NothingUnderWay, StreamKnown
<1>2. CASE Connected
  <2>1. attempt = 0 /\ pc' = "waiting" /\ down' = <<>> /\ state' \notin Believing /\ conn' = conn
        /\ link' = "up"
    BY <1>2 DEF Connected, Try, HeardOnce, ServedInv, BeforeLink, NothingUnderWay
  <2>2. \A n \in Attempts : conn[n].tcp = "none"
    BY <2>1 DEF HeardOnce, Attempts
  <2>3. OpenIsEntry' /\ BeliefKnown'
    BY <2>1, <2>2 DEF OpenIsEntry, BeliefKnown
  <2>4. DOMAIN down' = {}
    BY <2>1
  <2>5. NewsKnown'
    BY <2>4 DEF NewsKnown
  <2> QED BY <2>1, <2>3, <2>5 DEF ServedInv, BeforeLink, NothingUnderWay, StreamKnown
<1>3. CASE Kicked \/ ConnectError
  <2>1. link = "off"
    BY <1>3 DEF Kicked, ConnectError, ServedInv, BeforeLink
  <2>2. down' = <<>> /\ link' # "up" /\ pc' \notin {"idle", "connecting"}
    BY <1>3, <2>1 DEF Kicked, ConnectError, Try, ServedInv, NothingUnderWay
  <2> QED BY <2>2, UnlinkServes
<1>4. CASE RetryTimeout \/ RequestTimeout \/ GoToDefinition
  <2>1. pc' \notin {"idle", "connecting"} /\ UNCHANGED <<state, link, down, conn, entry>>
    BY <1>4 DEF RetryTimeout, Try, RequestTimeout, GoToDefinition, Gateway
  <2> QED BY <2>1 DEF ServedInv, BeforeLink, NothingUnderWay, StreamKnown, OneDialed, Dialed,
                      OpenIsEntry, BeliefKnown, NewsKnown, Known
<1>5. CASE LspConnected
  <2>1. /\ link = "up" /\ down # <<>> /\ down' = Tail(down) /\ Head(down).event = "lsp-connected"
        /\ pc' \notin {"idle", "connecting"} /\ UNCHANGED <<link, conn, entry>>
    BY <1>5 DEF LspConnected, Receive, Gateway
  <2>2. NewsKnown => NewsKnown' /\ BeliefKnown'
    BY <2>1, TakeKnows DEF BeliefKnown
  <2> QED BY <2>1, <2>2, ClientServes
<1>6. CASE ConnectedTwice \/ Disconnect \/ Exit
  BY <1>6, UnlinkServes DEF ConnectedTwice, Disconnect, Exit, Unlink
<1>7. CASE LspError
  <2>1. /\ link = "up" /\ down # <<>> /\ down' = Tail(down) /\ Head(down).event = "lsp-error"
        /\ pc' \notin {"idle", "connecting"} \/ pc' = pc
        /\ UNCHANGED <<state, link, conn, entry>>
    BY <1>7 DEF LspError, Receive, Gateway
  <2>2. NewsKnown /\ BeliefKnown => NewsKnown' /\ BeliefKnown'
    BY <2>1, TakeKnows DEF BeliefKnown
  <2> QED BY <2>1, <2>2, ClientServes
<1>8. CASE LspDisconnected
  <2>1. /\ link = "up" /\ down # <<>> /\ down' = Tail(down)
        /\ pc' = pc /\ state' = "disconnected"
        /\ UNCHANGED <<link, conn, entry>>
    BY <1>8 DEF LspDisconnected, Receive, Gateway
  <2>2. NewsKnown => NewsKnown' /\ BeliefKnown'
    BY <2>1, TakeKnows DEF BeliefKnown, Believing
  <2>3. pc \notin {"idle", "connecting"}
    BY <2>1 DEF ServedInv, BeforeLink
  <2> QED BY <2>1, <2>2, <2>3, ClientServes
<1>9. CASE Response
  <2>1. /\ link = "up" /\ down # <<>> /\ down' = Tail(down)
        /\ Head(down).event \in {"lsp-result", "lsp-failure"}
        /\ pc' \notin {"idle", "connecting"} \/ (pc' = pc /\ state' = state)
        /\ state' = state \/ Head(down).event = "lsp-result"
        /\ UNCHANGED <<link, conn, entry>>
    BY <1>9 DEF Response, Receive, Gateway
  <2>2. NewsKnown /\ BeliefKnown => NewsKnown' /\ BeliefKnown'
    BY <2>1, TakeKnows DEF BeliefKnown
  <2> QED BY <2>1, <2>2, ClientServes
<1> QED BY <1>1, <1>2, <1>3, <1>4, <1>5, <1>6, <1>7, <1>8, <1>9 DEF Client

\* A step of the gateway leaves the client as it is, and no attempt it has dialed
\* becomes one it has not.
LEMMA GatewayServes ==
  ASSUME ServedInv, UNCHANGED <<pc, state, link>>, link # "up" => down' = <<>>,
         Dialed \subseteq Dialed',
         link = "up" /\ OneDialed' /\ OpenIsEntry /\ NewsKnown
           => OpenIsEntry' /\ NewsKnown' /\ (Known(0) => Known(0)')
  PROVE  ServedInv'
<1>1. OneDialed' => OneDialed
  BY DEF OneDialed
<1> QED BY <1>1 DEF ServedInv, BeforeLink, NothingUnderWay, StreamKnown, BeliefKnown

\* The close of a connection: it was the one the gateway had dialed, and the client
\* is told.
LEMMA ClosedServes ==
  ASSUME TypeOK, ServedInv, NEW n \in Attempts, Closed(n)
  PROVE  ServedInv'
<1> DEFINE e == <<[event |-> "lsp-disconnected", n |-> 0]>>
<1>1. /\ conn' = [conn EXCEPT ![n].tcp = "closed"] /\ Emit(e)
      /\ conn[n].tcp \in {"ended", "destroyed", "ending"}
      /\ UNCHANGED <<pc, state, link>>
  BY DEF Closed, TcpTo, cliVars
<1>2. conn'[n].tcp = "closed" /\ \A k \in Attempts \ {n} : conn'[k] = conn[k]
  BY <1>1 DEF TypeOK, Conn
<1>3. n \in Dialed /\ Dialed \subseteq Dialed' /\ n \in Dialed'
  BY <1>1, <1>2 DEF Dialed
<1>4. e \in Seq(Downward) /\ Len(e) = 1 /\ e[1].event = "lsp-disconnected"
  BY DEF Downward
<1> HIDE DEF e
<1>5. ASSUME link = "up", OneDialed'
      PROVE  OpenIsEntry' /\ NewsKnown' /\ Known(0)'
  <2>1. OpenIsEntry'
    <3>1. \A k \in Attempts : conn'[k].tcp = "open" => k \in Dialed'
      BY DEF Dialed
    <3> QED BY <1>2, <1>3, <1>5, <3>1 DEF OneDialed, OpenIsEntry
  <2> DEFINE z == Len(down) + 1
  <2>2. /\ Len(down) \in Nat /\ DOMAIN down = 1 .. Len(down) /\ DOMAIN down' = 1 .. z
        /\ \A i \in DOMAIN down' \ DOMAIN down : down'[i] = e[i - Len(down)]
    BY <1>1, <1>4, <1>5, EmitAppends
  <2>3. z \in DOMAIN down' /\ z \notin DOMAIN down /\ z - Len(down) = 1 /\ z > 0
    BY <2>2
  <2>4. down'[z].event = "lsp-disconnected"
    BY <1>4, <2>2, <2>3
  <2>5. \A i \in DOMAIN down' : i # z => z > i
    BY <2>2
  <2>6. Known(0)' /\ \A i \in DOMAIN down' : i # z => Known(i)'
    BY <2>3, <2>4, <2>5 DEF Known
  <2> QED BY <2>1, <2>4, <2>6 DEF NewsKnown
<1>6. link # "up" => down' = <<>>
  BY <1>1 DEF Emit, ServedInv, NothingUnderWay
<1> QED BY <1>1, <1>3, <1>5, <1>6, GatewayServes

\* A handler that says no more than that something failed.
LEMMA QuietServes ==
  ASSUME TypeOK, ServedInv, UNCHANGED <<pc, state, link, entry>>, Quiet,
         Dialed \subseteq Dialed',
         \A n \in Attempts : conn'[n].tcp = "open" => conn[n].tcp = "open"
  PROVE  ServedInv'
<1>1. link # "up" => down' = <<>>
  BY DEF Quiet, Errors, Emit, ServedInv, NothingUnderWay
<1>2. OpenIsEntry => OpenIsEntry'
  BY DEF OpenIsEntry
<1>3. link = "up" /\ NewsKnown => NewsKnown' /\ (Known(0) => Known(0)')
  BY QuietKeeps
<1> QED BY <1>1, <1>2, <1>3, GatewayServes

LEMMA AttemptServed ==
  ASSUME TypeOK, HeardOnce, EntryUnclosed, ServedInv, NEW n \in Attempts,
         Lookup(n) \/ Activity(n) \/ Tcp(n) \/ ServerAnswers(n)
  PROVE  ServedInv'
<1>1. conn \in [Attempts -> Conn]
  BY DEF TypeOK
<1>2. CASE Lookup(n)
  <2>1. UNCHANGED <<pc, state, link, entry>> /\ Quiet
    <3>1. UNCHANGED <<pc, state, link, entry>> /\ (down' = down \/ \E code \in Nat : Error(code))
      BY <1>2 DEF Lookup, LookupFinds, LookupRefuses, LookupFails, cliVars
    <3> QED BY <3>1, ErrorQuiet DEF Quiet
  <2>2. /\ conn[n].tcp = "lookup" /\ conn'[n].tcp \in {"connecting", "refused"}
        /\ \A k \in Attempts \ {n} : conn'[k] = conn[k]
    BY <1>1, <1>2 DEF Lookup, LookupFinds, LookupRefuses, LookupFails, TcpTo, Conn
  <2>3. Dialed \subseteq Dialed'
    BY <2>2 DEF Dialed
  <2>4. \A k \in Attempts : conn'[k].tcp = "open" => conn[k].tcp = "open"
    BY <2>2
  <2> QED BY <2>1, <2>3, <2>4, QuietServes
<1>3. CASE Activity(n)
  <2>1. /\ UNCHANGED <<pc, state, link, entry>> /\ Quiet
        /\ conn' = [conn EXCEPT ![n].activity = FALSE]
    <3>1. /\ UNCHANGED <<pc, state, link, entry>>
          /\ down' = down \/ \E code \in Nat : Error(code)
          /\ conn' = [conn EXCEPT ![n].activity = FALSE]
      BY <1>3 DEF Activity, ActivityUpdated, ActivityFails, cliVars
    <3> QED BY <3>1, ErrorQuiet DEF Quiet
  <2>2. \A k \in Attempts : conn'[k].tcp = conn[k].tcp
    BY <1>1, <2>1 DEF Conn
  <2>3. Dialed \subseteq Dialed'
    BY <2>2 DEF Dialed
  <2> QED BY <2>1, <2>2, <2>3, QuietServes
<1>4. CASE Tcp(n)
  <2>1. CASE TcpConnected(n)
    <3> DEFINE e == <<[event |-> "lsp-connected", n |-> 0]>>
    <3>1. /\ conn' = [conn EXCEPT ![n].tcp = "open"] /\ conn[n].tcp = "connecting"
          /\ entry' = n /\ Emit(e) /\ UNCHANGED <<pc, state, link>>
      BY <2>1 DEF TcpConnected, TcpTo, cliVars
    <3>2. entry' # NoConn
      BY <3>1, NoConnAssumption
    <3>3. conn'[n].tcp = "open" /\ \A k \in Attempts \ {n} : conn'[k] = conn[k]
      BY <1>1, <3>1 DEF Conn
    <3>4. n \in Dialed' /\ Dialed \subseteq Dialed' /\ \A k \in Attempts : conn'[k].tcp = "open" => k \in Dialed'
      BY <3>3 DEF Dialed
    <3>5. OneDialed' => OpenIsEntry'
      BY <3>1, <3>4 DEF OneDialed, OpenIsEntry
    <3>6. NewsKnown' /\ Known(0)'
      BY <3>2 DEF NewsKnown, Known
    <3>7. link # "up" => down' = <<>>
      BY <3>1 DEF Emit, ServedInv, NothingUnderWay
    <3> QED BY <3>1, <3>4, <3>5, <3>6, <3>7, GatewayServes
  <2>2. CASE TcpFails(n) \/ ServerExits(n)
    <3>1. /\ UNCHANGED <<pc, state, link, entry>> /\ (down' = down \/ Error(500))
          /\ conn[n].tcp \in {"connecting", "open", "ended", "ending"}
          /\ TcpTo(n, "destroyed") \/ TcpTo(n, "ended")
      BY <2>2 DEF TcpFails, ServerExits, cliVars
    <3>2. /\ conn'[n].tcp \in {"destroyed", "ended"}
          /\ \A k \in Attempts \ {n} : conn'[k] = conn[k]
      BY <1>1, <3>1 DEF TcpTo, Conn
    <3>3. Dialed \subseteq Dialed'
      BY <3>2 DEF Dialed
    <3>4. Quiet
      BY <3>1, ErrorQuiet DEF Quiet
    <3> QED BY <3>1, <3>2, <3>3, <3>4, QuietServes
  <2>3. CASE Closed(n)
    BY <2>3, ClosedServes
  <2> QED BY <1>4, <2>1, <2>2, <2>3 DEF Tcp
<1>5. CASE ServerAnswers(n)
  <2>1. PICK i \in conn[n].todo, event \in {"lsp-result", "lsp-failure"} :
          /\ conn' = [conn EXCEPT ![n].todo = @ \ {i}]
          /\ Emit(<<[event |-> event, n |-> i]>>)
    BY <1>5 DEF ServerAnswers
  <2> DEFINE e == <<[event |-> event, n |-> i]>>
  <2>2. conn[n].tcp = "open" /\ UNCHANGED <<pc, state, link, entry>>
    BY <1>5 DEF ServerAnswers, cliVars
  <2>3. \A k \in Attempts : conn'[k].tcp = conn[k].tcp
    BY <1>1, <2>1 DEF Conn
  <2>4. Dialed \subseteq Dialed'
    BY <2>3 DEF Dialed
  <2>5. e \in Seq(Downward) /\ Emit(e)
    <3>1. i \in Nat
      BY <1>1 DEF Conn
    <3> QED BY <2>1, <3>1 DEF Downward
  <2> HIDE DEF e
  <2>6. link = "up" /\ OpenIsEntry /\ NewsKnown => OpenIsEntry' /\ NewsKnown' /\ (Known(0) => Known(0)')
    <3>1. OpenIsEntry => entry # NoConn
      BY <2>2, NoConnAssumption DEF OpenIsEntry
    <3>2. OpenIsEntry => OpenIsEntry'
      BY <2>2, <2>3 DEF OpenIsEntry
    <3> QED BY <2>2, <2>5, <3>1, <3>2, EmitKeeps
  <2>7. link # "up" => down' = <<>>
    BY <2>5 DEF Emit, ServedInv, NothingUnderWay
  <2> QED BY <2>2, <2>4, <2>6, <2>7, GatewayServes
<1> QED BY <1>2, <1>3, <1>4, <1>5

LEMMA HandlersServed ==
  ASSUME TypeOK, HeardOnce, EntryUnclosed, ServedInv, Handlers
  PROVE  ServedInv'
<1>1. CASE HandleLSPConnect
  <2> DEFINE n == Head(up).n
  <2>1. /\ up # <<>> /\ IsAttempt(1) /\ n = up[1].n
        /\ conn' = [conn EXCEPT ![n].tcp = "lookup"]
        /\ UNCHANGED <<pc, state, link, entry>> /\ Quiet
    BY <1>1 DEF HandleLSPConnect, TcpTo, IsAttempt, cliVars, Quiet
  <2>2. 1 \in DOMAIN up
    BY <2>1, LenProperties, EmptySeq DEF TypeOK
  <2>3. conn[n].tcp = "none"
    BY <2>1, <2>2 DEF HeardOnce
  <2>4. \A k \in Attempts : conn'[k].tcp = IF k = n THEN "lookup" ELSE conn[k].tcp
    BY <2>1 DEF TypeOK, Conn
  <2>5. Dialed \subseteq Dialed'
    BY <2>3, <2>4 DEF Dialed
  <2>6. \A k \in Attempts : conn'[k].tcp = "open" => conn[k].tcp = "open"
    BY <2>4
  <2> QED BY <2>1, <2>5, <2>6, QuietServes
<1>2. CASE HandleLSPMessage
  <2>1. UNCHANGED <<pc, state, link, entry>> /\ Quiet
    BY <1>2, MessageQuiet DEF HandleLSPMessage, cliVars
  <2>2. \A n \in Attempts :
          /\ conn'[n].tcp = conn[n].tcp \/ (n = entry /\ conn'[n].tcp = "destroyed")
          /\ n = entry => conn[n].tcp \in {"open", "ended", "destroyed"}
    BY <1>2, MessageTcp
  <2>3. Dialed \subseteq Dialed' /\ \A n \in Attempts : conn'[n].tcp = "open" => conn[n].tcp = "open"
    BY <2>2 DEF Dialed
  <2> QED BY <2>1, <2>3, QuietServes
<1>3. CASE HandleDisconnect
  <2>1. /\ link # "up" /\ UNCHANGED <<pc, state, link, down>>
        /\ conn' = [n \in Attempts |-> IF n = entry /\ conn[n].tcp = "open"
                                      THEN [conn[n] EXCEPT !.tcp = "ending"] ELSE conn[n]]
    BY <1>3 DEF HandleDisconnect, cliVars
  <2>2. \A n \in Attempts :
          \/ conn'[n].tcp = conn[n].tcp
          \/ conn[n].tcp = "open" /\ conn'[n].tcp = "ending"
    BY <2>1 DEF TypeOK, Conn
  <2>3. down' = <<>> /\ Dialed \subseteq Dialed'
    BY <2>1, <2>2 DEF Dialed, ServedInv, NothingUnderWay
  <2> QED BY <2>1, <2>3, GatewayServes
<1>4. CASE \E n \in Attempts : Lookup(n) \/ Activity(n) \/ Tcp(n) \/ ServerAnswers(n)
  BY <1>4, AttemptServed
<1> QED BY <1>1, <1>2, <1>3, <1>4 DEF Handlers

LEMMA ServedInvHolds == Spec => []ServedInv
<1>1. Init => ServedInv
  BY DEF Init, ServedInv, BeforeLink, NothingUnderWay, StreamKnown, Believing
<1>2. EntryInv /\ ServedInv /\ [Next]_vars => ServedInv'
  <2> SUFFICES ASSUME TypeOK, HeardOnce, EntryUnclosed, ServedInv, [Next]_vars PROVE ServedInv'
    BY DEF EntryInv
  <2>1. CASE Client
    BY <2>1, ClientServed
  <2>2. CASE Drop
    <3>1. link = "up" /\ pc' = pc /\ link' # "up" /\ down' = <<>>
      BY <2>2 DEF Drop, Unlink, cliVars
    <3> QED BY <3>1, UnlinkServes DEF ServedInv, BeforeLink
  <2>3. CASE Reconnect
    BY <2>3, UnlinkServes DEF Reconnect, Unlink
  <2>4. CASE Handlers
    BY <2>4, HandlersServed
  <2>5. CASE UNCHANGED vars
    BY <2>5 DEF vars, cliVars, ServedInv, BeforeLink, NothingUnderWay, StreamKnown, OneDialed,
                Dialed, OpenIsEntry, BeliefKnown, NewsKnown, Known
  <2> QED BY <2>1, <2>2, <2>3, <2>4, <2>5 DEF Next
<1> QED BY <1>1, <1>2, EntryInvHolds, PTL DEF Spec

\* Two different attempts have dialed when more than one has.
LEMMA DialedCount == Cardinality(Dialed) <= 1 => OneDialed
<1> SUFFICES ASSUME Cardinality(Dialed) <= 1, NEW m \in Dialed, NEW n \in Dialed, m # n
             PROVE  FALSE
  BY DEF OneDialed
<1>1. IsFiniteSet(Attempts)
  BY BoundsAssumption, FS_Interval DEF Attempts
<1>2. Dialed \subseteq Attempts
  BY DEF Dialed
<1>3. IsFiniteSet(Dialed) /\ Cardinality(Dialed) \in Nat
  BY <1>1, <1>2, FS_Subset, FS_CardinalityType
<1>4. IsFiniteSet(Dialed \ {m}) /\ Cardinality(Dialed \ {m}) = Cardinality(Dialed) - 1
  BY <1>3, FS_RemoveElement
<1>5. Cardinality(Dialed \ {m}) \in Nat
  BY <1>4, FS_CardinalityType
<1>6. Dialed \ {m} = {}
  BY <1>3, <1>4, <1>5, FS_EmptySet
<1> QED BY <1>6

\* A client that takes itself for connected has a stream in the gateway, or is
\* about to hear that it has none, as long as one of its lsp-connect attempts at
\* most got through to the container: for every number of attempts, whatever is
\* lost and whatever fails.
THEOREM BelievedServed == Spec => []BelievedIsServed
<1>1. TypeOK /\ ServedInv => BelievedIsServed
  <2> SUFFICES ASSUME TypeOK, ServedInv, state \in Believing, link = "up", Cardinality(Dialed) <= 1
               PROVE  entry # NoConn \/ \E i \in DOMAIN down : down[i].event = "lsp-disconnected"
    BY DEF BelievedIsServed, Believing
  <2> QED BY DialedCount DEF ServedInv, StreamKnown, BeliefKnown, Known
<1> QED BY <1>1, ServedInvHolds, TypeCorrect, PTL
--------------------------------------------------------------------------------
(* What the client waits for.  Its request is the only one, and the last it has  *)
(* made; it goes from the events under way upward to the server that is asked    *)
(* and to the events under way downward.  A message that finds no entry finds    *)
(* what the section above says: the client is about to hear of the close.        *)

Asked(i)    == \E k \in DOMAIN up : up[k].event \in Message /\ up[k].n = i
Serving(i)  == \E n \in Attempts : conn[n].tcp = "open" /\ i \in conn[n].todo
Answered(i) == \E k \in DOMAIN down : down[k].event \in {"lsp-result", "lsp-failure"} /\ down[k].n = i
Ending      == \E n \in Attempts : conn[n].tcp \in {"ended", "destroyed"}
Told        == \E k \in DOMAIN down : down[k].event = "lsp-disconnected"

Followed(i) == Asked(i) \/ Serving(i) \/ Answered(i) \/ Ending \/ Told \/ state = "disconnected"

PendingKnown ==
  /\ pc \in {"idle", "connecting"} => completer = "none"
  /\ pc \in {"initializing", "ready", "asking"} => completer = "done"
  /\ completer # "done" => pending = {}
  /\ pending # {} => state \in Believing \cup {"disconnected"}
  /\ pending \subseteq {nextId - 1}

RequestInv == PendingKnown /\ (link = "up" /\ OneDialed => \A i \in pending : Followed(i))

\* What is sent while the link is up is appended.
LEMMA SendAppends ==
  ASSUME TypeOK, link = "up", NEW messages \in Seq(Upward), Send(messages)
  PROVE  /\ \A i : Asked(i) => Asked(i)'
         /\ \A k \in DOMAIN messages : messages[k].event \in Message => Asked(messages[k].n)'
<1>1. /\ up' = up \o messages /\ up \in Seq(Upward)
      /\ Len(up') = Len(up) + Len(messages)
      /\ \A i \in 1 .. Len(up') : up'[i] = IF i <= Len(up) THEN up[i] ELSE messages[i - Len(up)]
      /\ up' \in Seq(Upward)
  BY ConcatProperties DEF TypeOK, Send
<1>2. /\ DOMAIN up = 1 .. Len(up) /\ Len(up) \in Nat
      /\ DOMAIN up' = 1 .. Len(up') /\ Len(up') \in Nat
      /\ DOMAIN messages = 1 .. Len(messages) /\ Len(messages) \in Nat
  BY <1>1, LenProperties
<1>3. \A k \in DOMAIN up : k \in DOMAIN up' /\ up'[k] = up[k]
  BY <1>1, <1>2
<1>4. ASSUME NEW k \in DOMAIN messages
      PROVE  Len(up) + k \in DOMAIN up' /\ up'[Len(up) + k] = messages[k]
  <2>1. k \in Nat /\ k >= 1 /\ k <= Len(messages)
    BY <1>2
  <2>2. Len(up) + k \in 1 .. Len(up') /\ ~(Len(up) + k <= Len(up)) /\ (Len(up) + k) - Len(up) = k
    BY <1>1, <1>2, <2>1
  <2> QED BY <1>1, <1>2, <2>2
<1> QED BY <1>3, <1>4 DEF Asked

\* Taking an event leaves the others.
LEMMA TakeLeaves ==
  ASSUME TypeOK, down # <<>>, down' = Tail(down)
  PROVE  /\ \A i : Answered(i) /\ ~(Head(down).event \in {"lsp-result", "lsp-failure"} /\ Head(down).n = i)
                     => Answered(i)'
         /\ Told /\ Head(down).event # "lsp-disconnected" => Told'
<1>1. /\ Len(down) \in Nat \ {0} /\ DOMAIN down = 1 .. Len(down)
      /\ DOMAIN down' = 1 .. Len(down) - 1 /\ Head(down) = down[1]
      /\ \A i \in 1 .. Len(down) - 1 : down'[i] = down[i + 1]
  BY HeadTailProperties, LenProperties, EmptySeq DEF TypeOK
<1>2. ASSUME NEW k \in DOMAIN down, k # 1 PROVE k - 1 \in DOMAIN down' /\ down'[k - 1] = down[k]
  BY <1>1, <1>2
<1> QED BY <1>1, <1>2 DEF Answered, Told

LEMMA TakeUpLeaves ==
  ASSUME TypeOK, up # <<>>, up' = Tail(up), NEW i, Asked(i),
         ~(Head(up).event \in Message /\ Head(up).n = i)
  PROVE  Asked(i)'
<1>1. /\ Len(up) \in Nat \ {0} /\ DOMAIN up = 1 .. Len(up)
      /\ DOMAIN up' = 1 .. Len(up) - 1 /\ Head(up) = up[1]
      /\ \A k \in 1 .. Len(up) - 1 : up'[k] = up[k + 1]
  BY HeadTailProperties, LenProperties, EmptySeq DEF TypeOK
<1>2. ASSUME NEW k \in DOMAIN up, k # 1 PROVE k - 1 \in DOMAIN up' /\ up'[k - 1] = up[k]
  BY <1>1, <1>2
<1> QED BY <1>1, <1>2 DEF Asked

\* What is emitted is appended, and nothing that is under way is lost.
LEMMA EmitLeaves ==
  ASSUME TypeOK, link = "up", NEW events \in Seq(Downward), Emit(events)
  PROVE  /\ \A i : Answered(i) => Answered(i)'
         /\ Told => Told'
         /\ \A k \in 1 .. Len(events) : \E z \in DOMAIN down' : down'[z] = events[k]
<1>1. ASSUME NEW k \in 1 .. Len(events) PROVE \E z \in DOMAIN down' : down'[z] = events[k]
  <2>1. /\ Len(down) \in Nat /\ DOMAIN down = 1 .. Len(down)
        /\ DOMAIN down' = 1 .. Len(down) + Len(events) /\ Len(events) \in Nat
        /\ \A i \in DOMAIN down' \ DOMAIN down : down'[i] = events[i - Len(down)]
    BY EmitAppends
  <2>2. /\ Len(down) + k \in DOMAIN down' \ DOMAIN down
        /\ (Len(down) + k) - Len(down) = k
    BY <2>1
  <2> QED BY <2>1, <2>2
<1>2. \A k \in DOMAIN down : k \in DOMAIN down' /\ down'[k] = down[k]
  BY EmitAppends
<1> QED BY <1>1, <1>2 DEF Answered, Told

LEMMA QuietLeaves ==
  ASSUME TypeOK, link = "up", Quiet
  PROVE  (\A i : Answered(i) => Answered(i)') /\ (Told => Told')
BY EmitLeaves DEF Quiet, Errors, Answered, Told

\* The client: what it takes and sends leaves its request followed.
LEMMA ClientRequests ==
  ASSUME TypeOK, BeforeLink, RequestInv, Client
  PROVE  RequestInv'
<1>1. CASE Open \/ Kicked \/ ConnectError
  <2>1. pending = {} /\ pending' = pending /\ link' # "up"
    BY <1>1 DEF Open, Kicked, ConnectError, RequestInv, PendingKnown, BeforeLink
  <2>2. /\ pc' \in {"idle", "connecting"} => completer' = "none"
        /\ pc' \notin {"initializing", "ready", "asking"}
    BY <1>1 DEF Open, Kicked, ConnectError, Try, RequestInv, PendingKnown
  <2> QED BY <2>1, <2>2 DEF RequestInv, PendingKnown
<1>2. CASE Connected \/ RetryTimeout \/ RequestTimeout
  <2>1. /\ pending' = {} /\ pc' \notin {"idle", "connecting"}
        /\ pc' \in {"initializing", "ready", "asking"} => completer' = "done"
    BY <1>2 DEF Connected, RetryTimeout, RequestTimeout, Try, RequestInv, PendingKnown
  <2> QED BY <2>1 DEF RequestInv, PendingKnown
<1>3. CASE ConnectedTwice \/ Disconnect \/ Exit
  <2>1. /\ link' # "up" /\ pc' \in {"closed", "exited"} /\ UNCHANGED <<pending, nextId, completer>>
        /\ state' = state \/ state' \in Believing \cup {"disconnected"}
    BY <1>3 DEF ConnectedTwice, Disconnect, Exit, Unlink, Believing
  <2> QED BY <2>1 DEF RequestInv, PendingKnown
<1>4. CASE LspConnected
  <2>1. CASE pc = "waiting"
    <3> DEFINE m == <<[event |-> "initialize", n |-> nextId]>>
    <3>1. /\ m \in Seq(Upward) /\ 1 \in DOMAIN m /\ m[1].event \in Message /\ m[1].n = nextId
      BY DEF TypeOK, Upward, Message
    <3>2. /\ link = "up" /\ Send(m) /\ pending' = {nextId} /\ nextId' = nextId + 1
          /\ completer' = "done" /\ pc' = "initializing" /\ state' = "initializing"
      BY <1>4, <2>1 DEF LspConnected, Receive
    <3> HIDE DEF m
    <3>3. \A i : i = nextId => Asked(i)'
      BY <3>1, <3>2, SendAppends
    <3>4. PendingKnown'
      BY <3>2 DEF PendingKnown, Believing, TypeOK
    <3> QED BY <3>2, <3>3, <3>4 DEF RequestInv, Followed
  <2>2. CASE pc = "failed"
    <3>1. pending' = {} /\ pc' = "failed" /\ completer' = "done"
      BY <1>4, <2>2 DEF LspConnected, RequestInv, PendingKnown
    <3> QED BY <3>1 DEF RequestInv, PendingKnown
  <2> QED BY <1>4, <2>1, <2>2 DEF LspConnected
<1>5. CASE LspError
  <2>1. /\ link = "up" /\ down # <<>> /\ down' = Tail(down) /\ Head(down).event = "lsp-error"
        /\ UNCHANGED <<state, link, pending, nextId, up, conn>>
        /\ pc' = pc \/ pc' = "failed"
        /\ completer' = completer \/ (completer = "pending" /\ completer' = "done")
    BY <1>5 DEF LspError, Receive, Gateway
  <2>2. OneDialed' => OneDialed
    BY <2>1 DEF OneDialed, Dialed
  <2>3. ASSUME NEW i \in pending, Followed(i) PROVE Followed(i)'
    BY <2>1, <2>3, TakeLeaves DEF Followed, Asked, Serving, Ending
  <2> QED BY <2>1, <2>2, <2>3 DEF RequestInv, PendingKnown
<1>6. CASE LspDisconnected
  <2>1. state' = "disconnected" /\ UNCHANGED <<pc, completer, pending, nextId>>
    BY <1>6 DEF LspDisconnected
  <2> QED BY <2>1 DEF RequestInv, PendingKnown, Followed
<1>7. CASE Response
  <2> DEFINE n == Head(down).n
  <2>1. /\ link = "up" /\ down # <<>> /\ down' = Tail(down)
        /\ Head(down).event \in {"lsp-result", "lsp-failure"} /\ pending' = pending \ {n}
        /\ UNCHANGED <<completer, link, nextId, conn>>
        /\ pc' = pc \/ pc' \notin {"idle", "connecting"}
    BY <1>7 DEF Response, Receive, Gateway
  <2>2. CASE n \in pending
    <3>1. pending' = {} /\ completer = "done"
      BY <2>1, <2>2 DEF RequestInv, PendingKnown
    <3>2. pc' \notin {"idle", "connecting"}
      BY <1>7, <2>2 DEF Response
    <3> QED BY <2>1, <3>1, <3>2 DEF RequestInv, PendingKnown
  <2>3. CASE n \notin pending
    <3>1. UNCHANGED <<pc, state, up, pending>>
      BY <1>7, <2>1, <2>3 DEF Response
    <3>2. OneDialed' => OneDialed
      BY <2>1 DEF OneDialed, Dialed
    <3>3. ASSUME NEW i \in pending, Followed(i) PROVE Followed(i)'
      BY <2>1, <2>3, <3>1, <3>3, TakeLeaves DEF Followed, Asked, Serving, Ending
    <3> QED BY <2>1, <3>1, <3>2, <3>3 DEF RequestInv, PendingKnown
  <2> QED BY <2>2, <2>3
<1>8. CASE GoToDefinition
  <2> DEFINE m == <<[event |-> "didOpen", n |-> 0], [event |-> "definition", n |-> nextId]>>
  <2>1. m \in Seq(Upward) /\ 2 \in DOMAIN m /\ m[2].event \in Message /\ m[2].n = nextId
    BY DEF TypeOK, Upward, Message
  <2>2. /\ Send(m) /\ pending' = {nextId} /\ nextId' = nextId + 1 /\ pc' = "asking"
        /\ UNCHANGED <<state, completer, link>> /\ state = "initialized"
    BY <1>8 DEF GoToDefinition
  <2> HIDE DEF m
  <2>3. \A i : i = nextId /\ link = "up" => Asked(i)'
    BY <2>1, <2>2, SendAppends
  <2>4. completer = "done"
    BY <1>8 DEF GoToDefinition, RequestInv, PendingKnown
  <2> QED BY <2>2, <2>3, <2>4 DEF RequestInv, PendingKnown, Followed, Believing, TypeOK
<1> QED BY <1>1, <1>2, <1>3, <1>4, <1>5, <1>6, <1>7, <1>8 DEF Client

\* A step of the gateway leaves what the client waits for.
LEMMA GatewayRequests ==
  ASSUME RequestInv, UNCHANGED <<pc, state, completer, pending, nextId, link>>, Dialed \subseteq Dialed',
         link = "up" /\ OneDialed => \A i \in pending : Followed(i) => Followed(i)'
  PROVE  RequestInv'
<1>1. OneDialed' => OneDialed
  BY DEF OneDialed
<1> QED BY <1>1 DEF RequestInv, PendingKnown

\* The connections as they are: no stream opens or ends, no server answers.
LEMMA ConnLeaves ==
  ASSUME \A n \in Attempts :
           /\ conn[n].tcp \in {"open", "ended", "destroyed"} => conn'[n].tcp = conn[n].tcp
           /\ conn'[n].todo = conn[n].todo
  PROVE  (\A i : Serving(i) => Serving(i)') /\ (Ending => Ending')
BY DEF Serving, Ending

LEMMA AttemptRequests ==
  ASSUME TypeOK, RequestInv, NEW n \in Attempts,
         Lookup(n) \/ Activity(n) \/ Tcp(n) \/ ServerAnswers(n)
  PROVE  RequestInv'
<1>1. conn \in [Attempts -> Conn] /\ UNCHANGED <<pc, state, completer, pending, nextId, link, up>>
  BY DEF Lookup, LookupFinds, LookupRefuses, LookupFails, Activity, ActivityUpdated, ActivityFails,
         Tcp, TcpConnected, TcpFails, ServerExits, Closed, ServerAnswers, cliVars, TypeOK
<1>2. CASE Lookup(n) \/ Activity(n)
  <2>1. Quiet
    BY <1>2, ErrorQuiet DEF Lookup, LookupFinds, LookupRefuses, LookupFails,
                            Activity, ActivityUpdated, ActivityFails, Quiet
  <2>2. \A k \in Attempts :
          /\ conn'[k].tcp = conn[k].tcp \/ (k = n /\ conn[n].tcp = "lookup" /\ conn'[n].tcp \in {"connecting", "refused"})
          /\ conn'[k].todo = conn[k].todo
    BY <1>1, <1>2 DEF Lookup, LookupFinds, LookupRefuses, LookupFails,
                      Activity, ActivityUpdated, ActivityFails, TcpTo, Conn
  <2>3. Dialed \subseteq Dialed'
    BY <2>2 DEF Dialed
  <2>4. \A k \in Attempts :
          /\ conn[k].tcp \in {"open", "ended", "destroyed"} => conn'[k].tcp = conn[k].tcp
          /\ conn'[k].todo = conn[k].todo
    BY <2>2
  <2> QED BY <1>1, <2>1, <2>3, <2>4, ConnLeaves, QuietLeaves, GatewayRequests DEF Followed, Asked
<1>3. CASE TcpConnected(n)
  <2> DEFINE e == <<[event |-> "lsp-connected", n |-> 0]>>
  <2>1. conn[n].tcp = "connecting" /\ TcpTo(n, "open") /\ Emit(e)
    BY <1>3 DEF TcpConnected
  <2>2. e \in Seq(Downward)
    BY DEF Downward
  <2> HIDE DEF e
  <2>3. \A k \in Attempts :
          /\ conn[k].tcp \in {"open", "ended", "destroyed"} => conn'[k].tcp = conn[k].tcp
          /\ conn'[k].todo = conn[k].todo
          /\ conn'[k].tcp = conn[k].tcp \/ conn'[k].tcp = "open"
    BY <1>1, <2>1 DEF TcpTo, Conn
  <2>4. Dialed \subseteq Dialed'
    BY <2>3 DEF Dialed
  <2> QED BY <1>1, <2>1, <2>2, <2>3, <2>4, ConnLeaves, EmitLeaves, GatewayRequests DEF Followed, Asked
<1>4. CASE TcpFails(n) \/ ServerExits(n)
  <2>1. /\ TcpTo(n, "destroyed") \/ TcpTo(n, "ended")
        /\ conn[n].tcp \in {"connecting", "open", "ended", "ending"}
    BY <1>4 DEF TcpFails, ServerExits
  <2>2. /\ conn'[n].tcp \in {"ended", "destroyed"}
        /\ \A k \in Attempts \ {n} : conn'[k] = conn[k]
    BY <1>1, <2>1 DEF TcpTo, Conn
  <2>3. Dialed \subseteq Dialed' /\ Ending'
    BY <2>2 DEF Dialed, Ending
  <2> QED BY <1>1, <2>3, GatewayRequests DEF Followed
<1>5. CASE Closed(n)
  <2> DEFINE e == <<[event |-> "lsp-disconnected", n |-> 0]>>
  <2>1. TcpTo(n, "closed") /\ Emit(e)
    BY <1>5 DEF Closed
  <2>2. e \in Seq(Downward) /\ 1 \in 1 .. Len(e) /\ e[1].event = "lsp-disconnected"
    BY DEF Downward
  <2> HIDE DEF e
  <2>3. conn'[n].tcp = "closed" /\ \A k \in Attempts \ {n} : conn'[k] = conn[k]
    BY <1>1, <2>1 DEF TcpTo, Conn
  <2>4. Dialed \subseteq Dialed'
    BY <2>3 DEF Dialed
  <2>5. link = "up" => Told'
    BY <2>1, <2>2, EmitLeaves DEF Told
  <2> QED BY <1>1, <2>4, <2>5, GatewayRequests DEF Followed
<1>6. CASE ServerAnswers(n)
  <2>1. PICK j \in conn[n].todo, event \in {"lsp-result", "lsp-failure"} :
          /\ conn' = [conn EXCEPT ![n].todo = @ \ {j}]
          /\ Emit(<<[event |-> event, n |-> j]>>)
    BY <1>6 DEF ServerAnswers
  <2> DEFINE e == <<[event |-> event, n |-> j]>>
  <2>2. /\ e \in Seq(Downward) /\ 1 \in 1 .. Len(e) /\ Emit(e)
        /\ e[1].event \in {"lsp-result", "lsp-failure"} /\ e[1].n = j
    <3>1. j \in Nat
      BY <1>1 DEF Conn
    <3> QED BY <2>1, <3>1 DEF Downward
  <2> HIDE DEF e
  <2>3. /\ \A k \in Attempts : conn'[k].tcp = conn[k].tcp
        /\ \A k \in Attempts : \A i \in conn[k].todo : i # j => i \in conn'[k].todo
    BY <1>1, <2>1 DEF Conn
  <2>4. Dialed \subseteq Dialed' /\ (Ending => Ending') /\ \A i : i # j /\ Serving(i) => Serving(i)'
    BY <2>3 DEF Dialed, Ending, Serving
  <2>5. link = "up" => Answered(j)'
    BY <2>2, EmitLeaves DEF Answered
  <2>6. link = "up" => (\A i : Answered(i) => Answered(i)') /\ (Told => Told')
    BY <2>2, EmitLeaves
  <2>7. \A i : Asked(i) => Asked(i)'
    BY <1>1 DEF Asked
  <2>8. ASSUME link = "up", NEW i \in pending, Followed(i) PROVE Followed(i)'
    <3>1. CASE i = j
      BY <2>5, <2>8, <3>1 DEF Followed
    <3>2. CASE i # j
      BY <1>1, <2>4, <2>6, <2>7, <2>8, <3>2 DEF Followed
    <3> QED BY <3>1, <3>2
  <2> QED BY <1>1, <2>4, <2>8, GatewayRequests
<1> QED BY <1>2, <1>3, <1>4, <1>5, <1>6 DEF Tcp

\* A message: it is taken over by the server that is asked, or it finds a stream
\* that has ended, or no entry, which the client is about to hear of.
LEMMA MessageRequests ==
  ASSUME TypeOK, EntryUnclosed, ServedInv, RequestInv, HandleLSPMessage
  PROVE  RequestInv'
<1>1. /\ link = "up" /\ up # <<>> /\ up' = Tail(up)
      /\ UNCHANGED <<pc, state, completer, pending, nextId, link, entry>> /\ Quiet
  BY MessageQuiet DEF HandleLSPMessage, cliVars
<1>2. \A n \in Attempts :
        /\ conn'[n].tcp = conn[n].tcp \/ (n = entry /\ conn'[n].tcp = "destroyed")
        /\ n = entry => conn[n].tcp \in {"open", "ended", "destroyed"}
  BY MessageTcp
<1>3. Dialed \subseteq Dialed' /\ (Ending => Ending')
  BY <1>2 DEF Dialed, Ending
<1>4. (\A i : Answered(i) => Answered(i)') /\ (Told => Told')
  BY <1>1, QuietLeaves
<1>5. ASSUME OneDialed, NEW i \in pending, Followed(i)
      PROVE  Followed(i)'
  <2>1. i # 0
    BY DEF TypeOK
  <2>2. CASE entry = NoConn
    <3>1. state \in Believing \cup {"disconnected"}
      BY DEF RequestInv, PendingKnown
    <3>2. state = "disconnected" \/ Told
      BY <1>1, <1>5, <2>2, <3>1 DEF ServedInv, StreamKnown, BeliefKnown, Known, Told
    <3> QED BY <1>1, <1>4, <3>2 DEF Followed
  <2>3. CASE entry # NoConn /\ conn[entry].tcp # "open"
    <3>1. entry \in Attempts
      BY <2>3 DEF TypeOK
    <3>2. conn'[entry].tcp = "destroyed"
      BY <2>3, <3>1, WriteDoes DEF TypeOK, Conn
    <3> QED BY <3>1, <3>2 DEF Followed, Ending
  <2>4. CASE entry # NoConn /\ conn[entry].tcp = "open"
    <3>1. entry \in Attempts
      BY <2>4 DEF TypeOK
    <3>2. conn' = [conn EXCEPT ![entry] =
                     [conn[entry] EXCEPT !.got = conn[entry].got \cup {Head(up).event},
                                         !.todo = conn[entry].todo \cup ({Head(up).n} \ {0})]]
      BY <2>4, WriteDoes
    <3>3. /\ conn'[entry].tcp = "open"
          /\ conn'[entry].todo = conn[entry].todo \cup ({Head(up).n} \ {0})
          /\ \A n \in Attempts \ {entry} : conn'[n] = conn[n]
      BY <2>4, <3>1, <3>2 DEF TypeOK, Conn
    <3>4. Serving(i) => Serving(i)'
      BY <3>1, <3>3 DEF Serving
    <3>5. Asked(i) => Asked(i)' \/ Serving(i)'
      <4>1. CASE Head(up).n = i
        BY <2>1, <3>1, <3>3, <4>1 DEF Serving
      <4>2. CASE Head(up).n # i
        BY <1>1, <4>2, TakeUpLeaves
      <4> QED BY <4>1, <4>2
    <3> QED BY <1>1, <1>3, <1>4, <1>5, <3>4, <3>5 DEF Followed
  <2> QED BY <2>2, <2>3, <2>4
<1> QED BY <1>1, <1>3, <1>5, GatewayRequests

LEMMA HandlersRequests ==
  ASSUME TypeOK, HeardOnce, EntryUnclosed, ServedInv, RequestInv, Handlers
  PROVE  RequestInv'
<1>1. CASE HandleLSPConnect
  <2> DEFINE n == Head(up).n
  <2>1. /\ up # <<>> /\ IsAttempt(1) /\ n = up[1].n /\ up' = Tail(up)
        /\ Head(up).event \notin Message
        /\ conn' = [conn EXCEPT ![n].tcp = "lookup"]
        /\ UNCHANGED <<pc, state, completer, pending, nextId, link, down>>
    BY <1>1 DEF HandleLSPConnect, TcpTo, IsAttempt, cliVars, Message
  <2>2. 1 \in DOMAIN up
    BY <2>1, LenProperties, EmptySeq DEF TypeOK
  <2>3. conn[n].tcp = "none"
    BY <2>1, <2>2 DEF HeardOnce
  <2>4. \A k \in Attempts : conn'[k].tcp = (IF k = n THEN "lookup" ELSE conn[k].tcp)
                            /\ conn'[k].todo = conn[k].todo
    BY <2>1 DEF TypeOK, Conn
  <2>5. Dialed \subseteq Dialed'
    BY <2>3, <2>4 DEF Dialed
  <2>6. (\A i : Serving(i) => Serving(i)') /\ (Ending => Ending')
    BY <2>3, <2>4, ConnLeaves
  <2>7. \A i : Asked(i) => Asked(i)'
    BY <2>1, TakeUpLeaves
  <2>8. (\A i : Answered(i) => Answered(i)') /\ (Told => Told')
    BY <2>1 DEF Answered, Told
  <2> QED BY <2>1, <2>5, <2>6, <2>7, <2>8, GatewayRequests DEF Followed
<1>2. CASE HandleLSPMessage
  BY <1>2, MessageRequests
<1>3. CASE HandleDisconnect
  <2>1. /\ link # "up" /\ UNCHANGED <<pc, state, completer, pending, nextId, link>>
        /\ conn' = [n \in Attempts |-> IF n = entry /\ conn[n].tcp = "open"
                                      THEN [conn[n] EXCEPT !.tcp = "ending"] ELSE conn[n]]
    BY <1>3 DEF HandleDisconnect, cliVars
  <2>2. \A n \in Attempts :
          \/ conn'[n].tcp = conn[n].tcp
          \/ conn[n].tcp = "open" /\ conn'[n].tcp = "ending"
    BY <2>1 DEF TypeOK, Conn
  <2>3. Dialed \subseteq Dialed'
    BY <2>2 DEF Dialed
  <2> QED BY <2>1, <2>3, GatewayRequests
<1>4. CASE \E n \in Attempts : Lookup(n) \/ Activity(n) \/ Tcp(n) \/ ServerAnswers(n)
  BY <1>4, AttemptRequests
<1> QED BY <1>1, <1>2, <1>3, <1>4 DEF Handlers

LEMMA RequestInvHolds == Spec => []RequestInv
<1>1. Init => RequestInv
  BY DEF Init, RequestInv, PendingKnown
<1>2. EntryInv /\ ServedInv /\ RequestInv /\ [Next]_vars => RequestInv'
  <2> SUFFICES ASSUME TypeOK, HeardOnce, EntryUnclosed, ServedInv, RequestInv, [Next]_vars
               PROVE  RequestInv'
    BY DEF EntryInv
  <2>1. CASE Client
    BY <2>1, ClientRequests DEF ServedInv
  <2>2. CASE Drop
    <3>1. link' # "up" /\ UNCHANGED <<pc, state, completer, pending, nextId>>
      BY <2>2 DEF Drop, Unlink, cliVars
    <3> QED BY <3>1 DEF RequestInv, PendingKnown
  <2>3. CASE Reconnect
    <3>1. link' # "up" /\ pc' = "exited" /\ UNCHANGED <<state, completer, pending, nextId>>
      BY <2>3 DEF Reconnect, Unlink
    <3> QED BY <3>1 DEF RequestInv, PendingKnown
  <2>4. CASE Handlers
    BY <2>4, HandlersRequests
  <2>5. CASE UNCHANGED vars
    <3>1. Dialed' = Dialed
      BY <2>5 DEF vars, cliVars, Dialed
    <3>2. \A i : Followed(i)' <=> Followed(i)
      BY <2>5 DEF vars, cliVars, Followed, Asked, Serving, Answered, Ending, Told
    <3> QED BY <2>5, <3>1, <3>2, GatewayRequests DEF vars, cliVars
  <2> QED BY <2>1, <2>2, <2>3, <2>4, <2>5 DEF Next
<1> QED BY <1>1, <1>2, EntryInvHolds, ServedInvHolds, PTL DEF Spec

\* A request the client waits for is not lost without its hearing of the lost
\* connection, as long as one attempt at most got through to the container: for
\* every number of attempts, and although a message may be written to a stream that
\* has ended and whose close event is still to come.
THEOREM RequestsNotLost == Spec => []RequestNotLost
<1>1. RequestInv => RequestNotLost
  <2> SUFFICES ASSUME RequestInv, link = "up", Cardinality(Dialed) <= 1, NEW i \in pending
               PROVE  Followed(i)
    BY DEF RequestNotLost, Followed, Asked, Serving, Answered, Ending, Told
  <2> QED BY DialedCount DEF RequestInv
<1> QED BY <1>1, RequestInvHolds, PTL
================================================================================
