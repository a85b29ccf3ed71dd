------------------------------- MODULE LspGateway -------------------------------
(***************************************************************************)
(* The way from a CLI to its language server: an LspClient on a Socket.IO   *)
(* connection, the gateway of the API server, and one TCP connection for    *)
(* every lsp-connect that gets through.  The container forks one language   *)
(* server per TCP connection (dart-lsp/entrypoint.sh), so the connection is *)
(* the server.                                                              *)
(*                                                                          *)
(* The client repeats lsp-connect when it hears nothing for two seconds; an *)
(* attempt it has given up goes on in the gateway.  Both sides are event    *)
(* loops: one event, or one continuation of an await, is one step.          *)
(***************************************************************************)
EXTENDS Naturals, Sequences, FiniteSets

CONSTANTS
  MaxRetries, \* lsp-connect attempts (10 in the code)
  MaxId,      \* JSON-RPC ids handed out: the bound on requests
  Faults,     \* "drop": the WebSocket is lost, "redis": Redis or Docker fail,
              \* "tcp": the container refuses or breaks connections
  NoConn

Attempts == 1 .. MaxRetries

ASSUME BoundsAssumption == MaxRetries \in Nat \ {0} /\ MaxId \in Nat \ {0}
ASSUME FaultsAssumption == Faults \subseteq {"drop", "redis", "tcp"}
ASSUME NoConnAssumption == NoConn \notin Attempts

VARIABLES
  pc,        \* what the CLI waits for
  state,     \* LspClient._state
  attempt,   \* the loop variable of connect()
  completer, \* lspConnectCompleter of the attempt: "none", "pending", "done"
  pending,   \* keys of LspClient._pendingRequests
  nextId,    \* LspClient._nextId
  link,      \* the client's Socket.IO connection
  served,    \* does the gateway still have the client's socket
  up, down,  \* events on their way to the gateway and to the client
  conn,      \* per attempt, its handler and its TCP connection
  entry      \* clientSessions.get(client.id)

cliVars == <<pc, state, attempt, completer, pending, nextId>>
vars    == <<cliVars, link, served, up, down, conn, entry>>

--------------------------------------------------------------------------------
(* Types *)

LspState == {"disconnected", "connecting", "connected", "initializing", "initialized", "error"}
PC == {"idle", "connecting", "waiting", "initializing", "ready", "asking",
       "failed", "closed", "exited"}

\* What the client sends: an lsp-connect with its attempt, and the JSON-RPC
\* messages with their ids (0 for a notification).
Message == {"initialize", "initialized", "didOpen", "definition"}
Upward  == [event : {"lsp-connect"} \cup Message, n : Nat]

\* What the gateway sends: n is the id of a response and the code of an error.
Downward == [event : {"lsp-connected", "lsp-error", "lsp-disconnected", "lsp-result", "lsp-failure"},
             n : Nat]

\* tcp: "ended" once the remote end was seen, "destroyed" after an error and
\* "ending" after stream.end(); "closed" is the close event, which comes later.
\* activity: the handler still awaits updateLastActivity.  got: what the language
\* server was sent.  todo: the requests it has not answered.
Conn == [tcp : {"none", "lookup", "refused", "connecting", "open",
                "ended", "destroyed", "ending", "closed"},
         activity : BOOLEAN, got : SUBSET Message, todo : SUBSET (Nat \ {0})]
NewConn == [tcp |-> "none", activity |-> FALSE, got |-> {}, todo |-> {}]

TypeOK ==
  /\ pc \in PC
  /\ state \in LspState
  /\ attempt \in 0 .. MaxRetries
  /\ completer \in {"none", "pending", "done"}
  /\ pending \subseteq Nat \ {0}
  /\ nextId \in Nat \ {0}
  /\ link \in {"off", "up", "kicked", "lost", "closed"}
  /\ served \in BOOLEAN
  /\ up \in Seq(Upward)
  /\ down \in Seq(Downward)
  /\ conn \in [Attempts -> Conn]
  /\ entry \in Attempts \cup {NoConn}

Init ==
  /\ pc = "idle" /\ state = "disconnected"
  /\ attempt = 0 /\ completer = "none"
  /\ pending = {} /\ nextId = 1
  /\ link = "off" /\ served = FALSE
  /\ up = <<>> /\ down = <<>>
  /\ conn = [n \in Attempts |-> NewConn]
  /\ entry = NoConn

--------------------------------------------------------------------------------
(* The Socket.IO connection.  What is emitted while it is down is never read:   *)
(* the client would send its buffer after a reconnect, which it does not        *)
(* survive (Reconnect), and the gateway's socket is gone.                       *)

Send(messages) == up' = IF link = "up" THEN up \o messages ELSE up
Emit(events)   == down' = IF link = "up" THEN down \o events ELSE down

\* The end of the connection loses what is under way in both directions; the
\* gateway hears of it later (HandleDisconnect).
Unlink(how) == link' = how /\ up' = <<>> /\ down' = <<>>

Gateway == <<served, conn, entry>>

Exit ==
  /\ pc \notin {"closed", "exited"}
  /\ pc' = "exited"
  /\ Unlink("closed")
  /\ UNCHANGED <<state, attempt, completer, pending, nextId, Gateway>>

--------------------------------------------------------------------------------
(* LspClient *)

\* connect() up to the await of connectCompleter.
Open ==
  /\ pc = "idle"
  /\ state = "disconnected"
  /\ pc' = "connecting" /\ state' = "connecting"
  /\ UNCHANGED <<attempt, completer, pending, nextId, link, up, down, Gateway>>

\* Attempt n of the loop: a new completer, and the event if the socket is up.
Try(n) == pc' = "waiting" /\ attempt' = n /\ completer' = "pending"

\* onConnect, and handleConnection accepted the token.
Connected ==
  /\ pc = "connecting"
  /\ link' = "up" /\ served' = TRUE
  /\ Try(1)
  /\ up' = <<[event |-> "lsp-connect", n |-> 1]>>
  /\ UNCHANGED <<state, pending, nextId, down, conn, entry>>

\* onConnect, and handleConnection disconnects a client whose token it cannot
\* verify: it hears nothing more and does not reconnect by itself.
Kicked ==
  /\ pc = "connecting"
  /\ link' = "kicked"
  /\ Try(1)
  /\ UNCHANGED <<state, pending, nextId, up, down, Gateway>>

\* onConnectError: connect() throws, and Socket.IO keeps trying to connect.
ConnectError ==
  /\ pc = "connecting"
  /\ pc' = "failed" /\ state' = "error" /\ link' = "lost"
  /\ UNCHANGED <<attempt, completer, pending, nextId, up, down, Gateway>>

\* The connection is lost: by the network, or by a ping the CLI did not answer
\* because a prompt blocks its isolate.
Drop ==
  /\ "drop" \in Faults
  /\ link = "up"
  /\ Unlink("lost")
  /\ UNCHANGED <<cliVars, Gateway>>

\* The next connection, and the next failure to connect alike, complete the
\* completed connectCompleter: an uncaught StateError ends the CLI.
Reconnect ==
  /\ link = "lost"
  /\ pc' = "exited"
  /\ Unlink("closed")
  /\ UNCHANGED <<state, attempt, completer, pending, nextId, Gateway>>

\* Mutant of RetryTimeout: one attempt too many.
RetryOnceMore ==
  /\ pc = "waiting" /\ completer = "pending"
  /\ attempt <= MaxRetries
  /\ Try(attempt + 1)
  /\ Send(<<[event |-> "lsp-connect", n |-> attempt + 1]>>)
  /\ UNCHANGED <<state, pending, nextId, link, down, Gateway>>

\* Two seconds without an answer.
RetryTimeout ==
  /\ pc = "waiting" /\ completer = "pending"
  /\ \/ /\ attempt < MaxRetries
        /\ Try(attempt + 1)
        /\ Send(<<[event |-> "lsp-connect", n |-> attempt + 1]>>)
     \/ /\ attempt = MaxRetries
        /\ pc' = "failed"
        /\ UNCHANGED <<attempt, completer, up>>
  /\ UNCHANGED <<state, pending, nextId, link, down, Gateway>>

Receive(event) == link = "up" /\ down # <<>> /\ Head(down).event = event

\* lsp-connected completes the completer of the current attempt, whichever
\* attempt it answers.  The open menu goes on with initialize in the same turn.
LspConnected ==
  /\ Receive("lsp-connected")
  /\ completer = "pending"
  /\ completer' = "done"
  /\ down' = Tail(down)
  /\ \/ /\ pc = "waiting"
        /\ pc' = "initializing" /\ state' = "initializing"
        /\ pending' = {nextId} /\ nextId' = nextId + 1
        /\ Send(<<[event |-> "initialize", n |-> nextId]>>)
     \/ /\ pc = "failed"
        /\ state' = "connected"
        /\ UNCHANGED <<pc, pending, nextId, up>>
  /\ UNCHANGED <<attempt, link, Gateway>>

\* A second attempt got through: complete() on a completed completer throws.
ConnectedTwice ==
  /\ Receive("lsp-connected")
  /\ completer = "done"
  /\ pc' = "exited" /\ state' = "connected"
  /\ Unlink("closed")
  /\ UNCHANGED <<attempt, completer, pending, nextId, Gateway>>

\* 404 means "not yet"; any other code ends connect(), if it still waits.
LspError ==
  /\ Receive("lsp-error")
  /\ down' = Tail(down)
  /\ \/ /\ Head(down).n # 404 /\ completer = "pending"
        /\ completer' = "done"
        /\ pc' = IF pc = "waiting" THEN "failed" ELSE pc
     \/ /\ Head(down).n = 404 \/ completer # "pending"
        /\ UNCHANGED <<completer, pc>>
  /\ UNCHANGED <<state, attempt, pending, nextId, link, up, Gateway>>

\* Mutant of LspDisconnected: the handler reports, and does not reset the state.
LspDisconnectedSilently ==
  /\ Receive("lsp-disconnected")
  /\ down' = Tail(down)
  /\ UNCHANGED <<cliVars, link, up, Gateway>>

LspDisconnected ==
  /\ Receive("lsp-disconnected")
  /\ down' = Tail(down)
  /\ state' = "disconnected"
  /\ UNCHANGED <<pc, attempt, completer, pending, nextId, link, up, Gateway>>

\* A response completes the request with its id; a late one finds none.
Response ==
  /\ Receive("lsp-result") \/ Receive("lsp-failure")
  /\ down' = Tail(down)
  /\ pending' = pending \ {Head(down).n}
  /\ \/ /\ Head(down).n \in pending /\ pc = "initializing"
        /\ Head(down).event = "lsp-result"
        /\ pc' = "ready" /\ state' = "initialized"
        /\ Send(<<[event |-> "initialized", n |-> 0]>>)
     \/ /\ Head(down).n \in pending /\ pc = "initializing"
        /\ Head(down).event = "lsp-failure"
        /\ pc' = "failed"
        /\ UNCHANGED <<state, up>>
     \/ /\ Head(down).n \in pending /\ pc = "asking"
        /\ pc' = "ready"
        /\ UNCHANGED <<state, up>>
     \/ /\ Head(down).n \notin pending
        /\ UNCHANGED <<pc, state, up>>
  /\ UNCHANGED <<attempt, completer, nextId, link, Gateway>>

\* Mutant of RequestTimeout: only initialize has one.
RequestTimeoutOpenOnly ==
  /\ pc = "initializing"
  /\ pc' = "failed"
  /\ pending' = {}
  /\ UNCHANGED <<state, attempt, completer, nextId, link, up, down, Gateway>>

\* Thirty seconds without a response.
RequestTimeout ==
  /\ pc \in {"initializing", "asking"}
  /\ pc' = IF pc = "initializing" THEN "failed" ELSE "ready"
  /\ pending' = {}
  /\ UNCHANGED <<state, attempt, completer, nextId, link, up, down, Gateway>>

\* The definition menu, after its upload: openDocument and goToDefinition, which
\* both refuse a client that is not initialized.
GoToDefinition ==
  /\ pc = "ready" /\ state = "initialized"
  /\ nextId <= MaxId
  /\ pc' = "asking"
  /\ pending' = {nextId} /\ nextId' = nextId + 1
  /\ Send(<<[event |-> "didOpen", n |-> 0], [event |-> "definition", n |-> nextId]>>)
  /\ UNCHANGED <<state, attempt, completer, link, down, Gateway>>

\* The close menu; it needs an active client, which only a completed open sets.
Disconnect ==
  /\ pc = "ready"
  /\ pc' = "closed" /\ state' = "disconnected"
  /\ Unlink("closed")
  /\ UNCHANGED <<attempt, completer, pending, nextId, Gateway>>

--------------------------------------------------------------------------------
(* LanguageServerGateway *)

TcpTo(n, tcp) == conn' = [conn EXCEPT ![n].tcp = tcp]

Error(code) == Emit(<<[event |-> "lsp-error", n |-> code]>>)

\* handleLSPConnect up to its first await.
HandleLSPConnect ==
  /\ link = "up" /\ up # <<>> /\ Head(up).event = "lsp-connect"
  /\ up' = Tail(up)
  /\ TcpTo(Head(up).n, "lookup")
  /\ UNCHANGED <<cliVars, link, served, down, entry>>

\* The session is owned and names a container with an address.
LookupFinds(n) ==
  /\ conn[n].tcp = "lookup"
  /\ conn' = [conn EXCEPT ![n].tcp = "connecting", ![n].activity = TRUE]
  /\ UNCHANGED <<cliVars, link, served, up, down, entry>>

\* No container yet (404), or no such session of this user (403).
LookupRefuses(n) ==
  /\ conn[n].tcp = "lookup"
  /\ TcpTo(n, "refused")
  /\ \E code \in {403, 404} : Error(code)
  /\ UNCHANGED <<cliVars, link, served, up, entry>>

LookupFails(n) ==
  /\ "redis" \in Faults
  /\ conn[n].tcp = "lookup"
  /\ TcpTo(n, "refused")
  /\ Error(500)
  /\ UNCHANGED <<cliVars, link, served, up, entry>>

\* updateLastActivity: an error of it reaches the client, and the TCP connection
\* that is on its way stays.
ActivityUpdated(n) ==
  /\ conn[n].activity
  /\ conn' = [conn EXCEPT ![n].activity = FALSE]
  /\ UNCHANGED <<cliVars, link, served, up, down, entry>>

ActivityFails(n) ==
  /\ "redis" \in Faults
  /\ conn[n].activity
  /\ conn' = [conn EXCEPT ![n].activity = FALSE]
  /\ Error(500)
  /\ UNCHANGED <<cliVars, link, served, up, entry>>

\* The connect callback sets the entry whether or not the client is still there,
\* and over the entry of an earlier attempt.
TcpConnected(n) ==
  /\ conn[n].tcp = "connecting"
  /\ TcpTo(n, "open")
  /\ entry' = n
  /\ Emit(<<[event |-> "lsp-connected", n |-> 0]>>)
  /\ UNCHANGED <<cliVars, link, served, up>>

\* The language server exits, or its container is stopped: the stream has ended,
\* and the entry stays until "close".
ServerExits(n) ==
  /\ conn[n].tcp = "open"
  /\ TcpTo(n, "ended")
  /\ UNCHANGED <<cliVars, link, served, up, down, entry>>

\* "error": Node has destroyed the stream.
TcpFails(n) ==
  /\ "tcp" \in Faults
  /\ conn[n].tcp \in {"connecting", "open", "ended", "ending"}
  /\ TcpTo(n, "destroyed")
  /\ Error(500)
  /\ UNCHANGED <<cliVars, link, served, up, entry>>

\* Mutant of Closed: the client is not told.
ClosedSilently(n) ==
  /\ conn[n].tcp \in {"ended", "destroyed", "ending"}
  /\ TcpTo(n, "closed")
  /\ entry' = NoConn
  /\ UNCHANGED <<cliVars, link, served, up, down>>

\* "close", in a later turn: it deletes the client's entry, whichever connection it
\* holds.
Closed(n) ==
  /\ conn[n].tcp \in {"ended", "destroyed", "ending"}
  /\ TcpTo(n, "closed")
  /\ entry' = NoConn
  /\ Emit(<<[event |-> "lsp-disconnected", n |-> 0]>>)
  /\ UNCHANGED <<cliVars, link, served, up>>

\* stream.write: what is written after the remote end is lost and makes Node destroy
\* the stream.
Write(n, message) ==
  \/ /\ conn[n].tcp = "open"
     /\ conn' = [conn EXCEPT ![n].got = @ \cup {message.event},
                             ![n].todo = @ \cup ({message.n} \ {0})]
  \/ conn[n].tcp # "open" /\ TcpTo(n, "destroyed")

\* The client may be told of a write to an ended stream, which Node had not destroyed
\* by itself yet, and of an error of updateLastActivity.
Failures(n) == (IF conn[n].tcp = "ended" THEN 1 ELSE 0) + (IF "redis" \in Faults THEN 1 ELSE 0)

\* A message goes to the stream of the entry.  It has been written when
\* updateLastActivity fails and the client is told otherwise.
HandleLSPMessage ==
  /\ link = "up" /\ up # <<>> /\ Head(up).event \in Message
  /\ up' = Tail(up)
  /\ \/ /\ entry # NoConn
        /\ Write(entry, Head(up))
        /\ \E k \in 0 .. Failures(entry) :
             Emit([i \in 1 .. k |-> [event |-> "lsp-error", n |-> 500]])
     \/ /\ entry = NoConn
        /\ Error(400)
        /\ UNCHANGED conn
  /\ UNCHANGED <<cliVars, link, served, entry>>

\* The language server answers a request, and the data handler passes it on.
ServerAnswers(n) ==
  /\ conn[n].tcp = "open"
  /\ \E i \in conn[n].todo, event \in {"lsp-result", "lsp-failure"} :
       /\ conn' = [conn EXCEPT ![n].todo = @ \ {i}]
       /\ Emit(<<[event |-> event, n |-> i]>>)
  /\ UNCHANGED <<cliVars, link, served, up, entry>>

\* Mutant of HandleDisconnect: the entry is deleted and its stream not ended.
DisconnectForgets ==
  /\ served /\ link # "up"
  /\ served' = FALSE
  /\ entry' = NoConn
  /\ UNCHANGED <<cliVars, link, up, down, conn>>

\* handleDisconnect ends the stream the entry holds at this moment, and no other.
HandleDisconnect ==
  /\ served /\ link # "up"
  /\ served' = FALSE
  /\ entry' = NoConn
  /\ conn' = [n \in Attempts |-> IF n = entry /\ conn[n].tcp = "open"
                                THEN [conn[n] EXCEPT !.tcp = "ending"] ELSE conn[n]]
  /\ UNCHANGED <<cliVars, link, up, down>>

--------------------------------------------------------------------------------

Client ==
  \/ Open \/ Connected \/ Kicked \/ ConnectError \/ RetryTimeout
  \/ LspConnected \/ ConnectedTwice \/ LspError \/ LspDisconnected \/ Response
  \/ RequestTimeout \/ GoToDefinition \/ Disconnect \/ Exit

Lookup(n) == LookupFinds(n) \/ LookupRefuses(n) \/ LookupFails(n)
Activity(n) == ActivityUpdated(n) \/ ActivityFails(n)
Tcp(n) == TcpConnected(n) \/ TcpFails(n) \/ ServerExits(n) \/ Closed(n)

Handlers ==
  \/ HandleLSPConnect \/ HandleLSPMessage \/ HandleDisconnect
  \/ \E n \in Attempts : Lookup(n) \/ Activity(n) \/ Tcp(n) \/ ServerAnswers(n)

Next == Client \/ Drop \/ Reconnect \/ Handlers

Spec == Init /\ [][Next]_vars

\* Socket.IO connects or reports that it cannot, the timers of the client fire,
\* the gateway hears of a lost client, a container answers the end of a connection,
\* and Node closes what has ended.  Nothing is assumed of the language server or of
\* the user.
Fairness ==
  /\ WF_vars(Connected \/ ConnectError)
  /\ WF_vars(RetryTimeout) /\ WF_vars(RequestTimeout)
  /\ WF_vars(HandleDisconnect)
  /\ \A n \in Attempts : WF_vars(Closed(n))

FairSpec == Spec /\ Fairness

--------------------------------------------------------------------------------
(* Safety *)

\* The attempts that got as far as a TCP connection.
Dialed == {n \in Attempts : conn[n].tcp \notin {"none", "lookup", "refused"}}

\* As long as only one attempt gets that far, a client that takes itself for
\* connected has a stream in the gateway, or is about to hear that it has not.  The
\* stream may have ended already: the entry is deleted by "close".
BelievedIsServed ==
  /\ state \in {"connected", "initializing", "initialized"}
  /\ link = "up"
  /\ Cardinality(Dialed) <= 1
  => \/ entry # NoConn
     \/ \E i \in DOMAIN down : down[i].event = "lsp-disconnected"

\* A request the client waits for is on its way to a language server, being served
\* or answered; or the client hears, or has heard, that the connection is gone, also
\* when the request was written to a stream that had ended and not yet closed, or
\* came after the entry was deleted.
RequestNotLost ==
  link = "up" /\ Cardinality(Dialed) <= 1 =>
    \A i \in pending :
      \/ \E k \in DOMAIN up : up[k].event \in Message /\ up[k].n = i
      \/ \E n \in Attempts : conn[n].tcp = "open" /\ i \in conn[n].todo
      \/ \E k \in DOMAIN down : down[k].event \in {"lsp-result", "lsp-failure"} /\ down[k].n = i
      \/ \E n \in Attempts : conn[n].tcp \in {"ended", "destroyed"}
      \/ \E k \in DOMAIN down : down[k].event = "lsp-disconnected"
      \/ state = "disconnected"

\* Messages go to an initialized language server: openDocument and goToDefinition
\* refuse to run before the handshake (lsp_client.dart).
InitializedServer == \A n \in Attempts : conn[n].got # {} => "initialize" \in conn[n].got

--------------------------------------------------------------------------------
(* Liveness *)

\* Opening a session and asking for a definition come to an end, whatever is lost
\* and whoever does not answer: the menu gets an answer or an error, or the CLI ends
\* with the StateError of a completer that is completed twice (Reconnect,
\* ConnectedTwice).
CallsSettle ==
  pc \in {"connecting", "waiting", "initializing", "asking"}
    ~> pc \in {"ready", "failed", "closed", "exited"}

\* When a client goes away, the connection the gateway holds for it is ended and
\* with it the language server (handleDisconnect), if no attempt overlapped it.
StreamEnded ==
  \A n \in Attempts :
    (served /\ link # "up" /\ Dialed = {n} /\ conn[n].tcp = "open")
      ~> (conn[n].tcp = "closed" \/ Dialed # {n})
================================================================================
