# Verification of the code execution service

TLA+ specifications of the backend in this repository (an API server and a
worker service in TypeScript, a command line client in Dart), the TLC models that
check them and TLAPS proofs of the properties that matter most.

## 1. Inventory

Three programs share MySQL, Redis, Docker and two volumes. Nothing else connects
them: there are no transactions across two stores and no locks, so the hard part
of the system is what happens between two awaited calls.

| component | state | operations | talks to |
|---|---|---|---|
| Execution API (`api-server/src/execution`) | rows of ExecutionJob and ExecutionJobStatusLog, files on code-files | createExecutionJob, getExecutionJobs, getExecutionJob | MySQL, file system, BullMQ |
| Execution worker (`worker-service/src/worker/execution.processor.ts`) | up to 4 invocations of processJob, their containers | processJob, SIGTERM | BullMQ, MySQL, Docker |
| Language server sessions (`language-server.service.ts`) | a Redis key per session with a ttl of 600 s; files on lsp-files | createSession, renewSession, uploadFile, updateLastActivity | Redis, file system |
| Language server manager (`language-server-manager.ts`) | containerMap, overlapping runs of the scanner (5 s) and the cleanup (10 s) | scanAndCreateContainers, startContainer, cleanupExpiredSessions, stopContainer | Redis, Docker, file system |
| LSP gateway (`language-server.gateway.ts`) | clientSessions, TCP streams | connect, disconnect, lsp-connect, lsp-message | WebSocket, TCP, Redis |
| Framing and URIs (`lsp-response-buffer.ts`, `lsp-uri-transformer.ts`) | a byte buffer per connection | onData, transformMessage, transformResponseMessage | |
| User accounts, tokens (`user`, `auth`, `util`) | rows of User | register, login, the guard of every other endpoint | MySQL |
| CLI (`cli/lib`) | token and email, the header that carries the token, session, renewal timer, pending LSP requests | register, login, logout, run code, open and close session, go to definition | HTTP, WebSocket |
| Wiring, configuration, the dart-lsp image | none | | |

What is hard, and what makes each component correct:

* **Job creation** is three steps in three stores (file, transaction, queue). The
  queue must never run ahead of the database; a failure between two steps must not
  let a worker see half a job.
* **processJob** awaits some fifteen calls, each of which may fail with or
  without having taken effect, races a timer against the program, reports through
  two tables, and may be run again by BullMQ after a crash or a lost lock. A client
  must find a result with every terminal status, the two tables must agree, every
  job must end, no container may be left behind, and no program may run for ever.
* **Polling** stops at the first terminal status, but a timed out job gets two.
* **Language server sessions** are read, computed on and written back by two
  programs with no lock, under a ttl that several writers set. The scanner and the
  cleanup overlap with themselves. A session must have one container, the worker
  must not forget a container, an expired session's container must be deleted, and
  an open CLI must keep its session.
* **Gateway and LSP client**: reconnects and retries open connections whose close
  events come late; responses race their timeouts.
* **Framing**: every message is taken apart and framed anew, in one direction by
  counting UTF-16 code units, and the other direction is cut out of a byte stream
  that TCP delivers in any pieces. One wrong length shifts every later message.
* **Accounts**: register looks for the email and then inserts, without a unique
  index. The CLI keeps the token twice and its LSP session over a change of the user,
  and the server finishes what a menu has given up: what it shows, what it sends
  and what the server grants must still be of one user.

`PROJECT.json` lists every hazard with its line and the properties that cover it.

## 2. Plan

Done, in this order:

1. `ExecutionPipeline` (job creation, queue, processJob), its abstract
   specification `JobLifecycle`, and `RunCode`, the client on top of it.
2. `ExecutionProofs` and `JobLifecycleProofs`; then `ExecutionLifecycleProofs`, with the
   refinement of `JobLifecycle` and the theorems on the menu, which build on it.
3. `LspSessions`.
4. `LspGateway`, the client, the gateway and the TCP connections between them, and
   `LspGatewayProofs`.
5. `LspFraming`: the response buffer, the rewriting of URIs and the unit of
   Content-Length; `LspFramingProofs` came last.
6. `UserAccounts` and `UserAccountsProofs`.
7. `LspSessions` with errors of Docker and Redis and graceful shutdown, and
   `LspSessionsProofs`; then `LspSessionsLifeProofs`, on what survives overlapping writes.

Every safety property of the passing runs is now proved, some of them under fewer
faults than the run has or for some kinds of calls, as section 6 says. What is left to
TLC, and why, is at its end.

## 3. Modules

| module | models | used by |
|---|---|---|
| `ExecutionPipeline` | createExecutionJob, BullMQ, processJob, Docker, worker process | all below |
| `JobLifecycle` | abstract specification: what clients may rely on | `ExecutionPipeline` (INSTANCE) |
| `RunCode` | pollUntilComplete and the run code menu, composed with the pipeline | |
| `LspSessions` | session key, CLI session and timer, upload and activity handlers, scanner, cleanup, shutdown | |
| `LspGateway` | LspClient, the gateway's handlers and clientSessions, one TCP connection per attempt | |
| `LspFraming` | messages as strings and octets: LspMessage, LspUriTransformer, LspResponseBuffer, the stream | |
| `UserAccounts` | menus, token storage and header of the CLI, guard, register, login, ownership of sessions | |
| `MCExecution`, `MCRunCode`, `MCLspSessions`, `MCLspGateway`, `MCLspFraming`, `MCUserAccounts` | instances for TLC (symmetry) | |
| `ExecutionProofs`, `JobLifecycleProofs`, `LspGatewayProofs`, `LspSessionsProofs`, `LspFramingProofs`, `UserAccountsProofs` | theorems | |
| `ExecutionLifecycleProofs` | theorems on verdicts and columns, the refinement of `JobLifecycle`, theorems on the menu; extends `RunCode` and `ExecutionProofs` | |
| `LspSessionsLifeProofs` | theorems on renewal and tracking; extends `LspSessionsProofs` | |

An operator whose comment begins with "Mutant of" is not part of a
specification: it is a faulty version of the definition named there, with which the
runs are shown to be able to fail.

### ExecutionPipeline

`request[j]` is the progress of createExecutionJob for job j; `files`, `rows`,
`result` and `log` are the volume and the two tables; `entry` and `delivery` are
BullMQ's entry and how often it was handed out; `run[s]` is the invocation in slot
s, with `pc` naming the call it awaits; `container` holds one container per
delivery of a job; `worker` is the process. Every awaited call is one action:

* `RejectUpload`, `StoreFile`, `CommitJob`, `PublishJob`, `AcceptRequest`,
  `RequestFails`: the controller and createExecutionJob. There is no
  compensation for a failed step, and the model has none.
* `Deliver`, `MoveStalledJob`, `Complete`, `Fail`: BullMQ. A lock expires when its
  process died or, with the fault "stall", while it lives; a settled
  invocation that lost its lock does not change the entry.
* `FindJob` to `LogFailed`: processJob in program order. `OnError` is the control
  flow of a rejected await: the swallowed errors of kill and remove, the inner
  catch that rethrows, the outer catch, and errors in the outer catch.
* A call of a service in `Faults` may report an error without effect
  (`CallFails`) or after its effect (`Proceed`).
* `TimerFires` races `WaitResolves`; `ContainerExits` is the user's program.
* `Crash`, `Shutdown`, `Closed`, `Restart`: the worker process. A SIGKILL
  after docker's grace period is a `Crash` in state "closing".

Statuses carry a millisecond only as far as clients can tell: a later status is
later or, with "tie", equal, and `Reported` is the set of statuses the two queries
may return; `LastStatus` is the one they return where timestamps differ. The output is
set or not; the error text is the program's own ("output"), "Execution timeout (30s)"
("timeout") or the message of another error ("fault"). `run[s].thrown` is the message on its
way to a catch: the inner one writes "timeout" whatever it took, and the outer one overwrites
that with the message. `completedAt` is left out: each of these updates sets it anew, and no
client shows it.

### JobLifecycle

`phase` is the last status, `answer` the exit code and `reason` the error text of a job. The
answer is given once, before the terminal status, with a text that `Explains` it; after
that only `Correct` changes a text, from a timeout to the error that was taken for one.

### RunCode

Polls, what the screen says and the job it was printed from, per job. The loop
ends at the first terminal status, after `MaxPolls` polls, or at the first request
that fails.

### LspSessions

Time is counted in renewal intervals (5 minutes), so the ttl of 600 s is 2. A
`Tick` happens only when no request, scan or cleanup is under way: those take
seconds. `Expire` happens at any time after the ttl has reached 0, also between two
steps of a handler. A prompt of the CLI blocks its isolate: a renewal that is due
waits for the prompt. `IdleUsers` says whether a user may leave a prompt open over
a tick. `call` holds uploads and LSP messages with the value they have read and will
write back; `scan` and `cleanup` are the runs of the two timers in the worker, and
`shutdown` is the progress of stopAllContainers per entry of the map.

What may go wrong is named in `Faults`, `MaxFaults` times in all:

* "docker": `ScanDockerFails` leaves a created container behind when start() fails,
  `CleanupDockerFails` and `ShutdownDockerFails` end stopContainer (the latter without a
  count of its own: the shutdown it happens in has been counted);
* "redis": an error ends a renewal (`RenewFails`; the CLI swallows it and waits for the next
  interval), a handler (`CallRedisFails`), a scan or one of its keys
  (`ScanRedisFails`) or a cleanup (`CleanupRedisFails`), as the catch blocks say.
  `missed` remembers the sessions of which no renewal has succeeded since one failed;
  no action reads it;
* "stop": `Sigterm` stops the containers of the map in parallel (`ShutdownStep`),
  while cleanups that had begun and scans go on; `ShutdownEnds` is the end of
  onModuleDestroy and of the process. The scanner's interval is never cleared, so
  it is Docker's SIGKILL that ends the process;
* "crash": the process dies at any step.

### LspGateway

One LspClient on one Socket.IO connection, since clientSessions keeps clients
apart. `pc` is what the CLI waits for, `state` to `nextId` are the fields and
locals of LspClient, `up` and `down` the events under way; `conn[n]` is the handler and
the TCP connection of the n-th lsp-connect, `entry` is `clientSessions.get(client.id)`.
`dart-lsp/entrypoint.sh` forks a language server per TCP connection, so `got`, what
a connection's server was sent, belongs to the connection.

* `Open`, `Connected`, `Kicked`, `ConnectError`, `RetryTimeout`: LspClient.connect. A
  given up attempt is not cancelled; its events come to the handlers all the same,
  and `LspConnected` completes the completer of the attempt that is current.
* `Response`, `RequestTimeout`, `GoToDefinition`, `Disconnect`: requests and their timeouts.
  A continuation of an await is part of the event that resolves it (microtasks run
  before the next event).
* `Reconnect`, `ConnectedTwice`: completing a completed Completer is an uncaught
  StateError, which ends the CLI.
* `HandleLSPConnect`, `LookupFinds`, `LookupRefuses`, `LookupFails`, `ActivityUpdated`,
  `ActivityFails`: handleLSPConnect between its awaits. `TcpConnected`, `TcpFails`,
  `ServerExits`, `Closed`: the events of its TCP socket, in any order with
  everything else. A stream that has "ended" (the remote end) or is "destroyed" (an error)
  or "ending" (stream.end() of handleDisconnect) is closed in a later step: the entry stays
  until `Closed` deletes it, whichever connection it holds. A message `HandleLSPMessage`
  writes in between is lost, and makes Node destroy a stream that had only ended.
* `HandleLSPMessage`, `HandleDisconnect`: the other handlers.
* `Drop` loses what is under way; the gateway hears of it later.

### LspFraming

One connection in one direction. A string is a sequence of characters of the kinds
the code can tell apart (ASCII, other, a URI to rewrite) plus header line and blank
line. A Buffer is a sequence of octets, each a character with its place in the character's
UTF-8 form, in which a character other than ASCII and a container URI take two. `Encode`
gives the octets of a string and `Decode` the string of a Buffer: an octet without the
rest of its character becomes "broken". `Frame` counts code units (`Utf16`) as
`content.length` does in Dart and in TypeScript; `ServerFrame` counts octets. `Loop` is
the while loop of LspResponseBuffer, which `OnData` runs on what is buffered and the new
chunk; `Read(n)` hands it any number of the octets under way. `received` has what the
other side parses from each message that is handed on. Upward the same reader stands for the language server, which is
outside the repository and reads as the protocol says. `Reconnect` loses what is under way,
with a new buffer, as handleLSPConnect makes one per connection.

The gateway gives transformResponseMessage a Buffer, which has no `substring`: the
TypeError is caught and the message passes unchanged. So container URIs reach the
client: `ResponsesTransformed`, which is what the method's comment says, is violated.
`ResponsesIntact` is about framing and says, of either form of the URIs, that the client
gets the responses whole and in order.

### UserAccounts

`users` is the table, with the ids each registration saw as an auxiliary field,
`issued` and `expired` the tokens, `owner` and `live` the userId and the life of a session's
key. A CLI has `storage` (TokenStorage), `header` (the Authorization header of dio),
`held` (the session in LspSessionManager) and `waits`, the request its menu waits for.
A request is one record from the CLI to its answer; with `GiveUp` the menu stops
waiting after 10 seconds and the server finishes all the same.

* `Register` to `Logout` are the menus up to their call and `LoggedIn`,
  `SessionOpened`, `Shown` what they do with the answer; `RenewalFires` is the timer, which
  runs while a menu awaits.
* `GuardReply` and `Requester` are AuthGuard, RequestValidator and TokenManager.
  `RegisterFind` and `RegisterSave` are the two statements of the transaction;
  `ReadSession` and `UseSession` the check of the owner and what follows it.
* `ServerError` rolls a handler back; `TokenExpires` and `SessionExpires` may come between any
  two steps.

## 4. Runs

| run | checks | instance | faults |
|---|---|---|---|
| exec_redelivery | TypeOK, PublishedAfterCommit, JobExclusive, VerdictMatchesExitCode | 1 job, 2 slots, 2 redeliveries | docker, fs, api, crash, stop |
| exec_stops | TerminalHasResult, ContainerOwned, ProgramStops | 1 job, 2 slots, 1 redelivery | db, stall |
| run_code | FollowsLifecycle, ColumnsMatchStatus, ClientTypeOK, ShownVerdictStands, ShownJobIsComplete, AcceptedSettles, ShutdownCompletes, MenuReturns | 1 job, 1 slot, 3 polls | docker, fs, api, tie, stop |
| lsp_sessions | TypeOK, OneContainerPerSession, ContainerTracked, RenewedStaysAlive, ExpiredReclaimed, SessionGetsContainer, TakenOver, ShutdownStops | 1 session, 1 upload or message, 2 scans, 1 cleanup | any 1 of crash, stop, docker, redis |
| lsp_idle_prompt | RenewalKeepsAlive (violated) | 1 session, idle users | none |
| lsp_gateway | TypeOK, BelievedIsServed, RequestNotLost, CallsSettle, StreamEnded | 2 attempts, 2 requests | drop, redis, tcp |
| lsp_gateway_overlap | InitializedServer (violated) | 2 attempts, 2 requests | none |
| lsp_framing | TypeOK, ResponsesIntact, ResponsesPrompt, AsciiRequestsIntact | 2 messages of up to 2 characters | reconnection |
| lsp_framing_wide | RequestsIntact (violated) | the same | reconnection |
| lsp_framing_uris | ResponsesTransformed (violated) | the same | reconnection |
| accounts | TypeOK, ShownUserIsSent, ServedForShownUser, DuplicatesOverlapped | 1 CLI, 2 emails, 2 accounts, 2 logins, 1 session, 2 requests | timeouts, expiry, server errors |
| accounts_expired | ExpiredLoginIsShown (violated) | the same | timeouts, expiry, server errors |

Some of these deserve a word on their limits. `ContainerTracked`, `ExpiredReclaimed` and
`SessionGetsContainer` are promised as long as nothing has failed: `faults` = 0 is part of
them. The last is about uploads from a connected session, so it would not notice the lost
write-backs of `startContainer` and `uploadFile` that `hazards` lists; no property covers
those. `PublishedAfterCommit` is about the order of the steps, and not about a job that stays
QUEUED because its publication failed. `ProgramStops` and `ContainerOwned` are checked while the
worker lives: the 30 second timer is a setTimeout in the worker process, so a program whose
worker died runs on without the limit that the repository's README.md promises, next to the one
a redelivery starts. `CallsSettle` counts the end of the CLI by the StateError of a
completer completed twice as the end of a call: what it excludes is a menu that waits for ever.

Bounds and why they are enough:

* *Jobs, Slots*: jobs share only the slots, so what goes wrong with one job goes wrong
  alone; two slots are needed for two invocations of one job. The theorems of
  section 6 hold for any number.
* *MaxStalledCount*: BullMQ's default is 1; 2 is used where a third delivery could
  make a difference (exclusion).
* *Faults*: each run has the faults under which its property is promised.
  "tie" is left out of runs whose property does not read timestamps.
* *MaxPolls* = 3 of 60: the loop ends before, at and after the first terminal status.
* *Sessions* = 1: keys, map entries, containers and directories are per session and no
  run of the scanner carries anything from one session to the next.
* *Ids* bounds the containers that exist at once; 2 leaves room for a second
  container of the session.
* *TTL* = 2 as in the code. *MaxFaults* = 1: the fault may come at any call and before, in or
  after any other run, and after SIGTERM Docker may fail for every entry; what several faults and several cleanups do together is left to the
  theorems, which bound neither.
* *MaxRetries* = 2 of 10: an attempt that is given up and the one that replaces it;
  a third could only overlap with them pairwise. *MaxId* = 2: the handshake and one
  definition, whose response may come after its timeout.
* *MaxLength* = 2 and *MaxMessages* = 2: a header off by one octet shows in the next
  message, and the stream may be cut between any two octets, also inside a character.
* *Clis* = 1, *Requests* = 2: a CLI shares nothing with another but the tables; a
  second request is one the menu has given up or a renewal beside a menu. *Emails*,
  *UserIds*, *Tokens* = 2: the user changes once under an open session, or one email is
  registered twice. The theorems hold for any number.
* Deadlock is not checked where every instance has finitely many requests, after
  which the system rests; lsp_framing and accounts have none.

What the five violations show:

* **lsp_idle_prompt**: the renewal that keeps a session alive never fires while the
  CLI waits at a menu, because the menu reads the keyboard synchronously.
* **lsp_gateway_overlap**: when an lsp-connect takes more than two seconds, the client
  sends another, and both may reach the container. The second connection replaces the
  first in clientSessions in the middle of the handshake, and the client's next
  messages go to a language server that was not initialized. When the client then
  hears of the second connection, it ends with a StateError.
* **lsp_framing_wide**: transformMessage rebuilds Content-Length from the length of a
  JavaScript string. A document with a Korean comment gets a header that is too
  small; the server reads a truncated message and then looks for a header in the
  middle of the text. `AsciiRequestsIntact` of run lsp_framing says that nothing else
  breaks a request.
* **lsp_framing_uris**: the comment of transformResponseMessage says that it transforms
  container URIs back. It is given a Buffer, throws inside and returns what it was given.
* **accounts_expired**: three menus tell the user to log in again when an answer has status 401.
  TokenManager.verify answers a token that has expired with 400, which they print as an
  invalid request or an error.

## 5. Fairness

`FairSpec` of the pipeline assumes that an awaited call settles and the timer fires
(weak fairness of `ProcessJob(s)` as a whole: which of the enabled steps is
taken is not assumed), that BullMQ hands out waiting entries while there is a free
slot, that it recovers the entries of a dead process, that worker.close()
returns when no job is active, and that a worker that went down is started again.
It does not assume that user programs end, that requests come, or that faults occur
or stop occurring.

`FairClientSpec` of the run code menu adds that the client polls on or gives up: its
delay is a timer, and every request is answered or times out.

`FairSpec` of the sessions assumes that Redis expires keys, that awaited calls settle,
that the intervals of the scanner and the cleanup keep firing and that a shutdown goes on. Nothing is assumed of the
clients or of the passing of time.

`FairSpec` of the gateway assumes that Socket.IO connects or reports that it cannot, that
the client's two timers fire, that the gateway notices a lost client (Socket.IO's
heartbeat) and that a container answers the end of a connection. Nothing is
assumed of the handlers of the gateway, the language server or the user: the
client's calls end by their timeouts alone.

## 6. Proofs

`ExecutionProofs` proves for every set of jobs and slots, every redelivery limit and
every subset of the faults, from the three assumptions of `ExecutionPipeline`:

* `TypeCorrect`: `Spec => []TypeOK`. `TypeOK` is not inductive: a delivery could exceed
  its range. `QueueInv` adds that an entry that waits has been handed out
  at most `MaxStalledCount` times.
* `PublishAfterCommit`: `Spec => []PublishedAfterCommit`, through `Committed`, which says
  for each progress of a request what is already stored.
* `ResultBeforeTerminal`: `Spec => []TerminalHasResult`. The strengthening `ResultInv` adds
  that an invocation about to write a terminal status has already written the
  exit code; it needs `Committed`, because an update of a missing row does
  nothing.
* `OneInvocationPerJob`: if "stall" is not among the faults, `Spec => []JobExclusive`.
  `OwnInv` says that every invocation works on the current delivery of an active
  entry, so an entry is only put back when nobody works on it.
* `NoContainerLeft`: if "crash" and "docker" are not among the faults,
  `Spec => []ContainerOwned`; errors of MySQL, lost locks, timeouts and shutdowns are
  allowed. `OwnedInv` gives for every call an invocation awaits the states its container
  may be in (`Stage`), and says that two invocations never share a delivery and that a
  delivery to come has no container. Both faults are excluded because the code then does
  leave containers behind: nobody looks for those of a dead worker, and a container whose
  start or removal failed is not removed again.

`ExecutionLifecycleProofs` proves, from the invariants above:

* `VerdictCorrect`: without "db", "stall" and "tie", `Spec => []VerdictMatchesExitCode`,
  crashes and redeliveries included. The row is written before the status, so between the
  two an earlier verdict must not be the latest status any more: `VerdictInv` says for every
  call which statuses the job may show and which exit code it has while the call is awaited,
  and that an invocation rewrites a row only after its own READY. It also needs that
  timestamps increase (`Increasing`): the latest status is found by its time.
* `ColumnsCorrect`: without "db", "stall" and "crash", `Spec => []ColumnsMatchStatus`, "tie"
  included. `LifeInv` says what row and status the only invocation of a job finds at each of its
  calls (`LifeAt`), that every status in the log agrees with the row and no status but a
  terminal one follows a terminal one (`History`), and what is there before the delivery and
  after it (`Handled`). With a crash it would be false: a second run that fails leaves the
  output of the first in the row.
* `PipelineFollowsLifecycle`: under the same assumptions, `Spec => FollowsLifecycle`. Every
  step of the pipeline is a step of `JobLifecycle` under the mapping or leaves it alone;
  `LifeInv` gives the abstract guard of each.
* `PipelineVerdictStands`: `VerdictStands` of `JobLifecycle`, carried over to the pipeline by the
  refinement: a verdict and its exit code are never changed again, and the error text only
  from a timeout into the error that was taken for one. `LifeAt` says when that may happen:
  the outer catch finds a terminal status only after the inner one has written a timeout.

"db" is excluded from these four because a write may take effect and still report an
error, after which the outer catch writes FAILED over a success; "stall" because two invocations
then write the same row in turns.

It also proves of the menu, for any number of jobs, slots and polls:

* `ClientTypeCorrect`: `ClientSpec => []ClientTypeOK`, under every fault: the menu does not
  poll more than `MaxPolls` times.
* `ShownComplete` and `ShownStands`: under the assumptions of `PipelineFollowsLifecycle`,
  `ClientSpec => []ShownJobIsComplete` and `ClientSpec => []ShownVerdictStands`. `ShownInv`
  says that what was printed is the row as it is now, or was before the one correction of a
  timeout (`Restated`). That the row does not change otherwise under the screen is the step of
  `JobLifecycle` that each step refines.

Each invariant is shown preserved action by action; lemmas on `Goto`, `Proceed`,
`CreateStatusLog`, `UpdateJob` and `DockerCall` say once what an awaited call can
change.

`JobLifecycleProofs` proves `VerdictIsAnswer` for every set of jobs, from the inductive `Inv`, which
says that a text always explains the exit code that is there, and, from it, the action property `VerdictStands`. `PipelineFollowsLifecycle` carries both over to the
pipeline.

`LspGatewayProofs` proves for any number of attempts and requests and every subset of the
faults:

* `TypeCorrect`: `Spec => []TypeOK`, which is inductive.
* `BelievedServed`: `Spec => []BelievedIsServed`, without an assumption. `ServedInv` says
  that a client that has not connected believes nothing, that nothing is under way to a lost
  client, and, while at most one attempt dials, that its open connection is the entry
  (`OpenIsEntry`), and that whoever believes (`BeliefKnown`), or is about to because of an lsp-connected
  or a response under way (`NewsKnown`), has a stream or an lsp-disconnected coming after it. The
  order of events is the point: a response that overtook lsp-disconnected would leave the
  client waiting on nothing. It rests on `HeardOnce`, because HandleLSPConnect puts an attempt
  into "lookup" whatever it was before: the attempts under way to the gateway are new, in
  increasing order and at most the client's counter.
* `RequestsNotLost`: `Spec => []RequestNotLost`. `RequestInv` follows every request the client
  waits for (`Followed`): under way, with a language server, answered, in a stream that has
  ended and whose close event is still to come, or lost with an lsp-disconnected on its way or
  seen. A write to an ended stream moves a request from the first to the fourth. It needs the
  two invariants above: a message that finds no entry is one of a client that has been told.

`LspSessionsProofs` proves for any sessions, calls, overlapping runs of the scanner and the
cleanup, and any faults:

* `TypeCorrect`: `Spec => []TypeOK`.
* `OneContainer`: `Spec => []OneContainerPerSession`. That Docker refuses a name in use
  is not enough, since a container is created in one step and started in another. The
  invariant `Names` adds what a scan has in hand: between createContainer and start, its
  container exists in state created and belongs to no other scan, so nobody stops or
  removes it and starting it adds no container.
* `ShutdownCorrect`: `Spec => ShutdownStops`. A container that has left "running" must not
  come back while stopAllContainers waits for Docker. The invariant `Known` says that every
  id read into a key, the map, a handler, a scan, a cleanup or the shutdown is of a
  container that has been started, and that what an entry of the shutdown has stopped no
  longer runs; `Names` is needed because a scan starts only what it has just created.

`LspSessionsLifeProofs` proves for any sessions, calls, scans and cleanups:

* `RenewalHolds`: `Spec => []RenewedStaysAlive` with all faults, if users do not idle at a prompt,
  `Kinds` has no uploads and `TTL >= 2`. Run lsp_idle_prompt shows that the first is needed.
  Uploads are excluded because uploadFile reads the ttl and writes the session back with
  it: a renewal whose EXPIRE comes between the two is undone, and the session expires as the next
  renewal is due; that is why the property leaves out sessions an upload has written back. It
  also leaves out those of which no renewal has succeeded since one failed: the ttl is two
  intervals, so a session lives through the interval in which its renewal fails and expires as the
  next one is due. The third assumption is the 600 s of the code. `KeepInv` says that the key of
  a session that a CLI holds, and of which no renewal has failed since, is live, with a whole
  interval left once the renewal is due and done, and that every handler and scan that is about
  to write it back writes a ttl that is no shorter than that.
* `ContainersTracked`: if "crash", "stop" and "docker" are not among the faults, `Spec =>
  []ContainerTracked`, without its condition that nothing has failed: uploads, idle users,
  expiries and errors of Redis are allowed. The
  map is lost with the process, and a failed start() or stop() leaves a container that nobody knows:
  these are what the excluded faults do. `NameInv`, which holds under every fault,
  says that nobody writes back a value without a container's id. `TrackInv` says that every id
  that anybody holds for a session is that of its container (`Right`), that a session that waits
  for a container or is being given one still has its whole ttl (`YoungKept`), that every container is known
  to the map, a scan or a cleanup (`Tracked`), and what a cleanup that has found its key
  gone may rely on until it deletes the map entry (`CleanKept`). The delicate case is a
  message that writes the session back while a cleanup stops its container, and a scan
  that takes the old id over.

`UserAccountsProofs` proves for any CLIs, accounts, tokens, sessions and requests that
`TypeOK`, `ShownUserIsSent`, `ServedForShownUser` and `DuplicatesOverlapped` hold. They need each other: `Inv` says for every request that its
token was signed for an account with the email it was sent for, that a session it
names has an owner, and that a registration that found no row of its email knows the
accounts there were, none of which has that email.

`LspFramingProofs` proves for messages of any length and any number of them, from the one
assumption that both bounds are positive:

* `ResponsesAreIntact`: `Spec => []ResponsesIntact`, `ResponsesArePrompt`: `Spec =>
  []ResponsesPrompt`, `AsciiRequestsAreIntact`: `Spec => []AsciiRequestsIntact`, and
  `TypeCorrect`: `Spec => []TypeOK`.
* *Recursion.* `Decode` and `Loop` call themselves on a shorter Buffer. The library's induction
  theorems take an operator and cannot be used, so `Induction` is stated for a set of natural
  numbers and proved from the least element of its complement (`LeastNat`, `WFMin`). `Recursion`
  says that a function defined at each argument from its value at a smaller one exists; the
  equations `DecodeEquation`, `LoopEquation` and those of `FlattenSeq` follow.
* *Codec.* `DecodeEncode`: `Decode` undoes `Encode`, for every string. `PacketShape`: a packet is a
  header, a blank line and the octets of its content, and its header has the length in the unit that
  its sender counts. The header `Fits` if that is the number of octets: downward always, upward if the
  content is ASCII (`ResponsesFit`, `AsciiFits`).
* *Loop.* `LoopOnPackets`: if what is held and what is still to come are together the packets not yet
  handed on, the loop cuts off exactly the packets that are there, as far as they fit, and
  leaves the beginning of the next one.
* *Invariant.* None of the properties is inductive: they say nothing of the octets that are held or
  under way. `InStep` says that up to the first packet that does not fit each message handed on is the
  content of the one written, and that `buffer \o wire` is the packets not yet handed on, if all handed on
  so far fit. `Inv` adds to it that no complete message is held and that the reader threw if and only if
  what it holds makes it throw. Past a packet that does not fit nothing is claimed: that is the
  case lsp_framing_wide shows.

Only model-checked are the liveness properties `ProgramStops`, `AcceptedSettles`,
`ShutdownCompletes`, `MenuReturns`, `TakenOver`, `ExpiredReclaimed`, `SessionGetsContainer`,
`CallsSettle` and `StreamEnded`. They rest on fairness, which is stated with ENABLED and is out
of the prover's reach.

## 7. Not modelled

* updateSessionContainer, getContainerId and validateSessionOwnership beyond what the gateway
  calls: the first has no caller.
* The endpoints that list a user's jobs filter by the owner in one query; nothing else
  reads another user's rows.
* The token of the WebSocket: in `LspGateway` a refused token or session is a choice.
* Leaving the CLI (exit menu) and asking for input: they keep no state that outlives
  them.
* Wiring, configuration, DTO validation, the dart-lsp image and formatting: no state
  that a property could be about.
