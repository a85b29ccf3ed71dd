------------------------------ MODULE LspSessions ------------------------------
(***************************************************************************)
(* The life of a language server session: a key in Redis that expires, the  *)
(* container the worker service runs for it, and the session's directory on *)
(* the lsp-files volume.                                                    *)
(*                                                                          *)
(* The API server and the worker share the key and nothing else: both read  *)
(* it, compute, and write the whole value back with SETEX, with awaits in   *)
(* between.  The worker's scanner and cleanup run on timers that do not     *)
(* wait for the previous run, so several runs of each may overlap.          *)
(*                                                                          *)
(* Time is counted in renewal intervals (5 minutes).  A request, a scan and *)
(* a cleanup take seconds: they interleave freely with each other and with  *)
(* an expiry, but none spans a tick.                                        *)
(***************************************************************************)
EXTENDS Naturals, FiniteSets

CONSTANTS
  Sessions,  \* session ids; ULIDs, so none is used twice
  Files,     \* sanitized names of uploaded files
  Calls,     \* uploads and LSP messages
  Kinds,     \* which of "upload" and "activity" the calls may be
  Ids,       \* Docker container ids: the bound on containers created
  Scans,     \* runs of the scanner that may overlap
  Cleanups,  \* runs of the cleanup that may overlap
  TTL,       \* SESSION_TTL in renewal intervals (600 s / 5 min = 2)
  Faults,    \* what may go wrong in this instance
  MaxFaults, \* how often, in all: a bound
  IdleUsers, \* may a user leave the CLI at a prompt for minutes
  NoKey, NoId, NoDir

ASSUME KindsAssumption == Kinds \subseteq {"upload", "activity"}
ASSUME IdleUsersAssumption == IdleUsers \in BOOLEAN
ASSUME MaxFaultsAssumption == MaxFaults \in Nat

\* The worker may die ("crash") or get SIGTERM ("stop"), and a call to Docker or
\* to Redis may report an error.
ASSUME FaultsAssumption == Faults \subseteq {"crash", "stop", "docker", "redis"}
ASSUME TTLAssumption == TTL \in Nat \ {0}
ASSUME NoIdAssumption == NoId \notin Ids
ASSUME SomeAssumption == Sessions # {} /\ Files # {}

VARIABLES
  client,     \* per session, what the CLI that created it is doing
  renewal,    \* per session, the renewal of this interval
  missed,     \* sessions of which no renewal succeeded since one failed
  key,        \* the Redis key of each session
  call,       \* the uploads and messages being handled by the API server
  directory,  \* per session, the files in its directory, or NoDir
  containerMap, \* the worker's map from sessions to containers
  container,  \* per id, the Docker container
  scan,       \* runs of scanAndCreateContainers
  cleanup,    \* runs of cleanupExpiredSessions
  shutdown,   \* per session, its container in stopAllContainers
  faults      \* faults so far

apiVars    == <<client, renewal, call>>
workerVars == <<containerMap, scan, cleanup>>
failVars   == <<shutdown, faults, missed>>
vars       == <<apiVars, key, directory, container, workerVars, failVars>>

--------------------------------------------------------------------------------
(* Types *)

Data == [id : Ids \cup {NoId}, files : SUBSET Files]
Key  == [ttl : 0 .. TTL, data : Data]
ASSUME NoKeyAssumption == NoKey \notin Key
NoData == [id |-> NoId, files |-> {}]

Container == [session : Sessions, state : {"absent", "created", "running", "exited"}]
Exists(i) == container[i].state # "absent"

\* A handler: the session and file it was called with, the await it is at, and
\* the value and the ttl it has read.
Call == [kind : {"none", "upload", "activity"}, session : Sessions, file : Files,
         pc : {"new", "get", "mkdir", "write", "ttl", "setex", "done", "failed"},
         data : Data, ttl : 0 .. TTL]

Scan == [pc : {"idle", "next", "get", "mkdir", "create", "start", "reload", "ttl", "setex"},
         todo : SUBSET Sessions, session : Sessions, id : Ids \cup {NoId},
         data : Data, ttl : 0 .. TTL]

Cleanup == [pc : {"idle", "next", "stop", "remove", "rm"}, seen : SUBSET Sessions,
            cleaned : SUBSET Sessions, session : Sessions, id : Ids \cup {NoId}]

Stopping == [pc : {"no", "stop", "remove", "rm", "failed", "done"}, id : Ids \cup {NoId}]
NotStopping == [pc |-> "no", id |-> NoId]

TypeOK ==
  /\ client \in [Sessions -> {"none", "connecting", "open", "prompt", "closed"}]
  /\ renewal \in [Sessions -> {"idle", "due", "expire"}]
  /\ missed \subseteq Sessions
  /\ key \in [Sessions -> Key \cup {NoKey}]
  /\ call \in [Calls -> Call]
  /\ directory \in [Sessions -> (SUBSET Files) \cup {NoDir}]
  /\ containerMap \in [Sessions -> Ids \cup {NoId}]
  /\ container \in [Ids -> Container]
  /\ scan \in [Scans -> Scan]
  /\ cleanup \in [Cleanups -> Cleanup]
  /\ shutdown \in [Sessions -> Stopping]
  /\ faults \in 0 .. MaxFaults

AnySession == CHOOSE s \in Sessions : TRUE
IdleScan    == [pc |-> "idle", todo |-> {}, session |-> AnySession, id |-> NoId,
                data |-> NoData, ttl |-> 0]
IdleCleanup == [pc |-> "idle", seen |-> {}, cleaned |-> {}, session |-> AnySession,
                id |-> NoId]
NewCall     == [kind |-> "none", session |-> AnySession, file |-> CHOOSE f \in Files : TRUE,
                pc |-> "new", data |-> NoData, ttl |-> 0]

Init ==
  /\ client = [s \in Sessions |-> "none"]
  /\ renewal = [s \in Sessions |-> "idle"]
  /\ missed = {}
  /\ key = [s \in Sessions |-> NoKey]
  /\ call = [r \in Calls |-> NewCall]
  /\ directory = [s \in Sessions |-> NoDir]
  /\ containerMap = [s \in Sessions |-> NoId]
  /\ container = [i \in Ids |-> [session |-> AnySession, state |-> "absent"]]
  /\ scan = [k \in Scans |-> IdleScan]
  /\ cleanup = [k \in Cleanups |-> IdleCleanup]
  /\ shutdown = [s \in Sessions |-> NotStopping]
  /\ faults = 0

\* A call to the service may report an error.
Fault(kind) ==
  /\ kind \in Faults
  /\ faults < MaxFaults
  /\ faults' = faults + 1

--------------------------------------------------------------------------------
(* Redis *)

Live(s) == key[s] # NoKey

\* SETEX writes the value whether or not the key is still there; EXPIRE does
\* nothing to a key that is gone.
Setex(s, ttl, data) == key' = [key EXCEPT ![s] = [ttl |-> ttl, data |-> data]]
ExpireIn(s, ttl)    == key' = [key EXCEPT ![s] = IF @ = NoKey THEN @ ELSE [@ EXCEPT !.ttl = ttl]]

\* TTL answers -2 for a missing key; the code only asks whether it is positive.
TtlOf(s) == IF Live(s) THEN key[s].ttl ELSE 0

Expire(s) ==
  /\ Live(s)
  /\ key[s].ttl = 0
  /\ key' = [key EXCEPT ![s] = NoKey]
  /\ UNCHANGED <<apiVars, directory, container, workerVars, failVars>>

Holding(s) == client[s] \in {"open", "prompt"}

\* A timer that is due waits for the isolate, which a prompt blocks.
Blocked(s) == IdleUsers /\ client[s] = "prompt" /\ renewal[s] = "due"

Quiet ==
  /\ \A s \in Sessions : client[s] # "connecting"
  /\ \A s \in Sessions : renewal[s] = "idle" \/ Blocked(s)
  /\ \A r \in Calls : call[r].pc \in {"new", "done", "failed"}
  /\ \A k \in Scans : scan[k].pc = "idle"
  /\ \A k \in Cleanups : cleanup[k].pc = "idle"
  /\ shutdown = [s \in Sessions |-> NotStopping]

NameInUse(s) == \E i \in Ids : Exists(i) /\ container[i].session = s

\* The scanner has nothing to do for the session, or cannot: the name of its
\* container is taken by one that no map and no session knows.
Scanned(s) == containerMap[s] # NoId \/ (key[s].data.id = NoId /\ NameInUse(s))

\* Five minutes pass: every ttl drops and the timer of every open CLI is due.
\* The scanner, which runs every 5 seconds, has seen every session by then.
Tick ==
  /\ Quiet
  /\ \E s \in Sessions : Live(s)
  /\ \A s \in Sessions : Live(s) => key[s].ttl > 0 /\ Scanned(s)
  /\ ~IdleUsers => \A s \in Sessions : client[s] # "prompt"
  /\ key' = [s \in Sessions |-> IF Live(s) THEN [key[s] EXCEPT !.ttl = @ - 1] ELSE NoKey]
  /\ renewal' = [s \in Sessions |-> IF Holding(s) THEN "due" ELSE "idle"]
  /\ UNCHANGED <<client, call, directory, container, workerVars, failVars>>

--------------------------------------------------------------------------------
(* The CLI and the session endpoints of the API server *)

CreateSession(s) ==
  /\ client[s] = "none"
  /\ client' = [client EXCEPT ![s] = "connecting"]
  /\ Setex(s, TTL, NoData)
  /\ UNCHANGED <<renewal, call, directory, container, workerVars, failVars>>

Connectable(s) ==
  Live(s) /\ \E i \in Ids : key[s].data.id = i /\ container[i].state = "running"

CliMoves(s, from, to) ==
  /\ client[s] = from
  /\ client' = [client EXCEPT ![s] = to]
  /\ UNCHANGED <<renewal, call, key, directory, container, workerVars, failVars>>

\* The CLI connects and starts its timer, or connecting fails (no container yet)
\* and the CLI forgets the session it created.
Open(s)      == Connectable(s) /\ CliMoves(s, "connecting", "open")
OpenFails(s) == CliMoves(s, "connecting", "closed")

\* selectMenu, readLine and waitForEnter read the keyboard synchronously.
Prompt(s)       == CliMoves(s, "open", "prompt")
AnswerPrompt(s) == CliMoves(s, "prompt", "open")

\* disconnect(): the renewal timer is cancelled; the API server is not told.
CloseSession(s) ==
  /\ client[s] = "open"
  /\ client' = [client EXCEPT ![s] = "closed"]
  /\ renewal' = [renewal EXCEPT ![s] = IF @ = "due" THEN "idle" ELSE @]
  /\ UNCHANGED <<call, key, directory, container, workerVars, failVars>>

\* renewSession: GET, 404 without a key, then EXPIRE.
RenewGet(s) ==
  /\ renewal[s] = "due"
  /\ client[s] = "open"
  /\ renewal' = [renewal EXCEPT ![s] = IF Live(s) THEN "expire" ELSE "idle"]
  /\ UNCHANGED <<client, call, key, directory, container, workerVars, failVars>>

\* Mutant of RenewExpire: ten minutes are added to what is left.
RenewExtends(s) ==
  /\ renewal[s] = "expire"
  /\ renewal' = [renewal EXCEPT ![s] = "idle"]
  /\ ExpireIn(s, TtlOf(s) + TTL)
  /\ missed' = IF Live(s) THEN missed \ {s} ELSE missed
  /\ UNCHANGED <<client, call, directory, container, workerVars, shutdown, faults>>

RenewExpire(s) ==
  /\ renewal[s] = "expire"
  /\ renewal' = [renewal EXCEPT ![s] = "idle"]
  /\ ExpireIn(s, TTL)
  /\ missed' = IF Live(s) THEN missed \ {s} ELSE missed
  /\ UNCHANGED <<client, call, directory, container, workerVars, shutdown, faults>>

\* GET or EXPIRE is rejected: the CLI swallows the error of its request and waits for
\* the next interval.
RenewFails(s) ==
  /\ renewal[s] = "expire" \/ (renewal[s] = "due" /\ client[s] = "open")
  /\ Fault("redis")
  /\ renewal' = [renewal EXCEPT ![s] = "idle"]
  /\ missed' = missed \cup {s}
  /\ UNCHANGED <<client, call, key, directory, container, workerVars, shutdown>>

\* POST .../files, or an lsp-connect or lsp-message that updates the activity.
\* The CLI uploads from a menu that needs an open session; the gateway gets as far
\* as updateLastActivity only if the session names a running container.
Receive(r) ==
  /\ call[r].pc = "new"
  /\ \E kind \in Kinds, s \in Sessions, f \in Files :
       /\ kind = "upload" => Holding(s)
       /\ kind = "activity" => client[s] # "none" /\ Connectable(s)
       /\ call' = [call EXCEPT ![r].kind = kind, ![r].session = s, ![r].file = f, ![r].pc = "get"]
  /\ UNCHANGED <<client, renewal, key, directory, container, workerVars, failVars>>

CallGoto(r, pc) == call' = [call EXCEPT ![r].pc = pc]

\* Mutant of GetSession: the ttl is read together with the value.
GetSessionAndTtl(r) ==
  /\ call[r].pc = "get"
  /\ LET s == call[r].session IN
       IF Live(s) /\ key[s].ttl > 0
       THEN call' = [call EXCEPT ![r].data = key[s].data,
                       ![r].pc = IF call[r].kind = "upload" THEN "mkdir" ELSE "setex",
                       ![r].ttl = key[s].ttl]
       ELSE CallGoto(r, "failed")
  /\ UNCHANGED <<client, renewal, key, directory, container, workerVars, failVars>>

\* The value is read here and written back at the end of the handler.
GetSession(r) ==
  /\ call[r].pc = "get"
  /\ LET s == call[r].session IN
       IF Live(s)
       THEN call' = [call EXCEPT ![r].data = key[s].data,
                       ![r].pc = IF call[r].kind = "upload" THEN "mkdir" ELSE "setex",
                       ![r].ttl = TTL]
       ELSE CallGoto(r, "failed")
  /\ UNCHANGED <<client, renewal, key, directory, container, workerVars, failVars>>

MakeDirectory(s) ==
  directory' = [directory EXCEPT ![s] = IF @ = NoDir THEN {} ELSE @]

UploadMkdir(r) ==
  /\ call[r].pc = "mkdir"
  /\ MakeDirectory(call[r].session)
  /\ CallGoto(r, "write")
  /\ UNCHANGED <<client, renewal, key, container, workerVars, failVars>>

\* writeFile fails when the cleanup has removed the directory in between.
UploadWrite(r) ==
  /\ call[r].pc = "write"
  /\ LET s == call[r].session IN
       IF directory[s] = NoDir
       THEN CallGoto(r, "failed") /\ UNCHANGED directory
       ELSE /\ directory' = [directory EXCEPT ![s] = @ \cup {call[r].file}]
            /\ call' = [call EXCEPT ![r].pc = "ttl",
                          ![r].data.files = @ \cup {call[r].file}]
  /\ UNCHANGED <<client, renewal, key, container, workerVars, failVars>>

UploadTtl(r) ==
  /\ call[r].pc = "ttl"
  /\ LET ttl == TtlOf(call[r].session) IN
       call' = [call EXCEPT ![r].pc = IF ttl > 0 THEN "setex" ELSE "done", ![r].ttl = ttl]
  /\ UNCHANGED <<client, renewal, key, directory, container, workerVars, failVars>>

\* The end of uploadFile and of updateLastActivity.
CallSetex(r) ==
  /\ call[r].pc = "setex"
  /\ Setex(call[r].session, call[r].ttl, call[r].data)
  /\ CallGoto(r, "done")
  /\ UNCHANGED <<client, renewal, directory, container, workerVars, failVars>>

\* A rejected Redis call: the request is answered with an error.
CallRedisFails(r) ==
  /\ call[r].pc \in {"get", "ttl", "setex"}
  /\ Fault("redis")
  /\ CallGoto(r, "failed")
  /\ UNCHANGED <<client, renewal, key, directory, container, workerVars, shutdown, missed>>

--------------------------------------------------------------------------------
(* The worker's scanner: scanAndCreateContainers and startContainer *)

ScanGoto(k, pc) == scan' = [scan EXCEPT ![k].pc = pc]

ScanStart(k) ==
  /\ scan[k].pc = "idle"
  /\ scan' = [scan EXCEPT ![k] = [IdleScan EXCEPT !.pc = "next",
                                    !.todo = {s \in Sessions : Live(s)}]]
  /\ UNCHANGED <<apiVars, key, directory, container, containerMap, cleanup, failVars>>

\* One key of the list, in any order: skipped if the map has it.
ScanNext(k) ==
  /\ scan[k].pc = "next"
  /\ \E s \in scan[k].todo :
       scan' = [scan EXCEPT ![k].todo = @ \ {s}, ![k].session = s,
                  ![k].pc = IF containerMap[s] # NoId THEN "next" ELSE "get"]
  /\ UNCHANGED <<apiVars, key, directory, container, containerMap, cleanup, failVars>>

ScanEnd(k) ==
  /\ scan[k].pc = "next"
  /\ scan[k].todo = {}
  /\ scan' = [scan EXCEPT ![k] = IdleScan]
  /\ UNCHANGED <<apiVars, key, directory, container, containerMap, cleanup, failVars>>

\* Mutant of ScanGet: a session that names its container is only skipped.
ScanSkip(k) ==
  /\ scan[k].pc = "get"
  /\ LET s == scan[k].session IN
       ScanGoto(k, IF Live(s) /\ key[s].data.id = NoId THEN "mkdir" ELSE "next")
  /\ UNCHANGED <<apiVars, key, directory, container, containerMap, cleanup, failVars>>

\* A session that names its container, from an earlier life of the worker, is
\* taken over; one that does not gets a container.
ScanGet(k) ==
  /\ scan[k].pc = "get"
  /\ LET s == scan[k].session IN
       IF Live(s) /\ key[s].data.id = NoId
       THEN ScanGoto(k, "mkdir") /\ UNCHANGED containerMap
       ELSE /\ ScanGoto(k, "next")
            /\ containerMap' = [containerMap EXCEPT ![s] = IF Live(s) THEN key[s].data.id ELSE @]
  /\ UNCHANGED <<apiVars, key, directory, container, cleanup, failVars>>

ScanMkdir(k) ==
  /\ scan[k].pc = "mkdir"
  /\ MakeDirectory(scan[k].session)
  /\ ScanGoto(k, "create")
  /\ UNCHANGED <<apiVars, key, container, containerMap, cleanup, failVars>>

\* Docker never gives an id twice: an id of a deleted container stands for a new
\* one once nothing holds it any longer.
Fresh(i) ==
  /\ ~Exists(i)
  /\ \A s \in Sessions :
       /\ Live(s) => key[s].data.id # i
       /\ containerMap[s] # i
       /\ shutdown[s].id # i
  /\ \A r \in Calls : call[r].data.id # i
  /\ \A k \in Scans : scan[k].id # i /\ scan[k].data.id # i
  /\ \A k \in Cleanups : cleanup[k].id # i

\* Mutant of ScanCreate: the container is created without a name of its own.
ScanCreateUnnamed(k) ==
  /\ scan[k].pc = "create"
  /\ \E i \in Ids :
       /\ Fresh(i)
       /\ container' = [container EXCEPT ![i] = [session |-> scan[k].session, state |-> "created"]]
       /\ scan' = [scan EXCEPT ![k].id = i, ![k].pc = "start"]
  /\ UNCHANGED <<apiVars, key, directory, containerMap, cleanup, failVars>>

\* The container is named lsp-<session>: Docker refuses a name in use (409), and
\* the scan goes on with the next key.
ScanCreate(k) ==
  /\ scan[k].pc = "create"
  /\ LET s == scan[k].session IN
       \/ /\ NameInUse(s)
          /\ ScanGoto(k, "next")
          /\ UNCHANGED container
       \/ /\ ~NameInUse(s)
          /\ \E i \in Ids :
               /\ Fresh(i)
               /\ container' = [container EXCEPT ![i] = [session |-> s, state |-> "created"]]
               /\ scan' = [scan EXCEPT ![k].id = i, ![k].pc = "start"]
  /\ UNCHANGED <<apiVars, key, directory, containerMap, cleanup, failVars>>

\* container.start resolves and the map is set before the next await.
ScanLaunch(k) ==
  /\ scan[k].pc = "start"
  /\ container' = [container EXCEPT ![scan[k].id].state = "running"]
  /\ containerMap' = [containerMap EXCEPT ![scan[k].session] = scan[k].id]
  /\ ScanGoto(k, "reload")
  /\ UNCHANGED <<apiVars, key, directory, cleanup, failVars>>

\* Mutant of ScanReload: the value is written back without the container's id.
ScanReloadOnly(k) ==
  /\ scan[k].pc = "reload"
  /\ LET s == scan[k].session IN
       IF Live(s)
       THEN scan' = [scan EXCEPT ![k].data = key[s].data, ![k].pc = "ttl"]
       ELSE ScanGoto(k, "next")
  /\ UNCHANGED <<apiVars, key, directory, container, containerMap, cleanup, failVars>>

ScanReload(k) ==
  /\ scan[k].pc = "reload"
  /\ LET s == scan[k].session IN
       IF Live(s)
       THEN scan' = [scan EXCEPT ![k].data = [key[s].data EXCEPT !.id = scan[k].id],
                       ![k].pc = "ttl"]
       ELSE ScanGoto(k, "next")
  /\ UNCHANGED <<apiVars, key, directory, container, containerMap, cleanup, failVars>>

ScanTtl(k) ==
  /\ scan[k].pc = "ttl"
  /\ LET ttl == TtlOf(scan[k].session) IN
       scan' = [scan EXCEPT ![k].pc = IF ttl > 0 THEN "setex" ELSE "next", ![k].ttl = ttl]
  /\ UNCHANGED <<apiVars, key, directory, container, containerMap, cleanup, failVars>>

ScanSetex(k) ==
  /\ scan[k].pc = "setex"
  /\ Setex(scan[k].session, scan[k].ttl, scan[k].data)
  /\ ScanGoto(k, "next")
  /\ UNCHANGED <<apiVars, directory, container, containerMap, cleanup, failVars>>

\* start() fails and the created container stays; or Docker refuses to create one.
\* Either is caught, and the scan goes on with the next key.
ScanDockerFails(k) ==
  /\ scan[k].pc \in {"create", "start"}
  /\ Fault("docker")
  /\ scan' = [scan EXCEPT ![k].pc = "next", ![k].id = NoId]
  /\ UNCHANGED <<apiVars, key, directory, container, containerMap, cleanup, shutdown, missed>>

\* An error of the first GET ends the scan; the later ones are caught per key, and
\* the container stays in the map without an id in its session.
ScanRedisFails(k) ==
  /\ scan[k].pc \in {"get", "reload", "ttl", "setex"}
  /\ Fault("redis")
  /\ IF scan[k].pc = "get" THEN scan' = [scan EXCEPT ![k] = IdleScan] ELSE ScanGoto(k, "next")
  /\ UNCHANGED <<apiVars, key, directory, container, containerMap, cleanup, shutdown, missed>>

--------------------------------------------------------------------------------
(* The worker's cleanup: cleanupExpiredSessions and stopContainer *)

CleanupGoto(k, pc) == cleanup' = [cleanup EXCEPT ![k].pc = pc]

\* SIGTERM clears the interval of the cleanup, not that of the scanner.
CleanupStart(k) ==
  /\ cleanup[k].pc = "idle"
  /\ shutdown = [s \in Sessions |-> NotStopping]
  /\ cleanup' = [cleanup EXCEPT ![k] = [IdleCleanup EXCEPT !.pc = "next"]]
  /\ UNCHANGED <<apiVars, key, directory, container, containerMap, scan, failVars>>

\* The iteration over the map sees entries added while it runs.
Unseen(k) == {s \in Sessions : containerMap[s] # NoId /\ s \notin cleanup[k].seen}

CleanupNext(k) ==
  /\ cleanup[k].pc = "next"
  /\ \E s \in Unseen(k) :
       \/ /\ Live(s)
          /\ cleanup' = [cleanup EXCEPT ![k].seen = @ \cup {s}]
       \/ /\ ~Live(s)
          /\ cleanup' = [cleanup EXCEPT ![k].seen = @ \cup {s}, ![k].cleaned = @ \cup {s},
                           ![k].session = s, ![k].id = containerMap[s], ![k].pc = "stop"]
  /\ UNCHANGED <<apiVars, key, directory, container, containerMap, scan, failVars>>

\* Mutant of CleanupEnd: whether a session is gone is asked again at the end.
CleanupForgetExpired(k) ==
  /\ cleanup[k].pc = "next"
  /\ Unseen(k) = {}
  /\ containerMap' = [s \in Sessions |-> IF Live(s) THEN containerMap[s] ELSE NoId]
  /\ cleanup' = [cleanup EXCEPT ![k] = IdleCleanup]
  /\ UNCHANGED <<apiVars, key, directory, container, scan, failVars>>

\* The sessions found gone leave the map at the end, whether or not their
\* container could be stopped.
CleanupEnd(k) ==
  /\ cleanup[k].pc = "next"
  /\ Unseen(k) = {}
  /\ containerMap' = [s \in Sessions |-> IF s \in cleanup[k].cleaned THEN NoId ELSE containerMap[s]]
  /\ cleanup' = [cleanup EXCEPT ![k] = IdleCleanup]
  /\ UNCHANGED <<apiVars, key, directory, container, scan, failVars>>

\* stop, remove and rm; an error of the first two ends stopContainer, and so
\* does the answer that the container is not running or is gone already.
StopContainer(k) ==
  /\ cleanup[k].pc = "stop"
  /\ LET i == cleanup[k].id IN
       IF container[i].state = "running"
       THEN container' = [container EXCEPT ![i].state = "exited"] /\ CleanupGoto(k, "remove")
       ELSE CleanupGoto(k, "next") /\ UNCHANGED container
  /\ UNCHANGED <<apiVars, key, directory, containerMap, scan, failVars>>

\* Mutant of RemoveContainer: the directory is removed, the container is not.
RemoveFilesOnly(k) ==
  /\ cleanup[k].pc = "remove"
  /\ CleanupGoto(k, "rm")
  /\ UNCHANGED <<apiVars, key, directory, container, containerMap, scan, failVars>>

RemoveContainer(k) ==
  /\ cleanup[k].pc = "remove"
  /\ LET i == cleanup[k].id IN
       IF container[i].state = "exited"
       THEN container' = [container EXCEPT ![i].state = "absent"] /\ CleanupGoto(k, "rm")
       ELSE CleanupGoto(k, "next") /\ UNCHANGED container
  /\ UNCHANGED <<apiVars, key, directory, containerMap, scan, failVars>>

RemoveDirectory(k) ==
  /\ cleanup[k].pc = "rm"
  /\ directory' = [directory EXCEPT ![cleanup[k].session] = NoDir]
  /\ CleanupGoto(k, "next")
  /\ UNCHANGED <<apiVars, key, container, containerMap, scan, failVars>>

\* stopContainer swallows an error of Docker; the session leaves the map at the
\* end of the run all the same.
CleanupDockerFails(k) ==
  /\ cleanup[k].pc \in {"stop", "remove"}
  /\ Fault("docker")
  /\ CleanupGoto(k, "next")
  /\ UNCHANGED <<apiVars, key, directory, container, containerMap, scan, shutdown, missed>>

\* An error of EXISTS ends the run before anything leaves the map.
CleanupRedisFails(k) ==
  /\ cleanup[k].pc = "next"
  /\ Unseen(k) # {}
  /\ Fault("redis")
  /\ cleanup' = [cleanup EXCEPT ![k] = IdleCleanup]
  /\ UNCHANGED <<apiVars, key, directory, container, containerMap, scan, shutdown, missed>>

--------------------------------------------------------------------------------
(* SIGTERM: onModuleDestroy and stopAllContainers *)

\* The entries of the map are stopped in parallel.
Sigterm ==
  /\ shutdown = [s \in Sessions |-> NotStopping]
  /\ Fault("stop")
  /\ shutdown' = [s \in Sessions |->
       [pc |-> IF containerMap[s] = NoId THEN "done" ELSE "stop", id |-> containerMap[s]]]
  /\ UNCHANGED <<apiVars, missed, key, directory, container, workerVars>>

ShutdownGoto(s, pc) == shutdown' = [shutdown EXCEPT ![s].pc = pc]

\* stopContainer again: an entry is over when Docker has nothing to stop or remove.
ShutdownStep(s) ==
  /\ LET i == shutdown[s].id IN
       \/ /\ shutdown[s].pc = "stop"
          /\ IF container[i].state = "running"
             THEN container' = [container EXCEPT ![i].state = "exited"] /\ ShutdownGoto(s, "remove")
             ELSE ShutdownGoto(s, "done") /\ UNCHANGED container
          /\ UNCHANGED directory
       \/ /\ shutdown[s].pc = "remove"
          /\ IF container[i].state = "exited"
             THEN container' = [container EXCEPT ![i].state = "absent"] /\ ShutdownGoto(s, "rm")
             ELSE ShutdownGoto(s, "done") /\ UNCHANGED container
          /\ UNCHANGED directory
       \/ /\ shutdown[s].pc = "rm"
          /\ directory' = [directory EXCEPT ![s] = NoDir]
          /\ ShutdownGoto(s, "done")
          /\ UNCHANGED container
  /\ UNCHANGED <<apiVars, key, workerVars, faults, missed>>

\* An error while an entry is stopped; the shutdown itself is already counted in faults.
ShutdownDockerFails(s) ==
  /\ shutdown[s].pc \in {"stop", "remove"}
  /\ "docker" \in Faults
  /\ ShutdownGoto(s, "failed")
  /\ UNCHANGED <<apiVars, missed, key, directory, container, workerVars, faults>>

\* The process is gone and a new one starts: its map and its runs are lost.
Restart ==
  /\ shutdown' = [s \in Sessions |-> NotStopping]
  /\ containerMap' = [s \in Sessions |-> NoId]
  /\ scan' = [k \in Scans |-> IdleScan]
  /\ cleanup' = [k \in Cleanups |-> IdleCleanup]
  /\ UNCHANGED <<apiVars, missed, key, directory, container>>

\* Mutant of ShutdownEnds: the promises of stopAllContainers are not awaited.
ShutdownEndsEarly ==
  /\ \E s \in Sessions : shutdown[s].pc # "no"
  /\ Restart
  /\ UNCHANGED faults

\* All settled: the map is cleared and the Redis connection closed.  The interval
\* of the scanner keeps the process alive until Docker kills it, but without Redis
\* a scan can only finish what it could have done before.
ShutdownEnds ==
  /\ \A s \in Sessions : shutdown[s].pc \in {"done", "failed"}
  /\ Restart
  /\ UNCHANGED faults

\* The process dies, also in the middle of a shutdown.
Crash == Fault("crash") /\ Restart

--------------------------------------------------------------------------------
(* Specification *)

Cli(s) ==
  \/ CreateSession(s)
  \/ Open(s)
  \/ OpenFails(s)
  \/ Prompt(s)
  \/ AnswerPrompt(s)
  \/ CloseSession(s)

Renew(s) == RenewGet(s) \/ RenewExpire(s)

Handle(r) ==
  \/ GetSession(r)
  \/ UploadMkdir(r)
  \/ UploadWrite(r)
  \/ UploadTtl(r)
  \/ CallSetex(r)

ScanAndCreate(k) ==
  \/ ScanStart(k)
  \/ ScanNext(k)
  \/ ScanEnd(k)
  \/ ScanGet(k)
  \/ ScanMkdir(k)
  \/ ScanCreate(k)
  \/ ScanLaunch(k)
  \/ ScanReload(k)
  \/ ScanTtl(k)
  \/ ScanSetex(k)

CleanExpired(k) ==
  \/ CleanupStart(k)
  \/ CleanupNext(k)
  \/ CleanupEnd(k)
  \/ StopContainer(k)
  \/ RemoveContainer(k)
  \/ RemoveDirectory(k)

StopAll == ShutdownEnds \/ \E s \in Sessions : ShutdownStep(s)

Fail ==
  \/ Crash
  \/ Sigterm
  \/ \E r \in Calls : CallRedisFails(r)
  \/ \E k \in Scans : ScanDockerFails(k) \/ ScanRedisFails(k)
  \/ \E k \in Cleanups : CleanupDockerFails(k) \/ CleanupRedisFails(k)
  \/ \E s \in Sessions : ShutdownDockerFails(s) \/ RenewFails(s)

Next ==
  \/ Tick
  \/ \E s \in Sessions : Expire(s) \/ Cli(s) \/ Renew(s)
  \/ \E r \in Calls : Receive(r) \/ Handle(r)
  \/ \E k \in Scans : ScanAndCreate(k)
  \/ \E k \in Cleanups : CleanExpired(k)
  \/ StopAll
  \/ Fail

Spec == Init /\ [][Next]_vars

\* Redis expires keys, awaited calls settle, and the two intervals keep firing.
\* Nothing is assumed of the clients or of the passing of time.
Fairness ==
  /\ \A s \in Sessions : WF_vars(Expire(s)) /\ WF_vars(Renew(s))
  /\ \A r \in Calls : WF_vars(Handle(r))
  /\ \A k \in Scans : WF_vars(ScanAndCreate(k))
  /\ \A k \in Cleanups : WF_vars(CleanExpired(k))
  /\ WF_vars(StopAll)

FairSpec == Spec /\ Fairness

--------------------------------------------------------------------------------
(* Safety *)

\* However many scans overlap, also across a restart of the worker, a session
\* never has two containers, so every client of it reaches the same server.
OneContainerPerSession ==
  \A i, n \in Ids :
    Exists(i) /\ Exists(n) /\ container[i].session = container[n].session => i = n

\* A container that is in the worker's map, or that a scan or a cleanup has in hand.
Findable(i) ==
  \/ \E s \in Sessions : containerMap[s] = i
  \/ \E k \in Scans : scan[k].pc = "start" /\ scan[k].id = i
  \/ \E k \in Cleanups : cleanup[k].pc = "remove" /\ cleanup[k].id = i

\* As long as nothing has failed, the worker loses no container: however scans,
\* cleanups, expiries and late calls that write a session back interleave, each
\* container can be found again (scanAndCreateContainers, cleanupExpiredSessions).
ContainerTracked == faults = 0 => \A i \in Ids : Exists(i) => Findable(i)

\* A worker that got SIGTERM goes down only when no container it knew of is left
\* running, also when a cleanup of the same container is under way, unless Docker
\* refused (onModuleDestroy, stopAllContainers).
ShutdownStops ==
  [][\A s \in Sessions :
       shutdown[s].id # NoId /\ shutdown'[s].id = NoId /\ faults' = faults
         => shutdown[s].pc = "failed" \/ container'[shutdown[s].id].state # "running"]_vars

\* The CLI renews every 5 minutes and its session outlives that: "Sessions expire
\* after 600 seconds, so renewing every 5 minutes keeps them alive"
\* (lsp_session_manager.dart).
RenewalKeepsAlive == \A s \in Sessions : Holding(s) => Live(s)

\* uploadFile has written a session back with the ttl that it had read.
TtlRewritten(s) ==
  \E r \in Calls : call[r].kind = "upload" /\ call[r].session = s /\ call[r].pc = "done"

\* No scan and no message that writes back what it has read takes a renewal back: a
\* session that a CLI holds is alive unless an upload did so, or a renewal failed and
\* none has succeeded since.  One that failed is enough, since the next is due when
\* the key expires (startRenewal, renewSession).
RenewedStaysAlive ==
  \A s \in Sessions : Holding(s) => Live(s) \/ s \in missed \/ TtlRewritten(s)

--------------------------------------------------------------------------------
(* Liveness *)

HasContainer(s) == \E i \in Ids : Exists(i) /\ container[i].session = s

\* The container of an expired session is deleted, unless a late call brings the
\* session back or something fails: no overlap of scans, cleanups and calls with the
\* expiry makes the worker forget it (cleanupExpiredSessions).
ExpiredReclaimed ==
  \A s \in Sessions :
    (faults = 0 /\ HasContainer(s) /\ ~Live(s)) ~> (~HasContainer(s) \/ Live(s) \/ faults > 0)

\* A session the API created gets a container whose id the gateway can read, if
\* it does not expire first and nothing fails.
SessionGetsContainer ==
  \A s \in Sessions :
    (faults = 0 /\ Live(s)) ~> (~Live(s) \/ key[s].data.id # NoId \/ faults > 0)

\* A restarted worker takes over the containers that live sessions name, so that
\* they are deleted when the sessions expire.
TakenOver ==
  \A s \in Sessions :
    (Live(s) /\ key[s].data.id # NoId) ~> (~Live(s) \/ containerMap[s] # NoId)
================================================================================
