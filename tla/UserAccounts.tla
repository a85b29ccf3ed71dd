----------------------------- MODULE UserAccounts -----------------------------
(***************************************************************************)
(* Accounts, tokens and what they give access to: the register, login,      *)
(* logout, run code and session menus of several CLIs, and the handlers of  *)
(* the API server behind them.                                              *)
(*                                                                          *)
(* A CLI runs one menu at a time and waits for its answer, for 10 seconds   *)
(* at most; the server finishes a request nobody waits for any longer.  The *)
(* user of a CLI may change while a language server session opened by the   *)
(* previous one stays in its session manager, whose renewals go out         *)
(* whenever a menu awaits something.                                        *)
(*                                                                          *)
(* A password stands for its hash and salt, a token for the signed user id. *)
(***************************************************************************)
EXTENDS Naturals

CONSTANTS
  Clis, Emails, Passwords,
  UserIds,    \* ULIDs: a bound on registrations
  Tokens,     \* a bound on logins
  SessionIds, \* ULIDs: a bound on sessions
  Requests,   \* a bound on requests under way
  None

ASSUME NoneAssumption ==
  None \notin UserIds \cup Tokens \cup SessionIds \cup Requests \cup Emails \cup Passwords

ASSUME ClisAssumption == Clis # {}

VARIABLES
  users,   \* the User table
  issued,  \* per token, the userId it was signed for
  expired, \* tokens older than a day
  owner,   \* per session, the userId in its data
  live,    \* sessions whose Redis key has not expired
  request, \* the requests under way
  storage, \* per CLI, the TokenStorage
  header,  \* per CLI, the token in the Authorization header of dio
  held,    \* per CLI, currentSessionId (activeClient is set and cleared with it)
  waits    \* per CLI, the request its menu awaits

serverVars == <<users, issued, expired, owner, live>>
cliVars    == <<storage, header, held, waits>>
vars       == <<serverVars, request, cliVars>>

--------------------------------------------------------------------------------
(* Types *)

Kinds   == {"register", "login", "submit", "open", "upload", "renew"}
Replies == {"none", "ok", "400", "401", "403", "404", "422"}

\* A row, with the ids that existed when its registration looked for the email.
User == [email : Emails, password : Passwords, known : SUBSET UserIds]
ASSUME NoRowAssumption == None \notin User

\* A request: its sender, its body (for a menu of a user who is logged in, the
\* email the CLI shows), the await its handler is at, and the answer.
Request ==
  [kind : Kinds, cli : Clis, email : Emails \cup {None}, password : Passwords \cup {None},
   token : Tokens \cup {None}, session : SessionIds \cup {None},
   pc : {"idle", "sent", "next", "answered"}, known : SUBSET UserIds, reply : Replies]

\* deleteToken clears both.
LoggedOut == [token |-> None, email |-> None]

TypeOK ==
  /\ users \in [UserIds -> User \cup {None}]
  /\ issued \in [Tokens -> UserIds \cup {None}]
  /\ expired \subseteq Tokens
  /\ owner \in [SessionIds -> UserIds \cup {None}]
  /\ live \subseteq SessionIds
  /\ request \in [Requests -> Request]
  /\ storage \in [Clis -> [token : Tokens, email : Emails] \cup {LoggedOut}]
  /\ header \in [Clis -> Tokens \cup {None}]
  /\ held \in [Clis -> SessionIds \cup {None}]
  /\ waits \in [Clis -> Requests \cup {None}]

Idle == [kind |-> "renew", cli |-> CHOOSE c \in Clis : TRUE, email |-> None, password |-> None,
         token |-> None, session |-> None, pc |-> "idle", known |-> {}, reply |-> "none"]

Init ==
  /\ users = [u \in UserIds |-> None]
  /\ issued = [t \in Tokens |-> None]
  /\ expired = {}
  /\ owner = [s \in SessionIds |-> None]
  /\ live = {}
  /\ request = [r \in Requests |-> Idle]
  /\ storage = [c \in Clis |-> LoggedOut]
  /\ header = [c \in Clis |-> None]
  /\ held = [c \in Clis |-> None]
  /\ waits = [c \in Clis |-> None]

--------------------------------------------------------------------------------
(* The menus of the CLI *)

IsLoggedIn(c) == storage[c].token # None

\* dio sends whatever the header holds at this moment; /users and /login do not
\* look at it.
Send(c, r, kind, email, password, session) ==
  /\ request[r].pc = "idle"
  /\ request' = [request EXCEPT ![r] =
       [kind |-> kind, cli |-> c, email |-> email, password |-> password,
        token |-> IF kind \in {"register", "login"} THEN None ELSE header[c],
        session |-> session, pc |-> "sent", known |-> {}, reply |-> "none"]]
  /\ UNCHANGED <<serverVars, storage, header, held>>

Menu(c, r, kind, email, password, session) ==
  /\ waits[c] = None
  /\ waits' = [waits EXCEPT ![c] = r]
  /\ Send(c, r, kind, email, password, session)

\* Nothing asks whether somebody is logged in already.
Register(c, r) == \E e \in Emails, p \in Passwords : Menu(c, r, "register", e, p, None)
Login(c, r)    == \E e \in Emails, p \in Passwords : Menu(c, r, "login", e, p, None)

RunCode(c, r) == IsLoggedIn(c) /\ Menu(c, r, "submit", storage[c].email, None, None)

OpenSession(c, r) ==
  /\ IsLoggedIn(c)
  /\ held[c] = None
  /\ Menu(c, r, "open", storage[c].email, None, None)

GotoDefinition(c, r) ==
  /\ IsLoggedIn(c)
  /\ held[c] # None
  /\ Menu(c, r, "upload", storage[c].email, None, held[c])

CloseSession(c) ==
  /\ waits[c] = None
  /\ IsLoggedIn(c)
  /\ held[c] # None
  /\ held' = [held EXCEPT ![c] = None]
  /\ UNCHANGED <<serverVars, request, storage, header, waits>>

\* Mutant of Logout: the header is left alone.
LogoutStorage(c) ==
  /\ waits[c] = None
  /\ IsLoggedIn(c)
  /\ storage' = [storage EXCEPT ![c] = LoggedOut]
  /\ UNCHANGED <<serverVars, request, header, held, waits>>

\* Mutant of Logout: the email is left alone.
LogoutToken(c) ==
  /\ waits[c] = None
  /\ IsLoggedIn(c)
  /\ storage' = [storage EXCEPT ![c].token = None]
  /\ header' = [header EXCEPT ![c] = None]
  /\ UNCHANGED <<serverVars, request, held, waits>>

\* The session stays open.
Logout(c) ==
  /\ waits[c] = None
  /\ IsLoggedIn(c)
  /\ storage' = [storage EXCEPT ![c] = LoggedOut]
  /\ header' = [header EXCEPT ![c] = None]
  /\ UNCHANGED <<serverVars, request, held, waits>>

\* The timer of startRenewal runs only while the isolate awaits something; every
\* error is ignored.
RenewalFires(c, r) ==
  /\ held[c] # None
  /\ waits[c] # None
  /\ \A q \in Requests : ~(request[q].kind = "renew" /\ request[q].cli = c /\ request[q].pc # "idle")
  /\ Send(c, r, "renew", storage[c].email, None, held[c])
  /\ UNCHANGED waits

--------------------------------------------------------------------------------
(* The API server *)

\* The answer carries a token (login), a session (open) or nothing of interest; of
\* the request it is enough to remember whose it was.
Answer(r, token, session) ==
  request' = [request EXCEPT ![r].pc = "answered", ![r].reply = "ok", ![r].token = token,
                             ![r].session = session, ![r].password = None, ![r].known = {}]
Accept(r) == Answer(r, request[r].token, request[r].session)
Refuse(r, reply) ==
  request' = [request EXCEPT ![r] = [Idle EXCEPT !.kind = request[r].kind, !.cli = request[r].cli,
                                                 !.pc = "answered", !.reply = reply]]

\* AuthGuard and RequestValidator: no header is 401, a token that does not verify
\* is 400.
GuardReply(r) == CASE request[r].token = None       -> "401"
                [] request[r].token \in expired  -> "400"
                [] OTHER                         -> "none"
Requester(r) == issued[request[r].token]


\* Mutant of RegisterFind: the email is not looked up.
RegisterBlindly(r) ==
  /\ request[r].kind = "register" /\ request[r].pc = "sent"
  /\ request' = [request EXCEPT ![r].pc = "next",
                   ![r].known = {u \in UserIds : users[u] # None}]
  /\ UNCHANGED <<serverVars, cliVars>>

\* findOneBy is a read without a lock, inside the transaction.
RegisterFind(r) ==
  /\ request[r].kind = "register" /\ request[r].pc = "sent"
  /\ IF \E u \in UserIds : users[u] # None /\ users[u].email = request[r].email
     THEN Refuse(r, "422")
     ELSE request' = [request EXCEPT ![r].pc = "next",
                        ![r].known = {u \in UserIds : users[u] # None}]
  /\ UNCHANGED <<serverVars, cliVars>>

\* save and commit: no index makes the email unique.
RegisterSave(r) ==
  /\ request[r].kind = "register" /\ request[r].pc = "next"
  /\ \E u \in UserIds :
       /\ users[u] = None
       /\ users' = [users EXCEPT ![u] = [email |-> request[r].email,
            password |-> request[r].password, known |-> request[r].known]]
  /\ Accept(r)
  /\ UNCHANGED <<issued, expired, owner, live, cliVars>>

\* findOneBy returns any row of the email; the token is put into the answer.
LoginUser(r) ==
  /\ request[r].kind = "login" /\ request[r].pc = "sent"
  /\ LET Rows == {u \in UserIds : users[u] # None /\ users[u].email = request[r].email} IN
       \/ /\ Rows = {}
          /\ Refuse(r, "404")
          /\ UNCHANGED issued
       \/ \E u \in Rows :
            IF users[u].password # request[r].password
            THEN Refuse(r, "403") /\ UNCHANGED issued
            ELSE \E t \in Tokens :
                   /\ issued[t] = None
                   /\ issued' = [issued EXCEPT ![t] = u]
                   /\ Answer(r, t, None)
  /\ UNCHANGED <<users, expired, owner, live, cliVars>>

\* createExecutionJob: the job belongs to the requester.
CreateJob(r) ==
  /\ request[r].kind = "submit" /\ request[r].pc = "sent"
  /\ IF GuardReply(r) # "none" THEN Refuse(r, GuardReply(r)) ELSE Accept(r)
  /\ UNCHANGED <<serverVars, cliVars>>

CreateSession(r) ==
  /\ request[r].kind = "open" /\ request[r].pc = "sent"
  /\ IF GuardReply(r) # "none"
     THEN Refuse(r, GuardReply(r)) /\ UNCHANGED <<owner, live>>
     ELSE \E s \in SessionIds :
            /\ owner[s] = None
            /\ owner' = [owner EXCEPT ![s] = Requester(r)]
            /\ live' = live \cup {s}
            /\ Answer(r, request[r].token, s)
  /\ UNCHANGED <<users, issued, expired, cliVars>>

\* Mutant of ReadSession: the owner is not compared.
ReadAnySession(r) ==
  /\ request[r].kind \in {"upload", "renew"} /\ request[r].pc = "sent"
  /\ LET s == request[r].session IN
       IF GuardReply(r) # "none" THEN Refuse(r, GuardReply(r))
       ELSE IF s \notin live THEN Refuse(r, "404")
       ELSE request' = [request EXCEPT ![r].pc = "next"]
  /\ UNCHANGED <<serverVars, cliVars>>

\* GET of the key, by uploadFile and renewSession.
ReadSession(r) ==
  /\ request[r].kind \in {"upload", "renew"} /\ request[r].pc = "sent"
  /\ LET s == request[r].session IN
       IF GuardReply(r) # "none" THEN Refuse(r, GuardReply(r))
       ELSE IF s \notin live THEN Refuse(r, "404")
       ELSE IF owner[s] # Requester(r) THEN Refuse(r, "403")
       ELSE request' = [request EXCEPT ![r].pc = "next"]
  /\ UNCHANGED <<serverVars, cliVars>>

\* The file is written, or the key gets its ttl back, whatever happened meanwhile.
UseSession(r) ==
  /\ request[r].kind \in {"upload", "renew"} /\ request[r].pc = "next"
  /\ Accept(r)
  /\ UNCHANGED <<serverVars, cliVars>>

TokenExpires(t) ==
  /\ issued[t] # None
  /\ expired' = expired \cup {t}
  /\ UNCHANGED <<users, issued, owner, live, request, cliVars>>

SessionExpires(s) ==
  /\ live' = live \ {s}
  /\ s \in live
  /\ UNCHANGED <<users, issued, expired, owner, request, cliVars>>

--------------------------------------------------------------------------------
(* Answers *)

\* The request is over, and so is the menu if it still waits for it.
Over(r) ==
  /\ request' = [request EXCEPT ![r] = Idle]
  /\ waits' = [c \in Clis |-> IF waits[c] = r THEN None ELSE waits[c]]
  /\ UNCHANGED serverVars

Awaited(r) == waits[request[r].cli] = r

LoggedIn(r) ==
  /\ Awaited(r)
  /\ request[r].kind = "login" /\ request[r].reply = "ok"
  /\ Over(r)
  /\ storage' = [storage EXCEPT ![request[r].cli] =
                   [token |-> request[r].token, email |-> request[r].email]]
  /\ header' = [header EXCEPT ![request[r].cli] = request[r].token]
  /\ UNCHANGED held

\* The session is kept once the LSP client is connected and initialized.
SessionOpened(r) ==
  /\ Awaited(r)
  /\ request[r].kind = "open" /\ request[r].reply = "ok"
  /\ Over(r)
  /\ held' = [held EXCEPT ![request[r].cli] = request[r].session]
  /\ UNCHANGED <<storage, header>>

\* Everything else an answer may be is printed or ignored.
Shown(r) ==
  /\ request[r].pc = "answered"
  /\ Awaited(r) => ~(request[r].kind = "login" /\ request[r].reply = "ok")
  /\ Over(r)
  /\ UNCHANGED <<storage, header, held>>

\* MySQL, Redis or the volume reports an error: a transaction is rolled back, and
\* the menu prints the error.
ServerError(r) ==
  /\ request[r].pc \in {"sent", "next"}
  /\ Over(r)
  /\ UNCHANGED <<storage, header, held>>

\* connectTimeout, receiveTimeout or a lost connection: the menu gives up.
GiveUp(c) ==
  /\ waits[c] # None
  /\ waits' = [waits EXCEPT ![c] = None]
  /\ UNCHANGED <<serverVars, request, storage, header, held>>

--------------------------------------------------------------------------------
(* Specification *)

Cli(c) ==
  \/ \E r \in Requests :
       \/ Register(c, r)
       \/ Login(c, r)
       \/ RunCode(c, r)
       \/ OpenSession(c, r)
       \/ GotoDefinition(c, r)
       \/ RenewalFires(c, r)
  \/ CloseSession(c)
  \/ Logout(c)
  \/ GiveUp(c)

Serve(r) ==
  \/ RegisterFind(r)
  \/ RegisterSave(r)
  \/ LoginUser(r)
  \/ CreateJob(r)
  \/ CreateSession(r)
  \/ ReadSession(r)
  \/ UseSession(r)

Receive(r) == LoggedIn(r) \/ SessionOpened(r) \/ Shown(r) \/ ServerError(r)

Next ==
  \/ \E c \in Clis : Cli(c)
  \/ \E r \in Requests : Serve(r) \/ Receive(r)
  \/ \E t \in Tokens : TokenExpires(t)
  \/ \E s \in SessionIds : SessionExpires(s)

Spec == Init /\ [][Next]_vars

--------------------------------------------------------------------------------
(* Safety *)

Email(u) == users[u].email

\* Whatever the order of logins, logouts, timeouts and late answers: the user the
\* menu shows is the one whose token it sends, and that token was signed for an
\* account with the email shown (TokenStorage and ApiClient are two copies).
ShownUserIsSent ==
  \A c \in Clis :
    /\ header[c] = storage[c].token
    /\ IsLoggedIn(c) => Email(issued[header[c]]) = storage[c].email

\* A job, a session, a file in a session and a renewal always belong to an account
\* with the email the CLI showed when it asked for it, although the user of a CLI
\* changes under its open session (AuthGuard, uploadFile, renewSession).
ServedUser(r) == IF request[r].kind = "submit" THEN Requester(r) ELSE owner[request[r].session]
ServedForShownUser ==
  \A r \in Requests :
    request[r].kind \in {"submit", "open", "upload", "renew"} /\ request[r].reply = "ok"
      => Email(ServedUser(r)) = request[r].email

\* What the menus for running code, opening a session and going to a definition say
\* of a login that is too old: it is refused with 401, for which they ask the user to
\* log in again, and not with a status they print as something else
\* (run_code_menu_item.dart, lsp_open_session_menu_item.dart,
\* lsp_goto_definition_menu_item.dart).  TokenManager.verify answers it 400.
ExpiredLoginIsShown ==
  \A r \in Requests :
    Awaited(r) /\ request[r].pc = "answered" /\ request[r].reply \in {"400", "401"}
      => request[r].reply = "401"

\* Two accounts of one email exist only if their registrations overlapped, as
\* they do when a user repeats one that timed out.
DuplicatesOverlapped ==
  \A u, v \in UserIds :
    users[u] # None /\ users[v] # None /\ u # v /\ Email(u) = Email(v) => u \notin users[v].known
================================================================================
