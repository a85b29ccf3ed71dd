-------------------------- MODULE UserAccountsProofs --------------------------
(***************************************************************************)
(* Accounts and access for every number of CLIs, accounts, tokens, sessions *)
(* and requests under way.                                                  *)
(***************************************************************************)
EXTENDS UserAccounts, TLAPS

--------------------------------------------------------------------------------
(* The inductive invariant *)

\* The token was signed for an account with this email.
Knows(token, email) ==
  /\ token \in Tokens /\ issued[token] # None
  /\ Email(issued[token]) = email

Menus    == {"submit", "open", "upload"}
Sessions == {"open", "upload", "renew"}

\* What a request under way carries stays true, whatever its sender does meanwhile:
\* its token is good for its email, a handler past its check acts for the owner,
\* and an answer hands out what it says.
RequestKnown(r) ==
  LET q == request[r] IN
    /\ q.pc = "idle" => q.kind = "renew"
    /\ q.pc # "answered" => q.reply = "none"
    /\ q.pc \in {"sent", "next"} /\ q.kind \in {"register", "login"}
         => q.email # None /\ q.password # None
    /\ q.pc \in {"sent", "next"} /\ q.kind \in Menus => q.token # None
    /\ q.pc \in {"sent", "next"} /\ q.kind \in Menus \cup Sessions /\ q.token # None
         => Knows(q.token, q.email)
    /\ q.pc \in {"sent", "next"} /\ q.kind \in {"upload", "renew"} => q.session # None
    /\ q.pc = "next" /\ q.kind \in {"upload", "renew"}
         => q.token # None /\ owner[q.session] = issued[q.token]
    /\ q.pc = "next" /\ q.kind = "register"
         => \A u \in q.known : users[u] # None /\ Email(u) # q.email
    /\ q.reply = "ok" /\ q.kind \in {"login", "submit"} => Knows(q.token, q.email)
    /\ q.reply = "ok" /\ q.kind \in Sessions
         => /\ q.session # None /\ owner[q.session] # None
            /\ Email(owner[q.session]) = q.email

\* Nothing refers to a row that does not exist, and a row was saved only when the
\* rows its registration had seen were of other emails.
RowsKnown ==
  /\ \A t \in Tokens : issued[t] # None => users[issued[t]] # None
  /\ \A s \in SessionIds : owner[s] # None => users[owner[s]] # None
  /\ \A u \in UserIds : users[u] # None =>
       \A v \in users[u].known : users[v] # None /\ Email(v) # Email(u)

StorageKnown ==
  \A c \in Clis :
    /\ header[c] = storage[c].token
    /\ IsLoggedIn(c) => Knows(header[c], storage[c].email)

Inv ==
  /\ TypeOK
  /\ RowsKnown
  /\ StorageKnown
  /\ \A r \in Requests : RequestKnown(r)
USE DEF Email

--------------------------------------------------------------------------------
(* What never changes *)

\* Rows, tokens and sessions are added and never changed.
Grows ==
  /\ \A u \in UserIds : users[u] # None => users'[u] = users[u]
  /\ \A t \in Tokens : issued[t] # None => issued'[t] = issued[t]
  /\ \A s \in SessionIds : owner[s] # None => owner'[s] = owner[s]

\* The same token and email, after the step.
KnowsNext(token, email) ==
  /\ token \in Tokens /\ issued'[token] # None
  /\ users'[issued'[token]].email = email

LEMMA KnowsKept ==
  ASSUME TypeOK, RowsKnown, Grows
  PROVE  \A t, e : Knows(t, e) => KnowsNext(t, e)
BY NoneAssumption DEF TypeOK, RowsKnown, Grows, Knows, KnowsNext

\* A request that does not move keeps what it knows.
LEMMA RequestKept ==
  ASSUME TypeOK, RowsKnown, Grows, NEW r \in Requests, RequestKnown(r),
         request'[r] = request[r]
  PROVE  RequestKnown(r)'
<1> DEFINE q == request[r]
<1>1. q \in Request
  BY DEF TypeOK
<1>2. Knows(q.token, q.email) => KnowsNext(q.token, q.email)
  BY KnowsKept
<1>3. q.pc = "next" /\ q.kind \in {"upload", "renew"} =>
        q.token # None /\ owner'[q.session] = issued'[q.token]
  BY <1>1, NoneAssumption DEF RequestKnown, Grows, Request, Knows, Sessions, Menus
<1>4. ASSUME NEW u \in q.known, users[u] # None, users[u].email # q.email
      PROVE  users'[u] # None /\ users'[u].email # q.email
  BY <1>1, <1>4 DEF Request, Grows
<1>5. ASSUME q.session # None, owner[q.session] # None, users[owner[q.session]].email = q.email
      PROVE  owner'[q.session] # None /\ users'[owner'[q.session]].email = q.email
  <2>1. q.session \in SessionIds /\ owner[q.session] \in UserIds
    BY <1>1, <1>5 DEF Request, TypeOK
  <2> QED BY <1>5, <2>1 DEF Grows, RowsKnown
<1> QED BY <1>2, <1>3, <1>4, <1>5 DEF RequestKnown, Knows, KnowsNext

--------------------------------------------------------------------------------
(* The requests under way *)

\* One request moves, the others are kept.
LEMMA OneRequest ==
  ASSUME Inv, Grows, NEW r \in Requests, NEW q \in Request,
         request' = [request EXCEPT ![r] = q], RequestKnown(r)'
  PROVE  /\ request' \in [Requests -> Request]
         /\ \A o \in Requests : RequestKnown(o)'
<1>1. request' \in [Requests -> Request]
  BY DEF Inv, TypeOK
<1>2. ASSUME NEW o \in Requests, o # r PROVE RequestKnown(o)'
  BY <1>2, RequestKept DEF Inv, TypeOK
<1> QED BY <1>1, <1>2

LEMMA IdleType == Idle \in Request
BY ClisAssumption DEF Idle, Request, Kinds, Replies

\* A request is sent with a token that is good for the email it carries.
LEMMA SendStep ==
  ASSUME Inv, NEW c \in Clis, NEW r \in Requests, NEW kind \in Kinds,
         NEW email \in Emails \cup {None}, NEW password \in Passwords \cup {None},
         NEW session \in SessionIds \cup {None},
         Send(c, r, kind, email, password, session),
         kind \notin {"register", "login"} =>
           /\ header[c] # None => Knows(header[c], email)
           /\ kind \in Menus => header[c] # None,
         kind \in {"register", "login"} => email # None /\ password # None,
         kind \in {"upload", "renew"} => session # None
  PROVE  /\ request' \in [Requests -> Request]
         /\ \A o \in Requests : RequestKnown(o)'
<1> DEFINE token == IF kind \in {"register", "login"} THEN None ELSE header[c]
           q == [kind |-> kind, cli |-> c, email |-> email, password |-> password,
                 token |-> token, session |-> session, pc |-> "sent", known |-> {},
                 reply |-> "none"]
<1>1. token \in Tokens \cup {None}
  BY DEF Inv, TypeOK
<1>2. /\ q.kind = kind /\ q.email = email /\ q.password = password /\ q.token = token
      /\ q.session = session /\ q.pc = "sent" /\ q.reply = "none"
  OBVIOUS
<1>3. q \in Request
  BY <1>1 DEF Request, Replies
<1>4. request' = [request EXCEPT ![r] = q] /\ request'[r] = q
  BY DEF Send, Inv, TypeOK
<1>5. Grows
  BY DEF Send, serverVars, Grows
<1>6. ASSUME q.kind \in Menus \cup Sessions, q.token # None PROVE KnowsNext(q.token, q.email)
  <2>1. kind \notin {"register", "login"} /\ q.token = header[c] /\ q.email = email
    BY <1>6 DEF Menus, Sessions
  <2>2. Knows(header[c], email)
    BY <1>6, <2>1
  <2> QED BY <1>5, <2>1, <2>2, KnowsKept DEF Inv
<1>7. q.kind \in Menus => q.token # None
  BY <1>2 DEF Menus
<1>8. RequestKnown(r)'
  <2> HIDE DEF q, token
  <2> QED BY <1>2, <1>4, <1>6, <1>7 DEF RequestKnown, Knows, KnowsNext
<1> QED BY <1>3, <1>4, <1>5, <1>8, OneRequest

\* A refusal promises nothing.
LEMMA RefuseStep ==
  ASSUME Inv, Grows, NEW r \in Requests, NEW reply \in Replies \ {"none", "ok"},
         Refuse(r, reply)
  PROVE  /\ request' \in [Requests -> Request]
         /\ \A o \in Requests : RequestKnown(o)'
<1> DEFINE q == [Idle EXCEPT !.kind = request[r].kind, !.cli = request[r].cli,
                             !.pc = "answered", !.reply = reply]
<1>1. request[r] \in Request
  BY DEF Inv, TypeOK
<1>2. q.kind = request[r].kind /\ q.pc = "answered" /\ q.reply = reply
  BY DEF Idle
<1>3. q \in Request
  BY <1>1, IdleType DEF Request
<1>4. request' = [request EXCEPT ![r] = q] /\ request'[r] = q
  BY DEF Refuse, Inv, TypeOK
<1>5. RequestKnown(r)'
  <2> HIDE DEF q
  <2> QED BY <1>2, <1>4 DEF RequestKnown
<1> QED BY <1>3, <1>4, <1>5, OneRequest

\* An answer hands out a token or a session of an account with the request's email.
LEMMA AnswerStep ==
  ASSUME Inv, Grows, NEW r \in Requests, NEW token \in Tokens \cup {None},
         NEW session \in SessionIds \cup {None}, Answer(r, token, session),
         request[r].kind \in {"login", "submit"} => KnowsNext(token, request[r].email),
         request[r].kind \in Sessions =>
           /\ session # None /\ owner'[session] # None
           /\ users'[owner'[session]].email = request[r].email
  PROVE  /\ request' \in [Requests -> Request]
         /\ \A o \in Requests : RequestKnown(o)'
<1> DEFINE q == [request[r] EXCEPT !.pc = "answered", !.reply = "ok", !.token = token,
                   !.session = session, !.password = None, !.known = {}]
<1>1. request[r] \in Request
  BY DEF Inv, TypeOK
<1>2. /\ q.kind = request[r].kind /\ q.email = request[r].email /\ q.token = token
      /\ q.session = session /\ q.pc = "answered" /\ q.reply = "ok"
  BY <1>1 DEF Request
<1>3. q \in Request
  BY <1>1 DEF Request, Replies
<1>4. request' = [request EXCEPT ![r] = q] /\ request'[r] = q
  BY DEF Answer, Inv, TypeOK
<1>5. RequestKnown(r)'
  <2> HIDE DEF q
  <2> QED BY <1>2, <1>4 DEF RequestKnown, Knows, KnowsNext
<1> QED BY <1>3, <1>4, <1>5, OneRequest

\* The end of a request frees its place and at most the menu that waited.
LEMMA OverStep ==
  ASSUME Inv, NEW r \in Requests, Over(r)
  PROVE  /\ request' \in [Requests -> Request]
         /\ \A o \in Requests : RequestKnown(o)'
         /\ waits' \in [Clis -> Requests \cup {None}]
<1>1. request' = [request EXCEPT ![r] = Idle] /\ request'[r] = Idle
  BY DEF Over, Inv, TypeOK
<1>2. RequestKnown(r)'
  BY <1>1 DEF RequestKnown, Idle
<1>3. Grows
  BY DEF Over, serverVars, Grows
<1>4. waits' \in [Clis -> Requests \cup {None}]
  BY DEF Over, Inv, TypeOK
<1> QED BY <1>1, <1>2, <1>3, <1>4, IdleType, OneRequest

--------------------------------------------------------------------------------
(* The steps *)

LEMMA StorageKept ==
  ASSUME Inv, Grows, UNCHANGED <<storage, header>>
  PROVE  StorageKnown'
<1> SUFFICES ASSUME NEW c \in Clis, IsLoggedIn(c) PROVE KnowsNext(header[c], storage[c].email)
  BY DEF Inv, StorageKnown, IsLoggedIn, Knows, KnowsNext
<1>1. Knows(header[c], storage[c].email)
  BY DEF Inv, StorageKnown
<1> QED BY <1>1, KnowsKept DEF Inv

LEMMA SameServer ==
  ASSUME Inv, UNCHANGED serverVars
  PROVE  Grows /\ RowsKnown'
BY DEF Inv, serverVars, Grows, RowsKnown

\* The storage of a CLI whose user is logged in.
LEMMA LoggedInType ==
  ASSUME Inv, NEW c \in Clis, IsLoggedIn(c)
  PROVE  storage[c].email \in Emails /\ header[c] # None /\ Knows(header[c], storage[c].email)
<1>1. storage[c] # LoggedOut
  BY DEF IsLoggedIn, LoggedOut
<1>2. storage[c] \in [token : Tokens, email : Emails]
  BY <1>1 DEF Inv, TypeOK
<1> QED BY <1>2 DEF Inv, StorageKnown, IsLoggedIn

LEMMA CliStep ==
  ASSUME Inv, NEW c \in Clis, Cli(c)
  PROVE  Inv'
<1> USE DEF Cli
<1>1. ASSUME NEW r \in Requests, NEW kind \in Kinds, NEW email \in Emails \cup {None},
             NEW password \in Passwords \cup {None}, NEW session \in SessionIds \cup {None},
             Send(c, r, kind, email, password, session),
             waits' \in [Clis -> Requests \cup {None}],
             kind \notin {"register", "login"} =>
               /\ header[c] # None => Knows(header[c], email)
               /\ kind \in Menus => header[c] # None,
             kind \in {"register", "login"} => email # None /\ password # None,
             kind \in {"upload", "renew"} => session # None
      PROVE  Inv'
  <2>1. UNCHANGED serverVars /\ UNCHANGED <<storage, header, held>>
    BY <1>1 DEF Send
  <2>2. request' \in [Requests -> Request] /\ \A o \in Requests : RequestKnown(o)'
    BY <1>1, SendStep
  <2>3. TypeOK'
    BY <1>1, <2>1, <2>2 DEF Inv, TypeOK, serverVars
  <2> QED BY <2>1, <2>2, <2>3, SameServer, StorageKept DEF Inv
<1>2. ASSUME NEW r \in Requests, NEW kind \in Kinds, NEW email \in Emails \cup {None},
             NEW password \in Passwords \cup {None}, NEW session \in SessionIds \cup {None},
             Menu(c, r, kind, email, password, session),
             kind \notin {"register", "login"} =>
               /\ header[c] # None => Knows(header[c], email)
               /\ kind \in Menus => header[c] # None,
             kind \in {"register", "login"} => email # None /\ password # None,
             kind = "upload" => session # None, kind # "renew"
      PROVE  Inv'
  <2>1. waits' \in [Clis -> Requests \cup {None}]
    BY <1>2 DEF Menu, Inv, TypeOK
  <2> QED BY <1>1, <1>2, <2>1 DEF Menu
<1>3. ASSUME NEW r \in Requests, Register(c, r) \/ Login(c, r) PROVE Inv'
  BY <1>2, <1>3, NoneAssumption DEF Register, Login, Kinds
<1>4. ASSUME NEW r \in Requests, RunCode(c, r) PROVE Inv'
  BY <1>2, <1>4, LoggedInType DEF RunCode, Kinds
<1>5. ASSUME NEW r \in Requests, OpenSession(c, r) PROVE Inv'
  BY <1>2, <1>5, LoggedInType DEF OpenSession, Kinds
<1>6. ASSUME NEW r \in Requests, GotoDefinition(c, r) PROVE Inv'
  <2>1. held[c] \in SessionIds \cup {None}
    BY DEF Inv, TypeOK
  <2> QED BY <1>2, <1>6, <2>1, LoggedInType DEF GotoDefinition, Kinds
<1>7. ASSUME NEW r \in Requests, RenewalFires(c, r) PROVE Inv'
  <2>1. held[c] \in SessionIds \cup {None} /\ waits' \in [Clis -> Requests \cup {None}]
    BY <1>7 DEF Inv, TypeOK, RenewalFires
  <2>2. storage[c].email \in Emails \cup {None}
    BY DEF Inv, TypeOK, LoggedOut
  <2>3. header[c] # None => Knows(header[c], storage[c].email)
    BY DEF Inv, StorageKnown, IsLoggedIn
  <2> QED BY <1>1, <1>7, <2>1, <2>2, <2>3 DEF RenewalFires, Kinds, Menus
<1>8. ASSUME UNCHANGED serverVars, UNCHANGED request, StorageKnown', TypeOK' PROVE Inv'
  <2>1. ASSUME NEW o \in Requests PROVE RequestKnown(o)'
    BY <1>8, SameServer, RequestKept DEF Inv
  <2> QED BY <1>8, <2>1, SameServer DEF Inv
<1>9. CASE CloseSession(c)
  <2>1. TypeOK' /\ UNCHANGED <<serverVars, request, storage, header>>
    BY <1>9 DEF CloseSession, Inv, TypeOK, serverVars
  <2> QED BY <1>8, <2>1, SameServer, StorageKept
<1>10. CASE Logout(c)
  <2>1. TypeOK' /\ UNCHANGED <<serverVars, request>>
    BY <1>10 DEF Logout, Inv, TypeOK, serverVars
  <2>2. ASSUME NEW d \in Clis PROVE /\ header'[d] = storage'[d].token
                                    /\ storage'[d].token # None =>
                                         KnowsNext(header'[d], storage'[d].email)
    <3>1. CASE d = c
      BY <1>10, <3>1 DEF Logout, LoggedOut, IsLoggedIn, Inv, TypeOK
    <3>2. CASE d # c
      <4>1. storage'[d] = storage[d] /\ header'[d] = header[d]
        BY <1>10, <3>2 DEF Logout, Inv, TypeOK
      <4>2. IsLoggedIn(d) => KnowsNext(header[d], storage[d].email)
        BY <2>1, <4>1, SameServer, KnowsKept DEF Inv, StorageKnown
      <4> QED BY <4>1, <4>2 DEF IsLoggedIn, Inv, StorageKnown
    <3> QED BY <3>1, <3>2
  <2> QED BY <1>8, <2>1, <2>2 DEF StorageKnown, IsLoggedIn, Knows, KnowsNext
<1>11. CASE GiveUp(c)
  <2>1. TypeOK' /\ UNCHANGED <<serverVars, request, storage, header>>
    BY <1>11 DEF GiveUp, Inv, TypeOK, serverVars
  <2> QED BY <1>8, <2>1, SameServer, StorageKept
<1> QED BY <1>3, <1>4, <1>5, <1>6, <1>7, <1>9, <1>10, <1>11

LEMMA ServeStep ==
  ASSUME Inv, NEW r \in Requests, Serve(r)
  PROVE  Inv'
<1> DEFINE q == request[r]
<1>1. q \in Request /\ RequestKnown(r)
  BY DEF Inv, TypeOK
\* A refusal and an answer that add nothing to the tables.
<1>2. ASSUME UNCHANGED <<serverVars, cliVars>>, request' \in [Requests -> Request],
             \A o \in Requests : RequestKnown(o)'
      PROVE  Inv'
  <2>1. TypeOK'
    BY <1>2 DEF Inv, TypeOK, serverVars, cliVars
  <2>2. RowsKnown' /\ StorageKnown'
    BY <1>2, SameServer, StorageKept DEF cliVars
  <2> QED BY <1>2, <2>1, <2>2 DEF Inv
<1>3. ASSUME UNCHANGED <<serverVars, cliVars>>, NEW reply \in Replies \ {"none", "ok"},
             Refuse(r, reply)
      PROVE  Inv'
  BY <1>2, <1>3, RefuseStep, SameServer
<1>4. ASSUME q.kind \in Menus \cup Sessions, q.pc = "sent", GuardReply(r) # "none"
      PROVE  GuardReply(r) \in Replies \ {"none", "ok"}
  BY <1>4 DEF GuardReply, Replies
<1>5. ASSUME q.kind \in Menus \cup Sessions, q.pc \in {"sent", "next"}, GuardReply(r) = "none"
      PROVE  q.token # None /\ Knows(q.token, q.email)
  <2>1. q.token # None
    BY <1>5 DEF GuardReply
  <2> QED BY <1>1, <1>5, <2>1 DEF RequestKnown
<1>6. CASE RegisterFind(r)
  <2>1. CASE \E u \in UserIds : users[u] # None /\ users[u].email = q.email
    BY <1>3, <1>6, <2>1 DEF RegisterFind, Replies
  <2>2. CASE ~ \E u \in UserIds : users[u] # None /\ users[u].email = q.email
    <3> DEFINE known == {u \in UserIds : users[u] # None}
               n == [q EXCEPT !.pc = "next", !.known = known]
    <3>1. request' = [request EXCEPT ![r] = n] /\ request'[r] = n
      BY <1>6, <2>2 DEF RegisterFind, Inv, TypeOK
    <3>2. n \in Request /\ n.pc = "next" /\ n.kind = "register" /\ n.known = known
          /\ n.email = q.email /\ n.reply = "none" /\ n.email # None /\ n.password # None
      BY <1>1, <1>6 DEF Request, RegisterFind, RequestKnown
    <3>3. Grows /\ UNCHANGED <<serverVars, cliVars>>
      BY <1>6, SameServer DEF RegisterFind
    <3>4. \A u \in known : users'[u] # None /\ users'[u].email # q.email
      BY <2>2, <3>3 DEF serverVars
    <3>5. RequestKnown(r)'
      <4> HIDE DEF n, known
      <4> QED BY <3>1, <3>2, <3>4 DEF RequestKnown, Menus, Sessions
    <3> QED BY <1>2, <3>1, <3>2, <3>3, <3>5, OneRequest
  <2> QED BY <2>1, <2>2
<1>7. CASE RegisterSave(r)
  <2> DEFINE row == [email |-> q.email, password |-> q.password, known |-> q.known]
  <2>1. PICK u \in UserIds : users[u] = None /\ users' = [users EXCEPT ![u] = row]
    BY <1>7 DEF RegisterSave
  <2>2. q.kind = "register" /\ q.pc = "next" /\ Accept(r) /\ UNCHANGED <<issued, expired, owner, live, cliVars>>
    BY <1>7 DEF RegisterSave
  <2>3. q.email \in Emails /\ q.password \in Passwords /\ q.known \subseteq UserIds
    BY <1>1, <2>2 DEF Request, RequestKnown
  <2>4. row \in User
    BY <2>3 DEF User
  <2>5. users' \in [UserIds -> User \cup {None}] /\ users'[u] = row /\ row # None
    BY <2>1, <2>4, NoRowAssumption DEF Inv, TypeOK
  <2>6. Grows
    BY <2>1, <2>2 DEF Grows, Inv, TypeOK
  <2>7. request' \in [Requests -> Request] /\ \A o \in Requests : RequestKnown(o)'
    BY <1>1, <2>2, <2>6, AnswerStep DEF Accept, Request, Sessions
  <2>8. TypeOK'
    BY <2>2, <2>5, <2>7 DEF Inv, TypeOK, cliVars
  <2>9. \A v \in q.known : v # u /\ users[v] # None /\ users[v].email # q.email
    BY <1>1, <2>1, <2>2 DEF RequestKnown
  <2>10. ASSUME NEW w \in UserIds, users'[w] # None, NEW v \in users'[w].known
         PROVE  users'[v] # None /\ users'[v].email # users'[w].email
    <3>1. CASE w = u
      <4>1. v \in q.known /\ v \in UserIds /\ users'[w].email = q.email
        BY <2>3, <2>5, <2>10, <3>1
      <4> QED BY <2>6, <2>9, <4>1 DEF Grows
    <3>2. CASE w # u
      <4>1. users'[w] = users[w] /\ users[w] \in User
        BY <2>1, <2>10, <3>2 DEF Inv, TypeOK
      <4>2. v \in UserIds /\ users[v] # None /\ users[v].email # users[w].email
        BY <2>10, <4>1 DEF Inv, RowsKnown, User
      <4> QED BY <2>6, <4>1, <4>2 DEF Grows
    <3> QED BY <3>1, <3>2
  <2>11. RowsKnown'
    <3>1. \A t \in Tokens : issued'[t] # None => users'[issued'[t]] # None
      BY <2>2, <2>6 DEF Grows, Inv, RowsKnown, TypeOK
    <3>2. \A s \in SessionIds : owner'[s] # None => users'[owner'[s]] # None
      BY <2>2, <2>6 DEF Grows, Inv, RowsKnown, TypeOK
    <3> QED BY <2>10, <3>1, <3>2 DEF RowsKnown
  <2> QED BY <2>2, <2>6, <2>7, <2>8, <2>11, StorageKept DEF Inv, cliVars
<1>8. CASE LoginUser(r)
  <2> DEFINE Rows == {u \in UserIds : users[u] # None /\ users[u].email = q.email}
  <2>1. q.kind = "login" /\ q.pc = "sent" /\ UNCHANGED <<users, expired, owner, live, cliVars>>
    BY <1>8 DEF LoginUser
  <2>2. ASSUME NEW reply \in {"403", "404"}, Refuse(r, reply), UNCHANGED issued PROVE Inv'
    BY <1>3, <2>1, <2>2 DEF Replies, serverVars
  <2>3. ASSUME NEW u \in Rows, NEW t \in Tokens, issued[t] = None,
               issued' = [issued EXCEPT ![t] = u], Answer(r, t, None)
        PROVE  Inv'
    <3>1. u \in UserIds /\ users[u] # None /\ users[u].email = q.email
      OBVIOUS
    <3>2. issued' \in [Tokens -> UserIds \cup {None}] /\ issued'[t] = u /\ u # None
      BY <2>3, <3>1, NoneAssumption DEF Inv, TypeOK
    <3>3. Grows
      BY <2>1, <2>3 DEF Grows, Inv, TypeOK
    <3>4. KnowsNext(t, q.email)
      BY <2>1, <3>1, <3>2 DEF KnowsNext
    <3>5. request' \in [Requests -> Request] /\ \A o \in Requests : RequestKnown(o)'
      BY <2>1, <2>3, <3>3, <3>4, AnswerStep DEF Sessions
    <3>6. TypeOK'
      BY <2>1, <3>2, <3>5 DEF Inv, TypeOK, cliVars
    <3>7. RowsKnown'
      BY <2>1, <2>3, <3>1, <3>2 DEF Inv, RowsKnown, TypeOK
    <3> QED BY <2>1, <3>3, <3>5, <3>6, <3>7, StorageKept DEF Inv, cliVars
  <2> QED BY <1>8, <2>2, <2>3 DEF LoginUser
<1>9. CASE CreateJob(r)
  <2>1. q.kind = "submit" /\ q.pc = "sent" /\ UNCHANGED <<serverVars, cliVars>>
    BY <1>9 DEF CreateJob
  <2>2. CASE GuardReply(r) # "none"
    BY <1>3, <1>4, <1>9, <2>1, <2>2 DEF CreateJob, Menus
  <2>3. CASE GuardReply(r) = "none"
    <3>1. Knows(q.token, q.email) /\ Accept(r) /\ Grows
      BY <1>5, <1>9, <2>1, <2>3, SameServer DEF CreateJob, Menus
    <3>2. KnowsNext(q.token, q.email)
      BY <3>1, KnowsKept DEF Inv
    <3>3. request' \in [Requests -> Request] /\ \A o \in Requests : RequestKnown(o)'
      BY <1>1, <2>1, <3>1, <3>2, AnswerStep DEF Accept, Request, Sessions
    <3> QED BY <1>2, <2>1, <3>3
  <2> QED BY <2>2, <2>3
<1>10. CASE CreateSession(r)
  <2>1. q.kind = "open" /\ q.pc = "sent" /\ UNCHANGED <<users, issued, expired, cliVars>>
    BY <1>10 DEF CreateSession
  <2>2. CASE GuardReply(r) # "none"
    BY <1>3, <1>4, <1>10, <2>1, <2>2 DEF CreateSession, Menus, serverVars
  <2>3. CASE GuardReply(r) = "none"
    <3>1. PICK s \in SessionIds :
            /\ owner[s] = None
            /\ owner' = [owner EXCEPT ![s] = issued[q.token]]
            /\ live' = live \cup {s}
            /\ Answer(r, q.token, s)
      BY <1>10, <2>3 DEF CreateSession, Requester
    <3>2. q.token \in Tokens /\ issued[q.token] \in UserIds
          /\ users[issued[q.token]] # None /\ users[issued[q.token]].email = q.email
      BY <1>5, <2>1, <2>3 DEF Menus, Knows, Inv, TypeOK, RowsKnown
    <3>3. /\ owner' \in [SessionIds -> UserIds \cup {None}]
          /\ owner'[s] = issued[q.token] /\ s # None /\ owner'[s] # None
      BY <3>1, <3>2, NoneAssumption DEF Inv, TypeOK
    <3>4. Grows
      BY <2>1, <3>1 DEF Grows, Inv, TypeOK
    <3>5. request' \in [Requests -> Request] /\ \A o \in Requests : RequestKnown(o)'
      BY <2>1, <3>1, <3>2, <3>3, <3>4, AnswerStep
    <3>6. TypeOK'
      BY <2>1, <3>1, <3>3, <3>5 DEF Inv, TypeOK, cliVars
    <3>7. RowsKnown'
      BY <2>1, <3>1, <3>2, <3>3 DEF Inv, RowsKnown, TypeOK
    <3> QED BY <2>1, <3>4, <3>5, <3>6, <3>7, StorageKept DEF Inv, cliVars
  <2> QED BY <2>2, <2>3
<1>11. CASE ReadSession(r)
  <2>1. /\ q.kind \in {"upload", "renew"} /\ q.pc = "sent" /\ UNCHANGED <<serverVars, cliVars>>
        /\ Grows
    BY <1>11, SameServer DEF ReadSession
  <2>2. CASE GuardReply(r) # "none"
    BY <1>3, <1>4, <1>11, <2>1, <2>2 DEF ReadSession, Menus, Sessions
  <2>3. CASE GuardReply(r) = "none" /\ (q.session \notin live \/ owner[q.session] # Requester(r))
    BY <1>3, <1>11, <2>1, <2>3 DEF ReadSession, Replies
  <2>4. CASE /\ GuardReply(r) = "none" /\ q.session \in live
             /\ owner[q.session] = Requester(r)
    <3> DEFINE n == [q EXCEPT !.pc = "next"]
    <3>1. request' = [request EXCEPT ![r] = n] /\ request'[r] = n
      BY <1>11, <2>4 DEF ReadSession, Inv, TypeOK
    <3>2. /\ n \in Request /\ n.pc = "next" /\ n.kind = q.kind /\ n.token = q.token
          /\ n.email = q.email /\ n.session = q.session /\ n.reply = "none"
      BY <1>1, <2>1 DEF Request, RequestKnown
    <3>3. q.token # None /\ KnowsNext(q.token, q.email)
      BY <1>5, <2>1, <2>4, KnowsKept DEF Inv, Menus, Sessions
    <3>4. q.session # None /\ owner'[q.session] = issued'[q.token]
      BY <1>1, <2>1, <2>4 DEF RequestKnown, Requester, serverVars
    <3>5. RequestKnown(r)'
      <4> HIDE DEF n
      <4> QED BY <2>1, <3>1, <3>2, <3>3, <3>4
              DEF RequestKnown, Knows, KnowsNext, Menus, Sessions
    <3> QED BY <1>2, <2>1, <3>1, <3>2, <3>5, OneRequest
  <2> QED BY <2>2, <2>3, <2>4
<1>12. CASE UseSession(r)
  <2>1. /\ q.kind \in {"upload", "renew"} /\ q.pc = "next" /\ Accept(r)
        /\ UNCHANGED <<serverVars, cliVars>> /\ Grows
    BY <1>12, SameServer DEF UseSession
  <2>2. q.token # None /\ q.session # None /\ owner[q.session] = issued[q.token]
        /\ Knows(q.token, q.email)
    BY <1>1, <2>1 DEF RequestKnown, Menus, Sessions
  <2>3. owner'[q.session] # None /\ users'[owner'[q.session]].email = q.email
    BY <2>1, <2>2 DEF Knows, serverVars
  <2>4. request' \in [Requests -> Request] /\ \A o \in Requests : RequestKnown(o)'
    BY <1>1, <2>1, <2>2, <2>3, AnswerStep DEF Accept, Request, Sessions
  <2> QED BY <1>2, <2>1, <2>4
<1> QED BY <1>6, <1>7, <1>8, <1>9, <1>10, <1>11, <1>12 DEF Serve

LEMMA ReceiveStep ==
  ASSUME Inv, NEW r \in Requests, Receive(r)
  PROVE  Inv'
<1> DEFINE q == request[r]
           c == request[r].cli
<1>1. q \in Request /\ RequestKnown(r) /\ c \in Clis
  BY DEF Inv, TypeOK, Request
<1>2. Over(r) /\ UNCHANGED serverVars
  BY DEF Receive, LoggedIn, SessionOpened, Shown, ServerError, Over
<1>3. /\ request' \in [Requests -> Request] /\ \A o \in Requests : RequestKnown(o)'
      /\ waits' \in [Clis -> Requests \cup {None}] /\ Grows /\ RowsKnown'
  BY <1>2, OverStep, SameServer
<1>4. ASSUME TypeOK', StorageKnown' PROVE Inv'
  BY <1>3, <1>4 DEF Inv
<1>5. CASE LoggedIn(r)
  <2>1. /\ storage' = [storage EXCEPT ![c] = [token |-> q.token, email |-> q.email]]
        /\ header' = [header EXCEPT ![c] = q.token] /\ UNCHANGED held
        /\ Knows(q.token, q.email)
    BY <1>1, <1>5 DEF LoggedIn, RequestKnown
  <2>2. q.token \in Tokens /\ q.email \in Emails
    BY <2>1, NoRowAssumption DEF Knows, Inv, TypeOK, RowsKnown, User
  <2>3. TypeOK'
    BY <1>1, <1>2, <1>3, <2>1, <2>2 DEF Inv, TypeOK, serverVars
  <2>4. ASSUME NEW d \in Clis
        PROVE  /\ header'[d] = storage'[d].token
               /\ storage'[d].token # None => KnowsNext(header'[d], storage'[d].email)
    <3>1. CASE d = c
      <4>1. header'[d] = q.token /\ storage'[d] = [token |-> q.token, email |-> q.email]
        BY <1>1, <2>1, <3>1 DEF Inv, TypeOK
      <4>2. KnowsNext(q.token, q.email)
        BY <1>3, <2>1, KnowsKept DEF Inv
      <4> QED BY <4>1, <4>2
    <3>2. CASE d # c
      <4>1. storage'[d] = storage[d] /\ header'[d] = header[d]
        BY <2>1, <3>2 DEF Inv, TypeOK
      <4> QED BY <1>3, <4>1, KnowsKept DEF Inv, StorageKnown, IsLoggedIn
    <3> QED BY <3>1, <3>2
  <2>5. StorageKnown'
    BY <2>4 DEF StorageKnown, IsLoggedIn, Knows, KnowsNext
  <2> QED BY <1>4, <2>3, <2>5
<1>6. CASE SessionOpened(r)
  <2>1. /\ held' = [held EXCEPT ![c] = q.session] /\ UNCHANGED <<storage, header>>
        /\ q.session \in SessionIds \cup {None}
    BY <1>1, <1>6 DEF SessionOpened, Request
  <2>2. TypeOK'
    BY <1>1, <1>2, <1>3, <2>1 DEF Inv, TypeOK, serverVars
  <2> QED BY <1>3, <1>4, <2>1, <2>2, StorageKept
<1>7. CASE Shown(r) \/ ServerError(r)
  <2>1. UNCHANGED <<storage, header, held>>
    BY <1>7 DEF Shown, ServerError
  <2>2. TypeOK'
    BY <1>2, <1>3, <2>1 DEF Inv, TypeOK, serverVars
  <2> QED BY <1>3, <1>4, <2>1, <2>2, StorageKept
<1> QED BY <1>5, <1>6, <1>7 DEF Receive

LEMMA InitInv == Init => Inv
<1> SUFFICES ASSUME Init PROVE Inv
  OBVIOUS
<1>1. TypeOK
  BY IdleType DEF Init, TypeOK
<1>2. ASSUME NEW r \in Requests PROVE RequestKnown(r)
  BY <1>2 DEF Init, Idle, RequestKnown
<1>3. RowsKnown /\ StorageKnown
  BY DEF Init, RowsKnown, StorageKnown, LoggedOut, IsLoggedIn
<1> QED BY <1>1, <1>2, <1>3 DEF Inv

LEMMA NextInv == Inv /\ [Next]_vars => Inv'
<1> SUFFICES ASSUME Inv, [Next]_vars PROVE Inv'
  OBVIOUS
<1>1. ASSUME UNCHANGED <<users, issued, owner, request, storage, header>>, TypeOK'
      PROVE  Inv'
  <2>1. Grows /\ RowsKnown'
    BY <1>1 DEF Inv, Grows, RowsKnown
  <2>2. ASSUME NEW o \in Requests PROVE RequestKnown(o)'
    BY <1>1, <2>1, RequestKept DEF Inv
  <2> QED BY <1>1, <2>1, <2>2, StorageKept DEF Inv
<1>2. ASSUME NEW t \in Tokens, TokenExpires(t) PROVE Inv'
  <2>1. TypeOK'
    BY <1>2 DEF TokenExpires, Inv, TypeOK, cliVars
  <2> QED BY <1>1, <1>2, <2>1 DEF TokenExpires, cliVars
<1>3. ASSUME NEW s \in SessionIds, SessionExpires(s) PROVE Inv'
  <2>1. TypeOK'
    BY <1>3 DEF SessionExpires, Inv, TypeOK, cliVars
  <2> QED BY <1>1, <1>3, <2>1 DEF SessionExpires, cliVars
<1>4. CASE UNCHANGED vars
  <2>1. TypeOK'
    BY <1>4 DEF Inv, TypeOK, vars, serverVars, cliVars
  <2> QED BY <1>1, <1>4, <2>1 DEF vars, serverVars, cliVars
<1> QED BY <1>2, <1>3, <1>4, CliStep, ServeStep, ReceiveStep DEF Next

THEOREM InvHolds == Spec => []Inv
BY InitInv, NextInv, PTL DEF Spec

--------------------------------------------------------------------------------
(* What follows *)

\* The tables, the requests and the copies of the token keep their types: of a
\* user who is logged in there are always a token and an email.
THEOREM TypeCorrect == Spec => []TypeOK
BY InvHolds, PTL DEF Inv

\* The user a menu shows is the one it sends the token of.
THEOREM ShownUserCorrect == Spec => []ShownUserIsSent
<1>1. Inv => ShownUserIsSent
  BY DEF Inv, StorageKnown, ShownUserIsSent, Knows
<1> QED BY <1>1, InvHolds, PTL

\* What the server does for a CLI it does for an account with the email shown.
THEOREM ServedCorrect == Spec => []ServedForShownUser
<1>1. Inv => ServedForShownUser
  BY DEF Inv, RequestKnown, ServedForShownUser, ServedUser, Requester, Knows, Sessions
<1> QED BY <1>1, InvHolds, PTL

\* Without an overlap of registrations an email belongs to one account.
THEOREM DuplicatesCorrect == Spec => []DuplicatesOverlapped
<1>1. Inv => DuplicatesOverlapped
  BY DEF Inv, RowsKnown, DuplicatesOverlapped
<1> QED BY <1>1, InvHolds, PTL

================================================================================
