---------------------------- MODULE AuthService ----------------------------
(***************************************************************************)
(* Registration, login and the session check (handler.go, auth_handler.go) *)
(* on the tables users, challenges and sessions (storage.go, query.sql.go).*)
(*                                                                         *)
(* As in FileService every request has a goroutine of its own and the      *)
(* atomic steps are the single statements.  A challenge request names the  *)
(* nonce it draws and a login request the token it draws: both are random, *)
(* so each request has its own.  A signature is the pair of the key that   *)
(* made it and the nonce it is over; only the key's owner can make one.    *)
(***************************************************************************)
EXTENDS Naturals

CONSTANTS
  Users,         \* user names
  Keys,          \* identity keys, each a pair of public and private key
  Requests,      \* HTTP requests, and the nonces and tokens they draw
  Lifetime,      \* lifetime of a session, 24 hours in the code
  MaxTime,       \* bound on the clock
  Routes,        \* "mux", the routes of NewServer, or "handler", ServeHTTP
  Guesses,       \* what is sent for a nonce and never was one: {None} or {}
  DBFaults,      \* whether statements may fail without being asked to
  None           \* no key, no nonce, no session

Session == [user : Users, key : Keys, expires : Nat]

ASSUME ClockAssumption == Lifetime \in Nat /\ MaxTime \in Nat
ASSUME RoutesAssumption == Routes \in {"mux", "handler"}
ASSUME GuessesAssumption == Guesses \subseteq {None}
ASSUME DBFaultsAssumption == DBFaults \in BOOLEAN
ASSUME NoneAssumption == None \notin Users \cup Keys \cup Requests \cup Session

VARIABLES
  users,      \* users[u]: the identity key in row u of table users, or None
  challenge,  \* challenge[u]: the nonce in row u of table challenges
  session,    \* session[t]: row t of table sessions; key is a history field
  now,        \* the clock
  pc,         \* pc[r]: where the handler of r is
  op,         \* op[r]: which handler serves r
  user,       \* user[r]: the user name sent with r
  key,        \* key[r]: the key registered, or the one that signed
  given,      \* given[r]: the nonce or the token sent with r
  seen,       \* seen[r]: the nonce or session row read by r
  status,     \* status[r]: the response
  cancelled,  \* requests whose context is cancelled: the client has gone
  late,       \* history: logins begun after their nonce was spent
  disturbed   \* history: nonces replaced or deleted for another one's sake

tables == <<users, challenge, session>>
request == <<op, user, key, given>>
history == <<late, disturbed>>
vars == <<users, challenge, session, now, pc, op, user, key, given, seen,
          status, cancelled, late, disturbed>>

Stages == {"idle", "insert", "check", "draw", "select", "consume", "verify",
           "create", "session", "expiry", "expire", "drop", "done", "dead"}
Ops == {"none", "register", "challenge", "login", "use", "deleteUser"}
Statuses == {"pending", "ok", "not_found", "unauthorized", "expired",
             "forbidden", "error"}

(* Every variable has the shape the actions rely on: what a stage uses has *)
(* been read by then.                                                      *)
TypeOK ==
  /\ users \in [Users -> Keys \cup {None}]
  /\ challenge \in [Users -> Requests \cup {None}]
  /\ session \in [Requests -> Session \cup {None}]
  /\ now \in Nat
  /\ pc \in [Requests -> Stages]
  /\ op \in [Requests -> Ops]
  /\ user \in [Requests -> Users \cup {None}]
  /\ key \in [Requests -> Keys \cup {None}]
  /\ given \in [Requests -> Requests \cup {None}]
  /\ seen \in [Requests -> Requests \cup Session \cup {None}]
  /\ status \in [Requests -> Statuses]
  /\ cancelled \subseteq Requests
  /\ late \subseteq Requests
  /\ disturbed \subseteq Requests
  /\ \A r \in Requests :
       /\ pc[r] \in {"insert", "check", "draw", "select", "consume", "verify",
                    "create", "drop"} => user[r] # None
       /\ pc[r] \in {"insert", "select", "consume", "verify", "create"} =>
            key[r] # None
       /\ pc[r] = "consume" => seen[r] \in Requests
       /\ pc[r] \in {"session", "expiry", "expire", "drop"} =>
            op[r] \in {"use", "deleteUser"} /\ given[r] \in Requests
       /\ pc[r] \in {"expiry", "expire", "drop"} => seen[r] \in Session
       /\ op[r] = "deleteUser" => user[r] # None

(* The server is started on a database in which users may be registered.   *)
Init ==
  /\ users \in [Users -> Keys \cup {None}]
  /\ challenge = [u \in Users |-> None]
  /\ session = [r \in Requests |-> None]
  /\ now = 0
  /\ pc = [r \in Requests |-> "idle"]
  /\ op = [r \in Requests |-> "none"]
  /\ user = [r \in Requests |-> None]
  /\ key = [r \in Requests |-> None]
  /\ given = [r \in Requests |-> None]
  /\ seen = [r \in Requests |-> None]
  /\ status = [r \in Requests |-> "pending"]
  /\ cancelled = {}
  /\ late = {}
  /\ disturbed = {}

InFlight(r) == pc[r] \notin {"idle", "done", "dead"}

(* database/sql refuses every call once the context is cancelled. *)
DBRuns(r) == r \notin cancelled
DBMayFail(r) == r \in cancelled \/ DBFaults

Goto(r, stage) == pc' = [pc EXCEPT ![r] = stage]
Reply(r, s) == status' = [status EXCEPT ![r] = s]
Finish(r, s) == Goto(r, "done") /\ Reply(r, s)

(* Nonces and tokens a client can have: those it was answered. *)
Answered(o) == {r \in Requests : op[r] = o /\ status[r] = "ok"}

(* The logins that were answered 200 for nonce n of user u. *)
Spenders(u, n) == {q \in Answered("login") : user[q] = u /\ given[q] = n}

(* HandleLogin after GetChallenge: the nonce read must be the one signed.  *)
Compare(r) ==
  IF seen[r] = given[r] THEN Goto(r, "verify") /\ UNCHANGED status
                        ELSE Finish(r, "unauthorized")

-----------------------------------------------------------------------------
(* Faulty variants of single actions below, which no specification uses;   *)
(* each breaks one property, to show that the property can fail.           *)

(* HandleGetChallenge answers 200 although CreateChallenge failed. *)
ChallengeErrorDropped(r) ==
  /\ pc[r] = "draw"
  /\ DBMayFail(r)
  /\ Finish(r, "ok")
  /\ UNCHANGED <<tables, now, request, seen, cancelled, history>>

(* GetChallenge does not delete what it has read. *)
ChallengeKept(r) ==
  /\ pc[r] = "consume" /\ DBRuns(r)
  /\ Compare(r)
  /\ UNCHANGED <<tables, now, request, seen, cancelled, history>>

(* GetSession's result is used without its ok. *)
SessionUnchecked(r) ==
  /\ pc[r] = "session" /\ DBRuns(r)
  /\ seen' = [seen EXCEPT ![r] = session[given[r]]]
  /\ Goto(r, "expiry")
  /\ UNCHANGED <<tables, now, request, status, cancelled, history>>

(* HandleLogin drops the result of crypto.Verify. *)
SignatureUnchecked(r) ==
  /\ pc[r] = "verify" /\ DBRuns(r)
  /\ users[user[r]] # None
  /\ Goto(r, "create")
  /\ UNCHANGED <<tables, now, request, seen, status, cancelled, history>>

(* createUser updates the row of a user who is registered already. *)
RegistrationOverwrites(r) ==
  /\ pc[r] = "insert" /\ DBRuns(r)
  /\ users' = [users EXCEPT ![user[r]] = key[r]]
  /\ Finish(r, "ok")
  /\ UNCHANGED <<challenge, session, now, request, seen, cancelled, history>>

(* AuthMiddleware does not look at ExpiresAt. *)
ExpiryIgnored(r) ==
  /\ pc[r] = "expiry"
  /\ Finish(r, "ok")
  /\ UNCHANGED <<tables, now, request, seen, cancelled, history>>

(* DeleteUser does not compare the user with the one of the session. *)
AnyUserDropped(r) ==
  /\ pc[r] = "expiry"
  /\ seen[r].expires >= now
  /\ IF op[r] = "use" THEN Finish(r, "ok") ELSE Goto(r, "drop") /\ UNCHANGED status
  /\ UNCHANGED <<tables, now, request, seen, cancelled, history>>

-----------------------------------------------------------------------------
(* RegisterUser: one INSERT, which fails if the name is taken.             *)

(* The request is decoded and validated, its registration token checked. *)
RegisterUser(r, u, k) ==
  /\ pc[r] = "idle"
  /\ op' = [op EXCEPT ![r] = "register"]
  /\ user' = [user EXCEPT ![r] = u]
  /\ key' = [key EXCEPT ![r] = k]
  /\ Goto(r, "insert")
  /\ UNCHANGED <<tables, now, given, seen, status, cancelled, history>>

CreateUser(r) ==
  /\ pc[r] = "insert" /\ DBRuns(r)
  /\ users[user[r]] = None
  /\ users' = [users EXCEPT ![user[r]] = key[r]]
  /\ Finish(r, "ok")
  /\ UNCHANGED <<challenge, session, now, request, seen, cancelled, history>>

CreateUserFails(r) ==
  /\ pc[r] = "insert"
  /\ users[user[r]] # None \/ DBMayFail(r)
  /\ Finish(r, "error")
  /\ UNCHANGED <<tables, now, request, seen, cancelled, history>>

-----------------------------------------------------------------------------
(* HandleGetChallenge.                                                     *)

HandleGetChallenge(r, u) ==
  /\ pc[r] = "idle"
  /\ op' = [op EXCEPT ![r] = "challenge"]
  /\ user' = [user EXCEPT ![r] = u]
  /\ Goto(r, "check")
  /\ UNCHANGED <<tables, now, key, given, seen, status, cancelled, history>>

ChallengeUserFound(r) ==
  /\ pc[r] = "check" /\ DBRuns(r)
  /\ users[user[r]] # None
  /\ Goto(r, "draw")
  /\ UNCHANGED <<tables, now, request, seen, status, cancelled, history>>

(* GetUser reports an error like a missing row, for a login as well. *)
UserNotFound(r) ==
  /\ pc[r] \in {"check", "verify"}
  /\ users[user[r]] = None \/ DBMayFail(r)
  /\ Finish(r, "not_found")
  /\ UNCHANGED <<tables, now, request, seen, cancelled, history>>

(* The user has one challenge: a new one replaces it. *)
CreateChallenge(r) ==
  /\ pc[r] = "draw" /\ DBRuns(r)
  /\ challenge' = [challenge EXCEPT ![user[r]] = r]
  /\ disturbed' = disturbed \cup ({challenge[user[r]]} \ {None})
  /\ Finish(r, "ok")
  /\ UNCHANGED <<users, session, now, request, seen, cancelled, late>>

CreateChallengeFails(r) ==
  /\ pc[r] = "draw"
  /\ DBMayFail(r)
  /\ Finish(r, "error")
  /\ UNCHANGED <<tables, now, request, seen, cancelled, history>>

-----------------------------------------------------------------------------
(* HandleLogin.                                                            *)

(* Any user name comes with any nonce: the one this user was given, one of *)
(* another challenge, or a guess.                                          *)
HandleLogin(r, u, n, k) ==
  /\ pc[r] = "idle"
  /\ op' = [op EXCEPT ![r] = "login"]
  /\ user' = [user EXCEPT ![r] = u]
  /\ key' = [key EXCEPT ![r] = k]
  /\ given' = [given EXCEPT ![r] = n]
  /\ late' = IF Spenders(u, n) # {} THEN late \cup {r} ELSE late
  /\ Goto(r, "select")
  /\ UNCHANGED <<tables, now, seen, status, cancelled, disturbed>>

(* Storage.GetChallenge is two statements, SELECT and DELETE. *)
GetChallenge(r) ==
  /\ pc[r] = "select" /\ DBRuns(r)
  /\ challenge[user[r]] # None
  /\ seen' = [seen EXCEPT ![r] = challenge[user[r]]]
  /\ Goto(r, "consume")
  /\ UNCHANGED <<tables, now, request, status, cancelled, history>>

ChallengeMissing(r) ==
  /\ pc[r] = "select"
  /\ challenge[user[r]] = None \/ DBMayFail(r)
  /\ Finish(r, "unauthorized")
  /\ UNCHANGED <<tables, now, request, seen, cancelled, history>>

(* Deletes whatever nonce the user has by now. *)
DeleteChallenge(r) ==
  /\ pc[r] = "consume" /\ DBRuns(r)
  /\ challenge' = [challenge EXCEPT ![user[r]] = None]
  /\ disturbed' = disturbed \cup ({challenge[user[r]]} \ {None, given[r]})
  /\ Compare(r)
  /\ UNCHANGED <<users, session, now, request, seen, cancelled, late>>

(* The error is dropped. *)
DeleteChallengeFails(r) ==
  /\ pc[r] = "consume" /\ DBMayFail(r)
  /\ Compare(r)
  /\ UNCHANGED <<tables, now, request, seen, cancelled, history>>

(* GetUser and crypto.Verify. *)
VerifySignature(r) ==
  /\ pc[r] = "verify" /\ DBRuns(r)
  /\ users[user[r]] # None
  /\ IF users[user[r]] = key[r] THEN Goto(r, "create") /\ UNCHANGED status
                                ELSE Finish(r, "unauthorized")
  /\ UNCHANGED <<tables, now, request, seen, cancelled, history>>

CreateSession(r) ==
  /\ pc[r] = "create" /\ DBRuns(r)
  /\ session' = [session EXCEPT ![r] =
       [user |-> user[r], key |-> key[r], expires |-> now + Lifetime]]
  /\ Finish(r, "ok")
  /\ UNCHANGED <<users, challenge, now, request, seen, cancelled, history>>

CreateSessionFails(r) ==
  /\ pc[r] = "create"
  /\ DBMayFail(r)
  /\ Finish(r, "error")
  /\ UNCHANGED <<tables, now, request, seen, cancelled, history>>

-----------------------------------------------------------------------------
(* AuthMiddleware, and DeleteUser, the handler behind it that changes the  *)
(* users.  The handlers behind it that serve files are in FileService.     *)

(* A request for files, with the token of an earlier login. *)
UseSession(r, t) ==
  /\ pc[r] = "idle"
  /\ op' = [op EXCEPT ![r] = "use"]
  /\ given' = [given EXCEPT ![r] = t]
  /\ Goto(r, "session")
  /\ UNCHANGED <<tables, now, user, key, seen, status, cancelled, history>>

(* DELETE /users?username=u has no route in the mux of NewServer. *)
DeleteUser(r, u, t) ==
  /\ pc[r] = "idle"
  /\ Routes = "handler"
  /\ op' = [op EXCEPT ![r] = "deleteUser"]
  /\ user' = [user EXCEPT ![r] = u]
  /\ given' = [given EXCEPT ![r] = t]
  /\ Goto(r, "session")
  /\ UNCHANGED <<tables, now, key, seen, status, cancelled, history>>

GetSession(r) ==
  /\ pc[r] = "session" /\ DBRuns(r)
  /\ session[given[r]] # None
  /\ seen' = [seen EXCEPT ![r] = session[given[r]]]
  /\ Goto(r, "expiry")
  /\ UNCHANGED <<tables, now, request, status, cancelled, history>>

SessionMissing(r) ==
  /\ pc[r] = "session"
  /\ session[given[r]] = None \/ DBMayFail(r)
  /\ Finish(r, "unauthorized")
  /\ UNCHANGED <<tables, now, request, seen, cancelled, history>>

(* The request is accepted for the user of the session. *)
Accept(r) ==
  /\ pc[r] = "expiry"
  /\ seen[r].expires >= now
  /\ IF op[r] = "use" THEN Finish(r, "ok")
     ELSE IF seen[r].user = user[r] THEN Goto(r, "drop") /\ UNCHANGED status
                                    ELSE Finish(r, "forbidden")
  /\ UNCHANGED <<tables, now, request, seen, cancelled, history>>

RefuseExpired(r) ==
  /\ pc[r] = "expiry"
  /\ seen[r].expires < now
  /\ Goto(r, "expire")
  /\ UNCHANGED <<tables, now, request, seen, status, cancelled, history>>

(* An error of DeleteSession is dropped. *)
DeleteSession(r) ==
  /\ pc[r] = "expire"
  /\ \/ DBRuns(r) /\ session' = [session EXCEPT ![given[r]] = None]
     \/ DBMayFail(r) /\ UNCHANGED session
  /\ Finish(r, "expired")
  /\ UNCHANGED <<users, challenge, now, request, seen, cancelled, history>>

(* Storage.DeleteUser; files, sessions and challenges of u stay behind. *)
DropUser(r) ==
  /\ pc[r] = "drop" /\ DBRuns(r)
  /\ users' = [users EXCEPT ![user[r]] = None]
  /\ Finish(r, "ok")
  /\ UNCHANGED <<challenge, session, now, request, seen, cancelled, history>>

DropUserFails(r) ==
  /\ pc[r] = "drop"
  /\ DBMayFail(r)
  /\ Finish(r, "error")
  /\ UNCHANGED <<tables, now, request, seen, cancelled, history>>

-----------------------------------------------------------------------------
(* The environment.                                                        *)

Tick ==
  /\ now < MaxTime
  /\ now' = now + 1
  /\ UNCHANGED <<tables, pc, request, seen, status, cancelled, history>>

(* net/http notices that the client of a running request has gone. *)
Cancel(r) ==
  /\ InFlight(r) /\ r \notin cancelled
  /\ cancelled' = cancelled \cup {r}
  /\ UNCHANGED <<tables, now, pc, request, seen, status, history>>

(* The process is killed and NewStorage opens the same database again. *)
CrashRestart ==
  /\ \E r \in Requests : InFlight(r)
  /\ pc' = [r \in Requests |-> IF InFlight(r) THEN "dead" ELSE pc[r]]
  /\ UNCHANGED <<tables, now, request, seen, status, cancelled, history>>

-----------------------------------------------------------------------------
Arrive(r) ==
  \E u \in Users :
    \/ \E k \in Keys : RegisterUser(r, u, k)
    \/ HandleGetChallenge(r, u)
    \/ \E k \in Keys, n \in Answered("challenge") \cup Guesses :
         HandleLogin(r, u, n, k)
    \/ \E t \in Answered("login") : UseSession(r, t) \/ DeleteUser(r, u, t)

Register(r) == CreateUser(r) \/ CreateUserFails(r)

Challenge(r) ==
  \/ ChallengeUserFound(r) \/ UserNotFound(r)
  \/ CreateChallenge(r) \/ CreateChallengeFails(r)

LogIn(r) ==
  \/ GetChallenge(r) \/ ChallengeMissing(r)
  \/ DeleteChallenge(r) \/ DeleteChallengeFails(r)
  \/ VerifySignature(r) \/ CreateSession(r) \/ CreateSessionFails(r)

Authenticate(r) ==
  \/ GetSession(r) \/ SessionMissing(r) \/ Accept(r) \/ RefuseExpired(r)
  \/ DeleteSession(r) \/ DropUser(r) \/ DropUserFails(r)

Handle(r) == Register(r) \/ Challenge(r) \/ LogIn(r) \/ Authenticate(r)

Next ==
  \/ \E r \in Requests : Arrive(r) \/ Handle(r) \/ Cancel(r)
  \/ Tick
  \/ CrashRestart

Spec == Init /\ [][Next]_vars

-----------------------------------------------------------------------------
(* Safety.                                                                 *)

(* Behind the routes of NewServer, whoever is in a session has signed its  *)
(* nonce with the key under which the user is registered now: no order of  *)
(* registrations, logins, failed statements and crashes leaves a session   *)
(* for a user without that key.                                            *)
SessionHoldsRegisteredKey ==
  Routes = "mux" =>
    \A t \in Requests :
      session[t] # None => users[session[t].user] = session[t].key

(* A login that begins after another one was answered 200 for the same     *)
(* nonce is not answered 200, whatever challenges and logins come between. *)
(* It presupposes that the DELETE in GetChallenge does not fail unasked.   *)
SpentNonceIsRefused == \A r \in late : status[r] # "ok"

(* A login with the nonce that its user was given, signed with the         *)
(* registered key, is refused only because another request interfered: a   *)
(* second challenge, or a login, for the same user.  It presupposes that   *)
(* neither statements nor its client give up, and the routes of NewServer. *)
RefusedOnlyIfDisturbed ==
  \A r \in Requests :
    /\ op[r] = "login" /\ pc[r] = "done" /\ r \notin cancelled
    /\ given[r] # None /\ user[given[r]] = user[r]
    /\ users[user[r]] = key[r] /\ status[r] # "ok"
    => \/ given[r] \in disturbed
       \/ \E q \in Requests \ {r} : op[q] = "login" /\ given[q] = given[r]

(* A token that a request has been refused for as expired, or is about to  *)
(* be, is accepted by no later step: not by a request that had read the    *)
(* row before, and not by one that reads the row again because its         *)
(* deletion has failed, and failed unnoticed.                              *)
ExpiredStaysExpired ==
  [][\A r, q \in Requests :
       /\ op[r] \in {"use", "deleteUser"} /\ given[q] = given[r]
       /\ pc[r] = "expire" \/ status[r] = "expired"
       /\ op[q] \in {"use", "deleteUser"}
       /\ pc[q] = "expiry" /\ pc'[q] # "expiry"
       => pc'[q] \in {"expire", "dead"}]_vars

(* A user's row disappears only by a request in a session of that user,    *)
(* however many registrations and deletions of the name came before.       *)
OnlyOwnAccountDeleted ==
  [][\A u \in Users :
       users[u] # None /\ users'[u] = None =>
         \E r \in Requests :
           pc[r] = "drop" /\ pc'[r] = "done" /\ seen[r].user = u]_vars

-----------------------------------------------------------------------------
(* What the tables look like from behind the middleware.                   *)

(* The row of session t, while it is valid. *)
Live(t) == session[t] # None /\ session[t].expires >= now

LiveSessions == [t \in Requests |-> IF Live(t) THEN session[t] ELSE None]

(* Logins whose signature was good. *)
Proved ==
  {<<r, user[r], key[r]>> : r \in {q \in Requests : pc[q] = "create"}}

(* Requests accepted for the user in their context. *)
Served ==
  {<<r, seen[r].user>> : r \in Answered("use")}

Entitled == {<<r, user[r]>> : r \in {q \in Requests : pc[q] = "drop"}}

Contract == INSTANCE Accounts WITH
  registered <- users, time <- now, proved <- Proved,
  sessions <- LiveSessions, served <- Served, entitled <- Entitled

(* To the handlers behind it, authentication by several statements is the  *)
(* abstract one: whoever is accepted as a user has a session that is valid *)
(* at this moment, although its row was read before and may be deleted by  *)
(* others; it was opened by a login that had signed with the user's key,   *)
(* and ends at one instant for all requests, those under way included.     *)
ImplementsAccounts == Contract!AccountsSpec

-----------------------------------------------------------------------------
(* Statements about the program that its behaviours contradict.            *)

(* storage.go: the challenge is deleted after retrieval, for "one-time     *)
(* use".  No nonce opens two sessions.                                     *)
NonceUsedOnce ==
  \A r, q \in Answered("login") :
    user[r] = user[q] /\ given[r] = given[q] => r = q
=============================================================================
