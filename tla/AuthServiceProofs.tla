------------------------- MODULE AuthServiceProofs -------------------------
(***************************************************************************)
(* Proofs about AuthService for every set of users, keys and requests,     *)
(* every lifetime, and with failing statements unless it says otherwise.   *)
(***************************************************************************)
EXTENDS AuthService, TLAPS

USE DEF tables, request, history, Goto, Reply, Finish

-----------------------------------------------------------------------------
(* Type correctness.                                                       *)

LEMMA TypeInit == Init => TypeOK
  BY ClockAssumption DEF Init, TypeOK, Stages, Ops, Statuses

LEMMA TypeArrive ==
  ASSUME TypeOK, NEW r \in Requests, Arrive(r)
  PROVE  TypeOK'
<1>1. PICK u \in Users :
      \/ \E k \in Keys : RegisterUser(r, u, k)
      \/ HandleGetChallenge(r, u)
      \/ \E k \in Keys, n \in Requests \cup {None} : HandleLogin(r, u, n, k)
      \/ \E t \in Answered("login") : UseSession(r, t) \/ DeleteUser(r, u, t)
  BY GuessesAssumption DEF Arrive, Answered
<1>2. ASSUME NEW k \in Keys, RegisterUser(r, u, k) PROVE TypeOK'
  BY <1>2, NoneAssumption DEF TypeOK, Stages, Ops, RegisterUser
<1>3. CASE HandleGetChallenge(r, u)
  BY <1>3, NoneAssumption DEF TypeOK, Stages, Ops, HandleGetChallenge
<1>4. ASSUME NEW k \in Keys, NEW n \in Requests \cup {None},
             HandleLogin(r, u, n, k)
      PROVE  TypeOK'
  BY <1>4, NoneAssumption DEF TypeOK, Stages, Ops, HandleLogin
<1>5. ASSUME NEW t \in Answered("login"), UseSession(r, t) \/ DeleteUser(r, u, t)
      PROVE  TypeOK'
  <2>1. t \in Requests
    BY <1>5 DEF Answered
  <2>2. CASE UseSession(r, t)
    BY <2>1, <2>2 DEF TypeOK, Stages, Ops, UseSession
  <2>3. CASE DeleteUser(r, u, t)
    BY <2>1, <2>3, NoneAssumption DEF TypeOK, Stages, Ops, DeleteUser
  <2>4. QED
    BY <1>5, <2>2, <2>3
<1>6. QED
  BY <1>1, <1>2, <1>3, <1>4, <1>5

LEMMA TypeStep == TypeOK /\ [Next]_vars => TypeOK'
<1> SUFFICES ASSUME TypeOK, [Next]_vars PROVE TypeOK'
  OBVIOUS
<1>1. ASSUME NEW r \in Requests, Arrive(r) PROVE TypeOK'
  BY <1>1, TypeArrive
<1>2. ASSUME NEW r \in Requests, CreateUser(r) PROVE TypeOK'
  BY <1>2 DEF TypeOK, Stages, Statuses, CreateUser
<1>3. ASSUME NEW r \in Requests, CreateUserFails(r) PROVE TypeOK'
  BY <1>3 DEF TypeOK, Stages, Statuses, CreateUserFails
<1>4. ASSUME NEW r \in Requests, ChallengeUserFound(r) PROVE TypeOK'
  BY <1>4 DEF TypeOK, Stages, Statuses, ChallengeUserFound
<1>5. ASSUME NEW r \in Requests, UserNotFound(r) PROVE TypeOK'
  BY <1>5 DEF TypeOK, Stages, Statuses, UserNotFound
<1>6. ASSUME NEW r \in Requests, CreateChallenge(r) PROVE TypeOK'
  BY <1>6 DEF TypeOK, Stages, Statuses, CreateChallenge
<1>7. ASSUME NEW r \in Requests, CreateChallengeFails(r) PROVE TypeOK'
  BY <1>7 DEF TypeOK, Stages, Statuses, CreateChallengeFails
<1>8. ASSUME NEW r \in Requests, GetChallenge(r) PROVE TypeOK'
  BY <1>8, NoneAssumption DEF TypeOK, Stages, Statuses, GetChallenge
<1>9. ASSUME NEW r \in Requests, ChallengeMissing(r) PROVE TypeOK'
  BY <1>9 DEF TypeOK, Stages, Statuses, ChallengeMissing
<1>10. ASSUME NEW r \in Requests, DeleteChallenge(r) PROVE TypeOK'
  BY <1>10 DEF TypeOK, Stages, Statuses, DeleteChallenge, Compare
<1>11. ASSUME NEW r \in Requests, DeleteChallengeFails(r) PROVE TypeOK'
  BY <1>11 DEF TypeOK, Stages, Statuses, DeleteChallengeFails, Compare
<1>12. ASSUME NEW r \in Requests, VerifySignature(r) PROVE TypeOK'
  BY <1>12 DEF TypeOK, Stages, Statuses, VerifySignature
<1>13. ASSUME NEW r \in Requests, CreateSession(r) PROVE TypeOK'
  BY <1>13, ClockAssumption DEF TypeOK, Stages, Statuses, Session, CreateSession
<1>14. ASSUME NEW r \in Requests, CreateSessionFails(r) PROVE TypeOK'
  BY <1>14 DEF TypeOK, Stages, Statuses, CreateSessionFails
<1>15. ASSUME NEW r \in Requests, GetSession(r) PROVE TypeOK'
  BY <1>15, NoneAssumption DEF TypeOK, Stages, Statuses, GetSession
<1>16. ASSUME NEW r \in Requests, SessionMissing(r) PROVE TypeOK'
  BY <1>16 DEF TypeOK, Stages, Statuses, SessionMissing
<1>17. ASSUME NEW r \in Requests, Accept(r) PROVE TypeOK'
  BY <1>17 DEF TypeOK, Stages, Statuses, Accept
<1>18. ASSUME NEW r \in Requests, RefuseExpired(r) PROVE TypeOK'
  BY <1>18 DEF TypeOK, Stages, Statuses, RefuseExpired
<1>19. ASSUME NEW r \in Requests, DeleteSession(r) PROVE TypeOK'
  BY <1>19 DEF TypeOK, Stages, Statuses, DeleteSession
<1>20. ASSUME NEW r \in Requests, DropUser(r) PROVE TypeOK'
  BY <1>20 DEF TypeOK, Stages, Statuses, DropUser
<1>21. ASSUME NEW r \in Requests, DropUserFails(r) PROVE TypeOK'
  BY <1>21 DEF TypeOK, Stages, Statuses, DropUserFails
<1>22. CASE \/ Tick
            \/ CrashRestart
            \/ \E r \in Requests : Cancel(r)
            \/ UNCHANGED vars
  BY <1>22 DEF TypeOK, Stages, Tick, CrashRestart, InFlight, Cancel, vars
<1>23. ASSUME NEW r \in Requests, Handle(r) PROVE TypeOK'
  BY <1>2, <1>3, <1>4, <1>5, <1>6, <1>7, <1>8, <1>9, <1>10, <1>11, <1>12,
     <1>13, <1>14, <1>15, <1>16, <1>17, <1>18, <1>19, <1>20, <1>21, <1>23
  DEF Handle, Register, Challenge, LogIn, Authenticate
<1>24. QED
  BY <1>1, <1>22, <1>23 DEF Next

(* Type correctness: no handler gets past the read it depends on without   *)
(* the nonce, the user or the session row.                                 *)
THEOREM TypeCorrect == Spec => []TypeOK
<1>1. QED
  BY TypeInit, TypeStep, PTL DEF Spec

-----------------------------------------------------------------------------
(* Sessions and keys.                                                      *)

(* With the routes of NewServer rows of users are written once, so what    *)
(* VerifySignature has found out is still true when the session is created *)
(* and ever after.                                                         *)
KeyInv ==
  Routes = "mux" =>
    /\ \A r \in Requests : op[r] # "deleteUser" /\ pc[r] # "drop"
    /\ \A r \in Requests : pc[r] = "create" => users[user[r]] = key[r]
    /\ \A t \in Requests :
         session[t] # None => users[session[t].user] = session[t].key

LEMMA KeyInit == Init => KeyInv
  BY DEF Init, KeyInv

(* Steps that neither write users or sessions nor verify anything. *)
Neutral(r) ==
  \/ CreateUserFails(r) \/ ChallengeUserFound(r) \/ UserNotFound(r)
  \/ CreateChallenge(r) \/ CreateChallengeFails(r) \/ GetChallenge(r)
  \/ ChallengeMissing(r) \/ DeleteChallenge(r) \/ DeleteChallengeFails(r)
  \/ CreateSessionFails(r) \/ GetSession(r) \/ SessionMissing(r)
  \/ RefuseExpired(r) \/ DropUserFails(r)

LEMMA KeyNeutral ==
  ASSUME TypeOK, KeyInv, NEW r \in Requests, Neutral(r)
  PROVE  KeyInv'
<1>1. /\ UNCHANGED <<users, session, op, user, key>>
      /\ \A q \in Requests : pc'[q] \in {"create", "drop"} => pc'[q] = pc[q]
  BY DEF TypeOK, Neutral, Compare, CreateUserFails, ChallengeUserFound, UserNotFound, CreateChallenge, CreateChallengeFails, GetChallenge, ChallengeMissing, DeleteChallenge, DeleteChallengeFails, CreateSessionFails, GetSession, SessionMissing, RefuseExpired, DropUserFails
<1>2. QED
  BY <1>1 DEF KeyInv

LEMMA KeyStep == TypeOK /\ TypeOK' /\ KeyInv /\ [Next]_vars => KeyInv'
<1> SUFFICES ASSUME TypeOK, TypeOK', KeyInv, [Next]_vars, Routes = "mux"
             PROVE  KeyInv'
  BY DEF KeyInv
<1>1. ASSUME NEW r \in Requests, Arrive(r) PROVE KeyInv'
  BY <1>1 DEF TypeOK, KeyInv, Arrive, RegisterUser, HandleGetChallenge,
     HandleLogin, UseSession, DeleteUser
<1>2. ASSUME NEW r \in Requests, Neutral(r) PROVE KeyInv'
  BY <1>2, KeyNeutral
<1>3. ASSUME NEW r \in Requests, CreateUser(r) PROVE KeyInv'
  <2>1. /\ UNCHANGED <<session, op, user, key>>
        /\ users[user[r]] = None
        /\ users' = [users EXCEPT ![user[r]] = key[r]]
        /\ pc' = [pc EXCEPT ![r] = "done"]
    BY <1>3 DEF CreateUser
  <2>2. \A q \in Requests : session[q] # None => session[q].user # user[r]
    BY <2>1, NoneAssumption DEF TypeOK, KeyInv, Session
  <2>3. \A q \in Requests : pc[q] = "create" => user[q] # user[r]
    BY <2>1, NoneAssumption DEF TypeOK, KeyInv
  <2>4. QED
    BY <2>1, <2>2, <2>3 DEF TypeOK, KeyInv, Session
<1>4. ASSUME NEW r \in Requests, VerifySignature(r) PROVE KeyInv'
  BY <1>4 DEF TypeOK, KeyInv, VerifySignature
<1>5. ASSUME NEW r \in Requests, CreateSession(r) PROVE KeyInv'
  BY <1>5 DEF TypeOK, KeyInv, CreateSession
<1>6. ASSUME NEW r \in Requests, Accept(r) \/ DropUser(r) PROVE KeyInv'
  <2>1. op[r] = "use" /\ Accept(r)
    BY <1>6 DEF TypeOK, KeyInv, Accept, DropUser
  <2>2. QED
    BY <2>1 DEF TypeOK, KeyInv, Accept
<1>7. ASSUME NEW r \in Requests, DeleteSession(r) PROVE KeyInv'
  BY <1>7 DEF TypeOK, KeyInv, DeleteSession
<1>8. CASE \/ Tick
           \/ CrashRestart
           \/ \E r \in Requests : Cancel(r)
           \/ UNCHANGED vars
  BY <1>8 DEF TypeOK, KeyInv, Tick, CrashRestart, InFlight, Cancel, vars
<1>9. QED
  BY <1>1, <1>2, <1>3, <1>4, <1>5, <1>6, <1>7, <1>8
  DEF Next, Handle, Register, Challenge, LogIn, Authenticate, Neutral

(* With the routes of NewServer every session belongs to the key under     *)
(* which its user is registered, for any users, keys and requests.         *)
THEOREM SessionKey == Spec => []SessionHoldsRegisteredKey
<1>1. KeyInv => SessionHoldsRegisteredKey
  BY DEF KeyInv, SessionHoldsRegisteredKey
<1>2. QED
  BY <1>1, KeyInit, KeyStep, TypeCorrect, PTL DEF Spec

-----------------------------------------------------------------------------
(* What has been answered is over, and what is used was answered. *)

OverInv ==
  \A r \in Requests :
    /\ status[r] # "pending" => pc[r] = "done"
    /\ op[r] = "none" <=> pc[r] = "idle"
    /\ op[r] \in {"register", "challenge", "login"} => user[r] \in Users
    /\ pc[r] = "insert" => op[r] = "register"
    /\ pc[r] \in {"check", "draw"} => op[r] = "challenge"
    /\ pc[r] \in {"select", "consume", "verify", "create"} => op[r] = "login"
    /\ op[r] \in {"use", "deleteUser"} => given[r] # None
    /\ pc[r] \in {"verify", "create"} => given[r] # None
    /\ op[r] = "login" /\ status[r] = "ok" => given[r] # None
    /\ given[r] # None => pc[given[r]] = "done"

(* What is left of session rows that running requests have read: the row   *)
(* they have read, or none.                                                *)
RowInv ==
  /\ \A r \in Requests :
       /\ pc[r] \in {"expiry", "expire", "drop"} =>
            session[given[r]] \in {None, seen[r]}
       /\ pc[r] = "expire" => seen[r].expires < now
       /\ pc[r] = "drop" => seen[r].user = user[r]
  /\ \A r, q \in Requests :
       /\ pc[r] \in {"expiry", "expire", "drop"}
       /\ pc[q] \in {"expiry", "expire", "drop"}
       /\ given[r] = given[q]
       => seen[r] = seen[q]

(* Requests that know that the session they came with has expired. *)
FindsExpired(r) ==
  /\ op[r] \in {"use", "deleteUser"}
  /\ pc[r] = "expire" \/ status[r] = "expired"

(* Then its row has expired, if there is one, and so has what others have  *)
(* read of it and may still accept.                                        *)
ExpiredInv ==
  \A r \in Requests :
    FindsExpired(r) =>
      /\ session[given[r]] # None => session[given[r]].expires < now
      /\ \A q \in Requests :
           pc[q] \in {"expiry", "expire"} /\ given[q] = given[r] =>
             seen[q].expires < now

(* A login that has passed GetChallenge and still runs, or has succeeded.  *)
Spending(r) ==
  /\ op[r] = "login"
  /\ \/ status[r] = "ok"
     \/ pc[r] \in {"verify", "create"} /\ r \notin cancelled

(* A nonce is gone once a login that has signed it is past its deletion;   *)
(* a login that comes after that finds another nonce, or none.             *)
NonceInv ==
  ~DBFaults =>
    /\ \A r \in Requests :
         Spending(r) => challenge[user[r]] # given[r]
    /\ \A r \in late :
         /\ op[r] = "login" /\ given[r] # None
         /\ challenge[user[r]] # given[r]
         /\ pc[r] = "consume" => seen[r] # given[r]
         /\ pc[r] \notin {"idle", "verify", "create"} /\ status[r] # "ok"

(* Login r comes with a nonce that its user was given. *)
Own(r) == given[r] # None /\ user[given[r]] = user[r]

(* No other request has touched it. *)
Clear(r) ==
  /\ given[r] \notin disturbed
  /\ \A q \in Requests \ {r} : op[q] = "login" => given[q] # given[r]

(* Who has a nonce is registered, and a login that names a nonce at all    *)
(* names one that somebody was given.                                      *)
ChallengedInv ==
  \A r \in Requests :
    /\ pc[r] = "draw" => users[user[r]] # None
    /\ op[r] = "challenge" /\ status[r] = "ok" => users[user[r]] # None
    /\ op[r] = "login" /\ given[r] # None =>
         op[given[r]] = "challenge" /\ status[given[r]] = "ok"

(* A nonce stays until it is replaced or a login reads it. *)
AvailableInv ==
  \A r \in Requests :
    op[r] = "challenge" /\ status[r] = "ok" =>
      \/ r \in disturbed
      \/ challenge[user[r]] = r
      \/ \E q \in Requests :
           op[q] = "login" /\ given[q] = r /\ pc[q] \notin {"select", "consume"}

(* An undisturbed login with its user's nonce goes on until its key is     *)
(* compared.                                                               *)
UnrefusedInv ==
  \A r \in Requests \ cancelled :
    op[r] = "login" /\ Own(r) /\ Clear(r) =>
      /\ pc[r] = "consume" => seen[r] = given[r]
      /\ pc[r] = "done" /\ status[r] # "ok" => users[user[r]] # key[r]

ClearInv ==
  ~DBFaults /\ Routes = "mux" => ChallengedInv /\ AvailableInv /\ UnrefusedInv

LEMMA OverStep ==
  ASSUME TypeOK, TypeOK', OverInv, [Next]_vars
  PROVE  OverInv'
<1> USE NoneAssumption DEF TypeOK, OverInv
<1>1. ASSUME NEW r \in Requests, NEW u \in Users, NEW k \in Keys,
             RegisterUser(r, u, k)
      PROVE  OverInv'
  BY <1>1 DEF RegisterUser
<1>2. ASSUME NEW r \in Requests, NEW u \in Users, HandleGetChallenge(r, u)
      PROVE  OverInv'
  BY <1>2 DEF HandleGetChallenge
<1>3. ASSUME NEW r \in Requests, NEW u \in Users, NEW k \in Keys,
             NEW n \in Answered("challenge") \cup Guesses, HandleLogin(r, u, n, k)
      PROVE  OverInv'
  BY <1>3, GuessesAssumption DEF HandleLogin, Answered
<1>4. ASSUME NEW r \in Requests, NEW u \in Users, NEW t \in Answered("login"),
             UseSession(r, t) \/ DeleteUser(r, u, t)
      PROVE  OverInv'
  BY <1>4 DEF UseSession, DeleteUser, Answered
<1>5. ASSUME NEW r \in Requests, Register(r) \/ Challenge(r)
      PROVE  OverInv'
  BY <1>5
  DEF Register, Challenge, CreateUser, CreateUserFails, ChallengeUserFound,
      UserNotFound, CreateChallenge, CreateChallengeFails
<1>6. ASSUME NEW r \in Requests, LogIn(r)
      PROVE  OverInv'
  BY <1>6
  DEF LogIn, Compare, GetChallenge, ChallengeMissing, DeleteChallenge,
      DeleteChallengeFails, VerifySignature, CreateSession, CreateSessionFails
<1>7. ASSUME NEW r \in Requests, Authenticate(r)
      PROVE  OverInv'
  BY <1>7
  DEF Authenticate, GetSession, SessionMissing, Accept, RefuseExpired,
      DeleteSession, DropUser, DropUserFails
<1>8. CASE \/ Tick
           \/ CrashRestart
           \/ \E r \in Requests : Cancel(r)
           \/ UNCHANGED vars
  BY <1>8 DEF Tick, CrashRestart, InFlight, Cancel, vars
<1>. QED
  BY <1>1, <1>2, <1>3, <1>4, <1>5, <1>6, <1>7, <1>8 DEF Next, Arrive, Handle

LEMMA RowStep ==
  ASSUME TypeOK, TypeOK', OverInv, RowInv, [Next]_vars
  PROVE  RowInv'
<1> USE DEF TypeOK, OverInv, RowInv
<1>1. ASSUME NEW r \in Requests, Arrive(r)
      PROVE  RowInv'
  BY <1>1
  DEF Arrive, RegisterUser, HandleGetChallenge, HandleLogin, UseSession,
      DeleteUser
<1>2. ASSUME NEW r \in Requests, Register(r) \/ Challenge(r)
      PROVE  RowInv'
  BY <1>2
  DEF Register, Challenge, CreateUser, CreateUserFails, ChallengeUserFound,
      UserNotFound, CreateChallenge, CreateChallengeFails
<1>3. ASSUME NEW r \in Requests, LogIn(r), ~CreateSession(r)
      PROVE  RowInv'
  BY <1>3
  DEF LogIn, Compare, GetChallenge, ChallengeMissing, DeleteChallenge,
      DeleteChallengeFails, VerifySignature, CreateSessionFails
<1>4. ASSUME NEW r \in Requests, CreateSession(r)
      PROVE  RowInv'
  <2>1. \A q \in Requests :
          pc[q] \in {"expiry", "expire", "drop"} => given[q] # r
    BY <1>4 DEF CreateSession
  <2>. QED
    BY <1>4, <2>1 DEF CreateSession
<1>5. ASSUME NEW r \in Requests, GetSession(r)
      PROVE  RowInv'
  BY <1>5 DEF GetSession
<1>6. ASSUME NEW r \in Requests, Accept(r) \/ RefuseExpired(r)
      PROVE  RowInv'
  BY <1>6 DEF Accept, RefuseExpired
<1>7. ASSUME NEW r \in Requests,
             \/ SessionMissing(r) \/ DeleteSession(r)
             \/ DropUser(r) \/ DropUserFails(r)
      PROVE  RowInv'
  BY <1>7 DEF SessionMissing, DeleteSession, DropUser, DropUserFails
<1>8. CASE Tick
  BY <1>8 DEF Tick, Session
<1>9. CASE \/ CrashRestart
           \/ \E r \in Requests : Cancel(r)
           \/ UNCHANGED vars
  BY <1>9 DEF CrashRestart, InFlight, Cancel, vars
<1>. QED
  BY <1>1, <1>2, <1>3, <1>4, <1>5, <1>6, <1>7, <1>8, <1>9
  DEF Next, Handle, LogIn, Authenticate

LEMMA ExpiredStep ==
  ASSUME TypeOK, TypeOK', OverInv, RowInv, ExpiredInv, [Next]_vars
  PROVE  ExpiredInv'
<1> USE DEF TypeOK, OverInv, ExpiredInv, FindsExpired
<1>1. ASSUME NEW r \in Requests, Arrive(r)
      PROVE  ExpiredInv'
  BY <1>1
  DEF Arrive, RegisterUser, HandleGetChallenge, HandleLogin, UseSession,
      DeleteUser
<1>2. ASSUME NEW r \in Requests, Register(r) \/ Challenge(r)
      PROVE  ExpiredInv'
  BY <1>2
  DEF Register, Challenge, CreateUser, CreateUserFails, ChallengeUserFound,
      UserNotFound, CreateChallenge, CreateChallengeFails
<1>3. ASSUME NEW r \in Requests, LogIn(r), ~CreateSession(r)
      PROVE  ExpiredInv'
  BY <1>3
  DEF LogIn, Compare, GetChallenge, ChallengeMissing, DeleteChallenge,
      DeleteChallengeFails, VerifySignature, CreateSessionFails
<1>4. ASSUME NEW r \in Requests, CreateSession(r)
      PROVE  ExpiredInv'
  <2>1. \A q \in Requests : FindsExpired(q) => given[q] # r
    BY <1>4 DEF CreateSession
  <2>. QED
    BY <1>4, <2>1 DEF CreateSession
<1>5. ASSUME NEW r \in Requests, GetSession(r)
      PROVE  ExpiredInv'
  BY <1>5 DEF GetSession
<1>6. ASSUME NEW r \in Requests, RefuseExpired(r)
      PROVE  ExpiredInv'
  BY <1>6 DEF RefuseExpired, RowInv
<1>7. ASSUME NEW r \in Requests,
             \/ SessionMissing(r) \/ Accept(r) \/ DeleteSession(r)
             \/ DropUser(r) \/ DropUserFails(r)
      PROVE  ExpiredInv'
  BY <1>7 DEF SessionMissing, Accept, DeleteSession, DropUser, DropUserFails
<1>8. CASE Tick
  BY <1>8 DEF Tick, Session
<1>9. CASE \/ CrashRestart
           \/ \E r \in Requests : Cancel(r)
           \/ UNCHANGED vars
  BY <1>9 DEF CrashRestart, InFlight, Cancel, vars
<1>. QED
  BY <1>1, <1>2, <1>3, <1>4, <1>5, <1>6, <1>7, <1>8, <1>9
  DEF Next, Handle, LogIn, Authenticate

LEMMA NonceStep ==
  ASSUME TypeOK, TypeOK', OverInv, NonceInv, [Next]_vars
  PROVE  NonceInv'
<1> SUFFICES ASSUME ~DBFaults
             PROVE  NonceInv'
  BY DEF NonceInv
<1> USE NoneAssumption DEF TypeOK, OverInv, NonceInv, Spending
<1>1. ASSUME NEW r \in Requests, NEW u \in Users, NEW k \in Keys,
             NEW n \in Answered("challenge") \cup Guesses, HandleLogin(r, u, n, k)
      PROVE  NonceInv'
  BY <1>1, GuessesAssumption DEF HandleLogin, Answered, Spenders
<1>2. ASSUME NEW r \in Requests, NEW u \in Users,
             \/ \E k \in Keys : RegisterUser(r, u, k)
             \/ HandleGetChallenge(r, u)
             \/ \E t \in Answered("login") : UseSession(r, t) \/ DeleteUser(r, u, t)
      PROVE  NonceInv'
  BY <1>2 DEF RegisterUser, HandleGetChallenge, UseSession, DeleteUser
<1>3. ASSUME NEW r \in Requests, CreateChallenge(r)
      PROVE  NonceInv'
  BY <1>3 DEF CreateChallenge
<1>4. ASSUME NEW r \in Requests,
             \/ Register(r)
             \/ ChallengeUserFound(r) \/ UserNotFound(r) \/ CreateChallengeFails(r)
      PROVE  NonceInv'
  BY <1>4
  DEF Register, CreateUser, CreateUserFails, ChallengeUserFound, UserNotFound,
      CreateChallengeFails
<1>5. ASSUME NEW r \in Requests, GetChallenge(r) \/ ChallengeMissing(r)
      PROVE  NonceInv'
  BY <1>5 DEF GetChallenge, ChallengeMissing
<1>6. ASSUME NEW r \in Requests, DeleteChallenge(r)
      PROVE  NonceInv'
  BY <1>6 DEF DeleteChallenge, Compare
<1>7. ASSUME NEW r \in Requests, DeleteChallengeFails(r)
      PROVE  NonceInv'
  BY <1>7 DEF DeleteChallengeFails, DBMayFail, Compare
<1>8. ASSUME NEW r \in Requests,
             VerifySignature(r) \/ CreateSession(r) \/ CreateSessionFails(r)
      PROVE  NonceInv'
  BY <1>8 DEF VerifySignature, CreateSession, CreateSessionFails, DBRuns
<1>9. ASSUME NEW r \in Requests, Authenticate(r)
      PROVE  NonceInv'
  BY <1>9
  DEF Authenticate, GetSession, SessionMissing, Accept, RefuseExpired,
      DeleteSession, DropUser, DropUserFails
<1>10. CASE \/ Tick
            \/ CrashRestart
            \/ \E r \in Requests : Cancel(r)
            \/ UNCHANGED vars
  BY <1>10 DEF Tick, CrashRestart, InFlight, Cancel, vars
<1>. QED
  BY <1>1, <1>2, <1>3, <1>4, <1>5, <1>6, <1>7, <1>8, <1>9, <1>10
  DEF Next, Arrive, Handle, Challenge, LogIn

(* A request on its way does not change what it was sent with, and its     *)
(* response is final; requests that are cancelled and nonces that were     *)
(* disturbed stay so.                                                      *)
LEMMA Onward ==
  ASSUME TypeOK, OverInv, [Next]_vars
  PROVE  /\ cancelled \subseteq cancelled' /\ disturbed \subseteq disturbed'
         /\ \A r \in Requests :
              /\ pc[r] # "idle" => UNCHANGED <<op[r], user[r], key[r], given[r]>>
              /\ pc[r] = "done" => pc'[r] = "done" /\ status'[r] = status[r]
<1> DEFINE Goal ==
      /\ cancelled \subseteq cancelled' /\ disturbed \subseteq disturbed'
      /\ \A r \in Requests :
           /\ pc[r] # "idle" => UNCHANGED <<op[r], user[r], key[r], given[r]>>
           /\ pc[r] = "done" => pc'[r] = "done" /\ status'[r] = status[r]
<1> USE DEF TypeOK
<1>1. ASSUME NEW r \in Requests, Arrive(r)
      PROVE  Goal
  BY <1>1
  DEF Arrive, RegisterUser, HandleGetChallenge, HandleLogin, UseSession,
      DeleteUser
<1>2. ASSUME NEW r \in Requests, Register(r) \/ Challenge(r)
      PROVE  Goal
  BY <1>2
  DEF Register, Challenge, CreateUser, CreateUserFails, ChallengeUserFound,
      UserNotFound, CreateChallenge, CreateChallengeFails
<1>3. ASSUME NEW r \in Requests, LogIn(r)
      PROVE  Goal
  BY <1>3
  DEF LogIn, Compare, GetChallenge, ChallengeMissing, DeleteChallenge,
      DeleteChallengeFails, VerifySignature, CreateSession, CreateSessionFails
<1>4. ASSUME NEW r \in Requests, Authenticate(r)
      PROVE  Goal
  <2>1. op[r] \in {"use", "deleteUser"} \/ pc[r] # "expiry"
    OBVIOUS
  <2>. QED
    BY <1>4, <2>1
    DEF Authenticate, GetSession, SessionMissing, Accept, RefuseExpired,
        DeleteSession, DropUser, DropUserFails
<1>5. CASE \/ Tick
           \/ CrashRestart
           \/ \E r \in Requests : Cancel(r)
           \/ UNCHANGED vars
  BY <1>5 DEF Tick, CrashRestart, InFlight, Cancel, vars
<1>. QED
  BY <1>1, <1>2, <1>3, <1>4, <1>5 DEF Next, Handle

(* Where the handlers are when they act. *)
LEMMA Stage ==
  ASSUME NEW r \in Requests
  PROVE  /\ Arrive(r) => pc[r] = "idle"
         /\ Register(r) => pc[r] = "insert"
         /\ Challenge(r) => pc[r] \in {"check", "draw"} \/ UserNotFound(r)
         /\ UserNotFound(r) => pc[r] \in {"check", "verify"}
         /\ LogIn(r) => pc[r] \in {"select", "consume", "verify", "create"}
         /\ Authenticate(r) => pc[r] \in {"session", "expiry", "expire", "drop"}
<1>1. Arrive(r) => pc[r] = "idle"
  BY DEF Arrive, RegisterUser, HandleGetChallenge, HandleLogin, UseSession,
         DeleteUser
<1>2. Register(r) => pc[r] = "insert"
  BY DEF Register, CreateUser, CreateUserFails
<1>3. /\ Challenge(r) => pc[r] \in {"check", "draw"} \/ UserNotFound(r)
      /\ UserNotFound(r) => pc[r] \in {"check", "verify"}
  BY DEF Challenge, ChallengeUserFound, UserNotFound, CreateChallenge,
         CreateChallengeFails
<1>4. LogIn(r) => pc[r] \in {"select", "consume", "verify", "create"}
  BY DEF LogIn, GetChallenge, ChallengeMissing, DeleteChallenge,
         DeleteChallengeFails, VerifySignature, CreateSession,
         CreateSessionFails
<1>5. Authenticate(r) => pc[r] \in {"session", "expiry", "expire", "drop"}
  BY DEF Authenticate, GetSession, SessionMissing, Accept, RefuseExpired,
         DeleteSession, DropUser, DropUserFails
<1>. QED
  BY <1>1, <1>2, <1>3, <1>4, <1>5

(* A request is moved by its own handler, or killed. *)
LEMMA Moves ==
  ASSUME TypeOK, [Next]_vars, NEW q \in Requests
  PROVE  \/ pc'[q] = pc[q] /\ seen'[q] = seen[q]
         \/ pc[q] # "idle" /\ pc'[q] = "dead"
         \/ Arrive(q) \/ Handle(q)
<1> DEFINE Still == pc'[q] = pc[q] /\ seen'[q] = seen[q]
<1> USE DEF TypeOK
<1>1. ASSUME NEW r \in Requests \ {q}, Arrive(r)
      PROVE  Still
  BY <1>1
  DEF Arrive, RegisterUser, HandleGetChallenge, HandleLogin, UseSession,
      DeleteUser
<1>2. ASSUME NEW r \in Requests \ {q}, Register(r) \/ Challenge(r)
      PROVE  Still
  BY <1>2
  DEF Register, Challenge, CreateUser, CreateUserFails, ChallengeUserFound,
      UserNotFound, CreateChallenge, CreateChallengeFails
<1>3. ASSUME NEW r \in Requests \ {q}, LogIn(r)
      PROVE  Still
  BY <1>3
  DEF LogIn, Compare, GetChallenge, ChallengeMissing, DeleteChallenge,
      DeleteChallengeFails, VerifySignature, CreateSession, CreateSessionFails
<1>4. ASSUME NEW r \in Requests \ {q}, Authenticate(r)
      PROVE  Still
  BY <1>4
  DEF Authenticate, GetSession, SessionMissing, Accept, RefuseExpired,
      DeleteSession, DropUser, DropUserFails
<1>5. CASE Tick \/ (\E r \in Requests : Cancel(r)) \/ UNCHANGED vars
  BY <1>5 DEF Tick, Cancel, vars
<1>6. CASE CrashRestart
  BY <1>6 DEF CrashRestart, InFlight
<1>. QED
  BY <1>1, <1>2, <1>3, <1>4, <1>5, <1>6 DEF Next, Handle

(* Behind the routes of NewServer a registered user keeps his key. *)
LEMMA UsersKept ==
  ASSUME TypeOK, KeyInv, [Next]_vars, Routes = "mux"
  PROVE  \A u \in Users : users[u] # None => users'[u] = users[u]
<1> DEFINE Kept == \A u \in Users : users[u] # None => users'[u] = users[u]
<1> USE DEF TypeOK
<1>1. ASSUME NEW r \in Requests, Arrive(r)
      PROVE  Kept
  BY <1>1
  DEF Arrive, RegisterUser, HandleGetChallenge, HandleLogin, UseSession,
      DeleteUser
<1>2. ASSUME NEW r \in Requests, CreateUser(r)
      PROVE  Kept
  BY <1>2 DEF CreateUser
<1>3. ASSUME NEW r \in Requests, DropUser(r)
      PROVE  FALSE
  BY <1>3 DEF DropUser, KeyInv
<1>4. ASSUME NEW r \in Requests, Handle(r), ~CreateUser(r), ~DropUser(r)
      PROVE  Kept
  BY <1>4
  DEF Handle, Register, Challenge, LogIn, Authenticate, CreateUserFails,
      ChallengeUserFound, UserNotFound, CreateChallenge, CreateChallengeFails,
      GetChallenge, ChallengeMissing, DeleteChallenge, DeleteChallengeFails,
      VerifySignature, CreateSession, CreateSessionFails, GetSession,
      SessionMissing, Accept, RefuseExpired, DeleteSession, DropUserFails
<1>5. CASE \/ Tick
           \/ CrashRestart
           \/ \E r \in Requests : Cancel(r)
           \/ UNCHANGED vars
  BY <1>5 DEF Tick, CrashRestart, Cancel, vars
<1>. QED
  BY <1>1, <1>2, <1>3, <1>4, <1>5 DEF Next

LEMMA ChallengedStep ==
  ASSUME TypeOK, TypeOK', KeyInv, OverInv, ChallengedInv, [Next]_vars,
         Routes = "mux"
  PROVE  ChallengedInv'
<1>u. \A u \in Users : users[u] # None => users'[u] = users[u]
  BY UsersKept
<1>o. \A r \in Requests :
        /\ pc[r] # "idle" => UNCHANGED <<op[r], user[r], key[r], given[r]>>
        /\ pc[r] = "done" => pc'[r] = "done" /\ status'[r] = status[r]
  BY Onward
<1> USE DEF TypeOK, OverInv, ChallengedInv
<1>1. ASSUME NEW r \in Requests, NEW u \in Users, NEW k \in Keys,
             NEW n \in Answered("challenge") \cup Guesses, HandleLogin(r, u, n, k)
      PROVE  ChallengedInv'
  BY <1>1, GuessesAssumption DEF HandleLogin, Answered
<1>2. ASSUME NEW r \in Requests, NEW u \in Users,
             \/ \E k \in Keys : RegisterUser(r, u, k)
             \/ HandleGetChallenge(r, u)
             \/ \E t \in Answered("login") : UseSession(r, t) \/ DeleteUser(r, u, t)
      PROVE  ChallengedInv'
  BY <1>2 DEF RegisterUser, HandleGetChallenge, UseSession, DeleteUser
<1>3. ASSUME NEW r \in Requests, Challenge(r)
      PROVE  ChallengedInv'
  BY <1>3
  DEF Challenge, ChallengeUserFound, UserNotFound, CreateChallenge,
      CreateChallengeFails
<1>4. ASSUME NEW r \in Requests, Register(r)
      PROVE  ChallengedInv'
  <2>1. /\ UNCHANGED request
        /\ \A q \in Requests :
             /\ pc'[q] = "draw" => pc[q] = "draw"
             /\ op[q] \in {"challenge", "login"} => status'[q] = status[q]
    BY <1>4 DEF Register, CreateUser, CreateUserFails
  <2>. QED
    BY <1>u, <2>1
<1>5. ASSUME NEW r \in Requests, LogIn(r)
      PROVE  ChallengedInv'
  BY <1>5
  DEF LogIn, Compare, GetChallenge, ChallengeMissing, DeleteChallenge,
      DeleteChallengeFails, VerifySignature, CreateSession, CreateSessionFails
<1>6. ASSUME NEW r \in Requests, Authenticate(r)
      PROVE  ChallengedInv'
  BY <1>6
  DEF KeyInv, Authenticate, GetSession, SessionMissing, Accept, RefuseExpired,
      DeleteSession, DropUser, DropUserFails
<1>7. CASE \/ Tick
           \/ CrashRestart
           \/ \E r \in Requests : Cancel(r)
           \/ UNCHANGED vars
  BY <1>7 DEF Tick, CrashRestart, InFlight, Cancel, vars
<1>. QED
  BY <1>1, <1>2, <1>3, <1>4, <1>5, <1>6, <1>7 DEF Next, Arrive, Handle

LEMMA AvailableStep ==
  ASSUME TypeOK, TypeOK', OverInv, ChallengedInv, AvailableInv, [Next]_vars
  PROVE  AvailableInv'
<1>o. /\ disturbed \subseteq disturbed'
      /\ \A r \in Requests :
           /\ pc[r] # "idle" => UNCHANGED <<op[r], user[r], key[r], given[r]>>
           /\ pc[r] = "done" => pc'[r] = "done" /\ status'[r] = status[r]
  BY Onward
<1> USE NoneAssumption DEF TypeOK, OverInv, AvailableInv
<1>1. ASSUME NEW r \in Requests, Arrive(r)
      PROVE  AvailableInv'
  BY <1>1
  DEF Arrive, RegisterUser, HandleGetChallenge, HandleLogin, UseSession,
      DeleteUser
<1>2. ASSUME NEW r \in Requests, CreateChallenge(r)
      PROVE  AvailableInv'
  BY <1>2 DEF CreateChallenge
<1>3. ASSUME NEW r \in Requests,
             \/ Register(r)
             \/ ChallengeUserFound(r) \/ UserNotFound(r) \/ CreateChallengeFails(r)
      PROVE  AvailableInv'
  BY <1>3
  DEF Register, CreateUser, CreateUserFails, ChallengeUserFound, UserNotFound,
      CreateChallengeFails
<1>4. ASSUME NEW r \in Requests, DeleteChallenge(r)
      PROVE  AvailableInv'
  BY <1>4 DEF DeleteChallenge, Compare, ChallengedInv
<1>5. ASSUME NEW r \in Requests, LogIn(r), ~DeleteChallenge(r)
      PROVE  AvailableInv'
  BY <1>5
  DEF LogIn, Compare, GetChallenge, ChallengeMissing, DeleteChallengeFails,
      VerifySignature, CreateSession, CreateSessionFails
<1>6. ASSUME NEW r \in Requests, Authenticate(r)
      PROVE  AvailableInv'
  BY <1>6
  DEF Authenticate, GetSession, SessionMissing, Accept, RefuseExpired,
      DeleteSession, DropUser, DropUserFails
<1>7. CASE \/ Tick
           \/ CrashRestart
           \/ \E r \in Requests : Cancel(r)
           \/ UNCHANGED vars
  BY <1>7 DEF Tick, CrashRestart, InFlight, Cancel, vars
<1>. QED
  BY <1>1, <1>2, <1>3, <1>4, <1>5, <1>6, <1>7
  DEF Next, Handle, Challenge

LEMMA UnrefusedStep ==
  ASSUME TypeOK, TypeOK', KeyInv, OverInv, ChallengedInv, AvailableInv,
         UnrefusedInv, [Next]_vars, ~DBFaults, Routes = "mux"
  PROVE  UnrefusedInv'
<1> SUFFICES ASSUME NEW r \in Requests, r \notin cancelled', op'[r] = "login",
                    Own(r)', Clear(r)'
             PROVE  /\ pc'[r] = "consume" => seen'[r] = given'[r]
                    /\ pc'[r] = "done" /\ status'[r] # "ok" =>
                         users'[user'[r]] # key'[r]
  BY DEF UnrefusedInv
<1> DEFINE Goal == /\ pc'[r] = "consume" => seen'[r] = given'[r]
                   /\ pc'[r] = "done" /\ status'[r] # "ok" =>
                        users'[user'[r]] # key'[r]
<1>u. \A u \in Users : users[u] # None => users'[u] = users[u]
  BY UsersKept
<1>o. /\ cancelled \subseteq cancelled' /\ disturbed \subseteq disturbed'
      /\ \A q \in Requests :
           /\ pc[q] # "idle" => UNCHANGED <<op[q], user[q], key[q], given[q]>>
           /\ pc[q] = "done" => pc'[q] = "done" /\ status'[q] = status[q]
  BY Onward
<1>0. CASE pc[r] = "idle"
  <2>1. CASE Arrive(r)
    BY <2>1
    DEF Arrive, RegisterUser, HandleGetChallenge, HandleLogin, UseSession,
        DeleteUser, TypeOK
  <2>2. ~Handle(r)
    BY <1>0, Stage DEF Handle
  <2>3. CASE pc'[r] = pc[r]
    BY <1>0, <2>3
  <2>. QED
    BY <1>0, <2>1, <2>2, <2>3, Moves
<1>s. ASSUME pc[r] # "idle"
      PROVE  /\ op[r] = "login" /\ r \notin cancelled /\ Own(r) /\ Clear(r)
             /\ user[r] \in Users /\ given[r] \in Requests
             /\ users[user[r]] # None /\ users'[user[r]] = users[user[r]]
             /\ UNCHANGED <<user[r], key[r], given[r]>>
  <2>1. op[r] = "login" /\ UNCHANGED <<user[r], key[r], given[r]>>
    BY <1>s, <1>o
  <2>2. Clear(r)
    BY <1>o, <2>1 DEF Clear, OverInv
  <2>3. given[r] \in Requests /\ Own(r)
    BY <1>o, <2>1 DEF Own, OverInv, TypeOK
  <2>4. users[user[r]] # None
    BY <2>1, <2>3 DEF Own, ChallengedInv
  <2>. QED
    BY <1>u, <1>o, <2>1, <2>2, <2>3, <2>4 DEF OverInv
<1>p. ASSUME pc[r] # "idle"
      PROVE  /\ pc[r] = "select" => challenge[user[r]] = given[r]
             /\ pc[r] = "consume" => seen[r] = given[r]
             /\ pc[r] = "done" /\ status[r] # "ok" => users[user[r]] # key[r]
  <2>1. pc[r] = "select" => challenge[user[r]] = given[r]
    BY <1>s, <1>p DEF ChallengedInv, AvailableInv, Own, Clear
  <2>. QED
    BY <1>s, <1>p, <2>1 DEF UnrefusedInv
<1>1. ASSUME pc[r] # "idle", pc'[r] = pc[r]
      PROVE  Goal
  <2>1. seen'[r] = seen[r] \/ pc[r] # "consume"
    <3>1. CASE LogIn(r)
      BY <1>1, <3>1
      DEF LogIn, GetChallenge, ChallengeMissing, DeleteChallenge,
          DeleteChallengeFails, VerifySignature, CreateSession,
          CreateSessionFails, TypeOK
    <3>. QED
      BY <1>1, <3>1, Moves, Stage DEF Handle
  <2>. QED
    BY <1>s, <1>p, <1>o, <1>1, <2>1
<1>2. ASSUME LogIn(r)
      PROVE  Goal
  <2>0. pc[r] # "idle" /\ DBMayFail(r) = FALSE
    BY <1>o, <1>2
    DEF LogIn, GetChallenge, ChallengeMissing, DeleteChallenge,
        DeleteChallengeFails, VerifySignature, CreateSession,
        CreateSessionFails, DBMayFail
  <2>1. CASE GetChallenge(r)
    BY <1>s, <1>p, <2>0, <2>1 DEF GetChallenge, TypeOK
  <2>2. ASSUME ChallengeMissing(r) \/ DeleteChallengeFails(r) \/ CreateSessionFails(r)
        PROVE  FALSE
    BY <1>s, <1>p, <2>0, <2>2, NoneAssumption
    DEF ChallengeMissing, DeleteChallengeFails, CreateSessionFails
  <2>3. CASE DeleteChallenge(r)
    BY <1>s, <1>p, <2>0, <2>3 DEF DeleteChallenge, Compare, TypeOK
  <2>4. CASE VerifySignature(r)
    BY <1>s, <2>0, <2>4 DEF VerifySignature, TypeOK
  <2>5. CASE CreateSession(r)
    BY <2>5 DEF CreateSession, TypeOK
  <2>. QED
    BY <1>2, <2>1, <2>2, <2>3, <2>4, <2>5 DEF LogIn
<1>3. ASSUME UserNotFound(r), pc[r] # "idle"
      PROVE  Goal
  BY <1>s, <1>3 DEF UserNotFound, DBMayFail, OverInv
<1>4. ASSUME pc[r] # "idle", ~LogIn(r), ~UserNotFound(r)
      PROVE  pc'[r] = pc[r] \/ pc'[r] = "dead"
  <2>1. op[r] = "login"
    BY <1>s, <1>4
  <2>2. ~Register(r) /\ ~Challenge(r) /\ ~Authenticate(r)
    BY <1>4, <2>1, Stage DEF OverInv, TypeOK
  <2>. QED
    BY <1>4, <2>2, Moves, Stage DEF Handle
<1>. QED
  BY <1>0, <1>1, <1>2, <1>3, <1>4

-----------------------------------------------------------------------------
(* The invariant, and what follows from it. *)

IInv ==
  TypeOK /\ KeyInv /\ OverInv /\ RowInv /\ ExpiredInv /\ NonceInv /\ ClearInv

LEMMA Invariance == Spec => []IInv
<1>1. Init => IInv
  BY TypeInit, KeyInit
  DEF IInv, Init, OverInv, RowInv, ExpiredInv, FindsExpired, NonceInv, Spending, ClearInv,
      ChallengedInv, AvailableInv, UnrefusedInv
<1>2. IInv /\ [Next]_vars => IInv'
  <2> SUFFICES ASSUME IInv, [Next]_vars
               PROVE  IInv'
    OBVIOUS
  <2>1. TypeOK'
    BY TypeStep DEF IInv
  <2>2. KeyInv' /\ OverInv' /\ RowInv' /\ ExpiredInv' /\ NonceInv'
    BY <2>1, KeyStep, OverStep, RowStep, ExpiredStep, NonceStep DEF IInv
  <2>3. ClearInv'
    BY <2>1, ChallengedStep, AvailableStep, UnrefusedStep DEF IInv, ClearInv
  <2>. QED
    BY <2>1, <2>2, <2>3 DEF IInv
<1>. QED
  BY <1>1, <1>2, PTL DEF Spec

(* What a request does next when AuthMiddleware has read its session. *)
LEMMA Checked ==
  ASSUME TypeOK, OverInv, NEW q \in Requests, pc[q] = "expiry",
         pc'[q] # "expiry", Next
  PROVE  Accept(q) \/ RefuseExpired(q) \/ pc'[q] = "dead"
<1>1. Authenticate(q) \/ pc'[q] = "dead"
  BY Moves, Stage DEF Handle
<1>2. ASSUME Authenticate(q)
      PROVE  Accept(q) \/ RefuseExpired(q)
  BY <1>2
  DEF Authenticate, GetSession, SessionMissing, DeleteSession, DropUser,
      DropUserFails
<1>. QED
  BY <1>1, <1>2

(* A token that a request has found expired is accepted by no later step,  *)
(* whether the request still runs, has deleted the row or has failed to: a *)
(* row is never written again, and what others may read of it has expired. *)
THEOREM Expiry == Spec => ExpiredStaysExpired
<1>1. ASSUME IInv, [Next]_vars, NEW r \in Requests, NEW q \in Requests,
             op[r] \in {"use", "deleteUser"}, given[q] = given[r],
             pc[r] = "expire" \/ status[r] = "expired",
             pc[q] = "expiry", pc'[q] # "expiry"
      PROVE  pc'[q] \in {"expire", "dead"}
  <2>1. Next
    BY <1>1 DEF vars
  <2>2. seen[q].expires < now
    BY <1>1 DEF IInv, ExpiredInv, FindsExpired
  <2>3. seen[q].expires \in Nat /\ now \in Nat
    BY <1>1 DEF IInv, TypeOK, Session
  <2>4. ~Accept(q)
    BY <2>2, <2>3 DEF Accept
  <2>5. RefuseExpired(q) \/ pc'[q] = "dead"
    BY <1>1, <2>1, <2>4, Checked DEF IInv
  <2>. QED
    BY <1>1, <2>5 DEF RefuseExpired, IInv, TypeOK
<1>2. IInv /\ [Next]_vars =>
        [\A r, q \in Requests :
           /\ op[r] \in {"use", "deleteUser"} /\ given[q] = given[r]
           /\ pc[r] = "expire" \/ status[r] = "expired"
           /\ op[q] \in {"use", "deleteUser"}
           /\ pc[q] = "expiry" /\ pc'[q] # "expiry"
           => pc'[q] \in {"expire", "dead"}]_vars
  BY <1>1
<1>. QED
  BY Invariance, <1>2, PTL DEF Spec, ExpiredStaysExpired

(* An account is deleted only in a session of its user.                    *)
THEOREM OwnAccount == Spec => OnlyOwnAccountDeleted
<1>1. ASSUME IInv, [Next]_vars, NEW u \in Users, users[u] # None, users'[u] = None
      PROVE  \E r \in Requests :
               pc[r] = "drop" /\ pc'[r] = "done" /\ seen[r].user = u
  <2>1. PICK r \in Requests : DropUser(r)
    <3>1. ASSUME NEW r \in Requests, Arrive(r)
          PROVE  FALSE
      BY <1>1, <3>1
      DEF Arrive, RegisterUser, HandleGetChallenge, HandleLogin, UseSession,
          DeleteUser
    <3>2. ASSUME NEW r \in Requests, Register(r)
          PROVE  FALSE
      <4>1. key[r] # None
        BY <1>1, <3>2, Stage DEF IInv, TypeOK
      <4>. QED
        BY <1>1, <3>2, <4>1
        DEF IInv, TypeOK, Register, CreateUser, CreateUserFails
    <3>3. ASSUME NEW r \in Requests, Challenge(r)
          PROVE  FALSE
      BY <1>1, <3>3
      DEF Challenge, ChallengeUserFound, UserNotFound, CreateChallenge,
          CreateChallengeFails
    <3>4. ASSUME NEW r \in Requests, LogIn(r)
          PROVE  FALSE
      BY <1>1, <3>4
      DEF LogIn, GetChallenge, ChallengeMissing, DeleteChallenge,
          DeleteChallengeFails, VerifySignature, CreateSession,
          CreateSessionFails
    <3>5. ASSUME NEW r \in Requests, Authenticate(r)
          PROVE  DropUser(r)
      BY <1>1, <3>5
      DEF Authenticate, GetSession, SessionMissing, Accept, RefuseExpired,
          DeleteSession, DropUserFails
    <3>6. CASE \/ Tick
               \/ CrashRestart
               \/ \E r \in Requests : Cancel(r)
               \/ UNCHANGED vars
      BY <1>1, <3>6 DEF Tick, CrashRestart, Cancel, vars
    <3>. QED
      BY <1>1, <3>1, <3>2, <3>3, <3>4, <3>5, <3>6 DEF Next, Handle
  <2>2. user[r] = u
    BY <1>1, <2>1 DEF DropUser, IInv, TypeOK
  <2>. QED
    BY <1>1, <2>1, <2>2 DEF DropUser, IInv, TypeOK, RowInv
<1>2. IInv /\ [Next]_vars =>
        [\A u \in Users :
           users[u] # None /\ users'[u] = None =>
             \E r \in Requests :
               pc[r] = "drop" /\ pc'[r] = "done" /\ seen[r].user = u]_vars
  BY <1>1
<1>. QED
  BY Invariance, <1>2, PTL DEF Spec, OnlyOwnAccountDeleted

(* As long as no statement fails unasked, a nonce that opened a session is *)
(* of no use to a login that begins afterwards.                            *)
THEOREM SpentNonce ==
  ASSUME ~DBFaults
  PROVE  Spec => []SpentNonceIsRefused
<1>1. IInv => SpentNonceIsRefused
  BY DEF IInv, NonceInv, SpentNonceIsRefused
<1>. QED
  BY Invariance, <1>1, PTL

(* As long as no statement fails unasked, and behind the routes of         *)
(* NewServer, a login with the registered key that is refused has met      *)
(* another request for its nonce or its user.                              *)
THEOREM Undisturbed ==
  ASSUME ~DBFaults, Routes = "mux"
  PROVE  Spec => []RefusedOnlyIfDisturbed
<1>1. IInv => RefusedOnlyIfDisturbed
  BY DEF IInv, ClearInv, UnrefusedInv, Own, Clear, RefusedOnlyIfDisturbed
<1>. QED
  BY Invariance, <1>1, PTL
=============================================================================
