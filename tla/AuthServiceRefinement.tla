----------------------- MODULE AuthServiceRefinement -----------------------
(***************************************************************************)
(* Proof that AuthService implements Accounts: which step of Accounts each *)
(* statement is, if any.                                                   *)
(***************************************************************************)
EXTENDS AuthServiceProofs

USE DEF tables, request, history, Goto, Reply, Finish

-----------------------------------------------------------------------------
(* A row that a running request has read is deleted only when it has       *)
(* expired, a login opens its session with its last step, and only         *)
(* DeleteUser goes on to delete a user.                                    *)
LiveInv ==
  /\ \A r \in Requests :
       pc[r] \in {"expiry", "expire", "drop"} /\ session[given[r]] = None
         => seen[r].expires < now
  /\ \A t \in Requests : session[t] # None => pc[t] = "done"
  /\ \A r \in Requests : pc[r] = "drop" => op[r] = "deleteUser"

RInv == IInv /\ LiveInv

(* Who writes the table sessions. *)
LEMMA SessionsWritten ==
  ASSUME [Next]_vars, session' # session
  PROVE  \E r \in Requests : CreateSession(r) \/ DeleteSession(r)
<1>1. ASSUME NEW r \in Requests, Arrive(r)
      PROVE  FALSE
  BY <1>1
  DEF Arrive, RegisterUser, HandleGetChallenge, HandleLogin, UseSession,
      DeleteUser
<1>2. ASSUME NEW r \in Requests, Register(r) \/ Challenge(r)
      PROVE  FALSE
  BY <1>2
  DEF Register, Challenge, CreateUser, CreateUserFails, ChallengeUserFound,
      UserNotFound, CreateChallenge, CreateChallengeFails
<1>3. ASSUME NEW r \in Requests, LogIn(r)
      PROVE  CreateSession(r)
  BY <1>3
  DEF LogIn, GetChallenge, ChallengeMissing, DeleteChallenge,
      DeleteChallengeFails, VerifySignature, CreateSessionFails
<1>4. ASSUME NEW r \in Requests, Authenticate(r)
      PROVE  DeleteSession(r)
  BY <1>4
  DEF Authenticate, GetSession, SessionMissing, Accept, RefuseExpired,
      DropUser, DropUserFails
<1>5. CASE \/ Tick
           \/ CrashRestart
           \/ \E r \in Requests : Cancel(r)
           \/ UNCHANGED vars
  BY <1>5 DEF Tick, CrashRestart, Cancel, vars
<1>. QED
  BY <1>1, <1>2, <1>3, <1>4, <1>5 DEF Next, Handle

(* The clock does not go back. *)
LEMMA ClockOnward ==
  ASSUME TypeOK, [Next]_vars
  PROVE  now' \in Nat /\ now' >= now /\ (Tick \/ now' = now)
<1> DEFINE Goal == now' \in Nat /\ now' >= now /\ (Tick \/ now' = now)
<1>0. now \in Nat
  BY DEF TypeOK
<1>1. ASSUME NEW r \in Requests, Arrive(r)
      PROVE  Goal
  BY <1>0, <1>1
  DEF Arrive, RegisterUser, HandleGetChallenge, HandleLogin, UseSession,
      DeleteUser
<1>2. ASSUME NEW r \in Requests, Register(r) \/ Challenge(r)
      PROVE  Goal
  BY <1>0, <1>2
  DEF Register, Challenge, CreateUser, CreateUserFails, ChallengeUserFound,
      UserNotFound, CreateChallenge, CreateChallengeFails
<1>3. ASSUME NEW r \in Requests, LogIn(r)
      PROVE  Goal
  BY <1>0, <1>3
  DEF LogIn, GetChallenge, ChallengeMissing, DeleteChallenge,
      DeleteChallengeFails, VerifySignature, CreateSession, CreateSessionFails
<1>4. ASSUME NEW r \in Requests, Authenticate(r)
      PROVE  Goal
  BY <1>0, <1>4
  DEF Authenticate, GetSession, SessionMissing, Accept, RefuseExpired,
      DeleteSession, DropUser, DropUserFails
<1>5. CASE \/ Tick
           \/ CrashRestart
           \/ \E r \in Requests : Cancel(r)
           \/ UNCHANGED vars
  BY <1>0, <1>5 DEF Tick, CrashRestart, Cancel, vars
<1>. QED
  BY <1>1, <1>2, <1>3, <1>4, <1>5 DEF Next, Handle

(* What was over before a step is as it was. *)
LEMMA OverKept ==
  ASSUME TypeOK, OverInv, [Next]_vars, NEW q \in Requests, pc[q] = "done"
  PROVE  /\ pc'[q] = "done"
         /\ UNCHANGED <<op[q], user[q], key[q], given[q], status[q], seen[q]>>
<1>1. pc'[q] = "done" /\ status'[q] = status[q]
      /\ UNCHANGED <<op[q], user[q], key[q], given[q]>>
  BY Onward
<1>2. ~Arrive(q) /\ ~Handle(q)
  BY Stage DEF Handle
<1>3. seen'[q] = seen[q]
  BY <1>1, <1>2, Moves
<1>. QED
  BY <1>1, <1>3

LEMMA LiveStep ==
  ASSUME IInv, LiveInv, [Next]_vars
  PROVE  LiveInv'
<1>0. TypeOK /\ TypeOK' /\ OverInv /\ RowInv
  BY TypeStep DEF IInv
<1>n. now \in Nat /\ now' \in Nat /\ now' >= now
  BY <1>0, ClockOnward DEF TypeOK
<1>1. ASSUME NEW t \in Requests, session'[t] # None
      PROVE  pc'[t] = "done"
  <2>1. CASE session[t] # None
    BY <1>0, <2>1, OverKept DEF LiveInv
  <2>2. CASE session[t] = None
    <3>1. PICK r \in Requests : CreateSession(r) \/ DeleteSession(r)
      BY <1>1, <2>2, SessionsWritten
    <3>2. CreateSession(r) /\ r = t
      BY <1>0, <1>1, <2>2, <3>1 DEF TypeOK, CreateSession, DeleteSession
    <3>. QED
      BY <1>0, <3>2 DEF TypeOK, CreateSession
  <2>. QED
    BY <2>1, <2>2
<1>2. ASSUME NEW r \in Requests, pc'[r] \in {"expiry", "expire", "drop"},
             session'[given'[r]] = None
      PROVE  seen'[r].expires < now'
  <2>1. CASE pc[r] \in {"expiry", "expire", "drop"}
    <3>1. given'[r] = given[r] /\ given[r] \in Requests
      BY <1>0, <2>1, Onward DEF TypeOK
    <3>2. seen'[r] = seen[r] /\ seen[r] \in Session
      BY <1>0, <1>2, <2>1, Moves, Stage
      DEF TypeOK, Handle, Authenticate, GetSession, SessionMissing, Accept,
          RefuseExpired, DeleteSession, DropUser, DropUserFails
    <3>3. seen[r].expires < now
      <4>1. CASE session[given[r]] = None
        BY <2>1, <4>1 DEF LiveInv
      <4>2. CASE session[given[r]] # None
        <5>1. PICK q \in Requests : CreateSession(q) \/ DeleteSession(q)
          BY <1>2, <3>1, <4>2, SessionsWritten
        <5>2. DeleteSession(q) /\ given[q] = given[r] /\ pc[q] = "expire"
          <6>1. ~CreateSession(q)
            <7>1. pc[given[r]] = "done"
              BY <1>0, <2>1 DEF OverInv, TypeOK
            <7>. QED
              BY <1>0, <1>2, <3>1, <4>2, <7>1 DEF TypeOK, CreateSession
          <6>2. DeleteSession(q)
            BY <5>1, <6>1
          <6>. QED
            BY <1>0, <1>2, <3>1, <4>2, <6>2 DEF TypeOK, DeleteSession
        <5>. QED
          BY <1>0, <2>1, <5>2 DEF RowInv
      <4>. QED
        BY <4>1, <4>2
    <3>. QED
      BY <1>n, <3>2, <3>3 DEF Session
  <2>2. CASE pc[r] \notin {"expiry", "expire", "drop"}
    <3>1. Handle(r) \/ Arrive(r)
      BY <1>0, <1>2, <2>2, Moves
    <3>2. GetSession(r)
      <4>1. ~Arrive(r)
        BY <1>0, <1>2
        DEF TypeOK, Arrive, RegisterUser, HandleGetChallenge, HandleLogin,
            UseSession, DeleteUser
      <4>2. ~Register(r) /\ ~Challenge(r)
        BY <1>0, <1>2
        DEF TypeOK, Register, Challenge, CreateUser, CreateUserFails,
            ChallengeUserFound, UserNotFound, CreateChallenge,
            CreateChallengeFails
      <4>3. ~LogIn(r)
        BY <1>0, <1>2
        DEF TypeOK, LogIn, Compare, GetChallenge, ChallengeMissing,
            DeleteChallenge, DeleteChallengeFails, VerifySignature,
            CreateSession, CreateSessionFails
      <4>4. Authenticate(r) => GetSession(r)
        BY <1>0, <1>2, <2>2
        DEF TypeOK, Authenticate, SessionMissing, Accept, RefuseExpired,
            DeleteSession, DropUser, DropUserFails
      <4>. QED
        BY <3>1, <4>1, <4>2, <4>3, <4>4 DEF Handle
    <3>. QED
      BY <1>2, <3>2 DEF GetSession
  <2>. QED
    BY <2>1, <2>2
<1>3. ASSUME NEW r \in Requests, pc'[r] = "drop"
      PROVE  op'[r] = "deleteUser"
  <2>1. CASE pc[r] = "drop"
    BY <1>0, <2>1, Onward DEF LiveInv
  <2>2. CASE pc[r] # "drop"
    <3>1. Handle(r) \/ Arrive(r)
      BY <1>0, <1>3, <2>2, Moves
    <3>2. Accept(r)
      <4>1. ~Arrive(r)
        BY <1>0, <1>3
        DEF TypeOK, Arrive, RegisterUser, HandleGetChallenge, HandleLogin,
            UseSession, DeleteUser
      <4>2. ~Register(r) /\ ~Challenge(r)
        BY <1>0, <1>3
        DEF TypeOK, Register, Challenge, CreateUser, CreateUserFails,
            ChallengeUserFound, UserNotFound, CreateChallenge,
            CreateChallengeFails
      <4>3. ~LogIn(r)
        BY <1>0, <1>3
        DEF TypeOK, LogIn, Compare, GetChallenge, ChallengeMissing,
            DeleteChallenge, DeleteChallengeFails, VerifySignature,
            CreateSession, CreateSessionFails
      <4>4. Authenticate(r) => Accept(r)
        BY <1>0, <1>3
        DEF TypeOK, Authenticate, GetSession, SessionMissing, RefuseExpired,
            DeleteSession, DropUser, DropUserFails
      <4>. QED
        BY <3>1, <4>1, <4>2, <4>3, <4>4 DEF Handle
    <3>. QED
      BY <1>0, <1>3, <3>2 DEF TypeOK, Accept
  <2>. QED
    BY <2>1, <2>2
<1>. QED
  BY <1>1, <1>2, <1>3 DEF LiveInv

LEMMA RInvariance == Spec => []RInv
<1>1. Init => LiveInv
  BY DEF Init, LiveInv
<1>2. IInv /\ LiveInv /\ [Next]_vars => LiveInv'
  BY LiveStep
<1>. QED
  BY Invariance, <1>1, <1>2, PTL DEF Spec, RInv
-----------------------------------------------------------------------------
(* The step that a statement is for the handlers behind the middleware.    *)

(* Who is accepted once stays so, and his user with him. *)
LEMMA ServedSame ==
  ASSUME TypeOK, OverInv, [Next]_vars,
         \A q \in Requests : op'[q] = "use" /\ status'[q] = "ok" => status[q] = "ok"
  PROVE  Served' = Served
<1>1. \A q \in Requests : status[q] = "ok" =>
        op'[q] = op[q] /\ status'[q] = "ok" /\ seen'[q] = seen[q]
  BY OverKept DEF OverInv
<1>2. Answered("use")' = Answered("use")
  BY <1>1 DEF Answered
<1>3. \A q \in Answered("use") : seen'[q] = seen[q]
  BY <1>1 DEF Answered
<1>. QED
  BY <1>2, <1>3 DEF Served

LEMMA LiveSame ==
  ASSUME UNCHANGED <<session, now>>
  PROVE  LiveSessions' = LiveSessions
BY DEF LiveSessions, Live

(* A step that only ends requests, or does something out of sight. *)
LEMMA Unseen ==
  ASSUME TypeOK, OverInv, [Next]_vars, UNCHANGED <<users, session, now>>,
         \A q \in Requests :
           /\ pc'[q] \in {"create", "drop"} =>
                pc'[q] = pc[q] /\ user'[q] = user[q] /\ key'[q] = key[q]
           /\ op'[q] = "use" /\ status'[q] = "ok" => status[q] = "ok"
  PROVE  Contract!Abandon
<1>1. Proved' \subseteq Proved
  BY DEF Proved
<1>2. Entitled' \subseteq Entitled
  BY DEF Entitled
<1>3. Served' = Served
  BY ServedSame
<1>4. LiveSessions' = LiveSessions
  BY LiveSame
<1>. QED
  BY <1>1, <1>2, <1>3, <1>4 DEF Contract!Abandon

LEMMA ArriveUnseen ==
  ASSUME TypeOK, OverInv, NEW r \in Requests, Arrive(r)
  PROVE  Contract!Abandon
<1>0. [Next]_vars
  BY DEF Next
<1>1. UNCHANGED <<users, session, now>>
  BY DEF Arrive, RegisterUser, HandleGetChallenge, HandleLogin, UseSession,
         DeleteUser
<1>2. UNCHANGED status /\ pc[r] = "idle"
  BY DEF Arrive, RegisterUser, HandleGetChallenge, HandleLogin, UseSession,
         DeleteUser
<1>3. /\ pc'[r] \notin {"create", "drop"}
      /\ \A q \in Requests \ {r} :
           pc'[q] = pc[q] /\ user'[q] = user[q] /\ key'[q] = key[q]
  BY DEF TypeOK, Arrive, RegisterUser, HandleGetChallenge, HandleLogin,
         UseSession, DeleteUser
<1>. QED
  BY <1>0, <1>1, <1>2, <1>3, Unseen

(* Steps that fail, or prepare what comes later. *)
Background(r) ==
  \/ CreateUserFails(r) \/ Challenge(r)
  \/ GetChallenge(r) \/ ChallengeMissing(r)
  \/ DeleteChallenge(r) \/ DeleteChallengeFails(r) \/ CreateSessionFails(r)
  \/ GetSession(r) \/ SessionMissing(r) \/ RefuseExpired(r) \/ DropUserFails(r)

LEMMA BackgroundUnseen ==
  ASSUME TypeOK, OverInv, NEW r \in Requests, Background(r)
  PROVE  Contract!Abandon
<1>0. [Next]_vars
  BY DEF Next, Handle, Register, LogIn, Authenticate, Background
<1> DEFINE Goal ==
      /\ UNCHANGED <<users, session, now, op, user, key>>
      /\ \A q \in Requests :
           /\ pc'[q] \in {"create", "drop"} => pc'[q] = pc[q]
           /\ op[q] = "use" /\ status'[q] = "ok" => status[q] = "ok"
<1>1. ASSUME CreateUserFails(r) \/ Challenge(r)
      PROVE  Goal
  BY <1>1
  DEF TypeOK, OverInv, CreateUserFails, Challenge, ChallengeUserFound,
      UserNotFound, CreateChallenge, CreateChallengeFails
<1>2. ASSUME \/ GetChallenge(r) \/ ChallengeMissing(r)
             \/ DeleteChallenge(r) \/ DeleteChallengeFails(r)
             \/ CreateSessionFails(r)
      PROVE  Goal
  BY <1>2
  DEF TypeOK, Compare, GetChallenge, ChallengeMissing, DeleteChallenge,
      DeleteChallengeFails, CreateSessionFails
<1>3. ASSUME \/ GetSession(r) \/ SessionMissing(r)
             \/ RefuseExpired(r) \/ DropUserFails(r)
      PROVE  Goal
  BY <1>3 DEF TypeOK, GetSession, SessionMissing, RefuseExpired, DropUserFails
<1>4. Goal
  BY <1>1, <1>2, <1>3 DEF Background
<1>. QED
  BY <1>0, <1>4, Unseen

LEMMA OutsideUnseen ==
  ASSUME TypeOK, OverInv,
         CrashRestart \/ (\E r \in Requests : Cancel(r)) \/ UNCHANGED vars
  PROVE  Contract!Abandon
<1>0. [Next]_vars
  BY DEF Next
<1>1. /\ UNCHANGED <<users, session, now, op, user, key, status>>
      /\ \A q \in Requests :
           pc'[q] \in {"create", "drop"} => pc'[q] = pc[q]
  BY DEF TypeOK, CrashRestart, InFlight, Cancel, vars
<1>. QED
  BY <1>0, <1>1, Unseen

-----------------------------------------------------------------------------
(* The steps that Accounts names.                                          *)

(* CreateUser is SignUp. *)
LEMMA CreateUserSeen ==
  ASSUME TypeOK, OverInv, NEW r \in Requests, CreateUser(r)
  PROVE  Contract!SignUp(user[r], key[r])
<1>0. [Next]_vars
  BY DEF Next, Handle, Register
<1>1. /\ users[user[r]] = None /\ users' = [users EXCEPT ![user[r]] = key[r]]
      /\ UNCHANGED <<session, now, op, user, key>>
      /\ pc[r] = "insert" /\ pc' = [pc EXCEPT ![r] = "done"]
      /\ status' = [status EXCEPT ![r] = "ok"]
  BY DEF CreateUser
<1>2. op[r] = "register"
  BY <1>1 DEF OverInv
<1>3. Proved' = Proved /\ Entitled' = Entitled
  <2>1. \A q \in Requests :
          /\ pc'[q] = "create" <=> pc[q] = "create"
          /\ pc'[q] = "drop" <=> pc[q] = "drop"
    BY <1>1 DEF TypeOK
  <2>. QED
    BY <1>1, <2>1 DEF Proved, Entitled
<1>4. Served' = Served
  BY <1>0, <1>1, <1>2, ServedSame DEF TypeOK
<1>5. LiveSessions' = LiveSessions
  BY <1>1, LiveSame
<1>. QED
  BY <1>1, <1>3, <1>4, <1>5 DEF Contract!SignUp

(* A good signature is Prove, a bad one is out of sight. *)
LEMMA VerifySignatureSeen ==
  ASSUME TypeOK, OverInv, NEW r \in Requests, VerifySignature(r)
  PROVE  Contract!Prove(r, user[r], key[r]) \/ Contract!Abandon
<1>0. [Next]_vars
  BY DEF Next, Handle, LogIn
<1>1. /\ pc[r] = "verify" /\ op[r] = "login"
      /\ UNCHANGED <<users, session, now, op, user, key>>
  BY DEF VerifySignature, OverInv
<1>2. CASE users[user[r]] = key[r]
  <2>1. pc' = [pc EXCEPT ![r] = "create"] /\ UNCHANGED status
    BY <1>2 DEF VerifySignature
  <2>2. /\ \A q \in Requests : pc'[q] = "create" <=> pc[q] = "create" \/ q = r
        /\ \A q \in Requests : pc'[q] = "drop" <=> pc[q] = "drop"
    BY <1>1, <2>1 DEF TypeOK
  <2>3. Proved' = Proved \cup {<<r, user[r], key[r]>>}
    BY <1>1, <2>2 DEF Proved
  <2>4. Entitled' = Entitled
    BY <1>1, <2>2 DEF Entitled
  <2>5. Served' = Served
    BY <1>0, <1>1, <2>1, ServedSame
  <2>6. LiveSessions' = LiveSessions
    BY <1>1, LiveSame
  <2>. QED
    BY <1>1, <1>2, <2>3, <2>4, <2>5, <2>6 DEF Contract!Prove
<1>3. CASE users[user[r]] # key[r]
  <2>1. /\ pc' = [pc EXCEPT ![r] = "done"]
        /\ status' = [status EXCEPT ![r] = "unauthorized"]
    BY <1>3 DEF VerifySignature
  <2>2. \A q \in Requests :
          /\ pc'[q] \in {"create", "drop"} => pc'[q] = pc[q]
          /\ status'[q] = "ok" => status[q] = "ok"
    BY <2>1 DEF TypeOK
  <2>. QED
    BY <1>0, <1>1, <2>2, Unseen
<1>. QED
  BY <1>2, <1>3

(* CreateSession is Open: the session lasts from now on. *)
LEMMA CreateSessionSeen ==
  ASSUME TypeOK, OverInv, LiveInv, NEW r \in Requests, CreateSession(r)
  PROVE  Contract!Open(r, user[r], key[r])
<1> DEFINE row == [user |-> user[r], key |-> key[r], expires |-> now + Lifetime]
<1>0. [Next]_vars
  BY DEF Next, Handle, LogIn
<1>1. /\ pc[r] = "create" /\ op[r] = "login"
      /\ UNCHANGED <<users, now, op, user, key>>
      /\ session' = [session EXCEPT ![r] = row]
      /\ pc' = [pc EXCEPT ![r] = "done"]
      /\ status' = [status EXCEPT ![r] = "ok"]
  BY DEF CreateSession, OverInv
<1>2. /\ \A q \in Requests : pc'[q] = "create" <=> pc[q] = "create" /\ q # r
      /\ \A q \in Requests : pc'[q] = "drop" <=> pc[q] = "drop"
  BY <1>1 DEF TypeOK
<1>3. <<r, user[r], key[r]>> \in Proved
  BY <1>1 DEF Proved
<1>4. Proved' = Proved \ {<<r, user[r], key[r]>>}
  BY <1>1, <1>2 DEF Proved
<1>5. Entitled' = Entitled
  BY <1>1, <1>2 DEF Entitled
<1>6. Served' = Served
  BY <1>0, <1>1, ServedSame DEF TypeOK
<1>7. LiveSessions[r] = None
  BY <1>1 DEF LiveInv, LiveSessions, Live
<1>8. LiveSessions' = [LiveSessions EXCEPT ![r] = row]
  <2>1. row \in Session /\ row.expires >= now /\ row # None
    BY <1>1, ClockAssumption, NoneAssumption DEF TypeOK, Session
  <2>2. session'[r] = row /\ \A q \in Requests \ {r} : session'[q] = session[q]
    BY <1>1 DEF TypeOK
  <2>. QED
    BY <1>1, <2>1, <2>2 DEF LiveSessions, Live
<1>. QED
  BY <1>1, <1>3, <1>4, <1>5, <1>6, <1>7, <1>8 DEF Contract!Open

(* The row that was read is the session's, if it has not expired.          *)
LEMMA ReadIsLive ==
  ASSUME TypeOK, RowInv, LiveInv, NEW r \in Requests,
         pc[r] = "expiry", seen[r].expires >= now
  PROVE  given[r] \in Requests /\ LiveSessions[given[r]] = seen[r]
         /\ seen[r] \in Session /\ seen[r] # None
<1>1. given[r] \in Requests /\ seen[r] \in Session /\ now \in Nat
  BY DEF TypeOK
<1>2. session[given[r]] = seen[r]
  BY <1>1 DEF RowInv, LiveInv, Session
<1>3. seen[r] # None
  BY <1>1, NoneAssumption
<1>. QED
  BY <1>1, <1>2, <1>3 DEF LiveSessions, Live

(* Accept is Serve or Entitle, with the session that lasts at this moment. *)
LEMMA AcceptSeen ==
  ASSUME TypeOK, OverInv, RowInv, LiveInv, NEW r \in Requests, Accept(r)
  PROVE  \/ Contract!Serve(r, given[r])
         \/ Contract!Entitle(r, given[r])
         \/ Contract!Abandon
<1>0. [Next]_vars
  BY DEF Next, Handle, Authenticate
<1>1. /\ pc[r] = "expiry" /\ op[r] \in {"use", "deleteUser"}
      /\ UNCHANGED <<users, session, now, op, user, key, seen>>
      /\ LiveSessions[given[r]] = seen[r] /\ seen[r] # None
  BY ReadIsLive DEF Accept, TypeOK
<1>2. LiveSessions' = LiveSessions
  BY <1>1, LiveSame
<1>3. CASE op[r] = "use"
  <2>1. /\ pc' = [pc EXCEPT ![r] = "done"]
        /\ status' = [status EXCEPT ![r] = "ok"]
    BY <1>3 DEF Accept
  <2>2. \A q \in Requests :
          /\ pc'[q] = "create" <=> pc[q] = "create"
          /\ pc'[q] = "drop" <=> pc[q] = "drop"
          /\ status'[q] = "ok" <=> status[q] = "ok" \/ q = r
    BY <1>1, <2>1 DEF TypeOK
  <2>3. Proved' = Proved /\ Entitled' = Entitled
    BY <1>1, <2>2 DEF Proved, Entitled
  <2>4. Served' = Served \cup {<<r, seen[r].user>>}
    BY <1>1, <1>3, <2>2 DEF Served, Answered
  <2>. QED
    BY <1>1, <1>2, <2>3, <2>4 DEF Contract!Serve
<1>4. CASE op[r] # "use" /\ seen[r].user = user[r]
  <2>1. pc' = [pc EXCEPT ![r] = "drop"] /\ UNCHANGED status
    BY <1>4 DEF Accept
  <2>2. \A q \in Requests :
          /\ pc'[q] = "create" <=> pc[q] = "create"
          /\ pc'[q] = "drop" <=> pc[q] = "drop" \/ q = r
    BY <1>1, <2>1 DEF TypeOK
  <2>3. Proved' = Proved
    BY <1>1, <2>2 DEF Proved
  <2>4. Entitled' = Entitled \cup {<<r, seen[r].user>>}
    BY <1>1, <1>4, <2>2 DEF Entitled
  <2>5. Served' = Served
    BY <1>0, <1>1, <2>1, ServedSame
  <2>. QED
    BY <1>1, <1>2, <2>3, <2>4, <2>5 DEF Contract!Entitle
<1>5. CASE op[r] # "use" /\ seen[r].user # user[r]
  <2>1. /\ pc' = [pc EXCEPT ![r] = "done"]
        /\ status' = [status EXCEPT ![r] = "forbidden"]
    BY <1>5 DEF Accept
  <2>2. \A q \in Requests :
          /\ pc'[q] \in {"create", "drop"} => pc'[q] = pc[q]
          /\ status'[q] = "ok" => status[q] = "ok"
    BY <2>1 DEF TypeOK
  <2>. QED
    BY <1>0, <1>1, <2>2, Unseen
<1>. QED
  BY <1>3, <1>4, <1>5

(* The row that is deleted has expired: out of sight. *)
LEMMA DeleteSessionUnseen ==
  ASSUME TypeOK, OverInv, RowInv, NEW r \in Requests, DeleteSession(r)
  PROVE  Contract!Abandon
<1>0. [Next]_vars
  BY DEF Next, Handle, Authenticate
<1>1. /\ pc[r] = "expire" /\ UNCHANGED <<users, now, op, user, key>>
      /\ pc' = [pc EXCEPT ![r] = "done"]
      /\ status' = [status EXCEPT ![r] = "expired"]
  BY DEF DeleteSession
<1>2. \A q \in Requests :
        /\ pc'[q] \in {"create", "drop"} => pc'[q] = pc[q]
        /\ status'[q] = "ok" => status[q] = "ok"
  BY <1>1 DEF TypeOK
<1>3. Proved' \subseteq Proved /\ Entitled' \subseteq Entitled
  BY <1>1, <1>2 DEF Proved, Entitled
<1>4. Served' = Served
  BY <1>0, <1>1, <1>2, ServedSame
<1>5. LiveSessions' = LiveSessions
  <2>1. session[given[r]] = None \/ ~(session[given[r]].expires >= now)
    BY <1>1 DEF TypeOK, RowInv, Session
  <2>2. ASSUME NEW t \in Requests
        PROVE  /\ session'[t] \in {session[t], None}
               /\ t # given[r] => session'[t] = session[t]
    BY DEF TypeOK, DeleteSession
  <2>. QED
    BY <1>1, <2>1, <2>2 DEF LiveSessions, Live
<1>. QED
  BY <1>1, <1>3, <1>4, <1>5 DEF Contract!Abandon

(* DropUser is Leave. *)
LEMMA DropUserSeen ==
  ASSUME TypeOK, OverInv, LiveInv, NEW r \in Requests, DropUser(r)
  PROVE  Contract!Leave(r, user[r])
<1>0. [Next]_vars
  BY DEF Next, Handle, Authenticate
<1>1. /\ pc[r] = "drop" /\ op[r] = "deleteUser"
      /\ users' = [users EXCEPT ![user[r]] = None]
      /\ UNCHANGED <<session, now, op, user, key>>
      /\ pc' = [pc EXCEPT ![r] = "done"]
      /\ status' = [status EXCEPT ![r] = "ok"]
  BY DEF DropUser, LiveInv
<1>2. \A q \in Requests :
        /\ pc'[q] = "create" <=> pc[q] = "create"
        /\ pc'[q] = "drop" <=> pc[q] = "drop" /\ q # r
  BY <1>1 DEF TypeOK
<1>3. <<r, user[r]>> \in Entitled
  BY <1>1 DEF Entitled
<1>4. Entitled' = Entitled \ {<<r, user[r]>>}
  BY <1>1, <1>2 DEF Entitled
<1>5. Proved' = Proved
  BY <1>1, <1>2 DEF Proved
<1>6. Served' = Served
  BY <1>0, <1>1, ServedSame DEF TypeOK
<1>7. LiveSessions' = LiveSessions
  BY <1>1, LiveSame
<1>. QED
  BY <1>1, <1>3, <1>4, <1>5, <1>6, <1>7 DEF Contract!Leave

(* Tick is Pass. *)
LEMMA TickSeen ==
  ASSUME TypeOK, OverInv, Tick
  PROVE  Contract!Pass
<1>0. [Next]_vars
  BY DEF Next
<1>1. /\ now' = now + 1 /\ now \in Nat
      /\ UNCHANGED <<users, session, pc, op, user, key, seen, status>>
  BY DEF Tick, TypeOK
<1>2. Proved' = Proved /\ Entitled' = Entitled
  BY <1>1 DEF Proved, Entitled
<1>3. Served' = Served
  BY <1>0, <1>1, ServedSame
<1>4. LiveSessions' = [t \in Requests |->
        IF LiveSessions[t] # None /\ LiveSessions[t].expires >= now'
          THEN LiveSessions[t] ELSE None]
  <2>1. \A t \in Requests :
          session[t] # None /\ session[t].expires >= now' =>
            session[t].expires >= now
    BY <1>1 DEF TypeOK, Session
  <2>. QED
    BY <1>1, <2>1 DEF LiveSessions, Live
<1>. QED
  BY <1>1, <1>2, <1>3, <1>4 DEF Contract!Pass

(* Every step of AuthService is a step of Accounts or leaves all that      *)
(* Accounts sees as it was.                                                *)
LEMMA StepSeen ==
  ASSUME RInv, [Next]_vars
  PROVE  [Contract!AccountsNext]_(Contract!accountVars)
<1>0. TypeOK /\ OverInv /\ RowInv /\ LiveInv
  BY DEF RInv, IInv
<1>1. ASSUME Contract!Abandon
      PROVE  Contract!AccountsNext
  BY <1>1 DEF Contract!AccountsNext
<1>2. ASSUME NEW r \in Requests, Arrive(r)
      PROVE  Contract!AccountsNext
  BY <1>0, <1>1, <1>2, ArriveUnseen
<1>3. ASSUME NEW r \in Requests, Background(r) \/ DeleteSession(r)
      PROVE  Contract!AccountsNext
  BY <1>0, <1>1, <1>3, BackgroundUnseen, DeleteSessionUnseen
<1>4. ASSUME NEW r \in Requests, CreateUser(r)
      PROVE  Contract!AccountsNext
  <2>1. user[r] \in Users /\ key[r] \in Keys
    BY <1>0, <1>4, NoneAssumption DEF TypeOK, CreateUser
  <2>. QED
    BY <1>0, <1>4, <2>1, CreateUserSeen DEF Contract!AccountsNext
<1>5. ASSUME NEW r \in Requests, VerifySignature(r) \/ CreateSession(r)
      PROVE  Contract!AccountsNext
  <2>1. user[r] \in Users /\ key[r] \in Keys
    BY <1>0, <1>5, NoneAssumption DEF TypeOK, VerifySignature, CreateSession
  <2>. QED
    BY <1>0, <1>5, <2>1, VerifySignatureSeen, CreateSessionSeen
    DEF Contract!AccountsNext
<1>6. ASSUME NEW r \in Requests, Accept(r)
      PROVE  Contract!AccountsNext
  <2>1. given[r] \in Requests
    BY <1>0, <1>6 DEF TypeOK, Accept
  <2>. QED
    BY <1>0, <1>6, <2>1, AcceptSeen DEF Contract!AccountsNext
<1>7. ASSUME NEW r \in Requests, DropUser(r)
      PROVE  Contract!AccountsNext
  <2>1. user[r] \in Users
    BY <1>0, <1>7, NoneAssumption DEF TypeOK, DropUser
  <2>. QED
    BY <1>0, <1>7, <2>1, DropUserSeen DEF Contract!AccountsNext
<1>8. CASE Tick
  BY <1>0, <1>8, TickSeen DEF Contract!AccountsNext
<1>9. CASE CrashRestart \/ (\E r \in Requests : Cancel(r)) \/ UNCHANGED vars
  BY <1>0, <1>1, <1>9, OutsideUnseen
<1>10. ASSUME NEW r \in Requests, Handle(r)
       PROVE  Contract!AccountsNext
  BY <1>3, <1>4, <1>5, <1>6, <1>7, <1>10
  DEF Handle, Register, LogIn, Authenticate, Background
<1>. QED
  BY <1>2, <1>8, <1>9, <1>10 DEF Next

LEMMA InitSeen == Init => Contract!AccountsInit
<1> SUFFICES ASSUME Init PROVE Contract!AccountsInit
  OBVIOUS
<1>1. Proved = {} /\ Served = {} /\ Entitled = {}
  BY DEF Init, Proved, Served, Entitled, Answered
<1>2. LiveSessions = [t \in Requests |-> None]
  BY DEF Init, LiveSessions, Live
<1>. QED
  BY <1>1, <1>2 DEF Init, Contract!AccountsInit

(* AuthService implements Accounts, for any users, keys, requests and      *)
(* lifetime, with both sets of routes, failing statements and crashes.     *)
THEOREM Refinement == Spec => ImplementsAccounts
  BY RInvariance, InitSeen, StepSeen, PTL
  DEF Spec, ImplementsAccounts, Contract!AccountsSpec
=============================================================================
