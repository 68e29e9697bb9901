----------------------------- MODULE Accounts -----------------------------
(***************************************************************************)
(* What registration and login promise to the handlers behind them, with   *)
(* the statements, challenges, crashes and failed calls hidden: whoever    *)
(* acts as a user does so in a session that has not expired, and it was    *)
(* opened, once, by a login that has shown the key this user was           *)
(* registered with.  A session ends for everybody at one instant, whether  *)
(* or not its row has been deleted by then.  AuthService is shown to       *)
(* implement this module.                                                  *)
(***************************************************************************)
EXTENDS Naturals

CONSTANTS
  Users,      \* user names
  Keys,       \* identity keys
  Requests,   \* requests; a session has the name of the login that opened it
  Lifetime,   \* lifetime of a session
  None        \* no key, no session

VARIABLES
  registered, \* registered[u]: the key of user u, or None
  time,       \* the clock
  proved,     \* logins under way <<r, u, k>> that have shown u's key k
  sessions,   \* sessions[t]: session t while it lasts, or None
  served,     \* pairs <<r, u>>: request r was accepted for user u
  entitled    \* requests under way <<r, u>> that may delete user u

accountVars == <<registered, time, proved, sessions, served, entitled>>

AccountsInit ==
  /\ registered \in [Users -> Keys \cup {None}]
  /\ time = 0
  /\ proved = {} /\ served = {} /\ entitled = {}
  /\ sessions = [t \in Requests |-> None]

SignUp(u, k) ==
  /\ registered[u] = None
  /\ registered' = [registered EXCEPT ![u] = k]
  /\ UNCHANGED <<time, proved, sessions, served, entitled>>

(* Login r shows that it holds the key of u. *)
Prove(r, u, k) ==
  /\ registered[u] = k
  /\ proved' = proved \cup {<<r, u, k>>}
  /\ UNCHANGED <<registered, time, sessions, served, entitled>>

(* It opens one session. *)
Open(r, u, k) ==
  /\ <<r, u, k>> \in proved /\ sessions[r] = None
  /\ proved' = proved \ {<<r, u, k>>}
  /\ sessions' = [sessions EXCEPT ![r] =
       [user |-> u, key |-> k, expires |-> time + Lifetime]]
  /\ UNCHANGED <<registered, time, served, entitled>>

(* Request r is accepted for the user of session t. *)
Serve(r, t) ==
  /\ sessions[t] # None
  /\ served' = served \cup {<<r, sessions[t].user>>}
  /\ UNCHANGED <<registered, time, proved, sessions, entitled>>

(* It is to delete this user, and does. *)
Entitle(r, t) ==
  /\ sessions[t] # None
  /\ entitled' = entitled \cup {<<r, sessions[t].user>>}
  /\ UNCHANGED <<registered, time, proved, sessions, served>>

Leave(r, u) ==
  /\ <<r, u>> \in entitled
  /\ entitled' = entitled \ {<<r, u>>}
  /\ registered' = [registered EXCEPT ![u] = None]
  /\ UNCHANGED <<time, proved, sessions, served>>

(* Requests fail or are killed. *)
Abandon ==
  /\ proved' \subseteq proved /\ entitled' \subseteq entitled
  /\ UNCHANGED <<registered, time, sessions, served>>

(* Time passes, and the sessions that have lasted their time are over. *)
Pass ==
  /\ time' = time + 1
  /\ sessions' = [t \in Requests |->
       IF sessions[t] # None /\ sessions[t].expires >= time'
         THEN sessions[t] ELSE None]
  /\ UNCHANGED <<registered, proved, served, entitled>>

AccountsNext ==
  \/ Abandon
  \/ Pass
  \/ \E u \in Users, k \in Keys : SignUp(u, k)
  \/ \E r \in Requests, u \in Users :
       \/ Leave(r, u)
       \/ \E k \in Keys : Prove(r, u, k) \/ Open(r, u, k)
  \/ \E r, t \in Requests : Serve(r, t) \/ Entitle(r, t)

AccountsSpec == AccountsInit /\ [][AccountsNext]_accountVars
=============================================================================
