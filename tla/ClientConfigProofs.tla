------------------------- MODULE ClientConfigProofs -------------------------
(***************************************************************************)
(* Theorems about ClientConfig, for any numbers of users and invocations.  *)
(***************************************************************************)
EXTENDS ClientConfig, TLAPS

-----------------------------------------------------------------------------
(* Type correctness.  A login within GetAuthHeader goes on to the request  *)
(* only with a current user.                                               *)
TypeInv ==
  /\ TypeOK
  /\ \A p \in Procs :
       pc[p] \in {"save", "write"} /\ goal[p] = "call" =>
         cfg[p].current \in Users

LEMMA DefaultTyped == Default \in Config
  BY NoneAssumption DEF Default, Config, KeyRing

(* What a command does to its copy of the configuration keeps it a Config. *)
LEMMA SetCurrentTyped ==
  ASSUME NEW c \in Config, NEW u \in Users
  PROVE  [c EXCEPT !.current = u] \in Config
  BY DEF Config

LEMMA SetBookTyped ==
  ASSUME NEW c \in Config, NEW u \in Users, NEW k \in Procs \cup {None}
  PROVE  [c EXCEPT !.book[u] = k] \in Config
  BY DEF Config, KeyRing

LEMMA InitTyped ==
  ASSUME NEW c \in Config, NEW u \in Users, NEW p \in Procs
  PROVE  [c EXCEPT !.current = u, !.priv[u] = p, !.book[u] = p] \in Config
  BY DEF Config, KeyRing

LEMMA LoginTyped ==
  ASSUME NEW c \in Config, c.current # None
  PROVE  [c EXCEPT !.token = @ \cup {c.current}] \in Config
  BY DEF Config

LEMMA ListTyped ==
  ASSUME NEW c \in Config, NEW p \in Procs
  PROVE  [c EXCEPT !.listed = p] \in Config
  BY DEF Config

LEMMA EnteredTyped ==
  ASSUME TypeOK, NEW p \in Procs, arg[p] \in Users,
         NEW k \in {p} \cup Drawn, Enters(p, k)
  PROVE  k \in Procs /\ entered' \subseteq Users \X Procs
<1>1. k \in Procs
  BY DEF Drawn
<1>2. <<arg[p], k>> \in Users \X Procs
  BY <1>1
<1>3. entered \subseteq Users \X Procs /\ entered' = entered \cup {<<arg[p], k>>}
  BY DEF TypeOK, Enters
<1> QED
  BY <1>1, <1>2, <1>3

LEMMA TypeInit == Init => TypeInv
  BY DefaultTyped DEF Init, TypeInv, TypeOK, Stages, Commands

LEMMA TypeStep == TypeInv /\ [Next]_vars => TypeInv'
<1> SUFFICES ASSUME TypeInv, [Next]_vars PROVE TypeInv'
  OBVIOUS
<1> USE NamesAssumption, NoneAssumption DEF TypeInv, TypeOK
<1>1. ASSUME NEW p \in Procs, Start(p) PROVE TypeInv'
  <2>0. PICK c \in Commands :
          \E u \in Names(c) : LoadConfig(p, c, u) \/ LoadConfigFails(p, c, u)
    BY <1>1 DEF Start
  <2>1. PICK u \in Names(c) : LoadConfig(p, c, u) \/ LoadConfigFails(p, c, u)
    BY <2>0
  <2>2. u \in Users \cup {None}
    BY <2>1 DEF Names, Commands
  <2>3. CASE LoadConfig(p, c, u)
    <3>1. cfg' \in [Procs -> Config]
      BY <2>3, DefaultTyped DEF LoadConfig, Set
    <3>2. /\ cmd' \in [Procs -> Commands \cup {"none"}]
          /\ arg' \in [Procs -> Users \cup {None}]
          /\ pc' \in [Procs -> Stages]
          /\ cmd'[p] = c /\ arg'[p] = u /\ pc'[p] = "run"
      BY <2>2, <2>3 DEF LoadConfig, Goto, Stages
    <3>3. \A q \in Procs \ {p} : /\ cmd'[q] = cmd[q] /\ arg'[q] = arg[q]
                                 /\ pc'[q] = pc[q] /\ cfg'[q] = cfg[q]
      BY <2>3 DEF LoadConfig, Goto, Set
    <3>4. UNCHANGED <<file, disk, goal, saves, entered, lists>>
      BY <2>3 DEF LoadConfig
    <3>5. \A q \in Procs : pc'[q] # "idle" =>
            cmd'[q] \in Commands /\ arg'[q] \in Names(cmd'[q])
      BY <3>2, <3>3
    <3> QED
      BY <3>1, <3>2, <3>3, <3>4, <3>5 DEF Names, saves, lists
  <2>4. CASE LoadConfigFails(p, c, u)
    <3>2. /\ cmd' \in [Procs -> Commands \cup {"none"}]
          /\ arg' \in [Procs -> Users \cup {None}]
          /\ pc' \in [Procs -> Stages]
          /\ cmd'[p] = c /\ arg'[p] = u /\ pc'[p] = "failed"
      BY <2>2, <2>4 DEF LoadConfigFails, Goto, Stages
    <3>3. \A q \in Procs \ {p} : /\ cmd'[q] = cmd[q] /\ arg'[q] = arg[q]
                                 /\ pc'[q] = pc[q]
      BY <2>4 DEF LoadConfigFails, Goto
    <3>4. UNCHANGED <<file, disk, cfg, goal, saves, entered, lists>>
      BY <2>4 DEF LoadConfigFails
    <3>5. \A q \in Procs : pc'[q] # "idle" =>
            cmd'[q] \in Commands /\ arg'[q] \in Names(cmd'[q])
      BY <3>2, <3>3
    <3> QED
      BY <3>2, <3>3, <3>4, <3>5 DEF Names, saves, lists
  <2> QED
    BY <2>1, <2>3, <2>4
<1>m. InMemory => Untouched /\ entered' \subseteq Users \X Procs
  BY DEF InMemory
(* A command that works in memory goes to a stage and changes its copy.    *)
<1>2. ASSUME NEW p \in Procs, Untouched, entered' \subseteq Users \X Procs,
             NEW s \in Stages, pc' = [pc EXCEPT ![p] = s], s # "idle",
             NEW c \in Config, cfg' = [cfg EXCEPT ![p] = c],
             NEW g \in {"auth", "call", "print", "done"},
             goal' = [goal EXCEPT ![p] = g],
             pc[p] # "idle",
             s = "call" => c.current \in Users,
             s \in {"save", "write"} /\ g = "call" => c.current \in Users
      PROVE  TypeInv'
  <2>1. UNCHANGED <<file, disk, cmd, arg, wrote, missed, clobbered, cut,
                    shown, warned>>
    BY <1>2 DEF Untouched, saves, lists
  <2>2. /\ pc' \in [Procs -> Stages] /\ cfg' \in [Procs -> Config]
        /\ goal' \in [Procs -> {"auth", "call", "print", "done"}]
    BY <1>2
  <2>3. \A q \in Procs : pc'[q] # "idle" => pc[q] # "idle"
    BY <1>2
  <2>4. \A q \in Procs : pc'[q] # "idle" =>
          cmd'[q] \in Commands /\ arg'[q] \in Names(cmd'[q])
    BY <2>1, <2>3
  <2>5. \A q \in Procs : pc'[q] = "call" => cfg'[q].current \in Users
    BY <1>2
  <2>6. \A q \in Procs : pc'[q] \in {"save", "write"} /\ goal'[q] = "call" =>
          cfg'[q].current \in Users
    BY <1>2
  <2>7. entered' \subseteq Users \X Procs
    BY <1>2
  <2> QED
    BY <2>1, <2>2, <2>4, <2>5, <2>6, <2>7 DEF Names
<1>3. ASSUME NEW p \in Procs, Edit(p) PROVE TypeInv'
  <2>0. cfg[p] \in Config /\ goal[p] \in {"auth", "call", "print", "done"}
    OBVIOUS
  <2>1. CASE ConfigInit(p)
    <3>1. arg[p] \in Users
      BY <2>1 DEF ConfigInit, Enter, Names
    <3> DEFINE c == [cfg[p] EXCEPT !.current = arg[p],
                                   !.priv[arg[p]] = p, !.book[arg[p]] = p]
    <3>2. c \in Config
      BY <2>0, <3>1, InitTyped
    <3> QED
      BY <2>1, <3>2, <1>2, <1>m
         DEF ConfigInit, Enter, Set, SaveThen, Goto, Stages
  <2>2. CASE SetUser(p)
    <3>1. arg[p] \in Users
      BY <2>2 DEF SetUser, Enter, Names
    <3>2. [cfg[p] EXCEPT !.current = arg[p]] \in Config
      BY <2>0, <3>1, SetCurrentTyped
    <3>3. cfg = [cfg EXCEPT ![p] = cfg[p]] /\ goal = [goal EXCEPT ![p] = goal[p]]
      OBVIOUS
    <3>4. CASE cfg[p].priv[arg[p]] # None
      BY <2>2, <3>2, <3>4, <1>2, <1>m
         DEF SetUser, Enter, Set, SaveThen, Goto, Stages
    <3>5. CASE cfg[p].priv[arg[p]] = None
      BY <2>0, <2>2, <3>3, <3>5, <1>2, <1>m DEF SetUser, Enter, Proceed, Goto, Stages
    <3> QED
      BY <3>4, <3>5
  <2>3. CASE SetServer(p)
    <3>3. cfg = [cfg EXCEPT ![p] = cfg[p]]
      OBVIOUS
    <3> QED
      BY <2>0, <2>3, <3>3, <1>2, <1>m DEF SetServer, Enter, SaveThen, Goto, Stages
  <2>4. CASE AddUser(p)
    <3>1. arg[p] \in Users
      BY <2>4 DEF AddUser, Enter, Names
    <3>2. PICK k \in {p} \cup Drawn : Enters(p, k)
      BY <2>4 DEF AddUser
    <3>3. k \in Procs /\ entered' \subseteq Users \X Procs
      BY <3>1, <3>2, EnteredTyped
    <3>4. [cfg[p] EXCEPT !.book[arg[p]] = k] \in Config
      BY <2>0, <3>1, <3>3, SetBookTyped
    <3> QED
      BY <2>4, <3>2, <3>3, <3>4, <1>2
         DEF AddUser, Enters, Enter, Set, SaveThen, Goto, Stages
  <2>5. CASE RemoveUser(p)
    <3>1. arg[p] \in Users
      BY <2>5 DEF RemoveUser, Enter, Names
    <3>4. [cfg[p] EXCEPT !.book[arg[p]] = None] \in Config
      BY <2>0, <3>1, SetBookTyped
    <3> QED
      BY <2>5, <3>4, <1>2, <1>m DEF RemoveUser, Enter, Set, SaveThen, Goto, Stages
  <2> QED
    BY <1>3, <2>1, <2>2, <2>3, <2>4, <2>5 DEF Edit
<1>4. ASSUME NEW p \in Procs, Authenticate(p) PROVE TypeInv'
  <2>0. cfg[p] \in Config /\ goal[p] \in {"auth", "call", "print", "done"}
    OBVIOUS
  <2>1. cfg = [cfg EXCEPT ![p] = cfg[p]] /\ goal = [goal EXCEPT ![p] = goal[p]]
    OBVIOUS
  <2>2. cfg[p].token \subseteq Users /\ cfg[p].current \in Users \cup {None}
    BY <2>0 DEF Config
  <2>3. CASE LoginCommand(p)
    BY <2>0, <2>1, <2>3, <1>2, <1>m DEF LoginCommand, Enter, Goto, Stages
  <2>4. CASE GetAuthHeader(p)
    <3>1. CASE cfg[p].current \in cfg[p].token
      BY <2>0, <2>1, <2>2, <2>4, <3>1, <1>2, <1>m DEF GetAuthHeader, Goto, Stages
    <3>2. CASE cfg[p].current \notin cfg[p].token
      BY <2>0, <2>1, <2>4, <3>2, <1>2, <1>m DEF GetAuthHeader, Goto, Stages
    <3> QED
      BY <3>1, <3>2
  <2>5. CASE Login(p)
    <3> DEFINE c == [cfg[p] EXCEPT !.token = @ \cup {cfg[p].current}]
    <3>1. c \in Config
      BY <2>0, <2>5, LoginTyped DEF Login
    <3>2. c.current \in Users
      BY <2>0, <2>2, <2>5 DEF Login, Config
    <3>3. cfg' = [cfg EXCEPT ![p] = c] /\ pc' = [pc EXCEPT ![p] = "save"]
      BY <2>5 DEF Login, Set, Goto
    <3>4. pc[p] # "idle" /\ InMemory /\ goal' = [goal EXCEPT ![p] = goal[p]]
      BY <2>1, <2>5 DEF Login
    <3> HIDE DEF c
    <3> QED
      BY <2>0, <3>1, <3>2, <3>3, <3>4, <1>2, <1>m DEF Stages
  <2>6. CASE LoginFails(p)
    BY <2>0, <2>1, <2>6, <1>2, <1>m DEF LoginFails, Proceed, Goto, Stages
  <2> QED
    BY <1>4, <2>3, <2>4, <2>5, <2>6 DEF Authenticate
<1>5. ASSUME NEW p \in Procs, Request(p) PROVE TypeInv'
  <2>0. cfg[p] \in Config /\ goal[p] \in {"auth", "call", "print", "done"}
    OBVIOUS
  <2>1. cfg = [cfg EXCEPT ![p] = cfg[p]] /\ goal = [goal EXCEPT ![p] = goal[p]]
    OBVIOUS
  <2>p. ASSUME NEW s \in {"auth", "failed"}, pc[p] = "run", InMemory,
               Proceed(p, s)
        PROVE  TypeInv'
    <3>1. pc' = [pc EXCEPT ![p] = s] /\ cfg' = cfg /\ goal' = goal
      BY <2>p DEF Proceed, Goto
    <3>2. s \in Stages /\ s \notin {"idle", "call", "save", "write"}
      BY DEF Stages
    <3>3. cfg' = [cfg EXCEPT ![p] = cfg[p]] /\ goal' = [goal EXCEPT ![p] = goal[p]]
      BY <2>1, <3>1
    <3>4. pc[p] # "idle" /\ InMemory
      BY <2>p
    <3>. QED
      BY <2>0, <3>1, <3>2, <3>3, <3>4, <1>2, <1>m
  <2>2. CASE Register(p)
    BY <2>0, <2>1, <2>2, <1>2, <1>m DEF Register, Enter, Goto, Stages
  <2>3. CASE RegisterFails(p)
    BY <2>0, <2>1, <2>3, <1>2, <1>m DEF RegisterFails, Enter, Proceed, Goto, Stages
  <2>4. CASE SendFile(p)
    <3>1. arg[p] \in Users
      BY <2>4 DEF SendFile, Enter, Names
    <3>2. ASSUME NEW s \in {"auth", "failed"}, Proceed(p, s), UNCHANGED entered
          PROVE  TypeInv'
      BY <2>4, <3>2, <2>p DEF SendFile, Enter, InMemory
    <3>3. ASSUME NEW k \in {p} \cup Drawn, SaveThen(p, "auth"), Enters(p, k)
          PROVE  TypeInv'
      <4>1. k \in Procs /\ entered' \subseteq Users \X Procs
        BY <3>1, <3>3, EnteredTyped
      <4>2. [cfg[p] EXCEPT !.book[arg[p]] = k] \in Config
        BY <2>0, <3>1, <4>1, SetBookTyped
      <4> QED
        BY <2>4, <3>3, <4>1, <4>2, <1>2
           DEF SendFile, Enters, Enter, Set, SaveThen, Goto, Stages
    <3> QED
      BY <2>4, <3>2, <3>3 DEF SendFile
  <2>5. CASE ListFiles(p)
    BY <2>5, <2>p DEF ListFiles, Enter
  <2>6. CASE DownloadIndex(p)
    BY <2>6, <2>p DEF DownloadIndex, Enter
  <2>7. CASE OtherCall(p)
    BY <2>7, <2>p DEF OtherCall, Enter
  <2>8. CASE Call(p)
    <3>1. CASE cmd[p] = "list-files"
      <4>1. [cfg[p] EXCEPT !.listed = p] \in Config
        BY <2>0, ListTyped
      <4> QED
        BY <2>8, <3>1, <4>1, <1>2, <1>m DEF Call, Set, SaveThen, Goto, Stages
    <3>2. CASE cmd[p] # "list-files"
      BY <2>0, <2>1, <2>8, <3>2, <1>2, <1>m DEF Call, Proceed, Goto, Stages
    <3> QED
      BY <3>1, <3>2
  <2>9. CASE CallFails(p)
    BY <2>0, <2>1, <2>9, <1>2, <1>m DEF CallFails, Proceed, Goto, Stages
  <2>10. CASE PrintList(p)
    <3>1. /\ UNCHANGED <<file, disk, cmd, arg, cfg, goal, wrote, missed,
                      clobbered, cut, entered, warned>>
          /\ pc' = [pc EXCEPT ![p] = "done"] /\ pc[p] # "idle" /\ shown' = p
      BY <2>10 DEF PrintList, Goto, saves
    <3> QED
      BY <3>1 DEF Names, Stages
  <2> QED
    BY <1>5, <2>2, <2>3, <2>4, <2>5, <2>6, <2>7, <2>8, <2>9, <2>10 DEF Request
<1>6. ASSUME NEW p \in Procs, Save(p) PROVE TypeInv'
  <2>1. /\ pc[p] \in {"save", "write"}
        /\ UNCHANGED <<cmd, arg, cfg, goal>>
        /\ \E s \in {"write", "failed", goal[p]} : Goto(p, s)
    BY <1>6 DEF Save, SaveBegin, WriteWhole, WriteTorn, SaveFails
  <2>2. /\ file' \in {"missing", "empty", "torn", "whole"}
        /\ disk' \in Config
    BY <1>6, DefaultTyped
       DEF Save, SaveBegin, WriteWhole, WriteTorn, SaveFails
  <2>3. /\ wrote' \subseteq Procs /\ clobbered' \subseteq Procs
        /\ missed' \in [Procs -> SUBSET Procs] /\ cut' \subseteq Procs
        /\ entered' = entered /\ shown' = shown /\ warned' \subseteq Procs
    BY <1>6 DEF Save, SaveBegin, WriteWhole, WriteTorn, SaveFails, saves, lists,
                Running
  <2>4. /\ pc' \in [Procs -> Stages]
        /\ \A q \in Procs : pc'[q] # "idle" => pc[q] # "idle"
        /\ \A q \in Procs : pc'[q] = "call" =>
             pc[q] = "call" \/ (pc[q] \in {"save", "write"} /\ goal[q] = "call")
        /\ \A q \in Procs : pc'[q] \in {"save", "write"} =>
             pc[q] \in {"save", "write"}
    BY <2>1 DEF Goto, Stages
  <2> QED
    BY <2>1, <2>2, <2>3, <2>4 DEF Names
<1>7. ASSUME NEW p \in Procs, Kill(p) PROVE TypeInv'
  <2>1. /\ UNCHANGED <<file, disk, cmd, arg, cfg, goal, wrote, missed,
                      clobbered, entered, shown, warned>>
        /\ pc' = [pc EXCEPT ![p] = "killed"] /\ pc[p] # "idle"
        /\ cut' \subseteq Procs
    BY <1>7 DEF Kill, Goto, lists, Running
  <2> QED
    BY <2>1 DEF Names, Stages
<1>8. CASE UNCHANGED vars
  BY <1>8 DEF vars, saves, lists, Names
<1> QED
  BY <1>1, <1>3, <1>4, <1>5, <1>6, <1>7, <1>8 DEF Next, Step

(* Spec keeps the type invariant, for any users and invocations. *)
THEOREM TypeCorrect == Spec => []TypeOK
<1>1. TypeInv => TypeOK
  BY DEF TypeInv
<1> QED
  BY TypeInit, TypeStep, <1>1, PTL DEF Spec

-----------------------------------------------------------------------------
(* The registered key.  In the file and in every copy of it, the address   *)
(* book has for a name with a private key the public key drawn with it, or *)
(* none, or one that add-user or a lookup has entered.                     *)
Paired(c, put) ==
  \A u \in Users : c.priv[u] # None =>
    c.book[u] \in {c.priv[u], None} \/ <<u, c.book[u]>> \in put

PairInv == Paired(disk, entered) /\ \A p \in Procs : Paired(cfg[p], entered)

LEMMA DefaultPaired == \A put : Paired(Default, put)
  BY DEF Paired, Default

LEMMA PairedMore ==
  ASSUME NEW c, NEW S, NEW T, S \subseteq T, Paired(c, S)
  PROVE  Paired(c, T)
  BY DEF Paired

(* A change of the address book that is recorded, or empties an entry.     *)
LEMMA SetBookPaired ==
  ASSUME NEW c \in Config, NEW put, Paired(c, put), NEW u \in Users,
         NEW k, k = None \/ <<u, k>> \in put
  PROVE  Paired([c EXCEPT !.book[u] = k], put)
  BY DEF Paired, Config, KeyRing

LEMMA PairStep == TypeOK /\ PairInv /\ [Next]_vars => PairInv'
<1> SUFFICES ASSUME TypeOK, PairInv, [Next]_vars PROVE PairInv'
  OBVIOUS
<1> USE NamesAssumption, NoneAssumption DEF TypeOK
(* In memory, it is enough that the new copy is paired.                    *)
<1>1. ASSUME NEW p \in Procs, disk' = disk, NEW c, Paired(c, entered'),
             cfg' = [cfg EXCEPT ![p] = c], entered \subseteq entered'
      PROVE  PairInv'
  BY <1>1, PairedMore DEF PairInv
<1>2. ASSUME disk' = disk, cfg' = cfg, entered' = entered PROVE PairInv'
  BY <1>2 DEF PairInv
<1>3. ASSUME NEW p \in Procs, Start(p) PROVE PairInv'
  <2>1. disk' = disk /\ entered' = entered
    BY <1>3 DEF Start, LoadConfig, LoadConfigFails
  <2>2. \/ cfg' = cfg \/ Set(p, disk) \/ Set(p, Default)
    BY <1>3 DEF Start, LoadConfig, LoadConfigFails, Set
  <2> QED
    BY <2>1, <2>2, <1>1, <1>2, DefaultPaired DEF PairInv, Set
(* A key is entered under the name on the command line, or the entry goes. *)
<1>4. ASSUME NEW p \in Procs, disk' = disk, arg[p] \in Users,
             \/ \E k : Enters(p, k)
             \/ Set(p, [cfg[p] EXCEPT !.book[arg[p]] = None]) /\ entered' = entered
      PROVE  PairInv'
  <2>1. PICK k : /\ Set(p, [cfg[p] EXCEPT !.book[arg[p]] = k])
                 /\ entered \subseteq entered'
                 /\ k = None \/ <<arg[p], k>> \in entered'
    BY <1>4 DEF Enters
  <2>2. cfg[p] \in Config /\ Paired(cfg[p], entered')
    BY <2>1, PairedMore DEF PairInv
  <2>3. Paired([cfg[p] EXCEPT !.book[arg[p]] = k], entered')
    BY <1>4, <2>1, <2>2, SetBookPaired
  <2> QED
    BY <1>4, <2>1, <2>3, <1>1 DEF Set
<1>5. ASSUME NEW p \in Procs, Edit(p) PROVE PairInv'
  <2>0. cfg[p] \in Config /\ Paired(cfg[p], entered)
    BY DEF PairInv
  <2>1. disk' = disk
    BY <1>5 DEF Edit, ConfigInit, SetUser, SetServer, AddUser, RemoveUser,
                InMemory, Untouched
  <2>2. CASE ConfigInit(p)
    <3> DEFINE c == [cfg[p] EXCEPT !.current = arg[p],
                                   !.priv[arg[p]] = p, !.book[arg[p]] = p]
    <3>1. arg[p] \in Users
      BY <2>2 DEF ConfigInit, Enter, Names
    <3>2. Paired(c, entered)
      BY <2>0, <3>1 DEF Paired, Config, KeyRing
    <3> QED
      BY <2>1, <2>2, <3>2, <1>1 DEF ConfigInit, Set, InMemory
  <2>3. CASE SetUser(p)
    <3>1. Paired([cfg[p] EXCEPT !.current = arg[p]], entered)
      BY <2>0 DEF Paired, Config
    <3> QED
      BY <2>1, <2>3, <3>1, <1>1, <1>2 DEF SetUser, Set, Proceed, InMemory
  <2>4. CASE SetServer(p)
    BY <2>1, <2>4, <1>2 DEF SetServer, InMemory
  <2>5. CASE AddUser(p) \/ RemoveUser(p)
    <3>1. arg[p] \in Users
      BY <2>5 DEF AddUser, RemoveUser, Enter, Names
    <3>2. \/ \E k : Enters(p, k)
          \/ Set(p, [cfg[p] EXCEPT !.book[arg[p]] = None]) /\ entered' = entered
      BY <2>5 DEF AddUser, RemoveUser, InMemory
    <3> QED
      BY <2>1, <3>1, <3>2, <1>4
  <2> QED
    BY <1>5, <2>2, <2>3, <2>4, <2>5 DEF Edit
<1>6. ASSUME NEW p \in Procs, Authenticate(p) PROVE PairInv'
  <2>0. cfg[p] \in Config /\ Paired(cfg[p], entered)
    BY DEF PairInv
  <2>1. Paired([cfg[p] EXCEPT !.token = @ \cup {cfg[p].current}], entered)
    BY <2>0 DEF Paired, Config
  <2>2. disk' = disk /\ entered' = entered
    BY <1>6 DEF Authenticate, LoginCommand, GetAuthHeader, Login, LoginFails,
         InMemory, Untouched
  <2>3. CASE Login(p)
    BY <2>1, <2>2, <2>3, <1>1 DEF Login, Set
  <2>4. CASE ~Login(p)
    BY <1>6, <2>2, <2>4, <1>2 DEF Authenticate, LoginCommand, GetAuthHeader,
         LoginFails, Proceed
  <2> QED
    BY <2>3, <2>4
<1>7. ASSUME NEW p \in Procs, Request(p) PROVE PairInv'
  <2>0. cfg[p] \in Config /\ Paired(cfg[p], entered)
    BY DEF PairInv
  <2>1. disk' = disk
    BY <1>7 DEF Request, Register, RegisterFails, SendFile, ListFiles,
         DownloadIndex, OtherCall, Call, CallFails, PrintList, InMemory, Untouched
  <2>2. CASE SendFile(p)
    <3>1. arg[p] \in Users
      BY <2>2 DEF SendFile, Enter, Names
    <3>2. \/ cfg' = cfg /\ entered' = entered
          \/ \E k : Enters(p, k)
      BY <2>2 DEF SendFile, Proceed
    <3> QED
      BY <2>1, <3>1, <3>2, <1>2, <1>4
  <2>3. CASE Call(p)
    <3>1. Paired([cfg[p] EXCEPT !.listed = p], entered)
      BY <2>0 DEF Paired, Config
    <3> QED
      BY <2>1, <2>3, <3>1, <1>1, <1>2 DEF Call, Set, Proceed, InMemory
  <2>4. ASSUME ~SendFile(p), ~Call(p) PROVE cfg' = cfg /\ entered' = entered
    BY <1>7, <2>4 DEF Request, Register, RegisterFails, ListFiles,
         DownloadIndex, OtherCall, CallFails, PrintList, Proceed, InMemory
  <2> QED
    BY <2>1, <2>2, <2>3, <2>4, <1>2
<1>8. ASSUME NEW p \in Procs, Save(p) PROVE PairInv'
  <2>1. cfg' = cfg /\ entered' = entered
    BY <1>8 DEF Save, SaveBegin, WriteWhole, WriteTorn, SaveFails
  <2>2. disk' \in {disk, Default, cfg[p]}
    BY <1>8 DEF Save, SaveBegin, WriteWhole, WriteTorn, SaveFails
  <2> QED
    BY <2>1, <2>2, DefaultPaired DEF PairInv
<1>9. ASSUME NEW p \in Procs, Kill(p) PROVE PairInv'
  BY <1>9, <1>2 DEF Kill
<1>10. CASE UNCHANGED vars
  BY <1>10, <1>2 DEF vars
<1> QED
  BY <1>3, <1>5, <1>6, <1>7, <1>8, <1>9, <1>10 DEF Next, Step

(* register sends the public key of the private key that Login signs with, *)
(* or one that add-user or a lookup has entered under the user's own name. *)
THEOREM KeyRegistered == Spec => []RegistersHeldOrEnteredKey
<1>1. Init => PairInv
  BY DefaultPaired DEF Init, PairInv
<1>2. TypeOK /\ PairInv /\ [Next]_vars => PairInv'
  BY PairStep
<1>3. TypeOK /\ PairInv => RegistersHeldOrEnteredKey
  BY DEF TypeOK, PairInv, Paired, RegistersHeldOrEnteredKey, CanRegister, Config
<1> QED
  BY <1>1, <1>2, <1>3, TypeCorrect, PTL DEF Spec

-----------------------------------------------------------------------------
(* The private keys of a config init.  Once its save has gone through,     *)
(* they are in the file, and in every running copy of it but those that    *)
(* are older than the save (its owner is in missed) or newer in that they  *)
(* initialise the same name.                                               *)
Initialising(p) == cmd[p] = "config init"
Again(p, q) == q # p /\ Initialising(q) /\ arg[q] = arg[p]
Latest(p) == p \in wrote /\ ~(\E q \in wrote : Again(p, q))
Holds(c, p) == c.priv[arg[p]] = p

Staged(p) ==
  /\ p \in wrote => pc[p] # "idle" /\ file # "missing"
  /\ Initialising(p) =>
       /\ pc[p] \notin {"auth", "login", "call", "print"}
       /\ pc[p] \in {"save", "write"} => goal[p] = "done" /\ Holds(cfg[p], p)
       /\ pc[p] = "done" => p \in wrote \cup clobbered /\ file # "missing"

Kept(p) ==
  /\ file = "whole" => Holds(disk, p)
  /\ \A q \in Running \ {p} :
       \/ p \in missed[q]
       \/ Holds(cfg[q], p)
       \/ Again(p, q) /\ pc[q] \in {"save", "write"}

StageInv == \A p \in Procs : Staged(p)
CopyInv ==
  \A p \in Procs \ clobbered : Initialising(p) /\ Latest(p) => Kept(p)

KeyInv == StageInv /\ CopyInv

LEMMA KeyInit == Init => KeyInv
  BY DEF Init, KeyInv, StageInv, Staged, CopyInv, Kept, Initialising, Latest

LEMMA KeyStep == TypeOK /\ KeyInv /\ [Next]_vars => KeyInv'
<1> SUFFICES ASSUME TypeOK, KeyInv, [Next]_vars PROVE KeyInv'
  OBVIOUS
<1>0. /\ pc \in [Procs -> Stages] /\ cmd \in [Procs -> Commands \cup {"none"}]
      /\ arg \in [Procs -> Users \cup {None}] /\ cfg \in [Procs -> Config]
      /\ goal \in [Procs -> {"auth", "call", "print", "done"}]
      /\ missed \in [Procs -> SUBSET Procs]
      /\ wrote \subseteq Procs /\ clobbered \subseteq Procs
      /\ \A p \in Procs : pc[p] # "idle" => arg[p] \in Names(cmd[p])
  BY DEF TypeOK
<1> USE <1>0
<1>1. ASSUME NEW p \in Procs, Start(p) PROVE KeyInv'
  <2>1. /\ pc[p] = "idle"
        /\ pc' = [pc EXCEPT ![p] = pc'[p]] /\ pc'[p] \in {"run", "failed"}
        /\ UNCHANGED <<file, disk, goal, wrote, missed, clobbered>>
        /\ cmd' = [cmd EXCEPT ![p] = cmd'[p]]
        /\ arg' = [arg EXCEPT ![p] = arg'[p]]
    BY <1>1 DEF Start, LoadConfig, LoadConfigFails, Goto, saves
  <2>2. \/ cfg' = cfg /\ pc'[p] = "failed"
        \/ file = "whole" /\ cfg' = [cfg EXCEPT ![p] = disk]
        \/ file = "missing" /\ cfg' = [cfg EXCEPT ![p] = Default]
    BY <1>1 DEF Start, LoadConfig, LoadConfigFails, Goto, Set
  <2>3. p \notin wrote
    BY <2>1 DEF KeyInv, StageInv, Staged
  <2>4. StageInv'
    <3>1. ASSUME NEW r \in Procs PROVE Staged(r)'
      <4>1. Staged(r)
        BY DEF KeyInv, StageInv
      <4>2. CASE r = p
        BY <2>1, <2>3, <4>1, <4>2 DEF Staged
      <4>3. CASE r # p
        BY <2>1, <2>2, <4>1, <4>3 DEF Staged, Initialising, Holds
      <4> QED
        BY <4>2, <4>3
    <3> QED
      BY <3>1 DEF StageInv
  <2>5. ASSUME NEW r \in Procs \ clobbered, Initialising(r)', Latest(r)'
        PROVE  /\ (file = "whole" => Holds(disk, r))'
               /\ \A q \in Running' \ {r} :
                    \/ r \in missed'[q]
                    \/ Holds(cfg[q], r)'
                    \/ Again(r, q)' /\ pc'[q] \in {"save", "write"}
    <3>1. r # p /\ r \in wrote
      BY <2>1, <2>3, <2>5 DEF Latest
    <3>2. Initialising(r) /\ Latest(r) /\ arg'[r] = arg[r]
      BY <2>1, <2>3, <2>5, <3>1 DEF Latest, Again, Initialising
    <3>3. file = "whole" => Holds(disk, r)
      BY <3>2 DEF KeyInv, CopyInv, Kept
    <3>4. file # "missing"
      BY <3>1 DEF KeyInv, StageInv, Staged
    <3>5. ASSUME NEW q \in Running' \ {r}
          PROVE  \/ r \in missed'[q]
                 \/ Holds(cfg[q], r)'
                 \/ Again(r, q)' /\ pc'[q] \in {"save", "write"}
      <4>1. CASE q = p
        BY <2>1, <2>2, <3>2, <3>3, <3>4, <3>5, <4>1 DEF Holds, Running
      <4>2. CASE q # p
        <5>1. q \in Running /\ cfg'[q] = cfg[q]
          BY <2>1, <2>2, <3>5, <4>2 DEF Running
        <5>2. \/ r \in missed[q]
              \/ Holds(cfg[q], r)
              \/ Again(r, q) /\ pc[q] \in {"save", "write"}
          BY <3>2, <3>5, <5>1 DEF KeyInv, CopyInv, Kept
        <5> QED
          BY <2>1, <3>1, <3>2, <3>5, <4>2, <5>1, <5>2
             DEF Holds, Again, Initialising, Running
      <4> QED
        BY <4>1, <4>2
    <3> QED
      BY <2>1, <3>2, <3>3, <3>5 DEF Holds
  <2> QED
    BY <2>1, <2>4, <2>5 DEF KeyInv, CopyInv, Kept
(* In memory, keys change only in a config init, which then saves.         *)
<1>2. ASSUME NEW p \in Procs, Untouched, p \in Running,
             pc' = [pc EXCEPT ![p] = pc'[p]], pc'[p] # "idle",
             goal' = [goal EXCEPT ![p] = goal'[p]],
             cfg' = [cfg EXCEPT ![p] = cfg'[p]],
             Initialising(p) =>
               /\ pc'[p] = "save" /\ goal'[p] = "done"
               /\ Holds(cfg[p], p)',
             \A r \in Procs : arg[r] \in Users /\ Holds(cfg[p], r) =>
               Holds(cfg[p], r)' \/ (Initialising(p) /\ arg[r] = arg[p]),
             pc[p] \notin {"save", "write"}
      PROVE  KeyInv'
  <2>1. UNCHANGED <<file, disk, cmd, arg, wrote, missed, clobbered>>
    BY <1>2 DEF Untouched, saves
  <2>2. StageInv'
    <3>1. ASSUME NEW r \in Procs PROVE Staged(r)'
      <4>1. Staged(r)
        BY DEF KeyInv, StageInv
      <4>2. CASE r = p
        BY <1>2, <2>1, <4>1, <4>2 DEF Staged, Initialising, Running
      <4>3. CASE r # p
        BY <1>2, <2>1, <4>1, <4>3 DEF Staged, Initialising, Holds
      <4> QED
        BY <4>2, <4>3
    <3> QED
      BY <3>1 DEF StageInv
  <2>3. ASSUME NEW r \in Procs \ clobbered, Initialising(r), Latest(r),
               NEW q \in Running' \ {r}
        PROVE  \/ r \in missed[q]
               \/ Holds(cfg[q], r)'
               \/ Again(r, q) /\ pc'[q] \in {"save", "write"}
    <3>1. q \in Running
      BY <1>2, <2>3 DEF Running
    <3>2. \/ r \in missed[q]
          \/ Holds(cfg[q], r)
          \/ Again(r, q) /\ pc[q] \in {"save", "write"}
      BY <2>3, <3>1 DEF KeyInv, CopyInv, Kept
    <3>0. arg[r] \in Users
      BY <2>3, NamesAssumption
         DEF KeyInv, StageInv, Staged, Latest, Initialising, Names
    <3>3. CASE q = p
      BY <1>2, <2>1, <2>3, <3>0, <3>2, <3>3 DEF Again
    <3>4. CASE q # p
      BY <1>2, <2>1, <3>2, <3>4, <2>3 DEF Holds, Running
    <3> QED
      BY <3>3, <3>4
  <2>4. CopyInv'
    <3>1. ASSUME NEW r \in Procs \ clobbered, Initialising(r)', Latest(r)'
          PROVE  Kept(r)'
      <4>1. Initialising(r) /\ Latest(r)
        BY <2>1, <3>1 DEF Initialising, Latest, Again
      <4>2. Kept(r)
        BY <4>1 DEF KeyInv, CopyInv
      <4>3. \A q : Again(r, q)' <=> Again(r, q)
        BY <2>1 DEF Again, Initialising
      <4> QED
        BY <2>1, <2>3, <4>1, <4>2, <4>3 DEF Kept, Holds
    <3> QED
      BY <2>1, <3>1 DEF CopyInv
  <2> QED
    BY <2>2, <2>4 DEF KeyInv
<1>3. ASSUME NEW p \in Procs, Edit(p) PROVE KeyInv'
  <2>1. Untouched /\ p \in Running /\ pc[p] = "run"
    BY <1>3 DEF Edit, ConfigInit, SetUser, SetServer, AddUser, RemoveUser,
                Enter, Running, InMemory
  <2>2. /\ pc' = [pc EXCEPT ![p] = pc'[p]] /\ pc'[p] # "idle"
        /\ goal' = [goal EXCEPT ![p] = goal'[p]]
        /\ cfg' = [cfg EXCEPT ![p] = cfg'[p]]
    BY <1>3 DEF Edit, ConfigInit, SetUser, SetServer, AddUser, RemoveUser,
                Enters, SaveThen, Proceed, Goto, Set
  <2>3. arg' = arg /\ cfg[p] \in Config
    BY <2>1 DEF Untouched
  <2>4. CASE ConfigInit(p)
    <3>1. arg[p] \in Users
      BY <2>4, NamesAssumption DEF ConfigInit, Enter, Names
    <3>2. /\ pc'[p] = "save" /\ goal'[p] = "done"
          /\ cfg'[p].priv = [cfg[p].priv EXCEPT ![arg[p]] = p]
      BY <2>3, <2>4 DEF ConfigInit, SaveThen, Goto, Set, Config
    <3>3. cfg[p].priv \in [Users -> Procs \cup {None}]
      BY <2>3 DEF Config, KeyRing
    <3>4. Initialising(p) /\ Holds(cfg[p], p)'
      BY <2>3, <2>4, <3>1, <3>2, <3>3 DEF ConfigInit, Enter, Initialising, Holds
    <3>5. \A r \in Procs : arg[r] \in Users /\ Holds(cfg[p], r) =>
            Holds(cfg[p], r)' \/ (Initialising(p) /\ arg[r] = arg[p])
      BY <2>3, <3>2, <3>3, <3>4 DEF Holds
    <3> QED
      BY <2>1, <2>2, <3>2, <3>4, <3>5, <1>2
  <2>5. CASE ~ConfigInit(p)
    <3>1. ~Initialising(p)
      BY <1>3, <2>5 DEF Edit, SetUser, SetServer, AddUser, RemoveUser, Enter,
                        Initialising
    <3>2. cfg'[p].priv = cfg[p].priv
      BY <1>3, <2>3, <2>5 DEF Edit, SetUser, SetServer, AddUser, RemoveUser,
                              Enters, Set, Proceed, Config
    <3> QED
      BY <2>1, <2>2, <2>3, <3>1, <3>2, <1>2 DEF Holds
  <2> QED
    BY <2>4, <2>5
<1>4. ASSUME NEW p \in Procs, Authenticate(p) \/ Request(p), ~PrintList(p)
      PROVE  KeyInv'
  <2>1. Untouched /\ p \in Running /\ pc[p] \in {"run", "auth", "login", "call"}
    BY <1>4 DEF Authenticate, LoginCommand, GetAuthHeader, Login, LoginFails,
         Request, Register, RegisterFails, SendFile, ListFiles, DownloadIndex,
         OtherCall, Call, CallFails, Enter, Running, InMemory
  <2>2. /\ pc' = [pc EXCEPT ![p] = pc'[p]] /\ pc'[p] # "idle"
        /\ goal' = [goal EXCEPT ![p] = goal'[p]]
    BY <1>4 DEF Authenticate, LoginCommand, GetAuthHeader, Login, LoginFails,
         Request, Register, RegisterFails, SendFile, ListFiles, DownloadIndex,
         OtherCall, Call, CallFails, SaveThen, Proceed, Goto
  <2>3. arg' = arg /\ cfg[p] \in Config
    BY <2>1 DEF Untouched
  <2>4. cfg' = [cfg EXCEPT ![p] = cfg'[p]] /\ cfg'[p].priv = cfg[p].priv
    <3>1. \/ cfg' = cfg
          \/ \E k : Set(p, [cfg[p] EXCEPT !.book[arg[p]] = k])
          \/ \E u : Set(p, [cfg[p] EXCEPT !.listed = u])
          \/ Set(p, [cfg[p] EXCEPT !.token = @ \cup {cfg[p].current}])
      <4>1. Authenticate(p) => cfg' = cfg \/ Login(p)
        BY DEF Authenticate, LoginCommand, GetAuthHeader, LoginFails, Proceed
      <4>2. Request(p) => cfg' = cfg \/ SendFile(p) \/ Call(p)
        BY <1>4 DEF Request, Register, RegisterFails, ListFiles, DownloadIndex,
               OtherCall, CallFails, Proceed
      <4>3. SendFile(p) =>
              cfg' = cfg \/ \E k : Set(p, [cfg[p] EXCEPT !.book[arg[p]] = k])
        BY DEF SendFile, Enters, Proceed
      <4>4. Call(p) =>
              cfg' = cfg \/ \E u : Set(p, [cfg[p] EXCEPT !.listed = u])
        BY DEF Call, Proceed
      <4> QED
        BY <1>4, <4>1, <4>2, <4>3, <4>4 DEF Login
    <3> QED
      BY <2>3, <3>1 DEF Set, Config
  <2>5. ~Initialising(p)
    BY <1>4 DEF KeyInv, StageInv, Staged, Initialising, Authenticate, LoginCommand,
         GetAuthHeader, Login, LoginFails, Request, Register, RegisterFails,
         SendFile, ListFiles, DownloadIndex, OtherCall, Call, CallFails, Enter
  <2> QED
    BY <2>1, <2>2, <2>3, <2>4, <2>5, <1>2 DEF Holds
(* A save changes the file and where its owner is.                         *)
<1>5. ASSUME NEW p \in Procs, pc[p] \in {"save", "write"},
             UNCHANGED <<cmd, arg, cfg, goal, wrote, missed>>,
             pc' = [pc EXCEPT ![p] = pc'[p]],
             pc'[p] \in {"write", "failed", goal[p]},
             \/ pc'[p] \in {"write", "failed"} /\ clobbered' = clobbered
             \/ Initialising(p) => p \in clobbered' /\ file' # "missing",
             clobbered \subseteq clobbered', clobbered' \subseteq Procs,
             \/ file' = file /\ disk' = disk
             \/ file' \in {"empty", "torn"}
      PROVE  KeyInv'
  <2>1. StageInv'
    <3>1. ASSUME NEW r \in Procs PROVE Staged(r)'
      <4>1. Staged(r)
        BY DEF KeyInv, StageInv
      <4>2. CASE r = p
        BY <1>5, <4>1, <4>2 DEF Staged, Initialising, Holds
      <4>3. CASE r # p
        BY <1>5, <4>1, <4>3 DEF Staged, Initialising, Holds
      <4> QED
        BY <4>2, <4>3
    <3> QED
      BY <3>1 DEF StageInv
  <2>2. ASSUME NEW r \in Procs \ clobbered', Initialising(r), Latest(r)
        PROVE  /\ (file = "whole" => Holds(disk, r))'
               /\ \A q \in Running' \ {r} :
                    \/ r \in missed[q]
                    \/ Holds(cfg[q], r)
                    \/ Again(r, q) /\ pc'[q] \in {"save", "write"}
    <3>1. (file = "whole" => Holds(disk, r))'
      BY <1>5, <2>2 DEF KeyInv, CopyInv, Kept, Holds
    <3>2. ASSUME NEW q \in Running' \ {r}
          PROVE  \/ r \in missed[q]
                 \/ Holds(cfg[q], r)
                 \/ Again(r, q) /\ pc'[q] \in {"save", "write"}
      <4>1. q \in Running
        BY <1>5, <3>2 DEF Running
      <4>2. \/ r \in missed[q]
            \/ Holds(cfg[q], r)
            \/ Again(r, q) /\ pc[q] \in {"save", "write"}
        BY <1>5, <2>2, <3>2, <4>1 DEF KeyInv, CopyInv, Kept
      <4>3. q \in Procs
        BY <3>2 DEF Running
      <4>4. Staged(q)
        BY <4>3 DEF KeyInv, StageInv
      <4>5. Again(r, q) /\ q = p => pc'[q] = "write"
        BY <1>5, <3>2, <4>4 DEF Again, Running, Staged
      <4>6. q # p => pc'[q] = pc[q]
        BY <1>5, <4>3
      <4> QED
        BY <4>2, <4>5, <4>6
    <3> QED
      BY <3>1, <3>2
  <2>3. CopyInv'
    <3>1. \A r, q : /\ Initialising(r)' <=> Initialising(r)
                    /\ Again(r, q)' <=> Again(r, q)
                    /\ Latest(r)' <=> Latest(r)
                    /\ Holds(cfg[q], r)' <=> Holds(cfg[q], r)
      BY <1>5 DEF Initialising, Latest, Again, Holds
    <3> QED
      BY <1>5, <2>2, <3>1 DEF CopyInv, Kept
  <2> QED
    BY <2>1, <2>3 DEF KeyInv
<1>6. ASSUME NEW p \in Procs, WriteWhole(p) PROVE KeyInv'
  <2>1. /\ pc[p] = "write" /\ file' = "whole" /\ disk' = cfg[p]
        /\ pc' = [pc EXCEPT ![p] = goal[p]]
        /\ wrote' = wrote \cup {p} /\ clobbered' = clobbered \cup missed[p]
        /\ UNCHANGED <<cmd, arg, cfg, goal>>
        /\ \A q \in Running \ {p} : missed'[q] = missed[q] \cup {p}
        /\ p \in Running
    BY <1>6 DEF WriteWhole, Goto, Running
  <2>2. \A q \in Procs : missed[q] \subseteq missed'[q]
    BY <1>6 DEF WriteWhole
  <2>3. StageInv'
    <3>1. ASSUME NEW r \in Procs PROVE Staged(r)'
      <4>1. Staged(r)
        BY DEF KeyInv, StageInv
      <4>2. CASE r = p
        BY <2>1, <4>1, <4>2 DEF Staged, Initialising
      <4>3. CASE r # p
        BY <2>1, <4>1, <4>3 DEF Staged, Initialising, Holds
      <4> QED
        BY <4>2, <4>3
    <3> QED
      BY <3>1 DEF StageInv
  <2>4. ASSUME NEW r \in Procs \ clobbered', Initialising(r)', Latest(r)'
        PROVE  /\ (file = "whole" => Holds(disk, r))'
               /\ \A q \in Running' \ {r} :
                    \/ r \in missed'[q]
                    \/ Holds(cfg[q], r)'
                    \/ Again(r, q)' /\ pc'[q] \in {"save", "write"}
    <3>1. CASE r = p
      <4>1. Holds(cfg[p], p)
        BY <2>1, <2>4, <3>1 DEF KeyInv, StageInv, Staged, Initialising
      <4>2. \A q \in Running' \ {r} : q \in Running \ {p}
        BY <2>1, <3>1 DEF Running
      <4> QED
        BY <2>1, <3>1, <4>1, <4>2 DEF Holds
    <3>2. CASE r # p
      <4>1. Initialising(r) /\ Latest(r) /\ ~Again(r, p) /\ r \notin missed[p]
        BY <2>1, <2>4, <3>2 DEF Latest, Again, Initialising
      <4>2. \A q \in Running \ {r} :
              \/ r \in missed[q]
              \/ Holds(cfg[q], r)
              \/ Again(r, q) /\ pc[q] \in {"save", "write"}
        BY <2>1, <4>1 DEF KeyInv, CopyInv, Kept
      <4>3. Holds(cfg[p], r)
        BY <2>1, <3>2, <4>1, <4>2
      <4>4. ASSUME NEW q \in Running' \ {r}
            PROVE  \/ r \in missed'[q]
                   \/ Holds(cfg[q], r)'
                   \/ Again(r, q)' /\ pc'[q] \in {"save", "write"}
        <5>1. q \in Running
          BY <2>1, <4>4 DEF Running
        <5>2. Again(r, q) => q # p
          BY <4>1
        <5> QED
          BY <2>1, <2>2, <4>2, <4>4, <5>1, <5>2
             DEF Holds, Again, Initialising, Running
      <4> QED
        BY <2>1, <4>3, <4>4 DEF Holds
    <3> QED
      BY <3>1, <3>2
  <2>5. CopyInv'
    BY <2>4 DEF CopyInv, Kept
  <2> QED
    BY <2>3, <2>5 DEF KeyInv
<1>7. ASSUME NEW p \in Procs, SaveBegin(p) \/ WriteTorn(p) \/ SaveFails(p)
      PROVE  KeyInv'
  <2>1. CASE SaveBegin(p)
    BY <2>1, <1>5 DEF SaveBegin, Goto, saves
  <2>2. CASE WriteTorn(p)
    BY <2>2, <1>5 DEF WriteTorn, Goto
  <2>3. CASE SaveFails(p)
    <3>1. Initialising(p) => pc'[p] = "failed"
      BY <2>3 DEF KeyInv, StageInv, Staged, SaveFails, Tolerated, Goto, Initialising
    <3>2. /\ pc[p] \in {"save", "write"}
          /\ UNCHANGED <<cmd, arg, cfg, goal, wrote, missed, clobbered>>
          /\ pc' = [pc EXCEPT ![p] = pc'[p]]
          /\ pc'[p] \in {"failed", goal[p]}
          /\ \/ file' = file /\ disk' = disk
             \/ file' \in {"empty", "torn"}
      BY <2>3 DEF SaveFails, Goto
    <3> QED
      BY <3>1, <3>2, <1>5
  <2> QED
    BY <1>7, <2>1, <2>2, <2>3
<1>8. ASSUME NEW p \in Procs, Kill(p) \/ PrintList(p) PROVE KeyInv'
  <2>0. PrintList(p) => ~Initialising(p)
    BY DEF KeyInv, StageInv, Staged, PrintList
  <2>1. /\ UNCHANGED <<file, disk, cmd, arg, cfg, goal, wrote, missed, clobbered>>
        /\ \/ pc' = [pc EXCEPT ![p] = "killed"]
           \/ pc' = [pc EXCEPT ![p] = "done"] /\ ~Initialising(p)
        /\ p \in Running
    BY <1>8, <2>0 DEF Kill, PrintList, Goto, Running, saves
  <2>2. /\ \A r, q : /\ Initialising(r)' <=> Initialising(r)
                     /\ Again(r, q)' <=> Again(r, q)
                     /\ Latest(r)' <=> Latest(r)
                     /\ Holds(cfg[q], r)' <=> Holds(cfg[q], r)
        /\ \A r : Holds(disk, r)' <=> Holds(disk, r)
    BY <2>1 DEF Initialising, Latest, Again, Holds
  <2>3. /\ Running' \subseteq Running \ {p}
        /\ \A q \in Procs : \/ pc'[q] \in {pc[q], "killed"}
                            \/ pc'[q] = "done" /\ ~Initialising(q)
    BY <2>1 DEF Running
  <2>4. StageInv'
    BY <2>1, <2>2, <2>3 DEF KeyInv, StageInv, Staged
  <2>5. CopyInv'
    BY <2>1, <2>2, <2>3 DEF KeyInv, CopyInv, Kept, Running
  <2> QED
    BY <2>4, <2>5 DEF KeyInv
<1>9. CASE UNCHANGED vars
  <2>1. UNCHANGED <<file, disk, pc, cmd, arg, cfg, goal, wrote, missed, clobbered>>
    BY <1>9 DEF vars, saves
  <2>2. /\ \A r, q : /\ Initialising(r)' <=> Initialising(r)
                     /\ Again(r, q)' <=> Again(r, q)
                     /\ Latest(r)' <=> Latest(r)
                     /\ Holds(cfg[q], r)' <=> Holds(cfg[q], r)
        /\ \A r : Holds(disk, r)' <=> Holds(disk, r)
        /\ Running' = Running
    BY <2>1 DEF Initialising, Latest, Again, Holds, Running
  <2> QED
    BY <2>1, <2>2 DEF KeyInv, StageInv, Staged, CopyInv, Kept
<1> QED
  BY <1>1, <1>3, <1>4, <1>6, <1>7, <1>8, <1>9 DEF Next, Step, Save

(* The file is unreadable only while it is written or once it was cut.     *)
CutInv ==
  file \in {"empty", "torn"} => cut # {} \/ \E q \in Procs : pc[q] = "write"

LEMMA CutStep == TypeOK /\ CutInv /\ [Next]_vars => CutInv'
<1> SUFFICES ASSUME TypeOK, CutInv, [Next]_vars PROVE CutInv'
  OBVIOUS
<1>0. pc \in [Procs -> Stages]
  BY DEF TypeOK
(* What neither changes the file nor leaves a write keeps both reasons.    *)
<1>1. ASSUME NEW p \in Procs, file' = file, cut' = cut, pc[p] # "write",
             pc' = [pc EXCEPT ![p] = pc'[p]]
      PROVE  CutInv'
  BY <1>0, <1>1 DEF CutInv
<1>2. ASSUME NEW p \in Procs, Start(p) PROVE CutInv'
  BY <1>2, <1>1 DEF Start, LoadConfig, LoadConfigFails, Goto, saves
<1>3. ASSUME NEW p \in Procs, Edit(p) PROVE CutInv'
  BY <1>3, <1>1 DEF Edit, ConfigInit, SetUser, SetServer, AddUser, RemoveUser,
       Enter, SaveThen, Proceed, Goto, InMemory, Untouched, saves
<1>4. ASSUME NEW p \in Procs, Authenticate(p) PROVE CutInv'
  BY <1>4, <1>1 DEF Authenticate, LoginCommand, GetAuthHeader, Login,
       LoginFails, Enter, Proceed, Goto, InMemory, Untouched, saves
<1>5. ASSUME NEW p \in Procs, Request(p) PROVE CutInv'
  BY <1>5, <1>1 DEF Request, Register, RegisterFails, SendFile, ListFiles,
       DownloadIndex, OtherCall, Call, CallFails, PrintList, Enter, SaveThen,
       Proceed, Goto, InMemory, Untouched, saves
<1>6. ASSUME NEW p \in Procs, Save(p) PROVE CutInv'
  <2>1. CASE SaveBegin(p)
    BY <1>0, <2>1 DEF SaveBegin, Goto, CutInv
  <2>2. CASE WriteWhole(p)
    BY <2>2 DEF WriteWhole, CutInv
  <2>3. CASE WriteTorn(p)
    BY <2>3 DEF WriteTorn, CutInv
  <2>4. CASE SaveFails(p)
    <3>1. CASE pc[p] = "save"
      BY <2>4, <3>1, <1>1 DEF SaveFails, Goto
    <3>2. CASE pc[p] = "write"
      BY <2>4, <3>2 DEF SaveFails, CutInv
    <3> QED
      BY <2>4, <3>1, <3>2 DEF SaveFails
  <2> QED
    BY <1>6, <2>1, <2>2, <2>3, <2>4 DEF Save
<1>7. ASSUME NEW p \in Procs, Kill(p) PROVE CutInv'
  <2>1. CASE pc[p] = "write"
    BY <1>7, <2>1 DEF Kill, CutInv
  <2>2. CASE pc[p] # "write"
    BY <1>7, <2>2, <1>1 DEF Kill, Goto
  <2> QED
    BY <2>1, <2>2
<1>8. CASE UNCHANGED vars
  BY <1>8 DEF vars, saves, CutInv
<1> QED
  BY <1>2, <1>3, <1>4, <1>5, <1>6, <1>7, <1>8 DEF Next, Step

(* Reported private keys are in the file while it can be read, but for a   *)
(* second config init for the name or an overlapping save; and it cannot   *)
(* be read only while a save is at work or after one was cut off.          *)
THEOREM KeysNotLost == Spec => []KeysKept
<1>1. TypeOK /\ KeyInv /\ CutInv => KeysKept
  <2> SUFFICES ASSUME TypeOK, KeyInv, CutInv, NEW p \in Procs,
                      Initialising(p), pc[p] = "done",
                      ~(\E q \in wrote : Again(p, q))
               PROVE  IF file = "whole"
                      THEN Holds(disk, p) \/ p \in clobbered
                      ELSE cut # {} \/ \E q \in Procs : pc[q] = "write"
    BY DEF KeysKept, Initialising, Again, Holds
  <2>1. Staged(p)
    BY DEF KeyInv, StageInv
  <2>2. CASE file = "whole"
    <3>1. CASE p \notin clobbered
      <4>1. Latest(p)
        BY <2>1, <3>1 DEF Staged, Latest
      <4> QED
        BY <2>2, <3>1, <4>1 DEF KeyInv, CopyInv, Kept
    <3> QED
      BY <2>2, <3>1
  <2>3. CASE file # "whole"
    BY <2>1, <2>3 DEF Staged, CutInv, TypeOK
  <2> QED
    BY <2>2, <2>3
<1>2. Init => CutInv
  BY DEF Init, CutInv
<1> QED
  BY <1>1, <1>2, KeyInit, KeyStep, CutStep, TypeCorrect, PTL DEF Spec

-----------------------------------------------------------------------------
(* The list behind an index.  A list is given to others when its           *)
(* invocation has saved it, after which it can only be printed or lost; the *)
(* one being saved is still its own.                                       *)
Unprinted(x) == x \in Procs /\ pc[x] \in {"print", "killed"}
Given(x) ==
  \/ x = None \/ Unprinted(x)
  \/ x \in Procs /\ shown # None /\ pc[x] = "done"
OwnList(q) ==
  /\ cfg[q].listed = q
  /\ \/ pc[q] \in {"save", "write"} /\ goal[q] = "print"
     \/ pc[q] \in {"print", "done", "failed", "killed"}

(* From the save of s to the next list that is printed, the list in the    *)
(* file, and in every running copy that is not older than the save, is     *)
(* that of s, or of one that has saved since and not printed.              *)
Saved(s) ==
  (pc[s] = "print" \/ shown = s) /\ s \notin clobbered \cup warned
NoOlder(x, s) == x = s \/ x \in missed[s] \/ (shown = s /\ Unprinted(x))
Current(s) ==
  /\ file # "missing"
  /\ file = "whole" => NoOlder(disk.listed, s)
  /\ \A q \in Running \ {s} :
       s \in missed[q] \/ NoOlder(cfg[q].listed, s) \/ OwnList(q)

ListInv ==
  /\ Given(disk.listed)
  /\ \A q \in Procs : Given(cfg[q].listed) \/ OwnList(q)
  /\ \A q \in Procs : goal[q] = "print" =>
       /\ pc[q] # "login"
       /\ pc[q] \in {"save", "write"} => cfg[q].listed = q
  /\ shown \in Procs => pc[shown] = "done"
  /\ \A s \in Procs : Saved(s) => Current(s)

LEMMA ListStep == TypeOK /\ ListInv /\ [Next]_vars => ListInv'
<1> SUFFICES ASSUME TypeOK, ListInv, [Next]_vars PROVE ListInv'
  OBVIOUS
<1>0. /\ pc \in [Procs -> Stages] /\ cfg \in [Procs -> Config]
      /\ goal \in [Procs -> {"auth", "call", "print", "done"}]
      /\ missed \in [Procs -> SUBSET Procs]
      /\ wrote \subseteq Procs /\ clobbered \subseteq Procs
      /\ shown \in Procs \cup {None} /\ None \notin Procs
  BY NoneAssumption DEF TypeOK
<1>c. /\ disk.listed \in Procs \cup {None}
      /\ \A q \in Procs : cfg[q].listed \in Procs \cup {None}
  BY DEF TypeOK, Config
<1> USE <1>0, <1>c
(* Before it saves or prints, a command changes its list only in           *)
(* list-files, and nobody has been given a list of its own.                *)
<1>1. ASSUME NEW p \in Procs, UNCHANGED <<missed, clobbered, lists>>,
             UNCHANGED <<file, disk>>,
             pc[p] \in {"idle", "run", "auth", "login", "call"},
             pc' = [pc EXCEPT ![p] = pc'[p]],
             pc'[p] \in {"run", "auth", "login", "call", "save", "done", "failed"},
             goal' = [goal EXCEPT ![p] = goal'[p]],
             cfg' = [cfg EXCEPT ![p] = cfg'[p]],
             \/ /\ cfg'[p].listed = cfg[p].listed
                /\ pc'[p] \in {"save", "login"} => goal'[p] # "print"
                /\ pc[p] = "idle" => pc'[p] = "failed"
             \/ /\ pc'[p] = "save" /\ goal'[p] = "print" /\ cfg'[p].listed = p
                /\ pc[p] # "idle"
             \/ /\ pc[p] = "idle" /\ pc'[p] = "run"
                /\ \/ file = "whole" /\ cfg'[p].listed = disk.listed
                   \/ file = "missing" /\ cfg'[p].listed = None
      PROVE  ListInv'
  <2>1. \A q \in Procs \ {p} : /\ pc'[q] = pc[q] /\ goal'[q] = goal[q]
                               /\ cfg'[q] = cfg[q]
    BY <1>1
  <2>2. /\ \A x : Given(x) => Given(x)'
        /\ \A x : Unprinted(x)' <=> Unprinted(x)
        /\ shown' = shown /\ warned' = warned
    BY <1>1, <2>1 DEF Given, Unprinted, lists
  <2>3. Given(cfg[p].listed) /\ shown # p
    BY <1>1 DEF ListInv, OwnList
  <2>4. Given(cfg[p].listed)' \/ OwnList(p)'
    BY <1>1, <2>2, <2>3 DEF ListInv, OwnList, Given
  <2>5. \A q \in Procs : Given(cfg[q].listed)' \/ OwnList(q)'
    BY <2>1, <2>2, <2>4 DEF ListInv, OwnList
  <2>6. \A q \in Procs : goal'[q] = "print" =>
          /\ pc'[q] # "login"
          /\ pc'[q] \in {"save", "write"} => cfg'[q].listed = q
    BY <1>1, <2>1 DEF ListInv
  <2>7. ASSUME NEW s \in Procs, Saved(s)' PROVE Current(s)'
    <3>1. s # p /\ Saved(s)
      BY <1>1, <2>1, <2>2, <2>3, <2>7 DEF Saved
    <3>2. \A x : NoOlder(x, s)' <=> NoOlder(x, s)
      BY <1>1, <2>2 DEF NoOlder
    <3>3. Current(s)
      BY <3>1 DEF ListInv
    <3>4. ASSUME NEW q \in Running' \ {s}
          PROVE  \/ s \in missed'[q] \/ NoOlder(cfg[q].listed, s)'
                 \/ OwnList(q)'
      <4>1. CASE q = p
        <5>1. CASE pc[p] = "idle"
          BY <1>1, <3>2, <3>3, <3>4, <4>1, <5>1 DEF Current, Running
        <5>2. CASE pc[p] # "idle"
          <6>1. p \in Running
            BY <1>1, <5>2 DEF Running
          <6>2. s \in missed[p] \/ NoOlder(cfg[p].listed, s)
            BY <1>1, <3>1, <3>3, <6>1 DEF Current, OwnList
          <6> QED
            BY <1>1, <3>2, <4>1, <5>2, <6>2 DEF OwnList
        <5> QED
          BY <5>1, <5>2
      <4>2. CASE q # p
        <5>1. q \in Running \ {s} /\ q \in Procs
          BY <2>1, <3>4, <4>2 DEF Running
        <5> QED
          BY <1>1, <2>1, <3>2, <3>3, <4>2, <5>1 DEF Current, OwnList
      <4> QED
        BY <4>1, <4>2
    <3> QED
      BY <1>1, <3>2, <3>3, <3>4 DEF Current
  <2> QED
    BY <1>1, <2>1, <2>2, <2>3, <2>5, <2>6, <2>7 DEF ListInv
<1>2. ASSUME NEW p \in Procs, Start(p) PROVE ListInv'
  <2>1. /\ UNCHANGED <<file, disk, goal, missed, clobbered, lists>>
        /\ pc[p] = "idle" /\ goal' = [goal EXCEPT ![p] = goal'[p]]
        /\ pc' = [pc EXCEPT ![p] = pc'[p]]
    BY <1>2 DEF Start, LoadConfig, LoadConfigFails, Goto, saves
  <2>2. \/ pc'[p] = "failed" /\ cfg' = cfg
        \/ pc'[p] = "run" /\ file = "whole" /\ cfg' = [cfg EXCEPT ![p] = disk]
        \/ pc'[p] = "run" /\ file = "missing" /\ cfg' = [cfg EXCEPT ![p] = Default]
    BY <1>2 DEF Start, LoadConfig, LoadConfigFails, Goto, Set
  <2> QED
    BY <2>1, <2>2, <1>1 DEF Default
<1>3. ASSUME NEW p \in Procs, Edit(p) \/ Authenticate(p) \/ Request(p),
             ~Call(p), ~PrintList(p)
      PROVE  ListInv'
  <2>1. /\ UNCHANGED <<file, disk, missed, clobbered, lists>>
        /\ pc[p] \in {"run", "auth", "login", "call"}
    BY <1>3 DEF Edit, ConfigInit, SetUser, SetServer, AddUser, RemoveUser,
         Authenticate, LoginCommand, GetAuthHeader, Login, LoginFails,
         Request, Register, RegisterFails, SendFile, ListFiles, DownloadIndex,
         OtherCall, CallFails, Enter, InMemory, Untouched, saves
  <2>2. /\ pc' = [pc EXCEPT ![p] = pc'[p]]
        /\ pc'[p] \in {"auth", "login", "call", "save", "failed"}
        /\ goal' = [goal EXCEPT ![p] = goal'[p]]
        /\ pc'[p] \in {"save", "login"} => goal'[p] # "print"
    <3>1. CASE Edit(p)
      BY <3>1 DEF Edit, ConfigInit, SetUser, SetServer, AddUser, RemoveUser,
                  SaveThen, Proceed, Goto
    <3>2. CASE Login(p)
      BY <3>2 DEF Login, Goto, ListInv
    <3>3. CASE Authenticate(p) /\ ~Login(p)
      BY <3>3 DEF Authenticate, LoginCommand, GetAuthHeader, LoginFails,
                  Proceed, Goto
    <3>4. CASE SendFile(p)
      BY <3>4 DEF SendFile, Enter, SaveThen, Proceed, Goto
    <3>5. CASE Request(p) /\ ~SendFile(p)
      BY <1>3, <3>5 DEF Request, Register, RegisterFails, ListFiles,
           DownloadIndex, OtherCall, CallFails, Proceed, Goto
    <3> QED
      BY <1>3, <3>1, <3>2, <3>3, <3>4, <3>5
  <2>3. /\ cfg' = [cfg EXCEPT ![p] = cfg'[p]]
        /\ cfg'[p].listed = cfg[p].listed
    <3>0. cfg[p] \in Config
      OBVIOUS
    <3>1. CASE Edit(p)
      <4>1. CASE ConfigInit(p)
        BY <3>0, <4>1 DEF ConfigInit, Set, Config
      <4>2. CASE SetUser(p) \/ SetServer(p)
        BY <3>0, <4>2 DEF SetUser, SetServer, Set, Proceed, Config
      <4>3. CASE AddUser(p) \/ RemoveUser(p)
        BY <3>0, <4>3 DEF AddUser, RemoveUser, Enters, Set, Config
      <4> QED
        BY <3>1, <4>1, <4>2, <4>3 DEF Edit
    <3>2. CASE Authenticate(p)
      BY <3>0, <3>2 DEF Authenticate, LoginCommand, GetAuthHeader, Login,
                        LoginFails, Set, Proceed, Config
    <3>3. CASE SendFile(p)
      BY <3>0, <3>3 DEF SendFile, Enters, Set, Proceed, Config
    <3>4. CASE Request(p) /\ ~SendFile(p)
      BY <1>3, <3>4 DEF Request, Register, RegisterFails, ListFiles,
           DownloadIndex, OtherCall, CallFails, Proceed
    <3> QED
      BY <1>3, <3>1, <3>2, <3>3, <3>4
  <2> QED
    BY <2>1, <2>2, <2>3, <1>1
<1>4. ASSUME NEW p \in Procs, Call(p) PROVE ListInv'
  <2>1. /\ UNCHANGED <<file, disk, missed, clobbered, lists>> /\ pc[p] = "call"
        /\ pc' = [pc EXCEPT ![p] = pc'[p]]
        /\ goal' = [goal EXCEPT ![p] = goal'[p]]
        /\ cfg' = [cfg EXCEPT ![p] = cfg'[p]]
    BY <1>4 DEF Call, Set, SaveThen, Proceed, Goto, InMemory, Untouched, saves
  <2>2. \/ pc'[p] = "save" /\ goal'[p] = "print" /\ cfg'[p].listed = p
        \/ pc'[p] = "done" /\ cfg'[p].listed = cfg[p].listed
    BY <1>4 DEF Call, Set, SaveThen, Proceed, Goto, Config
  <2> QED
    BY <2>1, <2>2, <1>1
(* Printing makes the list the one shown last.                             *)
<1>5. ASSUME NEW p \in Procs, PrintList(p) PROVE ListInv'
  <2>1. /\ UNCHANGED <<file, disk, goal, cfg, missed, clobbered, warned>>
        /\ pc[p] = "print" /\ pc' = [pc EXCEPT ![p] = "done"] /\ shown' = p
    BY <1>5 DEF PrintList, Goto, saves
  <2>2. \A x : Given(x) => Given(x)'
    BY <2>1 DEF Given, Unprinted
  <2>3. \A q \in Procs : OwnList(q) => OwnList(q)'
    BY <2>1 DEF OwnList
  <2>4. ASSUME NEW s \in Procs, Saved(s)' PROVE Current(s)'
    <3>1. pc[s] = "print" /\ Saved(s) /\ shown # s
      BY <2>1, <2>4 DEF Saved, ListInv
    <3>2. \A x : NoOlder(x, s) => NoOlder(x, s)'
      BY <2>1, <3>1 DEF NoOlder
    <3>3. Current(s) /\ Running' \subseteq Running
      BY <2>1, <3>1 DEF ListInv, Running
    <3>4. \A q \in Running : q \in Procs
      BY DEF Running
    <3> QED
      BY <2>1, <2>3, <3>2, <3>3, <3>4 DEF Current
  <2> QED
    BY <2>1, <2>2, <2>3, <2>4 DEF ListInv
<1>6. ASSUME NEW p \in Procs, Kill(p) PROVE ListInv'
  <2>1. /\ UNCHANGED <<file, disk, goal, cfg, missed, clobbered, lists>>
        /\ p \in Running /\ pc' = [pc EXCEPT ![p] = "killed"]
        /\ shown' = shown /\ warned' = warned
    BY <1>6 DEF Kill, Goto, lists
  <2>2. \A x : (Given(x) => Given(x)') /\ (Unprinted(x) => Unprinted(x)')
    BY <2>1 DEF Given, Unprinted, Running
  <2>3. \A q \in Procs : OwnList(q) => OwnList(q)'
    BY <2>1 DEF OwnList
  <2>4. ASSUME NEW s \in Procs, Saved(s)' PROVE Current(s)'
    <3>1. Saved(s)
      BY <2>1, <2>4 DEF Saved
    <3>2. \A x : NoOlder(x, s) => NoOlder(x, s)'
      BY <2>1, <2>2 DEF NoOlder
    <3>3. Current(s) /\ Running' \subseteq Running
      BY <2>1, <3>1 DEF ListInv, Running
    <3>4. \A q \in Running : q \in Procs
      BY DEF Running
    <3> QED
      BY <2>1, <2>3, <3>2, <3>3, <3>4 DEF Current
  <2> QED
    BY <2>1, <2>2, <2>3, <2>4 DEF ListInv, Running
(* A save that does not write the whole file leaves none, or leaves it.    *)
<1>7. ASSUME NEW p \in Procs, pc[p] \in {"save", "write"},
             UNCHANGED <<cfg, goal, missed, shown>>,
             clobbered \subseteq clobbered', warned \subseteq warned',
             pc' = [pc EXCEPT ![p] = pc'[p]],
             \/ pc'[p] \in {"write", "failed"}
             \/ /\ pc'[p] = goal[p]
                /\ goal[p] = "print" => p \in clobbered' \cup warned',
             \/ file' = file /\ disk' = disk
             \/ file' \in {"empty", "torn"} /\ disk' = Default
      PROVE  ListInv'
  <2>1. /\ \A q \in Procs \ {p} : pc'[q] = pc[q]
        /\ pc'[p] \in {"write", "failed", "auth", "call", "print", "done"}
        /\ shown # p
    BY <1>7 DEF ListInv
  <2>2. \A x : (Given(x) => Given(x)') /\ (Unprinted(x) => Unprinted(x)')
    BY <1>7, <2>1 DEF Given, Unprinted
  <2>3. \A q \in Procs : OwnList(q) => OwnList(q)'
    BY <1>7, <2>1 DEF OwnList
  <2>4. ASSUME NEW s \in Procs, Saved(s)' PROVE Current(s)'
    <3>1. Saved(s)
      BY <1>7, <2>1, <2>4 DEF Saved
    <3>2. \A x : NoOlder(x, s) => NoOlder(x, s)'
      BY <1>7, <2>2 DEF NoOlder
    <3>3. Current(s) /\ Running' \subseteq Running
      BY <1>7, <2>1, <3>1 DEF ListInv, Running
    <3>4. \A q \in Running : q \in Procs
      BY DEF Running
    <3> QED
      BY <1>7, <2>3, <3>2, <3>3, <3>4 DEF Current
  <2>5. Given(disk.listed)'
    BY <1>7, <2>2 DEF ListInv, Default, Given
  <2>6. \A q \in Procs : goal[q] = "print" =>
          /\ pc'[q] # "login"
          /\ pc'[q] \in {"save", "write"} => cfg[q].listed = q
    BY <1>7, <2>1 DEF ListInv
  <2> QED
    BY <1>7, <2>1, <2>2, <2>3, <2>4, <2>5, <2>6 DEF ListInv
<1>8. ASSUME NEW p \in Procs, WriteWhole(p) PROVE ListInv'
  <2>1. /\ pc[p] = "write" /\ pc' = [pc EXCEPT ![p] = goal[p]]
        /\ file' = "whole" /\ disk' = cfg[p]
        /\ clobbered' = clobbered \cup missed[p]
        /\ UNCHANGED <<cfg, goal, shown, warned>>
    BY <1>8 DEF WriteWhole, Goto, lists
  <2>2. /\ \A q \in Procs : missed[q] \subseteq missed'[q]
        /\ \A q \in Running \ {p} : p \in missed'[q]
    BY <1>8 DEF WriteWhole, Running
  <2>3. /\ \A x : (Given(x) => Given(x)') /\ (Unprinted(x) => Unprinted(x)')
        /\ shown # p
    BY <2>1 DEF Given, Unprinted, ListInv
  <2>4. \A q \in Procs : OwnList(q) => OwnList(q)'
    BY <2>1 DEF OwnList
  <2>5. OwnList(p) => cfg[p].listed = p /\ Unprinted(p)' /\ Given(p)'
    BY <2>1 DEF OwnList, Unprinted, Given
  <2>6. ASSUME NEW s \in Procs, Saved(s)' PROVE Current(s)'
    <3>1. CASE s = p
      <4>1. cfg[p].listed = p
        BY <2>1, <2>3, <2>6, <3>1 DEF Saved, ListInv
      <4>2. \A q \in Running' \ {p} : q \in Running \ {p}
        BY <2>1 DEF Running
      <4> QED
        BY <2>1, <2>2, <3>1, <4>1, <4>2 DEF Current, NoOlder
    <3>2. CASE s # p
      <4>1. Saved(s) /\ Current(s) /\ s \notin missed[p] /\ p \in Running
        BY <2>1, <2>6, <3>2 DEF Saved, ListInv, Running
      <4>2. \A x : NoOlder(x, s) => NoOlder(x, s)'
        BY <2>1, <2>2, <2>3 DEF NoOlder
      <4>3. NoOlder(cfg[p].listed, s) \/ OwnList(p)
        BY <3>2, <4>1 DEF Current
      <4>4. OwnList(p) => NoOlder(p, s)'
        <5>1. pc[s] = "print" => s \in Running \ {p}
          BY <3>2 DEF Running
        <5> QED
          BY <2>1, <2>2, <2>5, <4>1, <5>1 DEF NoOlder, Saved
      <4>5. NoOlder(disk.listed, s)'
        BY <2>1, <2>5, <4>2, <4>3, <4>4
      <4>6. Running' \subseteq Running /\ Running \subseteq Procs
        BY <2>1 DEF Running
      <4> QED
        BY <2>1, <2>2, <2>4, <4>1, <4>2, <4>5, <4>6 DEF Current
    <3> QED
      BY <3>1, <3>2
  <2>7. Given(disk.listed)'
    BY <2>1, <2>3, <2>5 DEF ListInv
  <2>8. \A q \in Procs : goal[q] = "print" =>
          /\ pc'[q] # "login"
          /\ pc'[q] \in {"save", "write"} => cfg[q].listed = q
    BY <2>1 DEF ListInv
  <2> QED
    BY <2>1, <2>3, <2>4, <2>6, <2>7, <2>8 DEF ListInv
<1>9. ASSUME NEW p \in Procs, SaveBegin(p) \/ WriteTorn(p) \/ SaveFails(p)
      PROVE  ListInv'
  <2>1. CASE SaveBegin(p)
    BY <2>1, <1>7 DEF SaveBegin, Goto, saves, lists
  <2>2. CASE WriteTorn(p)
    BY <2>2, <1>7 DEF WriteTorn, Goto, lists
  <2>3. CASE SaveFails(p)
    BY <2>3, <1>7 DEF SaveFails, Goto
  <2> QED
    BY <1>9, <2>1, <2>2, <2>3
<1>10. CASE UNCHANGED vars
  <2>1. UNCHANGED <<file, disk, pc, cfg, goal, missed, clobbered, shown, warned>>
    BY <1>10 DEF vars, saves, lists
  <2>2. \A s : (Saved(s)' <=> Saved(s)) /\ (Current(s)' <=> Current(s))
    BY <2>1 DEF Saved, Current, NoOlder, Unprinted, OwnList, Running
  <2> QED
    BY <2>1, <2>2 DEF ListInv, Given, Unprinted, OwnList
<1> QED
  BY <1>2, <1>3, <1>4, <1>5, <1>6, <1>8, <1>9, <1>10 DEF Next, Step, Save

(* The list behind an index is the one printed last, unless its own save   *)
(* failed or was undone, or that of another list-files came after it, or   *)
(* the list was saved and has not been printed.                            *)
THEOREM IndexMeansShown == Spec => []IndexIsOfListShown
<1>1. Init => ListInv
  <2> SUFFICES ASSUME Init PROVE ListInv
    OBVIOUS
  <2>1. \A s \in Procs : ~Saved(s)
    BY NoneAssumption DEF Init, Saved
  <2> QED
    BY <2>1, NoneAssumption DEF Init, ListInv, Given, Default
<1>2. TypeOK /\ ListInv => IndexIsOfListShown
  <2> SUFFICES ASSUME TypeOK, ListInv, file = "whole", disk.listed # shown,
                      shown \notin warned \cup clobbered
               PROVE  /\ disk.listed \in Procs
                      /\ \/ shown \in Procs /\ disk.listed \in missed[shown]
                         \/ pc[disk.listed] \in {"print", "killed"}
    BY DEF IndexIsOfListShown
  <2>1. CASE shown = None
    BY <2>1 DEF ListInv, Given, Unprinted
  <2>2. CASE shown # None
    <3>1. shown \in Procs /\ Saved(shown)
      BY <2>2 DEF TypeOK, Saved
    <3>2. NoOlder(disk.listed, shown) /\ missed[shown] \subseteq Procs
      BY <3>1 DEF ListInv, Current, TypeOK
    <3> QED
      BY <3>1, <3>2 DEF NoOlder, Unprinted
  <2> QED
    BY <2>1, <2>2
<1> QED
  BY <1>1, <1>2, ListStep, TypeCorrect, PTL DEF Spec
=============================================================================
