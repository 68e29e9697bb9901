---------------------------- MODULE ClientConfig ----------------------------
(***************************************************************************)
(* The config file of the client (internal/client/config.go, root.go) and  *)
(* the commands that work on it.  Every command is a process of its own:   *)
(* it loads the whole file when it starts, changes its copy in memory and  *)
(* writes the whole file again, without a lock and not atomically, and     *)
(* another process may run, or the process be killed, between any two of   *)
(* these steps.                                                            *)
(*                                                                         *)
(* A member of Procs is one invocation of the client, run once; the key    *)
(* pair that an invocation draws, or a public key that it brings in from   *)
(* elsewhere, is named after it.  The server is only what it may answer.   *)
(***************************************************************************)
EXTENDS FiniteSets, Naturals

CONSTANTS
  Users,       \* user names
  Procs,       \* invocations of the client, and the keys they bring in
  Book,        \* names that add-user and remove-user are called with
  Own,         \* names that config init is called with
  MaxRunning,  \* bound on invocations running at the same time
  SaveFaults,  \* whether writing the file may fail
  None         \* no user, no key

ASSUME NamesAssumption == Book \subseteq Users /\ Own \subseteq Users
ASSUME MaxRunningAssumption == MaxRunning \in Nat
ASSUME SaveFaultsAssumption == SaveFaults \in BOOLEAN
ASSUME NoneAssumption == None \notin Users \cup Procs

KeyRing == [Users -> Procs \cup {None}]

(* The fields of Config: the identity and the exchange key of a user are   *)
(* drawn and stored together; of a session token only its presence, of the *)
(* listed files only which list-files they come from; ServerURL is left    *)
(* out.                                                                    *)
Config == [current : Users \cup {None}, priv : KeyRing, book : KeyRing,
           token : SUBSET Users, listed : Procs \cup {None}]

VARIABLES
  file,       \* the config file: missing, empty, torn (no JSON) or whole
  disk,       \* its content, if it is whole
  pc,         \* pc[p]: where invocation p is
  cmd,        \* cmd[p]: its command
  arg,        \* arg[p]: the user name on its command line
  cfg,        \* cfg[p]: the variable cfg of root.go
  goal,       \* goal[p]: where p goes on when SaveConfig has returned
  wrote,      \* history: invocations that have written the whole file
  missed,     \* history: missed[p], those that did after p had loaded it
  clobbered,  \* history: those missed by one that has written the file
              \* since, and those whose write another write has mixed with
  cut,        \* history: those that have left the file unreadable since it
              \* was whole, failing, killed or mixed with during the write
  entered,    \* history: keys that add-user or a lookup has entered for a
              \* name into an address book
  shown,      \* history: the list-files that has printed its list last
  warned      \* history: list-files that could not save their list

saves == <<wrote, missed, clobbered, cut>>
lists == <<shown, warned>>
vars == <<file, disk, pc, cmd, arg, cfg, goal, saves, entered, lists>>

Commands == {"config init", "set-user", "set-server", "add-user",
             "remove-user", "login", "register", "list-files", "send-file",
             "download index", "call"}
(* The user names a command may be called with. *)
Names(c) == CASE c = "config init" -> Own
              [] c \in {"add-user", "remove-user"} -> Book
              [] c \in {"set-user", "send-file"} -> Users
              [] OTHER -> {None}

Stages == {"idle", "run", "auth", "login", "call", "save", "write", "print",
           "done", "failed", "killed"}

(* Every variable has the shape the actions rely on. *)
TypeOK ==
  /\ file \in {"missing", "empty", "torn", "whole"}
  /\ disk \in Config
  /\ pc \in [Procs -> Stages]
  /\ cmd \in [Procs -> Commands \cup {"none"}]
  /\ arg \in [Procs -> Users \cup {None}]
  /\ cfg \in [Procs -> Config]
  /\ goal \in [Procs -> {"auth", "call", "print", "done"}]
  /\ wrote \subseteq Procs
  /\ missed \in [Procs -> SUBSET Procs]
  /\ clobbered \subseteq Procs /\ cut \subseteq Procs
  /\ entered \subseteq Users \X Procs
  /\ shown \in Procs \cup {None} /\ warned \subseteq Procs
  /\ \A p \in Procs :
       /\ pc[p] # "idle" => cmd[p] \in Commands /\ arg[p] \in Names(cmd[p])
       /\ pc[p] = "call" => cfg[p].current \in Users

(* What LoadConfig returns when there is no file. *)
Default == [current |-> None, priv |-> [u \in Users |-> None],
            book |-> [u \in Users |-> None], token |-> {}, listed |-> None]

Init ==
  /\ file = "missing"
  /\ disk = Default
  /\ pc = [p \in Procs |-> "idle"]
  /\ cmd = [p \in Procs |-> "none"]
  /\ arg = [p \in Procs |-> None]
  /\ cfg = [p \in Procs |-> Default]
  /\ goal = [p \in Procs |-> "done"]
  /\ wrote = {}
  /\ missed = [p \in Procs |-> {}]
  /\ clobbered = {} /\ cut = {} /\ entered = {}
  /\ shown = None /\ warned = {}

Running == {p \in Procs : pc[p] \notin {"idle", "done", "failed", "killed"}}

(* Key pairs drawn so far. *)
Drawn == {p \in Procs : cmd[p] = "config init"}

Goto(p, stage) == pc' = [pc EXCEPT ![p] = stage]
Set(p, c) == cfg' = [cfg EXCEPT ![p] = c]

(* SaveConfigGlobal, after which p goes on at stage. *)
SaveThen(p, stage) == Goto(p, "save") /\ goal' = [goal EXCEPT ![p] = stage]

(* The next command is at work, or gives up with a message. *)
Enter(p, c) == pc[p] = "run" /\ cmd[p] = c
Proceed(p, stage) == Goto(p, stage) /\ UNCHANGED <<cfg, goal>>

(* No command but SaveConfig touches the file. *)
Untouched == UNCHANGED <<file, disk, cmd, arg, saves, lists>>
InMemory == Untouched /\ UNCHANGED entered

(* A public key is put into the copy's address book under a name. *)
Enters(p, k) ==
  /\ Set(p, [cfg[p] EXCEPT !.book[arg[p]] = k])
  /\ entered' = entered \cup {<<arg[p], k>>}

-----------------------------------------------------------------------------
(* Faulty variants of single actions below, which no specification uses;   *)
(* each breaks one property, to show that the property can fail.           *)

(* LoadConfig returns an empty Config for a file that is no JSON. *)
LoadErrorDropped(p, c, u) ==
  /\ pc[p] = "idle" /\ Cardinality(Running) < MaxRunning
  /\ file \in {"empty", "torn"}
  /\ cmd' = [cmd EXCEPT ![p] = c] /\ arg' = [arg EXCEPT ![p] = u]
  /\ Goto(p, "run")
  /\ UNCHANGED <<file, disk, cfg, goal, saves, entered, lists>>

(* config init keeps the public key of a user it knows already. *)
KnownUserKept(p) ==
  /\ Enter(p, "config init")
  /\ Set(p, [cfg[p] EXCEPT !.current = arg[p], !.priv[arg[p]] = p,
                           !.book[arg[p]] = IF @ = None THEN p ELSE @])
  /\ SaveThen(p, "done")
  /\ InMemory

(* list-files appends to LastListedFiles without emptying it: an index     *)
(* still leads to the older list.                                          *)
ListAppended(p) ==
  /\ pc[p] = "call"
  /\ IF cmd[p] = "list-files"
     THEN /\ Set(p, [cfg[p] EXCEPT !.listed = IF @ = None THEN p ELSE @])
          /\ SaveThen(p, "print")
     ELSE Proceed(p, "done")
  /\ InMemory

(* GetAuthHeader does not look whether there is a token. *)
TokenUnchecked(p) ==
  /\ pc[p] = "auth"
  /\ Proceed(p, "call")
  /\ InMemory

-----------------------------------------------------------------------------
(* initConfig and LoadConfig.                                              *)

LoadConfig(p, c, u) ==
  /\ pc[p] = "idle" /\ Cardinality(Running) < MaxRunning
  /\ file \in {"missing", "whole"}
  /\ cmd' = [cmd EXCEPT ![p] = c] /\ arg' = [arg EXCEPT ![p] = u]
  /\ Set(p, IF file = "whole" THEN disk ELSE Default)
  /\ Goto(p, "run")
  /\ UNCHANGED <<file, disk, goal, saves, entered, lists>>

(* The file is no JSON: the process exits before it runs the command. *)
LoadConfigFails(p, c, u) ==
  /\ pc[p] = "idle" /\ Cardinality(Running) < MaxRunning
  /\ file \in {"empty", "torn"}
  /\ cmd' = [cmd EXCEPT ![p] = c] /\ arg' = [arg EXCEPT ![p] = u]
  /\ Goto(p, "failed")
  /\ UNCHANGED <<file, disk, cfg, goal, saves, entered, lists>>

-----------------------------------------------------------------------------
(* Commands that change the configuration and save it.                     *)

ConfigInit(p) ==
  /\ Enter(p, "config init")
  /\ Set(p, [cfg[p] EXCEPT !.current = arg[p],
                           !.priv[arg[p]] = p, !.book[arg[p]] = p])
  /\ SaveThen(p, "done")
  /\ InMemory

SetUser(p) ==
  /\ Enter(p, "set-user")
  /\ IF cfg[p].priv[arg[p]] # None
     THEN Set(p, [cfg[p] EXCEPT !.current = arg[p]]) /\ SaveThen(p, "done")
     ELSE Proceed(p, "failed")
  /\ InMemory

SetServer(p) ==
  /\ Enter(p, "set-server")
  /\ SaveThen(p, "done")
  /\ InMemory /\ UNCHANGED cfg

(* The key on the command line is one from elsewhere or one drawn here. *)
AddUser(p) ==
  /\ Enter(p, "add-user")
  /\ \E k \in {p} \cup Drawn : Enters(p, k)
  /\ SaveThen(p, "done")
  /\ Untouched

RemoveUser(p) ==
  /\ Enter(p, "remove-user")
  /\ Set(p, [cfg[p] EXCEPT !.book[arg[p]] = None])
  /\ SaveThen(p, "done")
  /\ InMemory

-----------------------------------------------------------------------------
(* Login, and GetAuthHeader, which calls it if there is no token.          *)

LoginCommand(p) ==
  /\ Enter(p, "login")
  /\ Goto(p, "login") /\ goal' = [goal EXCEPT ![p] = "done"]
  /\ InMemory /\ UNCHANGED cfg

GetAuthHeader(p) ==
  /\ pc[p] = "auth"
  /\ IF cfg[p].current \in cfg[p].token
     THEN Goto(p, "call") /\ UNCHANGED goal
     ELSE Goto(p, "login") /\ goal' = [goal EXCEPT ![p] = "call"]
  /\ InMemory /\ UNCHANGED cfg

(* The server has sent a challenge and accepted its signature. *)
Login(p) ==
  /\ pc[p] = "login"
  /\ cfg[p].current # None /\ cfg[p].priv[cfg[p].current] # None
  /\ Set(p, [cfg[p] EXCEPT !.token = @ \cup {cfg[p].current}])
  /\ Goto(p, "save")
  /\ InMemory /\ UNCHANGED goal

(* No current user, no key, or the server does not answer 200. *)
LoginFails(p) ==
  /\ pc[p] = "login"
  /\ Proceed(p, "failed")
  /\ InMemory

-----------------------------------------------------------------------------
(* Commands that need the server.                                          *)

(* The public key in Users is sent, with no look at the private key.       *)
CanRegister(c) ==
  c.current # None /\ c.priv[c.current] # None /\ c.book[c.current] # None

Register(p) ==
  /\ Enter(p, "register")
  /\ CanRegister(cfg[p])
  /\ Goto(p, "login") /\ goal' = [goal EXCEPT ![p] = "done"]
  /\ InMemory /\ UNCHANGED cfg

(* Something is missing, or the server does not answer 201. *)
RegisterFails(p) ==
  /\ Enter(p, "register")
  /\ Proceed(p, "failed")
  /\ InMemory

(* send-file: the recipient's keys are in the address book, or are looked  *)
(* up on the server, which may have any keys for the name or none.         *)
SendFile(p) ==
  /\ Enter(p, "send-file")
  /\ IF cfg[p].book[arg[p]] # None
     THEN Proceed(p, "auth") /\ UNCHANGED entered
     ELSE \/ /\ \E k \in {p} \cup Drawn : Enters(p, k)
             /\ SaveThen(p, "auth")
          \/ Proceed(p, "failed") /\ UNCHANGED entered
  /\ Untouched

ListFiles(p) ==
  /\ Enter(p, "list-files")
  /\ Proceed(p, IF cfg[p].current # None THEN "auth" ELSE "failed")
  /\ InMemory

(* download-file with an index, which may be out of the range of the files *)
(* listed last.                                                            *)
DownloadIndex(p) ==
  /\ Enter(p, "download index")
  /\ \/ /\ cfg[p].listed # None /\ cfg[p].current # None
        /\ Proceed(p, "auth")
     \/ Proceed(p, "failed")
  /\ InMemory

(* download-file with an id, delete-file, and remove-user with --remote. *)
OtherCall(p) ==
  /\ Enter(p, "call")
  /\ Proceed(p, "auth")
  /\ InMemory

(* The server answers; list-files keeps the ids, of which there may be     *)
(* none, for a later download by index, and prints the list once they are  *)
(* saved, or could not be.                                                 *)
Call(p) ==
  /\ pc[p] = "call"
  /\ IF cmd[p] = "list-files"
     THEN Set(p, [cfg[p] EXCEPT !.listed = p]) /\ SaveThen(p, "print")
     ELSE Proceed(p, "done")
  /\ InMemory

PrintList(p) ==
  /\ pc[p] = "print"
  /\ Goto(p, "done")
  /\ shown' = p
  /\ UNCHANGED <<file, disk, cmd, arg, cfg, goal, saves, entered, warned>>

CallFails(p) ==
  /\ pc[p] = "call"
  /\ Proceed(p, "failed")
  /\ InMemory

-----------------------------------------------------------------------------
(* SaveConfig: os.WriteFile empties the file and then writes it.           *)

SaveBegin(p) ==
  /\ pc[p] = "save"
  /\ file' = "empty" /\ disk' = Default
  /\ Goto(p, "write")
  /\ UNCHANGED <<cmd, arg, cfg, goal, saves, entered, lists>>

(* A file that is no longer empty keeps what is longer than the new text.  *)
WriteWhole(p) ==
  /\ pc[p] = "write"
  /\ file' = "whole" /\ disk' = cfg[p]
  /\ Goto(p, goal[p])
  /\ wrote' = wrote \cup {p}
  /\ missed' = [q \in Procs |-> IF q \in Running \ {p}
                                THEN missed[q] \cup {p} ELSE missed[q]]
  /\ clobbered' = clobbered \cup missed[p]
  /\ cut' = {}
  /\ UNCHANGED <<cmd, arg, cfg, goal, entered, lists>>

WriteTorn(p) ==
  /\ pc[p] = "write" /\ file \in {"torn", "whole"}
  /\ file = "whole" => disk # cfg[p]
  /\ file' = "torn" /\ disk' = Default
  /\ Goto(p, goal[p])
  /\ clobbered' = clobbered \cup {p} \cup missed[p]
  /\ cut' = cut \cup {p}
  /\ UNCHANGED <<cmd, arg, cfg, goal, wrote, missed, entered, lists>>

(* send-file and list-files go on when the recipient or the list cannot be *)
(* saved; every other command stops, and so does a failed login.           *)
Tolerated(p) == goal[p] \in {"auth", "print"}

SaveFails(p) ==
  /\ SaveFaults
  /\ \/ /\ pc[p] = "save"
        /\ UNCHANGED <<file, disk, cut>>
     \/ /\ pc[p] = "write"
        /\ \/ UNCHANGED <<file, disk>>
           \/ file' = "torn" /\ disk' = Default
        /\ cut' = cut \cup {p}
  /\ Goto(p, IF Tolerated(p) THEN goal[p] ELSE "failed")
  /\ warned' = IF goal[p] = "print" THEN warned \cup {p} ELSE warned
  /\ UNCHANGED <<cmd, arg, cfg, goal, wrote, missed, clobbered, entered, shown>>

(* The process is killed, in the middle of a write or anywhere else. *)
Kill(p) ==
  /\ p \in Running
  /\ Goto(p, "killed")
  /\ cut' = IF pc[p] = "write" THEN cut \cup {p} ELSE cut
  /\ UNCHANGED <<file, disk, cmd, arg, cfg, goal, wrote, missed, clobbered,
                 entered, lists>>

-----------------------------------------------------------------------------
Start(p) ==
  \E c \in Commands : \E u \in Names(c) :
    LoadConfig(p, c, u) \/ LoadConfigFails(p, c, u)

Edit(p) ==
  \/ ConfigInit(p) \/ SetUser(p) \/ SetServer(p)
  \/ AddUser(p) \/ RemoveUser(p)

Authenticate(p) ==
  LoginCommand(p) \/ GetAuthHeader(p) \/ Login(p) \/ LoginFails(p)

Request(p) ==
  \/ Register(p) \/ RegisterFails(p) \/ SendFile(p) \/ ListFiles(p)
  \/ DownloadIndex(p) \/ OtherCall(p) \/ Call(p) \/ CallFails(p)
  \/ PrintList(p)

Save(p) == SaveBegin(p) \/ WriteWhole(p) \/ WriteTorn(p) \/ SaveFails(p)

Step(p) ==
  Start(p) \/ Edit(p) \/ Authenticate(p) \/ Request(p) \/ Save(p) \/ Kill(p)

Next == \E p \in Procs : Step(p)

Spec == Init /\ [][Next]_vars

-----------------------------------------------------------------------------
(* Safety.                                                                 *)

(* The private keys of a config init that has reported success are in the  *)
(* config file while it can be read, unless the same name was initialised  *)
(* again or the save of some other invocation overlapped (H16).  What makes *)
(* the file unreadable, and its keys unusable until it is mended by hand,  *)
(* is only a save that is at work or one that has failed, was killed or    *)
(* mixed with another after it had emptied the file (H15); an invocation   *)
(* that finds such a file neither empties nor replaces it.                 *)
KeysKept ==
  \A p \in Procs :
    /\ cmd[p] = "config init" /\ pc[p] = "done"
    /\ \A q \in wrote \ {p} : ~(cmd[q] = "config init" /\ arg[q] = arg[p])
    => IF file = "whole"
       THEN disk.priv[arg[p]] = p \/ p \in clobbered
       ELSE cut # {} \/ \E q \in Procs : pc[q] = "write"

(* register_cmd.go: "we can just use the ones in cfg.Users".  The public   *)
(* key that is registered belongs to the private key that Login will sign  *)
(* with, whatever concurrent saves, failures and kills made of the file,   *)
(* or is one that add-user or a lookup has entered under the user's own    *)
(* name (H17).                                                             *)
RegistersHeldOrEnteredKey ==
  \A p \in Procs :
    cmd[p] = "register" /\ pc[p] \in {"run", "login"} /\ CanRegister(cfg[p]) =>
      LET u == cfg[p].current
      IN  \/ cfg[p].book[u] = cfg[p].priv[u]
          \/ <<u, cfg[p].book[u]>> \in entered

(* list_cmd.go and download_cmd.go: an index is looked up in the list that *)
(* was printed last.  Other lists are in the file only if saving the       *)
(* printed one failed with a warning or was undone by an overlapping save, *)
(* or another list-files saved its own after the printed one was loaded,   *)
(* or saved and has not printed it, or was killed before it could (H25).   *)
IndexIsOfListShown ==
  file = "whole" /\ disk.listed # shown =>
    \/ shown \in warned \cup clobbered
    \/ /\ disk.listed \in Procs
       /\ \/ shown \in Procs /\ disk.listed \in missed[shown]
          \/ pc[disk.listed] \in {"print", "killed"}

-----------------------------------------------------------------------------
(* A statement about the program that its behaviours contradict.           *)

(* list-files: the "files waiting for the current user" are kept for       *)
(* "index-based access".  A download by index asks for a file that was     *)
(* listed for the user who downloads it.                                   *)
IndexIsForCurrentUser ==
  \A p \in Procs :
    cmd[p] = "download index" /\ pc[p] = "call" =>
      cfg[cfg[p].listed].current = cfg[p].current
=============================================================================
