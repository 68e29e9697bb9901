----------------------- MODULE ClientDeliveryProofs -----------------------
(***************************************************************************)
(* Proofs that ClientDelivery keeps its safety properties for all numbers  *)
(* of users, files, keys and faults.                                       *)
(***************************************************************************)
EXTENDS ClientDelivery, FiniteSetTheorems, TLAPS

-----------------------------------------------------------------------------
(* The inductive invariant.  First the types, part by part. *)

Stages == {"idle", "lookup", "login", "request", "confirm", "answer"}
Replies == [status : {"none", "ok", "error"}, files : Seq(Files)]

ServerType ==
  /\ state \in [Files -> {"unsent", "stored", "gone"}]
  /\ acked \subseteq Files /\ confirmed \subseteq Files
  /\ fetched \subseteq {None} \X Files
  /\ users \in [Users -> Keys \cup {None}]
  /\ rows \subseteq Files
  /\ meta \in [Files -> Meta \cup {None}]

ConfigType ==
  /\ key \in [Users -> 0..MaxKeys]
  /\ book \in [Users -> [Users -> Keys \cup {None}]]
  /\ token \in [Users -> {"none", "live", "expired"}]
  /\ index \in [Users -> Seq(Files)]

CommandType ==
  /\ pc \in [Users -> Stages]
  /\ work \in [Users -> Work]
  /\ reply \in [Users -> Replies]

HistoryType ==
  /\ faults \in 0..MaxFaults
  /\ told \subseteq Files /\ unanswered \subseteq Files
  /\ read \subseteq Users \X Files
  /\ wasted \subseteq Files /\ unreadable \subseteq Files
  /\ asked \subseteq Files

(* The server's own variables hang together. *)
ServerInv ==
  \A f \in Files :
    /\ f \in acked <=> state[f] # "unsent"
    /\ meta[f] # None <=> state[f] # "unsent"
    /\ f \in rows => state[f] # "unsent"
    /\ state[f] = "stored" => f \in rows

(* What a command of u works on, and where it can be. *)
Coherent(u) ==
  /\ pc[u] = "idle" => work[u] = NoWork
  /\ pc[u] = "lookup" => work[u].op = "send"
  /\ pc[u] = "request" => work[u].op = "register" \/ token[u] # "none"
  /\ pc[u] = "confirm" =>
       work[u].op = "delete" /\ state[work[u].file] = "gone"
  /\ pc[u] = "answer" => reply[u].status # "none"
  /\ work[u].op = "register" => work[u].seal # None
  /\ work[u].op = "send" =>
       /\ work[u].to \in Users
       /\ pc[u] # "lookup" => work[u].seal # None
       /\ IF pc[u] = "answer" /\ reply[u].status = "ok"
          THEN work[u].file \in Files /\ state[work[u].file] # "unsent"
          ELSE work[u].file = None
  /\ work[u].op \in {"download", "delete"} =>
       work[u].file \in Files /\ state[work[u].file] # "unsent"

WorkInv == \A u \in Users : Coherent(u)

(* The keys of v so far, and those that others have replaced. *)
KeysOf(v) == {v} \X (1..key[v])
ReplacedOf(v) == {<<v, n>> : n \in 1..(key[v] - 1)}

(* Every public key on its way is one of its owner's, to begin with in an  *)
(* address book or the table users, in the end as the seal of a file.      *)
KeyInv ==
  /\ \A u, v \in Users : book[u][v] # None => book[u][v] \in KeysOf(v)
  /\ \A u \in Users : users[u] # None => users[u] \in KeysOf(u)
  /\ \A u \in Users :
       /\ work[u].op = "send" /\ work[u].seal # None =>
            work[u].seal \in KeysOf(work[u].to)
       /\ work[u].op = "register" => work[u].seal \in KeysOf(u)
  /\ \A f \in Files : meta[f] # None => meta[f].seal \in KeysOf(meta[f].recipient)

(* What was decrypted, and what was not. *)
ReadInv ==
  /\ \A u \in Users, f \in Files :
       <<u, f>> \in read => meta[f] # None /\ u = meta[f].recipient
  /\ \A f \in unreadable :
       meta[f] # None /\ meta[f].seal \in ReplacedOf(meta[f].recipient)

(* A list holds files for u. *)
OwnFiles(u, list) ==
  \A i \in DOMAIN list : meta[list[i]] # None /\ meta[list[i]].recipient = u

(* What is listed and cached. *)
ListInv ==
  \A u \in Users : OwnFiles(u, reply[u].files) /\ OwnFiles(u, index[u])

(* The command of u holds the content of f, which only it may still have.  *)
Answered(u, f) ==
  At(u, "answer", "download") /\ work[u].file = f /\ reply[u].status = "ok"

(* How a file can have got lost. *)
LossInv ==
  \A f \in Files :
    /\ state[f] = "gone" =>
         \/ f \in asked
         \/ meta[f].auto /\ <<None, f>> \in fetched
    /\ <<None, f>> \in fetched =>
         \/ <<meta[f].recipient, f>> \in read
         \/ f \in wasted
         \/ \E u \in Users : Answered(u, f)

Types == ServerType /\ ConfigType /\ CommandType /\ HistoryType
IInv == /\ Types /\ ServerInv /\ WorkInv /\ KeyInv /\ ReadInv /\ ListInv
        /\ SendReportsTruth /\ LossInv
-----------------------------------------------------------------------------
(* Facts about single values, and which actions move which variables.      *)

LEMMA Nothing ==
  /\ NoWork \in Work
  /\ NoWork.op = "none" /\ NoWork.to = None /\ NoWork.seal = None
  /\ NoWork.file = None
  BY DEF NoWork, Work

LEMMA Quiet ==
  /\ Silence \in Replies
  /\ Silence.status = "none" /\ Silence.files = <<>>
  BY DEF Silence, Replies

(* A list of files names files of the user only, each of them in a row.    *)
LEMMA Listing ==
  ASSUME rows \subseteq Files, NEW u \in Users, NEW list \in FilesFor(u)
  PROVE  /\ list \in Seq(Files)
         /\ \A i \in DOMAIN list :
              list[i] \in rows /\ meta[list[i]].recipient = u
<1> DEFINE S == {f \in rows : meta[f].recipient = u}
<1>1. IsFiniteSet(S)
  BY FilesAssumption, FS_Subset
<1>2. Cardinality(S) \in Nat
  BY <1>1, FS_CardinalityType
<1>3. list \in [1..Cardinality(S) -> S]
  BY DEF FilesFor
<1>4. PICK n \in Nat : list \in [1..n -> S]
  BY <1>2, <1>3
<1>5. list \in [1..n -> Files]
  BY <1>4
<1>6. list \in Seq(Files)
  BY <1>5
<1>. QED
  BY <1>4, <1>6

(* Few actions change the server. *)
LEMMA SteadyServer ==
  ASSUME Next
  PROVE  \/ UNCHANGED server
         \/ \E u \in Users :
              \/ HandleRegister(u) \/ HandleUpload(u) \/ HandleDownload(u)
              \/ HandleDelete(u) \/ HandleDeleteRow(u)
         \/ \E f \in Files : AutoDelete(f) \/ AutoDeleteRow(f)
<1>1. ASSUME NEW u \in Users, Command(u)
      PROVE  UNCHANGED server
  BY <1>1
  DEF Command, ConfigInit, AddUser, RemoveUser, Register, LoginCommand,
      SendFile, ListFiles, DownloadByIndex, DownloadById, DeleteFile
<1>2. ASSUME NEW u \in Users, Step(u)
      PROVE  \/ UNCHANGED server
             \/ HandleRegister(u) \/ HandleUpload(u) \/ HandleDownload(u)
             \/ HandleDelete(u) \/ HandleDeleteRow(u)
  BY <1>2
  DEF Step, TakeRegistered, Login, LoginFails, Refuse, LookupUser,
      UserUnknown, TakeUploaded, HandleList, TakeList, TakeDownload,
      DeleteRefused, TakeDeleted
<1>3. ASSUME NEW u \in Users, Expire(u) \/ Interrupt(u)
      PROVE  UNCHANGED server
  BY <1>3 DEF Expire, Interrupt
<1>. QED
  BY <1>1, <1>2, <1>3 DEF Next

(* Few actions change a config file. *)
LEMMA SteadyConfig ==
  ASSUME Next
  PROVE  \/ UNCHANGED config
         \/ \E u \in Users :
              \/ ConfigInit(u) \/ Login(u) \/ LookupUser(u) \/ TakeList(u)
              \/ Expire(u)
              \/ \E v \in Users : AddUser(u, v) \/ RemoveUser(u, v)
<1>1. ASSUME NEW u \in Users, Command(u)
      PROVE  \/ UNCHANGED config
             \/ ConfigInit(u)
             \/ \E v \in Users : AddUser(u, v) \/ RemoveUser(u, v)
  BY <1>1
  DEF Command, Register, LoginCommand, SendFile, ListFiles, DownloadByIndex,
      DownloadById, DeleteFile
<1>2. ASSUME NEW u \in Users, Step(u)
      PROVE  \/ UNCHANGED config
             \/ Login(u) \/ LookupUser(u) \/ TakeList(u)
  BY <1>2
  DEF Step, HandleRegister, TakeRegistered, LoginFails, Refuse, UserUnknown,
      HandleUpload, TakeUploaded, HandleList, HandleDownload, TakeDownload,
      HandleDelete, HandleDeleteRow, DeleteRefused, TakeDeleted
<1>3. ASSUME NEW u \in Users, Interrupt(u)
      PROVE  UNCHANGED config
  BY <1>3 DEF Interrupt
<1>4. ASSUME NEW f \in Files, AutoDelete(f) \/ AutoDeleteRow(f)
      PROVE  UNCHANGED config
  BY <1>4 DEF AutoDelete, AutoDeleteRow
<1>. QED
  BY <1>1, <1>2, <1>3, <1>4 DEF Next

(* Few actions are recorded. *)
LEMMA SteadyHistory ==
  ASSUME Next
  PROVE  \/ UNCHANGED <<faults, history>>
         \/ \E u \in Users :
              \/ LookupUser(u) \/ TakeUploaded(u) \/ TakeList(u)
              \/ TakeDownload(u) \/ HandleDelete(u) \/ Expire(u)
              \/ Interrupt(u)
<1>1. ASSUME NEW u \in Users, Command(u)
      PROVE  UNCHANGED <<faults, history>>
  BY <1>1
  DEF Command, ConfigInit, AddUser, RemoveUser, Register, LoginCommand,
      SendFile, ListFiles, DownloadByIndex, DownloadById, DeleteFile
<1>2. ASSUME NEW u \in Users, Step(u)
      PROVE  \/ UNCHANGED <<faults, history>>
             \/ LookupUser(u) \/ TakeUploaded(u) \/ TakeList(u)
             \/ TakeDownload(u) \/ HandleDelete(u)
  BY <1>2
  DEF Step, HandleRegister, TakeRegistered, Login, LoginFails, Refuse,
      UserUnknown, HandleUpload, HandleList, HandleDownload, HandleDeleteRow,
      DeleteRefused, TakeDeleted
<1>3. ASSUME NEW f \in Files, AutoDelete(f) \/ AutoDeleteRow(f)
      PROVE  UNCHANGED <<faults, history>>
  BY <1>3 DEF AutoDelete, AutoDeleteRow
<1>. QED
  BY <1>1, <1>2, <1>3 DEF Next

-----------------------------------------------------------------------------
(* Types. *)

LEMMA TypesInit == Init => Types
  BY Nothing, Quiet, BoundsAssumption
  DEF Init, Box!MailboxInit, Types, ServerType, ConfigType, CommandType,
      HistoryType, Stages

LEMMA ServerTypeStep ==
  ASSUME Types, WorkInv, Next
  PROVE  ServerType'
<1> USE DEF Types, ServerType
<1>1. CASE UNCHANGED server
  BY <1>1 DEF server, mailbox
<1>2. ASSUME NEW u \in Users, HandleRegister(u)
      PROVE  ServerType'
  <2>1. CASE UNCHANGED users
    BY <1>2, <2>1 DEF HandleRegister, mailbox
  <2>2. CASE users' = [users EXCEPT ![u] = work[u].seal]
    <3>1. work[u].seal \in Keys \cup {None}
      BY DEF CommandType, Work
    <3>. QED
      BY <1>2, <2>2, <3>1 DEF HandleRegister, mailbox
  <2>. QED
    BY <1>2, <2>1, <2>2 DEF HandleRegister
<1>3. ASSUME NEW u \in Users, HandleUpload(u)
      PROVE  ServerType'
  <2> DEFINE m == [sender |-> u, recipient |-> work[u].to,
                   auto |-> work[u].auto, seal |-> work[u].seal]
  <2>1. PICK f \in Files :
          /\ Box!Deposit(f)
          /\ rows' = rows \cup {f}
          /\ meta' = [meta EXCEPT ![f] = m]
    BY <1>3 DEF HandleUpload, Box!Deposit
  <2>2. m \in Meta
    BY <1>3
    DEF HandleUpload, Admitted, At, WorkInv, Coherent, CommandType, Work, Meta,
        Stages
  <2>. QED
    BY <1>3, <2>1, <2>2 DEF HandleUpload, Box!Deposit
<1>4. ASSUME NEW u \in Users, HandleDownload(u)
      PROVE  ServerType'
  BY <1>4 DEF HandleDownload, Box!Fetch, mailbox
<1>5. ASSUME NEW u \in Users, HandleDelete(u)
      PROVE  ServerType'
  BY <1>5 DEF HandleDelete, Box!Remove, mailbox
<1>6. ASSUME NEW u \in Users, HandleDeleteRow(u)
      PROVE  ServerType'
  <2>1. work[u].file \in Files
    BY <1>6 DEF HandleDeleteRow, WorkInv, Coherent
  <2>. QED
    BY <1>6, <2>1 DEF HandleDeleteRow, Box!Confirm
<1>7. ASSUME NEW f \in Files, AutoDelete(f) \/ AutoDeleteRow(f)
      PROVE  ServerType'
  BY <1>7 DEF AutoDelete, AutoDeleteRow, Box!Remove, Box!Unlist, mailbox
<1>. QED
  BY <1>1, <1>2, <1>3, <1>4, <1>5, <1>6, <1>7, SteadyServer

LEMMA ConfigTypeStep ==
  ASSUME Types, KeyInv, Next
  PROVE  ConfigType'
<1> USE DEF Types, ConfigType
<1>1. CASE UNCHANGED config
  BY <1>1 DEF config
<1>2. ASSUME NEW u \in Users, ConfigInit(u)
      PROVE  ConfigType'
  <2>1. key[u] + 1 \in 1..MaxKeys
    BY <1>2, BoundsAssumption DEF ConfigInit
  <2>2. <<u, key[u] + 1>> \in Keys
    BY <2>1 DEF Keys
  <2>. QED
    BY <1>2, <2>1, <2>2 DEF ConfigInit
<1>3. ASSUME NEW u \in Users, NEW v \in Users, AddUser(u, v)
      PROVE  ConfigType'
  <2>1. Held(v) \in Keys
    BY <1>3, BoundsAssumption DEF AddUser, Held, Keys
  <2>. QED
    BY <1>3, <2>1 DEF AddUser
<1>4. ASSUME NEW u \in Users, NEW v \in Users, RemoveUser(u, v)
      PROVE  ConfigType'
  BY <1>4 DEF RemoveUser
<1>5. ASSUME NEW u \in Users, Login(u) \/ Expire(u)
      PROVE  ConfigType'
  BY <1>5 DEF Login, Expire
<1>6. ASSUME NEW u \in Users, LookupUser(u)
      PROVE  ConfigType'
  <2>1. CASE UNCHANGED book
    BY <1>6, <2>1 DEF LookupUser
  <2>2. CASE book' = [book EXCEPT ![u][work[u].to] = users[work[u].to]]
    <3>1. users[work[u].to] \in Keys \cup {None} \/ work[u].to \notin Users
      BY DEF ServerType
    <3>. QED
      BY <1>6, <2>2, <3>1 DEF LookupUser
  <2>. QED
    BY <1>6, <2>1, <2>2 DEF LookupUser
<1>7. ASSUME NEW u \in Users, TakeList(u)
      PROVE  ConfigType'
  BY <1>7 DEF TakeList, CommandType, Replies
<1>. QED
  BY <1>1, <1>2, <1>3, <1>4, <1>5, <1>6, <1>7, SteadyConfig

LEMMA HistoryTypeStep ==
  ASSUME Types, WorkInv, Next
  PROVE  HistoryType'
<1> USE DEF Types, HistoryType
<1>0. Fault => faults' \in 0..MaxFaults
  BY BoundsAssumption DEF Fault
<1>1. CASE UNCHANGED <<faults, history>>
  BY <1>1 DEF history
<1>2. ASSUME NEW u \in Users, LookupUser(u) \/ Expire(u)
      PROVE  HistoryType'
  BY <1>0, <1>2 DEF LookupUser, Expire, history
<1>3. ASSUME NEW u \in Users, TakeUploaded(u)
      PROVE  HistoryType'
  BY <1>3 DEF TakeUploaded, At, WorkInv, Coherent
<1>4. ASSUME NEW u \in Users, TakeList(u)
      PROVE  HistoryType'
  BY <1>0, <1>4 DEF TakeList, history
<1>5. ASSUME NEW u \in Users, TakeDownload(u)
      PROVE  HistoryType'
  BY <1>5 DEF TakeDownload, At, WorkInv, Coherent
<1>6. ASSUME NEW u \in Users, HandleDelete(u)
      PROVE  HistoryType'
  BY <1>6 DEF HandleDelete, Admitted, At, WorkInv, Coherent
<1>7. ASSUME NEW u \in Users, Interrupt(u)
      PROVE  HistoryType'
  BY <1>0, <1>7 DEF Interrupt, At, WorkInv, Coherent
<1>. QED
  BY <1>1, <1>2, <1>3, <1>4, <1>5, <1>6, <1>7, SteadyHistory

-----------------------------------------------------------------------------
(* What never goes back, and how commands move.                            *)

(* A file is sent once and deleted once, and its metadata stay.            *)
LEMMA ServerOnward ==
  ASSUME Types, WorkInv, Next, NEW f \in Files, state[f] # "unsent"
  PROVE  /\ state'[f] # "unsent" /\ meta'[f] = meta[f]
         /\ state[f] = "gone" => state'[f] = "gone"
<1> USE DEF Types, ServerType
<1>1. CASE UNCHANGED server
  BY <1>1 DEF server, mailbox
<1>2. ASSUME NEW u \in Users,
             \/ HandleRegister(u) \/ HandleUpload(u) \/ HandleDownload(u)
             \/ HandleDelete(u) \/ HandleDeleteRow(u)
      PROVE  /\ state'[f] # "unsent" /\ meta'[f] = meta[f]
             /\ state[f] = "gone" => state'[f] = "gone"
  BY <1>2
  DEF HandleRegister, HandleUpload, HandleDownload, HandleDelete,
      HandleDeleteRow, Box!Deposit, Box!Fetch, Box!Remove, Box!Confirm, mailbox
<1>3. ASSUME NEW g \in Files, AutoDelete(g) \/ AutoDeleteRow(g)
      PROVE  /\ state'[f] # "unsent" /\ meta'[f] = meta[f]
             /\ state[f] = "gone" => state'[f] = "gone"
  BY <1>3 DEF AutoDelete, AutoDeleteRow, Box!Remove, Box!Unlist, mailbox
<1>. QED
  BY <1>1, <1>2, <1>3, SteadyServer

(* Key pairs are replaced by later ones, and a token by none other than a  *)
(* token.                                                                  *)
LEMMA ConfigOnward ==
  ASSUME Types, Next, NEW v \in Users
  PROVE  /\ key[v] <= key'[v]
         /\ token[v] # "none" => token'[v] # "none"
<1> USE DEF Types, ConfigType
<1>1. CASE UNCHANGED config
  BY <1>1 DEF config
<1>2. ASSUME NEW u \in Users,
             ConfigInit(u) \/ Login(u) \/ LookupUser(u) \/ TakeList(u) \/ Expire(u)
      PROVE  /\ key[v] <= key'[v]
             /\ token[v] # "none" => token'[v] # "none"
  BY <1>2 DEF ConfigInit, Login, LookupUser, TakeList, Expire
<1>3. ASSUME NEW u \in Users, NEW w \in Users, AddUser(u, w) \/ RemoveUser(u, w)
      PROVE  /\ key[v] <= key'[v]
             /\ token[v] # "none" => token'[v] # "none"
  BY <1>3 DEF AddUser, RemoveUser
<1>. QED
  BY <1>1, <1>2, <1>3, SteadyConfig

(* The commands that ask the server something. *)
Starts(u) ==
  \/ Register(u)
  \/ LoginCommand(u)
  \/ \E v \in Recipients, auto \in BOOLEAN : SendFile(u, v, auto)
  \/ ListFiles(u)
  \/ \E i \in DOMAIN index[u] : DownloadByIndex(u, i)
  \/ \E f \in Files : DownloadById(u, f) \/ DeleteFile(u, f)

(* What such a command w of u is when it starts at the stage. *)
Fresh(u, stage, w) ==
  /\ stage \in {"lookup", "login", "request"} /\ w \in Work
  /\ stage = "lookup" => w.op = "send"
  /\ stage = "request" => w.op = "register" \/ token[u] # "none"
  /\ w.op = "register" => w.seal = book[u][u] /\ w.seal # None
  /\ w.op = "send" =>
       /\ w.to \in Users /\ w.seal = book[u][w.to] /\ w.file = None
       /\ stage # "lookup" => w.seal # None
  /\ w.op \in {"download", "delete"} =>
       w.file \in Files /\ state[w.file] # "unsent"

LEMMA Starting ==
  ASSUME IInv, NEW u \in Users, Starts(u)
  PROVE  /\ pc[u] = "idle"
         /\ UNCHANGED <<server, config, reply, faults, history>>
         /\ \E stage, w : Fresh(u, stage, w) /\ Enter(u, stage, w)
<1> DEFINE Goal == /\ pc[u] = "idle"
                   /\ UNCHANGED <<server, config, reply, faults, history>>
                   /\ \E stage, w : Fresh(u, stage, w) /\ Enter(u, stage, w)
<1> USE Nothing DEF IInv, Types, Idle
<1>1. ASSUME Register(u)
      PROVE  Goal
  <2> DEFINE w == [NoWork EXCEPT !.op = "register", !.seal = book[u][u]]
  <2>0. book[u][u] \in Keys \cup {None}
    BY DEF ConfigType
  <2>1. w \in Work /\ w.op = "register" /\ w.seal = book[u][u]
    BY <2>0 DEF Work
  <2>2. Fresh(u, "request", w) /\ Enter(u, "request", w)
    BY <1>1, <2>1 DEF Register, Fresh
  <2>. QED
    BY <1>1, <2>2 DEF Register
<1>2. ASSUME LoginCommand(u)
      PROVE  Goal
  <2> DEFINE w == [NoWork EXCEPT !.op = "login"]
  <2>1. w \in Work /\ w.op = "login"
    BY DEF Work
  <2>2. Fresh(u, "login", w) /\ Enter(u, "login", w)
    BY <1>2, <2>1 DEF LoginCommand, Fresh
  <2>. QED
    BY <1>2, <2>2 DEF LoginCommand
<1>3. ASSUME NEW v \in Recipients, NEW auto \in BOOLEAN, SendFile(u, v, auto)
      PROVE  Goal
  <2> DEFINE w == [NoWork EXCEPT !.op = "send", !.to = v, !.auto = auto,
                                 !.seal = book[u][v]]
  <2>1. v \in Users /\ book[u][v] \in Keys \cup {None}
    BY RolesAssumption DEF ConfigType
  <2>2. /\ w \in Work /\ w.op = "send" /\ w.to = v /\ w.seal = book[u][v]
        /\ w.file = None
    BY <2>1 DEF Work
  <2>3. CASE book[u][v] = None
    <3>1. Fresh(u, "lookup", w) /\ Enter(u, "lookup", w)
      BY <1>3, <2>1, <2>2, <2>3 DEF SendFile, Fresh
    <3>. QED
      BY <1>3, <3>1 DEF SendFile
  <2>4. CASE book[u][v] # None
    <3> DEFINE stage == IF token[u] = "none" THEN "login" ELSE "request"
    <3>1. Fresh(u, stage, w) /\ Enter(u, stage, w)
      BY <1>3, <2>1, <2>2, <2>4 DEF SendFile, GetAuthHeader, Fresh
    <3>. QED
      BY <1>3, <3>1 DEF SendFile
  <2>. QED
    BY <2>3, <2>4
<1>4. ASSUME ListFiles(u)
      PROVE  Goal
  <2> DEFINE w == [NoWork EXCEPT !.op = "list"]
             stage == IF token[u] = "none" THEN "login" ELSE "request"
  <2>1. w \in Work /\ w.op = "list"
    BY DEF Work
  <2>2. Fresh(u, stage, w) /\ Enter(u, stage, w)
    BY <1>4, <2>1 DEF ListFiles, GetAuthHeader, Fresh
  <2>. QED
    BY <1>4, <2>2 DEF ListFiles
<1>5. ASSUME NEW i \in DOMAIN index[u], DownloadByIndex(u, i)
      PROVE  Goal
  <2> DEFINE w == [NoWork EXCEPT !.op = "download", !.file = index[u][i]]
             stage == IF token[u] = "none" THEN "login" ELSE "request"
  <2>1. index[u] \in Seq(Files)
    BY DEF ConfigType
  <2>2. i \in Nat /\ index[u][i] \in Files
    BY <2>1
  <2>3. state[index[u][i]] # "unsent"
    BY <2>2 DEF ServerInv, ListInv, OwnFiles
  <2>4. w \in Work /\ w.op = "download" /\ w.file = index[u][i]
    BY <2>2 DEF Work
  <2>5. Fresh(u, stage, w) /\ Enter(u, stage, w)
    BY <1>5, <2>2, <2>3, <2>4 DEF DownloadByIndex, GetAuthHeader, Fresh
  <2>. QED
    BY <1>5, <2>5 DEF DownloadByIndex
<1>6. ASSUME NEW f \in Files, DownloadById(u, f)
      PROVE  Goal
  <2> DEFINE w == [NoWork EXCEPT !.op = "download", !.file = f]
             stage == IF token[u] = "none" THEN "login" ELSE "request"
  <2>1. w \in Work /\ w.op = "download" /\ w.file = f
    BY DEF Work
  <2>2. Fresh(u, stage, w) /\ Enter(u, stage, w)
    BY <1>6, <2>1 DEF DownloadById, GetAuthHeader, Fresh
  <2>. QED
    BY <1>6, <2>2 DEF DownloadById
<1>7. ASSUME NEW f \in Files, DeleteFile(u, f)
      PROVE  Goal
  <2> DEFINE w == [NoWork EXCEPT !.op = "delete", !.file = f]
             stage == IF token[u] = "none" THEN "login" ELSE "request"
  <2>1. w \in Work /\ w.op = "delete" /\ w.file = f
    BY DEF Work
  <2>2. Fresh(u, stage, w) /\ Enter(u, stage, w)
    BY <1>7, <2>1 DEF DeleteFile, GetAuthHeader, Fresh
  <2>. QED
    BY <1>7, <2>2 DEF DeleteFile
<1>. QED
  BY <1>1, <1>2, <1>3, <1>4, <1>5, <1>6, <1>7 DEF Starts

-----------------------------------------------------------------------------
(* A step moves the command of one user at most. *)

Moves(u) == Starts(u) \/ Step(u) \/ Interrupt(u)

LEMMA SteadyCommand ==
  ASSUME Next
  PROVE  UNCHANGED command \/ \E u \in Users : Moves(u)
  BY DEF Next, Command, Moves, Starts, ConfigInit, AddUser, RemoveUser,
         Expire, AutoDelete, AutoDeleteRow

LEMMA Answers ==
  ASSUME Types, NEW u \in Users, NEW status \in {"ok", "error"},
         NEW list \in Seq(Files), Answer(u, status, list), UNCHANGED work
  PROVE  /\ CommandType'
         /\ pc'[u] = "answer" /\ reply'[u].status = status
         /\ reply'[u].files = list /\ work'[u] = work[u]
         /\ \A v \in Users \ {u} :
              pc'[v] = pc[v] /\ work'[v] = work[v] /\ reply'[v] = reply[v]
  BY DEF Types, CommandType, Answer, Stages, Replies

LEMMA Returns ==
  ASSUME Types, NEW u \in Users, Return(u)
  PROVE  /\ CommandType'
         /\ pc'[u] = "idle" /\ work'[u] = NoWork /\ reply'[u] = Silence
         /\ \A v \in Users \ {u} :
              pc'[v] = pc[v] /\ work'[v] = work[v] /\ reply'[v] = reply[v]
  BY Nothing, Quiet DEF Types, CommandType, Return, Enter, Stages, Replies

LEMMA Enters ==
  ASSUME Types, NEW u \in Users, NEW stage \in Stages, NEW w \in Work,
         Enter(u, stage, w), UNCHANGED reply
  PROVE  /\ CommandType'
         /\ pc'[u] = stage /\ work'[u] = w /\ reply'[u] = reply[u]
         /\ \A v \in Users \ {u} :
              pc'[v] = pc[v] /\ work'[v] = work[v] /\ reply'[v] = reply[v]
  BY DEF Types, CommandType, Enter, Stages, Replies

(* What a step does to the command of u: it starts, returns, is answered,  *)
(* or gets on.                                                             *)
Started(u) ==
  /\ pc[u] = "idle"
  /\ UNCHANGED <<server, config, faults, history>>
  /\ reply'[u] = reply[u] /\ Fresh(u, pc'[u], work'[u])

Returned(u) ==
  /\ pc[u] # "idle" /\ pc'[u] = "idle" /\ work'[u] = NoWork
  /\ reply'[u] \in {reply[u], Silence}

LoggingIn(u) ==
  /\ At(u, "answer", "register")
  /\ pc'[u] = "login" /\ work'[u] = [NoWork EXCEPT !.op = "login"]
  /\ reply'[u] = Silence

LoggedIn(u) ==
  /\ pc[u] = "login" /\ work[u].op # "login" /\ Login(u)
  /\ pc'[u] = "request" /\ work'[u] = work[u] /\ reply'[u] = reply[u]

LookedUp(u) ==
  /\ LookupUser(u)
  /\ pc'[u] = IF token[u] = "none" THEN "login" ELSE "request"
  /\ users[work[u].to] # None
  /\ work'[u] = [work[u] EXCEPT !.seal = users[work[u].to]]
  /\ reply'[u] = reply[u]

Uploaded(u) ==
  /\ HandleUpload(u)
  /\ pc'[u] = "answer" /\ reply'[u].status = "ok" /\ reply'[u].files = <<>>
  /\ \E f \in Files :
       /\ Box!Deposit(f)
       /\ rows' = rows \cup {f}
       /\ meta' = [meta EXCEPT ![f] =
            [sender |-> u, recipient |-> work[u].to, auto |-> work[u].auto,
             seal |-> work[u].seal]]
       /\ work'[u] = [work[u] EXCEPT !.file = f]

Deleting(u) ==
  /\ HandleDelete(u)
  /\ pc'[u] = "confirm" /\ work'[u] = work[u] /\ reply'[u] = reply[u]

(* A response other than those to send-file and list-files. *)
Responded(u) ==
  /\ pc[u] \in {"request", "confirm"} /\ pc'[u] = "answer"
  /\ work'[u] = work[u]
  /\ reply'[u].status \in {"ok", "error"} /\ reply'[u].files = <<>>
  /\ reply'[u].status = "ok" => work[u].op \notin {"send", "list"}
  /\ reply'[u].status = "ok" /\ work[u].op = "download" => HandleDownload(u)

Shown(u) ==
  /\ HandleList(u)
  /\ pc'[u] = "answer" /\ work'[u] = work[u]
  /\ reply'[u].status = "ok" /\ reply'[u].files \in FilesFor(u)

Moved(u) ==
  \/ Started(u) \/ Returned(u) \/ LoggingIn(u) \/ LoggedIn(u) \/ LookedUp(u)
  \/ Uploaded(u) \/ Deleting(u) \/ Responded(u) \/ Shown(u)

(* Nothing but the command of u moves. *)
Alone(u) ==
  \A v \in Users \ {u} :
    pc'[v] = pc[v] /\ work'[v] = work[v] /\ reply'[v] = reply[v]

LEMMA Moving ==
  ASSUME IInv, NEW u \in Users, Moves(u)
  PROVE  CommandType' /\ Moved(u) /\ Alone(u)
<1> DEFINE Goal == CommandType' /\ Moved(u) /\ Alone(u)
<1> USE DEF Alone, Moved
<1>t. Types /\ WorkInv
  BY DEF IInv
<1>e. <<>> \in Seq(Files)
  OBVIOUS
<1>1. ASSUME Starts(u)
      PROVE  Goal
  <2>1. PICK stage, w : Fresh(u, stage, w) /\ Enter(u, stage, w)
    BY <1>1, Starting
  <2>2. stage \in Stages /\ w \in Work
    BY <2>1 DEF Fresh, Stages
  <2>3. UNCHANGED <<server, config, reply, faults, history>> /\ pc[u] = "idle"
    BY <1>1, Starting
  <2>. QED
    BY <1>t, <2>1, <2>2, <2>3, Enters DEF Started
<1>2. ASSUME pc[u] # "idle", Return(u)
      PROVE  Goal
  BY <1>t, <1>2, Returns DEF Returned
<1>3. ASSUME pc[u] # "idle", Enter(u, "idle", NoWork), UNCHANGED reply
      PROVE  Goal
  BY <1>t, <1>3, Enters, Nothing DEF Returned, Stages
<1>4. ASSUME HandleRegister(u) \/ Refuse(u) \/ DeleteRefused(u)
      PROVE  Goal
  <2>1. PICK status \in {"ok", "error"} :
          /\ Answer(u, status, <<>>) /\ UNCHANGED work /\ pc[u] = "request"
          /\ status = "ok" => work[u].op = "register"
    BY <1>4 DEF HandleRegister, Refuse, DeleteRefused, Admitted, At
  <2>. QED
    BY <1>t, <1>e, <2>1, Answers DEF Responded
<1>5. ASSUME HandleDownload(u)
      PROVE  Goal
  <2>1. PICK status \in {"ok", "error"} :
          /\ Answer(u, status, <<>>) /\ UNCHANGED work /\ At(u, "request", "download")
    BY <1>5 DEF HandleDownload, Admitted
  <2>. QED
    BY <1>t, <1>e, <1>5, <2>1, Answers DEF Responded, At
<1>6. ASSUME HandleDeleteRow(u)
      PROVE  Goal
  <2>1. /\ Answer(u, "ok", <<>>) /\ UNCHANGED work
        /\ pc[u] = "confirm" /\ work[u].op = "delete"
    BY <1>t, <1>6 DEF HandleDeleteRow, WorkInv, Coherent
  <2>. QED
    BY <1>t, <1>e, <2>1, Answers DEF Responded
<1>7. ASSUME TakeRegistered(u)
      PROVE  Goal
  <2> DEFINE w == [NoWork EXCEPT !.op = "login"]
  <2>1. CASE Return(u)
    BY <1>2, <1>7, <2>1 DEF TakeRegistered, At
  <2>2. CASE Enter(u, "login", w) /\ reply' = [reply EXCEPT ![u] = Silence]
    <3>1. w \in Work
      BY Nothing DEF Work
    <3>. QED
      BY <1>t, <1>7, <2>2, <3>1, Quiet
      DEF Types, CommandType, Enter, Stages, TakeRegistered, LoggingIn
  <2>. QED
    BY <1>7, <2>1, <2>2 DEF TakeRegistered
<1>8. ASSUME Login(u) \/ LoginFails(u)
      PROVE  Goal
  <2>1. UNCHANGED reply /\ pc[u] = "login"
    BY <1>8 DEF Login, LoginFails
  <2>2. CASE Enter(u, "idle", NoWork)
    BY <1>3, <2>1, <2>2
  <2>3. CASE Login(u) /\ work[u].op # "login" /\ Enter(u, "request", work[u])
    <3>1. work[u] \in Work
      BY <1>t DEF Types, CommandType
    <3>. QED
      BY <1>t, <2>1, <2>3, <3>1, Enters DEF LoggedIn, Stages
  <2>. QED
    BY <1>8, <2>2, <2>3 DEF Login, LoginFails
<1>9. ASSUME LookupUser(u)
      PROVE  Goal
  <2> DEFINE w == [work[u] EXCEPT !.seal = users[work[u].to]]
             stage == IF token[u] = "none" THEN "login" ELSE "request"
  <2>1. work[u] \in Work /\ work[u].to \in Users
    BY <1>t, <1>9 DEF LookupUser, Types, CommandType, WorkInv, Coherent
  <2>2. users[work[u].to] \in Keys \cup {None}
    BY <1>t, <2>1 DEF Types, ServerType
  <2>3. w \in Work /\ stage \in Stages
    BY <2>1, <2>2 DEF Work, Stages
  <2>4. Enter(u, stage, w) /\ UNCHANGED reply /\ users[work[u].to] # None
    BY <1>9 DEF LookupUser, GetAuthHeader
  <2>. QED
    BY <1>t, <1>9, <2>3, <2>4, Enters DEF LookedUp
<1>10. ASSUME UserUnknown(u)
       PROVE  Goal
  BY <1>3, <1>10 DEF UserUnknown
<1>11. ASSUME HandleUpload(u)
       PROVE  Goal
  <2>1. PICK f \in Files :
          /\ Box!Deposit(f)
          /\ rows' = rows \cup {f}
          /\ meta' = [meta EXCEPT ![f] =
               [sender |-> u, recipient |-> work[u].to, auto |-> work[u].auto,
                seal |-> work[u].seal]]
          /\ work' = [work EXCEPT ![u].file = f]
    BY <1>11 DEF HandleUpload, Box!Deposit
  <2>2. work[u] \in Work
    BY <1>t DEF Types, CommandType
  <2>3. [work[u] EXCEPT !.file = f] \in Work
    BY <2>2 DEF Work
  <2>4. /\ work' \in [Users -> Work]
        /\ work'[u] = [work[u] EXCEPT !.file = f]
        /\ \A v \in Users \ {u} : work'[v] = work[v]
    BY <1>t, <2>1, <2>3 DEF Types, CommandType
  <2>5. /\ pc' \in [Users -> Stages] /\ reply' \in [Users -> Replies]
        /\ pc'[u] = "answer" /\ reply'[u].status = "ok" /\ reply'[u].files = <<>>
        /\ \A v \in Users \ {u} : pc'[v] = pc[v] /\ reply'[v] = reply[v]
    BY <1>t, <1>e, <1>11
    DEF Types, CommandType, HandleUpload, Answer, Stages, Replies
  <2>. QED
    BY <1>11, <2>1, <2>4, <2>5 DEF CommandType, Uploaded
<1>12. ASSUME TakeUploaded(u) \/ TakeList(u) \/ TakeDownload(u) \/ TakeDeleted(u)
       PROVE  Goal
  BY <1>2, <1>12 DEF TakeUploaded, TakeList, TakeDownload, TakeDeleted, At
<1>13. ASSUME HandleList(u)
       PROVE  Goal
  <2>1. PICK list \in FilesFor(u) : Answer(u, "ok", list) /\ UNCHANGED work
    BY <1>13 DEF HandleList
  <2>2. list \in Seq(Files)
    BY <1>t, Listing DEF Types, ServerType
  <2>. QED
    BY <1>t, <1>13, <2>1, <2>2, Answers DEF Shown
<1>14. ASSUME HandleDelete(u)
       PROVE  Goal
  <2>1. work[u] \in Work
    BY <1>t DEF Types, CommandType
  <2>. QED
    BY <1>t, <1>14, <2>1, Enters DEF HandleDelete, Deleting, Stages
<1>15. ASSUME Interrupt(u)
       PROVE  Goal
  BY <1>2, <1>15 DEF Interrupt
<1>. QED
  BY <1>1, <1>4, <1>5, <1>6, <1>7, <1>8, <1>9, <1>10, <1>11, <1>12, <1>13,
     <1>14, <1>15
  DEF Moves, Step

-----------------------------------------------------------------------------
(* The parts of the invariant are kept. *)

LEMMA CommandTypeStep ==
  ASSUME IInv, Next
  PROVE  CommandType'
<1>1. CASE UNCHANGED command
  BY <1>1 DEF IInv, Types, command, CommandType
<1>2. ASSUME NEW u \in Users, Moves(u)
      PROVE  CommandType'
  BY <1>2, Moving
<1>. QED
  BY <1>1, <1>2, SteadyCommand

LEMMA ServerInvStep ==
  ASSUME IInv, Next
  PROVE  ServerInv'
<1> USE DEF IInv, Types, ServerType, ServerInv
<1>1. CASE UNCHANGED server
  BY <1>1 DEF server, mailbox
<1>2. ASSUME NEW u \in Users, HandleRegister(u) \/ HandleDownload(u)
      PROVE  ServerInv'
  BY <1>2 DEF HandleRegister, HandleDownload, Box!Fetch, mailbox
<1>3. ASSUME NEW u \in Users, HandleUpload(u)
      PROVE  ServerInv'
  <2> DEFINE m == [sender |-> u, recipient |-> work[u].to,
                   auto |-> work[u].auto, seal |-> work[u].seal]
  <2>1. PICK f \in Files :
          /\ Box!Deposit(f)
          /\ rows' = rows \cup {f}
          /\ meta' = [meta EXCEPT ![f] = m]
    BY <1>3 DEF HandleUpload, Box!Deposit
  <2>2. m \in Meta
    BY <1>3
    DEF HandleUpload, Admitted, At, WorkInv, Coherent, CommandType, Work, Meta,
        Stages
  <2>3. m # None
    BY <2>2, NoneAssumption
  <2>. QED
    BY <2>1, <2>3 DEF Box!Deposit
<1>4. ASSUME NEW u \in Users, HandleDelete(u)
      PROVE  ServerInv'
  BY <1>4 DEF HandleDelete, Box!Remove, mailbox
<1>5. ASSUME NEW u \in Users, HandleDeleteRow(u)
      PROVE  ServerInv'
  BY <1>5 DEF HandleDeleteRow, Box!Confirm
<1>6. ASSUME NEW f \in Files, AutoDelete(f) \/ AutoDeleteRow(f)
      PROVE  ServerInv'
  BY <1>6 DEF AutoDelete, AutoDeleteRow, Box!Remove, Box!Unlist, mailbox
<1>. QED
  BY <1>1, <1>2, <1>3, <1>4, <1>5, <1>6, SteadyServer

LEMMA WorkInvStep ==
  ASSUME IInv, Next
  PROVE  WorkInv'
<1> SUFFICES ASSUME NEW v \in Users
             PROVE  Coherent(v)'
  BY DEF WorkInv
<1> USE DEF IInv, WorkInv, Coherent
<1>t. Types /\ WorkInv /\ work[v] \in Work
  BY DEF Types, CommandType
<1>s. \A f \in Files :
        /\ state[f] # "unsent" => state'[f] # "unsent"
        /\ state[f] = "gone" => state'[f] = "gone"
  BY <1>t, ServerOnward
<1>k. token[v] # "none" => token'[v] # "none"
  BY <1>t, ConfigOnward
<1>1. CASE pc'[v] = pc[v] /\ work'[v] = work[v] /\ reply'[v] = reply[v]
  BY <1>s, <1>k, <1>1
<1>2. CASE Moves(v)
  <2>1. Moved(v)
    BY <1>2, Moving
  <2>2. CASE Started(v)
    BY <1>s, <1>k, <2>2 DEF Started, Fresh
  <2>3. CASE Returned(v)
    BY <2>3, Nothing DEF Returned
  <2>4. CASE LoggingIn(v)
    <3>1. work'[v].op = "login"
      BY <2>4, Nothing DEF LoggingIn, Work
    <3>. QED
      BY <2>4, <3>1 DEF LoggingIn
  <2>5. CASE LoggedIn(v)
    <3>1. token'[v] = "live"
      BY <2>5 DEF LoggedIn, Login, Types, ConfigType
    <3>. QED
      BY <1>s, <2>5, <3>1 DEF LoggedIn
  <2>6. CASE LookedUp(v)
    <3>1. /\ work'[v].op = "send" /\ work'[v].to = work[v].to
          /\ work'[v].seal # None /\ work'[v].file = work[v].file
      BY <1>t, <2>6 DEF LookedUp, LookupUser, Work
    <3>. QED
      BY <1>k, <2>6, <3>1 DEF LookedUp, LookupUser
  <2>7. CASE Uploaded(v)
    <3>1. PICK f \in Files :
            Box!Deposit(f) /\ work'[v] = [work[v] EXCEPT !.file = f]
      BY <2>7 DEF Uploaded
    <3>2. state'[f] = "stored"
      BY <1>t, <3>1 DEF Box!Deposit, Types, ServerType
    <3>3. /\ work'[v].op = "send" /\ work'[v].to = work[v].to
          /\ work'[v].seal = work[v].seal /\ work'[v].file = f
      BY <1>t, <2>7, <3>1 DEF Uploaded, HandleUpload, Admitted, At, Work
    <3>. QED
      BY <2>7, <3>2, <3>3 DEF Uploaded, HandleUpload, Admitted, At
  <2>8. CASE Deleting(v)
    <3>1. At(v, "request", "delete") /\ work[v].file \in Files
      BY <2>8 DEF Deleting, HandleDelete, Admitted, At
    <3>2. state'[work[v].file] = "gone"
      BY <1>t, <2>8, <3>1
      DEF Deleting, HandleDelete, Box!Remove, mailbox, Types, ServerType
    <3>. QED
      BY <2>8, <3>1, <3>2 DEF Deleting, At
  <2>9. CASE Responded(v)
    BY <1>s, <2>9 DEF Responded
  <2>10. CASE Shown(v)
    BY <2>10 DEF Shown, HandleList, Admitted, At
  <2>. QED
    BY <2>1, <2>2, <2>3, <2>4, <2>5, <2>6, <2>7, <2>8, <2>9, <2>10 DEF Moved
<1>3. CASE UNCHANGED command
  BY <1>1, <1>3 DEF command
<1>4. ASSUME NEW u \in Users, Moves(u)
      PROVE  Coherent(v)'
  <2>1. CASE u = v
    BY <1>2, <1>4, <2>1
  <2>2. CASE u # v
    <3>1. pc'[v] = pc[v] /\ work'[v] = work[v] /\ reply'[v] = reply[v]
      BY <1>4, <2>2, Moving DEF Alone
    <3>. QED
      BY <1>1, <3>1
  <2>. QED
    BY <2>1, <2>2
<1>. QED
  BY <1>3, <1>4, SteadyCommand

(* The keys of v after a step; what was a key of v still is one. *)
NewKeysOf(v) == {v} \X (1..key'[v])

LEMMA KeysOnward ==
  ASSUME IInv, Next, NEW v \in Users
  PROVE  KeysOf(v) \subseteq NewKeysOf(v)
<1>1. key[v] \in Nat /\ key'[v] \in Nat
  <2>1. ConfigType'
    BY ConfigTypeStep DEF IInv
  <2>. QED
    BY <2>1, BoundsAssumption DEF IInv, Types, ConfigType
<1>. QED
  BY <1>1, ConfigOnward DEF IInv, KeysOf, NewKeysOf

LEMMA KeyInvStep ==
  ASSUME IInv, Next
  PROVE  KeyInv'
<1>t. Types /\ WorkInv
  BY DEF IInv
<1>k. \A v \in Users : KeysOf(v) \subseteq NewKeysOf(v)
  BY KeysOnward
<1>1. ASSUME NEW u \in Users, NEW v \in Users, book'[u][v] # None
      PROVE  book'[u][v] \in NewKeysOf(v)
  <2>0. book[u][v] # None => book[u][v] \in NewKeysOf(v)
    BY <1>k DEF IInv, KeyInv
  <2>1. CASE UNCHANGED config
    BY <1>1, <2>0, <2>1 DEF config
  <2>2. ASSUME NEW q \in Users, ConfigInit(q)
        PROVE  book'[u][v] \in NewKeysOf(v)
    <3>1. CASE u = q /\ v = q
      <4>1. book'[u][v] = <<q, key[q] + 1>> /\ key'[q] = key[q] + 1
        BY <1>t, <2>2, <3>1 DEF ConfigInit, Types, ConfigType
      <4>2. key[q] + 1 \in 1..key'[q]
        BY <1>t, <4>1 DEF Types, ConfigType
      <4>. QED
        BY <3>1, <4>1, <4>2 DEF NewKeysOf
    <3>2. CASE ~(u = q /\ v = q)
      <4>1. book'[u][v] = book[u][v]
        BY <1>t, <2>2, <3>2 DEF ConfigInit, Types, ConfigType
      <4>. QED
        BY <1>1, <2>0, <4>1
    <3>. QED
      BY <3>1, <3>2
  <2>3. ASSUME NEW q \in Users, NEW w \in Users, AddUser(q, w)
        PROVE  book'[u][v] \in NewKeysOf(v)
    <3>1. Held(w) \in KeysOf(w)
      BY <1>t, <2>3 DEF AddUser, Held, KeysOf, Types, ConfigType
    <3>2. book'[u][v] = book[u][v] \/ (v = w /\ book'[u][v] = Held(w))
      BY <1>t, <2>3 DEF AddUser, Types, ConfigType
    <3>. QED
      BY <1>1, <1>k, <2>0, <3>1, <3>2
  <2>4. ASSUME NEW q \in Users, NEW w \in Users, RemoveUser(q, w)
        PROVE  book'[u][v] \in NewKeysOf(v)
    <3>1. book'[u][v] = book[u][v] \/ book'[u][v] = None
      BY <1>t, <2>4 DEF RemoveUser, Types, ConfigType
    <3>. QED
      BY <1>1, <2>0, <3>1
  <2>5. ASSUME NEW q \in Users, LookupUser(q)
        PROVE  book'[u][v] \in NewKeysOf(v)
    <3>1. \/ book'[u][v] = book[u][v]
          \/ v = work[q].to /\ book'[u][v] = users[v]
      <4>1. CASE UNCHANGED book
        BY <4>1
      <4>2. CASE book' = [book EXCEPT ![q][work[q].to] = users[work[q].to]]
        BY <1>t, <4>2 DEF Types, ConfigType
      <4>. QED
        BY <2>5, <4>1, <4>2 DEF LookupUser
    <3>2. users[v] # None => users[v] \in KeysOf(v)
      BY DEF IInv, KeyInv
    <3>. QED
      BY <1>1, <1>k, <2>0, <3>1, <3>2
  <2>6. ASSUME NEW q \in Users, Login(q) \/ TakeList(q) \/ Expire(q)
        PROVE  book'[u][v] \in NewKeysOf(v)
    <3>1. book' = book
      BY <2>6 DEF Login, TakeList, Expire
    <3>. QED
      BY <1>1, <2>0, <3>1
  <2>. QED
    BY <2>1, <2>2, <2>3, <2>4, <2>5, <2>6, SteadyConfig
<1>2. ASSUME NEW u \in Users, users'[u] # None
      PROVE  users'[u] \in NewKeysOf(u)
  <2>0. users[u] # None => users[u] \in NewKeysOf(u)
    BY <1>k DEF IInv, KeyInv
  <2>1. CASE UNCHANGED users
    BY <1>2, <2>0, <2>1
  <2>2. ASSUME NEW q \in Users, HandleRegister(q)
        PROVE  users'[u] \in NewKeysOf(u)
    <3>1. users'[u] = users[u] \/ (u = q /\ users'[u] = work[u].seal)
      BY <1>t, <2>2 DEF HandleRegister, Types, ServerType
    <3>2. u = q => work[u].seal \in KeysOf(u)
      BY <2>2 DEF HandleRegister, At, IInv, KeyInv
    <3>. QED
      BY <1>2, <1>k, <2>0, <3>1, <3>2
  <2>. QED
    BY <2>1, <2>2, SteadyServer
    DEF server, HandleUpload, HandleDownload, HandleDelete, HandleDeleteRow,
        AutoDelete, AutoDeleteRow
<1>3. ASSUME NEW u \in Users
      PROVE  /\ work'[u].op = "send" /\ work'[u].seal # None =>
                  work'[u].seal \in NewKeysOf(work'[u].to)
             /\ work'[u].op = "register" => work'[u].seal \in NewKeysOf(u)
  <2> DEFINE Sealed(w) ==
               /\ w.op = "send" /\ w.seal # None => w.seal \in NewKeysOf(w.to)
               /\ w.op = "register" => w.seal \in NewKeysOf(u)
  <2>0. work[u] \in Work /\ Sealed(work[u]) /\ (work[u].op = "send" => work[u].to \in Users)
    BY <1>k DEF IInv, Types, CommandType, KeyInv, WorkInv, Coherent
  <2>1. CASE work'[u] = work[u]
    BY <2>0, <2>1
  <2>2. CASE Moves(u)
    <3>1. Moved(u)
      BY <2>2, Moving
    <3>2. CASE Started(u)
      <4>1. \A v \in Users : book[u][v] # None => book[u][v] \in NewKeysOf(v)
        BY <1>k DEF IInv, KeyInv
      <4>. QED
        BY <3>2, <4>1 DEF Started, Fresh
    <3>3. CASE Returned(u)
      BY <3>3, Nothing DEF Returned
    <3>4. CASE LoggingIn(u)
      <4>1. work'[u].op = "login"
        BY <3>4, Nothing DEF LoggingIn, Work
      <4>. QED
        BY <4>1
    <3>5. CASE LookedUp(u)
      <4>1. /\ work[u].op = "send" /\ work'[u].op = "send"
            /\ work'[u].to = work[u].to /\ work'[u].seal = users[work[u].to]
        BY <2>0, <3>5 DEF LookedUp, LookupUser, IInv, WorkInv, Coherent, Work
      <4>2. \A v \in Users : users[v] # None => users[v] \in NewKeysOf(v)
        BY <1>k DEF IInv, KeyInv
      <4>. QED
        BY <2>0, <4>1, <4>2
    <3>6. CASE Uploaded(u)
      <4>1. /\ work'[u].op = work[u].op /\ work'[u].to = work[u].to
            /\ work'[u].seal = work[u].seal
        BY <2>0, <3>6 DEF Uploaded, Work
      <4>. QED
        BY <2>0, <4>1
    <3>. QED
      BY <2>1, <3>1, <3>2, <3>3, <3>4, <3>5, <3>6
      DEF Moved, LoggedIn, Deleting, Responded, Shown
  <2>3. CASE UNCHANGED command
    BY <2>1, <2>3 DEF command
  <2>4. ASSUME NEW q \in Users, Moves(q), q # u
        PROVE  Sealed(work'[u])
    BY <2>1, <2>4, Moving DEF Alone
  <2>. QED
    BY <2>2, <2>3, <2>4, SteadyCommand
<1>4. ASSUME NEW f \in Files, meta'[f] # None
      PROVE  meta'[f].seal \in NewKeysOf(meta'[f].recipient)
  <2>0. meta[f] # None =>
          meta[f].recipient \in Users /\ meta[f].seal \in NewKeysOf(meta[f].recipient)
    BY <1>k DEF IInv, KeyInv, Types, ServerType, Meta
  <2>1. CASE UNCHANGED meta
    BY <1>4, <2>0, <2>1
  <2>2. ASSUME NEW u \in Users, HandleUpload(u)
        PROVE  meta'[f].seal \in NewKeysOf(meta'[f].recipient)
    <3> DEFINE m == [sender |-> u, recipient |-> work[u].to,
                     auto |-> work[u].auto, seal |-> work[u].seal]
    <3>1. PICK g \in Files : meta' = [meta EXCEPT ![g] = m]
      BY <2>2 DEF HandleUpload
    <3>2. meta'[f] = meta[f] \/ meta'[f] = m
      BY <1>t, <3>1 DEF Types, ServerType
    <3>3. m.seal \in NewKeysOf(m.recipient)
      BY <1>k, <1>t, <2>2
      DEF HandleUpload, Admitted, At, IInv, KeyInv, WorkInv, Coherent
    <3>. QED
      BY <1>4, <2>0, <3>2, <3>3
  <2>. QED
    BY <2>1, <2>2, SteadyServer
    DEF server, HandleRegister, HandleDownload, HandleDelete,
        HandleDeleteRow, AutoDelete, AutoDeleteRow
<1>. QED
  BY <1>1, <1>2, <1>3, <1>4 DEF KeyInv, KeysOf, NewKeysOf

LEMMA ReadInvStep ==
  ASSUME IInv, Next
  PROVE  ReadInv'
<1>t. Types /\ WorkInv /\ ServerInv /\ KeyInv /\ ReadInv
  BY DEF IInv
<1>s. \A f \in Files : meta[f] # None => meta'[f] = meta[f]
  BY <1>t, ServerOnward DEF ServerInv
<1>k. \A v \in Users : key[v] \in Nat /\ key'[v] \in Nat /\ key[v] <= key'[v]
  <2>1. ConfigType'
    BY <1>t, ConfigTypeStep
  <2>. QED
    BY <1>t, <2>1, ConfigOnward, BoundsAssumption DEF Types, ConfigType
<1>r. \A v \in Users : ReplacedOf(v) \subseteq ReplacedOf(v)'
  BY <1>k DEF ReplacedOf
<1>m. \A f \in Files : meta[f] # None =>
        meta[f].recipient \in Users /\ meta[f].seal \in KeysOf(meta[f].recipient)
  BY <1>t DEF Types, ServerType, Meta, KeyInv
<1>1. CASE UNCHANGED <<read, unreadable>>
  BY <1>t, <1>s, <1>r, <1>m, <1>1 DEF ReadInv, Types, HistoryType
<1>2. ASSUME NEW u \in Users, TakeDownload(u)
      PROVE  ReadInv'
  <2> DEFINE f == work[u].file
  <2>1. f \in Files /\ meta[f] # None /\ UNCHANGED <<meta, key>>
    BY <1>t, <1>2
    DEF TakeDownload, At, WorkInv, Coherent, ServerInv, server, config
  <2>2. ASSUME Opens(u, f)
        PROVE  u = meta[f].recipient
    BY <1>m, <2>1, <2>2 DEF Opens, Held, KeysOf
  <2>3. ASSUME ~Opens(u, f), meta[f].recipient = u
        PROVE  meta[f].seal \in ReplacedOf(u)
    <3>1. PICK n \in 1..key[u] : meta[f].seal = <<u, n>>
      BY <1>m, <2>1, <2>3 DEF KeysOf
    <3>2. n # key[u]
      BY <2>3, <3>1 DEF Opens, Held
    <3>3. n \in 1..(key[u] - 1)
      BY <1>k, <3>1, <3>2
    <3>. QED
      BY <3>1, <3>3 DEF ReplacedOf
  <2>4. CASE UNCHANGED <<read, unreadable>>
    BY <1>1, <2>4
  <2>5. CASE Opens(u, f) /\ read' = read \cup {<<u, f>>} /\ UNCHANGED unreadable
    BY <1>t, <2>1, <2>2, <2>5 DEF ReadInv, ReplacedOf
  <2>6. CASE ~Opens(u, f) /\ UNCHANGED read /\ unreadable' =
               IF meta[f].recipient = u THEN unreadable \cup {f} ELSE unreadable
    BY <1>t, <2>1, <2>3, <2>6 DEF ReadInv, ReplacedOf
  <2>. QED
    BY <1>2, <2>4, <2>5, <2>6 DEF TakeDownload
<1>. QED
  BY <1>1, <1>2, SteadyHistory
  DEF history, LookupUser, TakeUploaded, TakeList, HandleDelete, Expire, Interrupt

(* Only list-files moves the list of a user. *)
LEMMA SteadyList ==
  ASSUME Types, Next, NEW v \in Users, ~TakeList(v)
  PROVE  index'[v] = index[v]
  BY SteadyConfig
  DEF Types, ConfigType, config, ConfigInit, Login, LookupUser, TakeList,
      Expire, AddUser, RemoveUser

LEMMA ListInvStep ==
  ASSUME IInv, Next
  PROVE  ListInv'
<1> SUFFICES ASSUME NEW v \in Users
             PROVE  (OwnFiles(v, reply[v].files) /\ OwnFiles(v, index[v]))'
  BY DEF ListInv
<1>t. /\ Types /\ ServerInv /\ WorkInv
      /\ OwnFiles(v, reply[v].files) /\ OwnFiles(v, index[v])
      /\ index[v] \in Seq(Files) /\ reply[v].files \in Seq(Files)
      /\ work[v] \in Work
  BY DEF IInv, ListInv, Types, ConfigType, CommandType, Replies
<1>s. \A f \in Files : meta[f] # None => meta'[f] = meta[f]
  BY <1>t, ServerOnward DEF ServerInv
<1>o. \A list \in {index[v], reply[v].files, <<>>} :
        \A i \in DOMAIN list :
          meta'[list[i]] # None /\ meta'[list[i]].recipient = v
  <2>1. ASSUME NEW list \in Seq(Files), OwnFiles(v, list), NEW i \in DOMAIN list
        PROVE  meta'[list[i]] # None /\ meta'[list[i]].recipient = v
    <3>1. list[i] \in Files
      BY <2>1
    <3>. QED
      BY <1>s, <2>1, <3>1 DEF OwnFiles
  <2>2. <<>> \in Seq(Files) /\ OwnFiles(v, <<>>)
    BY DEF OwnFiles
  <2>. QED
    BY <1>t, <2>1, <2>2
<1>1. ASSUME index'[v] \in {index[v], reply[v].files},
             reply'[v].files \in {reply[v].files, <<>>}
      PROVE  (OwnFiles(v, reply[v].files) /\ OwnFiles(v, index[v]))'
  BY <1>o, <1>1 DEF OwnFiles
<1>2. CASE TakeList(v)
  <2>1. reply'[v] = Silence
    BY <1>t, <1>2, Returns DEF TakeList
  <2>2. index'[v] \in {index[v], reply[v].files}
    BY <1>t, <1>2 DEF TakeList, Types, ConfigType
  <2>. QED
    BY <1>1, <2>1, <2>2, Quiet
<1>3. CASE Moves(v) /\ ~TakeList(v)
  <2>0. index'[v] = index[v]
    BY <1>t, <1>3, SteadyList
  <2>1. Moved(v)
    BY <1>3, Moving
  <2>2. CASE Started(v)
    BY <1>1, <2>0, <2>2 DEF Started
  <2>3. CASE Returned(v)
    BY <1>1, <2>0, <2>3, Quiet DEF Returned
  <2>4. CASE LoggingIn(v)
    BY <1>1, <2>0, <2>4, Quiet DEF LoggingIn
  <2>5. CASE \/ LoggedIn(v) \/ Deleting(v) \/ Responded(v)
             \/ LookedUp(v) \/ Uploaded(v)
    BY <1>1, <2>0, <2>5
    DEF LoggedIn, Deleting, Responded, LookedUp, Uploaded
  <2>6. CASE Shown(v)
    <3>1. reply'[v].files \in FilesFor(v) /\ UNCHANGED meta
      BY <2>6 DEF Shown, HandleList, server
    <3>2. \A i \in DOMAIN reply'[v].files :
            /\ reply'[v].files[i] \in rows
            /\ meta[reply'[v].files[i]].recipient = v
      BY <1>t, <3>1, Listing DEF Types, ServerType
    <3>3. \A f \in rows : f \in Files /\ meta[f] # None
      BY <1>t DEF Types, ServerType, ServerInv
    <3>. QED
      BY <1>t, <2>0, <3>1, <3>2, <3>3 DEF OwnFiles
  <2>. QED
    BY <2>1, <2>2, <2>3, <2>4, <2>5, <2>6 DEF Moved
<1>4. CASE ~Moves(v)
  <2>1. reply'[v] = reply[v]
    BY <1>4, Moving, SteadyCommand DEF Alone, command
  <2>2. ~TakeList(v)
    BY <1>4 DEF Moves, Step
  <2>. QED
    BY <1>t, <1>1, <2>1, <2>2, SteadyList
<1>. QED
  BY <1>2, <1>3, <1>4

LEMMA SendReportsTruthStep ==
  ASSUME IInv, Next
  PROVE  SendReportsTruth'
<1> DEFINE Answering(u) == At(u, "answer", "send")
<1>t. Types /\ ServerInv /\ WorkInv /\ SendReportsTruth
  BY DEF IInv
<1>w. \A u \in Users : Answering(u) =>
        IF reply[u].status = "ok" THEN work[u].file \in acked
                                  ELSE work[u].file = None
  BY <1>t DEF At, WorkInv, Coherent, ServerInv
<1>n. None \notin acked
  BY <1>t, NoneAssumption DEF Types, ServerType
<1>a. acked \subseteq acked'
  BY SteadyServer
  DEF server, mailbox, HandleRegister, HandleUpload, HandleDownload,
      HandleDelete, HandleDeleteRow, AutoDelete, AutoDeleteRow, Box!Deposit,
      Box!Fetch, Box!Remove, Box!Unlist, Box!Confirm
<1>h. told \subseteq told' /\ unanswered \subseteq unanswered'
  BY SteadyHistory
  DEF history, LookupUser, TakeUploaded, TakeList, TakeDownload, HandleDelete,
      Expire, Interrupt
<1>1. told' \subseteq acked'
  <2>1. CASE UNCHANGED told
    BY <1>t, <1>a, <2>1 DEF SendReportsTruth
  <2>2. ASSUME NEW u \in Users, TakeUploaded(u)
        PROVE  told' \subseteq acked'
    BY <1>t, <1>a, <1>w, <2>2 DEF TakeUploaded, SendReportsTruth
  <2>. QED
    BY <2>1, <2>2, SteadyHistory
    DEF history, LookupUser, TakeList, TakeDownload, HandleDelete, Expire,
        Interrupt
<1>2. ASSUME NEW f \in acked', f \notin told', f \notin unanswered'
      PROVE  \E u \in Users : Answering(u)' /\ work'[u].file = f
  <2>1. CASE f \in acked
    <3>1. PICK u \in Users : Answering(u) /\ work[u].file = f
      BY <1>t, <1>h, <1>2, <2>1 DEF SendReportsTruth
    <3>2. reply[u].status = "ok"
      BY <1>w, <1>n, <2>1, <3>1
    <3>3. ~TakeUploaded(u) /\ ~Interrupt(u)
      BY <1>2, <3>1, <3>2 DEF TakeUploaded, Interrupt
    <3>4. ~Moves(u)
      BY <3>1, <3>3
      DEF Moves, Starts, Step, At, Admitted, Idle, Register, LoginCommand,
          SendFile, ListFiles, DownloadByIndex, DownloadById, DeleteFile,
          HandleRegister, TakeRegistered, Login, LoginFails, Refuse,
          LookupUser, UserUnknown, HandleUpload, HandleList, TakeList,
          HandleDownload, TakeDownload, HandleDelete, HandleDeleteRow,
          DeleteRefused, TakeDeleted
    <3>5. pc'[u] = pc[u] /\ work'[u] = work[u]
      BY <3>4, SteadyCommand, Moving DEF Alone, command
    <3>. QED
      BY <3>1, <3>5 DEF At
  <2>2. CASE f \notin acked
    <3>1. PICK u \in Users : HandleUpload(u)
      BY <1>2, <2>2, SteadyServer
      DEF server, mailbox, HandleRegister, HandleDownload, HandleDelete,
          HandleDeleteRow, AutoDelete, AutoDeleteRow, Box!Fetch, Box!Remove,
          Box!Unlist, Box!Confirm
    <3>2. PICK g \in Files : Box!Deposit(g) /\ work' = [work EXCEPT ![u].file = g]
      BY <3>1 DEF HandleUpload
    <3>3. f = g
      BY <1>2, <2>2, <3>2 DEF Box!Deposit
    <3>4. /\ work[u] \in Work /\ work[u].op = "send"
          /\ work'[u] = [work[u] EXCEPT !.file = g] /\ pc'[u] = "answer"
      BY <1>t, <3>1, <3>2
      DEF HandleUpload, Admitted, At, Answer, Types, CommandType
    <3>5. work'[u].op = "send" /\ work'[u].file = f
      BY <3>3, <3>4 DEF Work
    <3>. QED
      BY <3>4, <3>5 DEF At
  <2>. QED
    BY <2>1, <2>2
<1>. QED
  BY <1>1, <1>2 DEF SendReportsTruth

LEMMA LossInvStep ==
  ASSUME IInv, Next
  PROVE  LossInv'
<1> SUFFICES ASSUME NEW f \in Files
             PROVE  /\ state'[f] = "gone" =>
                         \/ f \in asked'
                         \/ meta'[f].auto /\ <<None, f>> \in fetched'
                    /\ <<None, f>> \in fetched' =>
                         \/ <<meta'[f].recipient, f>> \in read'
                         \/ f \in wasted'
                         \/ \E u \in Users : Answered(u, f)'
  BY DEF LossInv
<1>t. Types /\ ServerInv /\ WorkInv /\ KeyInv /\ LossInv
  BY DEF IInv
<1>s. meta[f] # None => meta'[f] = meta[f]
  BY <1>t, ServerOnward DEF ServerInv
<1>f. fetched \subseteq fetched'
  BY SteadyServer
  DEF server, mailbox, HandleRegister, HandleUpload, HandleDownload,
      HandleDelete, HandleDeleteRow, AutoDelete, AutoDeleteRow, Box!Deposit,
      Box!Fetch, Box!Remove, Box!Unlist, Box!Confirm
<1>h. asked \subseteq asked' /\ read \subseteq read' /\ wasted \subseteq wasted'
  BY SteadyHistory
  DEF history, LookupUser, TakeUploaded, TakeList, TakeDownload, HandleDelete,
      Expire, Interrupt
<1>1. ASSUME state'[f] = "gone"
      PROVE  f \in asked' \/ (meta'[f].auto /\ <<None, f>> \in fetched')
  <2>1. CASE state[f] = "gone"
    <3>1. meta'[f] = meta[f]
      BY <1>t, <1>s, <2>1 DEF ServerInv
    <3>. QED
      BY <1>t, <1>f, <1>h, <2>1, <3>1 DEF LossInv
  <2>2. ASSUME state[f] # "gone", NEW u \in Users, HandleDelete(u)
        PROVE  f \in asked'
    BY <1>t, <1>1, <2>2
    DEF HandleDelete, Box!Remove, mailbox, Types, ServerType
  <2>3. ASSUME state[f] # "gone", NEW g \in Files, AutoDelete(g)
        PROVE  meta'[f].auto /\ <<None, f>> \in fetched'
    BY <1>t, <1>1, <2>3 DEF AutoDelete, Box!Remove, Types, ServerType
  <2>4. ASSUME state[f] # "gone", NEW u \in Users, HandleUpload(u)
        PROVE  FALSE
    BY <1>t, <1>1, <2>4 DEF HandleUpload, Box!Deposit, Types, ServerType
  <2>. QED
    BY <1>1, <2>1, <2>2, <2>3, <2>4, SteadyServer
    DEF server, mailbox, HandleRegister, HandleDownload, HandleDeleteRow,
        AutoDeleteRow, Box!Fetch, Box!Unlist, Box!Confirm
<1>2. ASSUME <<None, f>> \in fetched'
      PROVE  \/ <<meta'[f].recipient, f>> \in read'
             \/ f \in wasted'
             \/ \E u \in Users : Answered(u, f)'
  <2>1. CASE <<None, f>> \in fetched
    <3>1. CASE <<meta[f].recipient, f>> \in read
      <4>1. meta[f] # None
        BY <3>1 DEF IInv, Types, HistoryType, ReadInv
      <4>. QED
        BY <1>s, <1>h, <3>1, <4>1
    <3>2. CASE f \in wasted
      BY <1>h, <3>2
    <3>3. ASSUME NEW u \in Users, Answered(u, f)
          PROVE  \/ <<meta'[f].recipient, f>> \in read'
                 \/ f \in wasted'
                 \/ Answered(u, f)'
      <4>1. CASE TakeDownload(u)
        <5>1. /\ meta[f] # None /\ meta[f].recipient \in Users
              /\ meta[f].seal \in KeysOf(meta[f].recipient)
          BY <1>t, <3>3
          DEF Answered, At, WorkInv, Coherent, ServerInv, Types, ServerType,
              Meta, KeyInv
        <5>2. Opens(u, f) => meta[f].recipient = u
          BY <5>1 DEF Opens, Held, KeysOf
        <5>. QED
          BY <1>s, <3>3, <4>1, <5>1, <5>2 DEF TakeDownload, Answered
      <4>2. CASE Interrupt(u)
        BY <3>3, <4>2 DEF Interrupt, Answered
      <4>3. CASE ~TakeDownload(u) /\ ~Interrupt(u)
        <5>1. ~Moves(u)
          BY <3>3, <4>3
          DEF Answered, Moves, Starts, Step, At, Admitted, Idle, Register,
              LoginCommand, SendFile, ListFiles, DownloadByIndex,
              DownloadById, DeleteFile, HandleRegister, TakeRegistered, Login,
              LoginFails, Refuse, LookupUser, UserUnknown, HandleUpload,
              TakeUploaded, HandleList, TakeList, HandleDownload,
              HandleDelete, HandleDeleteRow, DeleteRefused, TakeDeleted
        <5>2. pc'[u] = pc[u] /\ work'[u] = work[u] /\ reply'[u] = reply[u]
          BY <5>1, SteadyCommand, Moving DEF Alone, command
        <5>. QED
          BY <3>3, <5>2 DEF Answered, At
      <4>. QED
        BY <4>1, <4>2, <4>3
    <3>. QED
      BY <1>t, <2>1, <3>1, <3>2, <3>3 DEF LossInv
  <2>2. CASE <<None, f>> \notin fetched
    <3>1. PICK u \in Users : HandleDownload(u)
      BY <1>2, <2>2, SteadyServer
      DEF server, mailbox, HandleRegister, HandleUpload, HandleDelete,
          HandleDeleteRow, AutoDelete, AutoDeleteRow, Box!Deposit, Box!Remove,
          Box!Unlist, Box!Confirm
    <3>2. /\ At(u, "request", "download") /\ UNCHANGED work
          /\ Box!Fetch(None, work[u].file) /\ Answer(u, "ok", <<>>)
      BY <1>2, <2>2, <3>1 DEF HandleDownload, Admitted, mailbox
    <3>3. work[u].file = f
      BY <1>2, <2>2, <3>2 DEF Box!Fetch
    <3>4. Answered(u, f)'
      BY <1>t, <3>2, <3>3 DEF Answered, At, Answer, Types, CommandType
    <3>. QED
      BY <3>4
  <2>. QED
    BY <2>1, <2>2
<1>. QED
  BY <1>1, <1>2

-----------------------------------------------------------------------------
(* The invariant, and what follows from it. *)

LEMMA InitInv == Init => IInv
<1> SUFFICES ASSUME Init
             PROVE  IInv
  OBVIOUS
<1>1. Types
  BY TypesInit
<1>2. ServerInv
  BY DEF Init, Box!MailboxInit, ServerInv
<1>3. WorkInv
  BY Nothing DEF Init, WorkInv, Coherent
<1>4. KeyInv
  BY Nothing DEF Init, KeyInv
<1>5. ReadInv
  BY DEF Init, ReadInv
<1>6. ListInv
  BY Nothing, Quiet DEF Init, ListInv, OwnFiles
<1>7. SendReportsTruth
  BY DEF Init, Box!MailboxInit, SendReportsTruth
<1>8. LossInv
  BY DEF Init, Box!MailboxInit, LossInv
<1>. QED
  BY <1>1, <1>2, <1>3, <1>4, <1>5, <1>6, <1>7, <1>8 DEF IInv

LEMMA StutterInv == IInv /\ UNCHANGED vars => IInv'
  BY DEF IInv, Types, ServerType, ConfigType, CommandType, HistoryType,
         ServerInv, WorkInv, Coherent, KeyInv, KeysOf, ReadInv, ReplacedOf,
         ListInv, OwnFiles, SendReportsTruth, At, LossInv, Answered, vars,
         server, mailbox, config, command, history

LEMMA Invariance == Spec => []IInv
<1>1. IInv /\ [Next]_vars => IInv'
  <2>1. ASSUME IInv, Next
        PROVE  IInv'
    <3>1. Types'
      BY <2>1, ServerTypeStep, ConfigTypeStep, CommandTypeStep,
         HistoryTypeStep
      DEF IInv, Types
    <3>. QED
      BY <2>1, <3>1, ServerInvStep, WorkInvStep, KeyInvStep, ReadInvStep,
         ListInvStep, SendReportsTruthStep, LossInvStep
      DEF IInv
  <2>. QED
    BY <2>1, StutterInv
<1>. QED
  BY InitInv, <1>1, PTL DEF Spec

(* Every reachable state is well typed, and no request of a command that   *)
(* needs a session leaves without a token.                                 *)
THEOREM TypeCorrect == Spec => []TypeOK
<1>1. IInv => TypeOK
  BY DEF IInv, Types, ServerType, ConfigType, CommandType, HistoryType,
         ServerInv, WorkInv, Coherent, Stages, Replies, TypeOK
<1>. QED
  BY Invariance, <1>1, PTL

(* Whoever decrypts a file is its recipient, although the server hands it  *)
(* to any user: the public key that sealed it is one of the recipient's,   *)
(* whichever way the sender came by it.                                    *)
THEOREM Confidential == Spec => []OnlyAddresseeReads
<1>1. IInv => OnlyAddresseeReads
  BY DEF IInv, ReadInv, OnlyAddresseeReads
<1>. QED
  BY Invariance, <1>1, PTL

(* A recipient cannot decrypt a file of his only if it was sealed for a    *)
(* pair that he has replaced since, whether it was sent before or after.   *)
THEOREM Readable == Spec => []ReadableUnlessRekeyed
<1>1. IInv => ReadableUnlessRekeyed
  BY DEF IInv, ReadInv, ReplacedOf, ReadableUnlessRekeyed
<1>. QED
  BY Invariance, <1>1, PTL

(* The sender is told the truth, or nothing because the response was lost. *)
THEOREM TruthTold == Spec => []SendReportsTruth
<1>1. IInv => SendReportsTruth
  BY DEF IInv
<1>. QED
  BY Invariance, <1>1, PTL

(* Of the files reported as sent only those that a party deletes, or an    *)
(* auto-delete file that its download has not saved, are neither on the    *)
(* server nor read by their recipient.                                     *)
THEOREM Retention == Spec => []NothingLost
<1>1. IInv => NothingLost
  <2> SUFFICES ASSUME IInv, NEW f \in told
               PROVE  \/ state[f] = "stored" /\ f \in rows
                      \/ <<meta[f].recipient, f>> \in read
                      \/ f \in asked
                      \/ /\ meta[f].auto
                         /\ \/ f \in wasted
                            \/ \E u \in Users :
                                 At(u, "answer", "download") /\ work[u].file = f
    BY DEF NothingLost
  <2>1. f \in Files /\ f \in acked
    BY DEF IInv, Types, HistoryType, SendReportsTruth
  <2>2. state[f] = "stored" \/ state[f] = "gone"
    BY <2>1 DEF IInv, Types, ServerType, ServerInv
  <2>3. CASE state[f] = "stored"
    BY <2>1, <2>3 DEF IInv, ServerInv
  <2>4. CASE state[f] = "gone"
    BY <2>1, <2>4 DEF IInv, LossInv, Answered
  <2>. QED
    BY <2>2, <2>3, <2>4
<1>. QED
  BY Invariance, <1>1, PTL
=============================================================================
