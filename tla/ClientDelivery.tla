--------------------------- MODULE ClientDelivery ---------------------------
(***************************************************************************)
(* A file's way from one user to another: send-file encrypts it for the    *)
(* recipient's exchange key and uploads it, list-files and download-file   *)
(* fetch and decrypt it (internal/client/send_cmd.go, list_cmd.go,         *)
(* download_cmd.go, delete_cmd.go, auth.go, user_cmd.go, register_cmd.go,  *)
(* internal/crypto/crypto.go).                                             *)
(*                                                                         *)
(* The file store is the module Mailbox, which FileService implements, and *)
(* a login or a registration is one step of the server here (AuthService   *)
(* has their steps).  Every user has a config file of his own and runs one *)
(* command at a time (ClientConfig has what overlapping commands do to a   *)
(* shared file, and what is printed when); he gives add-user and           *)
(* remove-user other users' names and true public keys only.               *)
(***************************************************************************)
EXTENDS FiniteSets, Naturals, Sequences

CONSTANTS
  Users,      \* user names, each with a config file
  Senders,    \* those who run send-file, add-user and remove-user
  Recipients, \* those who run list-files and download by its numbers
  Rekeying,   \* those who run config init more than once
  Files,      \* the UUIDs the server may draw
  MaxKeys,    \* bound on the key pairs a user draws
  MaxFaults,  \* bound on lost messages, killed commands, failed saves and
              \* expired sessions
  None        \* no key, no metadata, no file, no user

ASSUME RolesAssumption ==
  Senders \cup Recipients \cup Rekeying \subseteq Users
ASSUME FilesAssumption == IsFiniteSet(Files)
ASSUME BoundsAssumption == MaxKeys \in Nat \ {0} /\ MaxFaults \in Nat

(* <<u, n>> is the n-th pair of identity and exchange keys of user u.      *)
Keys == Users \X (1..MaxKeys)

(* A row of table files; seal is the key that the content is sealed with.  *)
Meta == [sender : Users, recipient : Users, auto : BOOLEAN, seal : Keys]

(* What a running command works on. *)
Work == [op : {"none", "register", "login", "send", "list", "download",
               "delete"},
         to : Users \cup {None}, auto : BOOLEAN, seal : Keys \cup {None},
         file : Files \cup {None}]

ASSUME NoneAssumption == None \notin Users \cup Files \cup Keys \cup Meta

VARIABLES
  state, acked, fetched, confirmed,   \* the mailbox; None is every request
  rows,       \* ids in table files: what the mailbox lists
  users,      \* users[u]: the keys in row u of table users
  meta,       \* meta[f]: the metadata of f, kept when its row is gone
  key,        \* key[u]: number of the pair in the config of u, 0 for none
  book,       \* book[u][v]: the key of v in the address book of u
  token,      \* token[u]: session token in the config of u
  index,      \* index[u]: LastListedFiles in the config of u
  pc,         \* pc[u]: where the command that u runs is
  work,       \* work[u]: that command
  reply,      \* reply[u]: the response to its request
  faults,     \* number of faults so far
  told,       \* history: files whose sender has read "sent successfully"
  unanswered, \* history: files whose sender did not see the response
  read,       \* history: <<u, f>> if u has decrypted and saved f
  wasted,     \* history: files handed to a command that did not save them
  unreadable, \* history: those of them the recipient could not decrypt
  asked       \* history: files that a party has asked to be deleted

mailbox == <<state, rows, acked, fetched, confirmed>>
server == <<mailbox, users, meta>>
config == <<key, book, token, index>>
command == <<pc, work, reply>>
history == <<told, unanswered, read, wasted, unreadable, asked>>
vars == <<server, config, command, faults, history>>

Box == INSTANCE Mailbox WITH Requests <- {None}, listed <- rows

NoWork == [op |-> "none", to |-> None, auto |-> FALSE, seal |-> None,
           file |-> None]

Silence == [status |-> "none", files |-> <<>>]

(* Every variable has the shape the actions rely on; in particular no      *)
(* request leaves without a session token.                                 *)
TypeOK ==
  /\ state \in [Files -> {"unsent", "stored", "gone"}]
  /\ acked \subseteq Files /\ confirmed \subseteq Files
  /\ fetched \subseteq {None} \X Files
  /\ users \in [Users -> Keys \cup {None}]
  /\ rows \subseteq Files
  /\ meta \in [Files -> Meta \cup {None}]
  /\ key \in [Users -> 0..MaxKeys]
  /\ book \in [Users -> [Users -> Keys \cup {None}]]
  /\ token \in [Users -> {"none", "live", "expired"}]
  /\ index \in [Users -> Seq(Files)]
  /\ pc \in [Users -> {"idle", "lookup", "login", "request", "confirm",
                       "answer"}]
  /\ work \in [Users -> Work]
  /\ reply \in [Users -> [status : {"none", "ok", "error"},
                          files : Seq(Files)]]
  /\ faults \in 0..MaxFaults
  /\ told \subseteq Files /\ unanswered \subseteq Files
  /\ read \subseteq Users \X Files
  /\ wasted \subseteq Files /\ unreadable \subseteq Files
  /\ asked \subseteq Files
  /\ \A u \in Users :
       /\ pc[u] = "request" => work[u].op = "register" \/ token[u] # "none"
       /\ pc[u] = "request" /\ work[u].op = "send" => work[u].seal # None
  /\ \A f \in Files : state[f] # "unsent" => meta[f] # None
  /\ \A f \in rows : state[f] # "unsent"

Init ==
  /\ Box!MailboxInit
  /\ users = [u \in Users |-> None]
  /\ meta = [f \in Files |-> None]
  /\ key = [u \in Users |-> 0]
  /\ book = [u \in Users |-> [v \in Users |-> None]]
  /\ token = [u \in Users |-> "none"]
  /\ index = [u \in Users |-> <<>>]
  /\ pc = [u \in Users |-> "idle"]
  /\ work = [u \in Users |-> NoWork]
  /\ reply = [u \in Users |-> Silence]
  /\ faults = 0
  /\ told = {} /\ unanswered = {} /\ asked = {}
  /\ read = {} /\ wasted = {} /\ unreadable = {}

(* A new command may start: config init has named the current user. *)
Idle(u) == pc[u] = "idle" /\ key[u] > 0

At(u, stage, op) == pc[u] = stage /\ work[u].op = op

Enter(u, stage, w) ==
  /\ pc' = [pc EXCEPT ![u] = stage]
  /\ work' = [work EXCEPT ![u] = w]

(* A stored token is used whatever its age; without one the command logs   *)
(* in first.                                                               *)
GetAuthHeader(u, w) ==
  Enter(u, IF token[u] = "none" THEN "login" ELSE "request", w)

(* The server answers; the command returns. *)
Answer(u, status, files) ==
  /\ pc' = [pc EXCEPT ![u] = "answer"]
  /\ reply' = [reply EXCEPT ![u] = [status |-> status, files |-> files]]

Return(u) ==
  /\ Enter(u, "idle", NoWork)
  /\ reply' = [reply EXCEPT ![u] = Silence]

Fault == faults < MaxFaults /\ faults' = faults + 1

(* The private keys that u holds.  The content that Encrypt has sealed for *)
(* a public key opens with the private key that belongs to it, no other.   *)
Held(u) == <<u, key[u]>>
Opens(u, f) == meta[f].seal = Held(u)

(* The files of recipient u in any order: ServerSetup has the order.       *)
FilesFor(u) ==
  LET S == {f \in rows : meta[f].recipient = u}
  IN  {list \in [1..Cardinality(S) -> S] :
         \A f \in S : \E i \in DOMAIN list : list[i] = f}

-----------------------------------------------------------------------------
(* Faulty variants of single definitions, which no specification uses;     *)
(* each breaks one property, to show that the property can fail.           *)

(* The new token is not stored. *)
TokenForgotten(u) ==
  /\ pc[u] = "login" /\ users[u] = Held(u)
  /\ Enter(u, "request", work[u])
  /\ UNCHANGED <<server, config, reply, faults, history>>

(* The content is sealed with the sender's own public key. *)
SealedForSender(u, v, auto) ==
  /\ Idle(u) /\ u \in Senders
  /\ GetAuthHeader(u, [NoWork EXCEPT !.op = "send", !.to = v, !.auto = auto,
                                     !.seal = Held(u)])
  /\ UNCHANGED <<server, config, reply, faults, history>>

(* SELECT ... FROM users LIMIT 1, without its WHERE. *)
AnyUserFound(u) ==
  /\ pc[u] = "lookup"
  /\ \E v \in Users :
       /\ users[v] # None
       /\ book' = [book EXCEPT ![u][work[u].to] = users[v]]
       /\ GetAuthHeader(u, [work[u] EXCEPT !.seal = users[v]])
  /\ UNCHANGED <<server, key, token, index, reply, faults, history>>

(* SELECT ... WHERE sender = ?, by one who has sent nothing. *)
SentFilesListed(u) ==
  /\ At(u, "request", "list") /\ token[u] = "live"
  /\ \A f \in rows : meta[f].sender # u
  /\ Answer(u, "ok", <<>>)
  /\ UNCHANGED <<server, config, work, faults, history>>

(* Every download is followed by a deletion. *)
FlagIgnored(f) ==
  /\ <<None, f>> \in fetched
  /\ Box!Remove(f)
  /\ UNCHANGED <<users, meta, config, command, faults, history>>

(* Only 200 counts as success, and UploadFile answers 201. *)
CreatedIsAnError(u) ==
  /\ At(u, "answer", "send")
  /\ Return(u)
  /\ UNCHANGED <<server, config, faults, history>>

-----------------------------------------------------------------------------
(* Commands on the config file alone. *)

(* config init draws new keys and replaces those of the user; the session  *)
(* token and what others know of the user stay.                            *)
ConfigInit(u) ==
  /\ pc[u] = "idle" /\ key[u] < (IF u \in Rekeying THEN MaxKeys ELSE 1)
  /\ key' = [key EXCEPT ![u] = @ + 1]
  /\ book' = [book EXCEPT ![u][u] = <<u, key[u] + 1>>]
  /\ UNCHANGED <<server, token, index, command, faults, history>>

(* add-user enters the public key that v has now and hands over. *)
AddUser(u, v) ==
  /\ Idle(u) /\ u \in Senders /\ u # v /\ key[v] > 0
  /\ book' = [book EXCEPT ![u][v] = Held(v)]
  /\ UNCHANGED <<server, key, token, index, command, faults, history>>

RemoveUser(u, v) ==
  /\ Idle(u) /\ u \in Senders /\ u # v /\ book[u][v] # None
  /\ book' = [book EXCEPT ![u][v] = None]
  /\ UNCHANGED <<server, key, token, index, command, faults, history>>

-----------------------------------------------------------------------------
(* register and login. *)

Register(u) ==
  /\ Idle(u) /\ book[u][u] # None
  /\ Enter(u, "request", [NoWork EXCEPT !.op = "register",
                                        !.seal = book[u][u]])
  /\ UNCHANGED <<server, config, reply, faults, history>>

(* CreateUser only inserts: a name that is taken is answered 500. *)
HandleRegister(u) ==
  /\ At(u, "request", "register")
  /\ \/ /\ users[u] = None
        /\ users' = [users EXCEPT ![u] = work[u].seal]
        /\ Answer(u, "ok", <<>>)
     \/ /\ users[u] # None
        /\ Answer(u, "error", <<>>)
        /\ UNCHANGED users
  /\ UNCHANGED <<mailbox, meta, config, work, faults, history>>

(* A successful registration logs in. *)
TakeRegistered(u) ==
  /\ At(u, "answer", "register")
  /\ \/ reply[u].status = "error" /\ Return(u)
     \/ /\ reply[u].status = "ok"
        /\ Enter(u, "login", [NoWork EXCEPT !.op = "login"])
        /\ reply' = [reply EXCEPT ![u] = Silence]
  /\ UNCHANGED <<server, config, faults, history>>

(* With a valid token it would change nothing here. *)
LoginCommand(u) ==
  /\ Idle(u) /\ token[u] # "live"
  /\ Enter(u, "login", [NoWork EXCEPT !.op = "login"])
  /\ UNCHANGED <<server, config, reply, faults, history>>

(* The server knows the public key of the identity key that signs; the new *)
(* token is saved, and a command that needed it goes on.                   *)
Login(u) ==
  /\ pc[u] = "login" /\ users[u] = Held(u)
  /\ token' = [token EXCEPT ![u] = "live"]
  /\ IF work[u].op = "login" THEN Enter(u, "idle", NoWork)
                             ELSE Enter(u, "request", work[u])
  /\ UNCHANGED <<server, key, book, index, reply, faults, history>>

LoginFails(u) ==
  /\ pc[u] = "login" /\ users[u] # Held(u)
  /\ Enter(u, "idle", NoWork)
  /\ UNCHANGED <<server, config, reply, faults, history>>

(* AuthMiddleware accepts the token, or answers 401; the client keeps it.  *)
Admitted(u, op) == At(u, "request", op) /\ token[u] = "live"

Refuse(u) ==
  /\ pc[u] = "request" /\ work[u].op # "register" /\ token[u] = "expired"
  /\ Answer(u, "error", <<>>)
  /\ UNCHANGED <<server, config, work, faults, history>>

-----------------------------------------------------------------------------
(* send-file. *)

(* The key comes from the address book, if the recipient is there. *)
SendFile(u, v, auto) ==
  LET w == [NoWork EXCEPT !.op = "send", !.to = v, !.auto = auto,
                          !.seal = book[u][v]]
  IN  /\ Idle(u) /\ u \in Senders /\ \E f \in Files : state[f] = "unsent"
      /\ IF book[u][v] # None THEN GetAuthHeader(u, w) ELSE Enter(u, "lookup", w)
      /\ UNCHANGED <<server, config, reply, faults, history>>

(* GET /users?username=...: the answer is entered in the address book; if  *)
(* that cannot be saved, the file is sent all the same.                    *)
LookupUser(u) ==
  LET v == work[u].to
  IN  /\ pc[u] = "lookup" /\ users[v] # None
      /\ \/ book' = [book EXCEPT ![u][v] = users[v]] /\ UNCHANGED faults
         \/ Fault /\ UNCHANGED book
      /\ GetAuthHeader(u, [work[u] EXCEPT !.seal = users[v]])
      /\ UNCHANGED <<server, key, token, index, reply, history>>

UserUnknown(u) ==
  /\ pc[u] = "lookup" /\ users[work[u].to] = None
  /\ Enter(u, "idle", NoWork)
  /\ UNCHANGED <<server, config, reply, faults, history>>

(* Content and row are stored; nothing checks that the recipient exists.   *)
HandleUpload(u) ==
  /\ Admitted(u, "send")
  /\ \E f \in Files :
       /\ Box!Deposit(f)
       /\ meta' = [meta EXCEPT ![f] =
            [sender |-> u, recipient |-> work[u].to, auto |-> work[u].auto,
             seal |-> work[u].seal]]
       /\ work' = [work EXCEPT ![u].file = f]
  /\ Answer(u, "ok", <<>>)
  /\ UNCHANGED <<users, config, faults, history>>

TakeUploaded(u) ==
  /\ At(u, "answer", "send")
  /\ told' = IF reply[u].status = "ok" THEN told \cup {work[u].file} ELSE told
  /\ Return(u)
  /\ UNCHANGED <<server, config, faults, unanswered, read, wasted,
                 unreadable, asked>>

-----------------------------------------------------------------------------
(* list-files. *)

ListFiles(u) ==
  /\ Idle(u) /\ u \in Recipients
  /\ GetAuthHeader(u, [NoWork EXCEPT !.op = "list"])
  /\ UNCHANGED <<server, config, reply, faults, history>>

HandleList(u) ==
  /\ Admitted(u, "list")
  /\ \E list \in FilesFor(u) : Answer(u, "ok", list)
  /\ UNCHANGED <<server, config, work, faults, history>>

(* The list replaces the cache unless that cannot be saved, which is only  *)
(* a warning.                                                              *)
TakeList(u) ==
  /\ At(u, "answer", "list")
  /\ \/ /\ reply[u].status = "error"
        /\ UNCHANGED <<index, faults>>
     \/ /\ reply[u].status = "ok"
        /\ \/ index' = [index EXCEPT ![u] = reply[u].files] /\ UNCHANGED faults
           \/ Fault /\ UNCHANGED index
  /\ Return(u)
  /\ UNCHANGED <<server, key, book, token, history>>

-----------------------------------------------------------------------------
(* download-file. *)

(* By its number in the list that was saved last. *)
DownloadByIndex(u, i) ==
  /\ Idle(u) /\ i \in DOMAIN index[u]
  /\ GetAuthHeader(u, [NoWork EXCEPT !.op = "download", !.file = index[u][i]])
  /\ UNCHANGED <<server, config, reply, faults, history>>

(* By an id, which anybody may have passed on. *)
DownloadById(u, f) ==
  /\ Idle(u) /\ u \notin Recipients /\ state[f] # "unsent"
  /\ GetAuthHeader(u, [NoWork EXCEPT !.op = "download", !.file = f])
  /\ UNCHANGED <<server, config, reply, faults, history>>

(* Any user is served; without row or content the answer is an error.      *)
HandleDownload(u) ==
  LET f == work[u].file
  IN  /\ Admitted(u, "download")
      /\ \/ f \in rows /\ Box!Fetch(None, f) /\ Answer(u, "ok", <<>>)
         \/ /\ ~(f \in rows /\ state[f] = "stored")
            /\ Answer(u, "error", <<>>)
            /\ UNCHANGED mailbox
      /\ UNCHANGED <<users, meta, config, work, faults, history>>

(* The deletion at the end of the handler of an auto-delete file: content  *)
(* and then row, each of which may fail or never be reached.               *)
AutoDelete(f) ==
  /\ <<None, f>> \in fetched
  /\ meta[f].auto
  /\ Box!Remove(f)
  /\ UNCHANGED <<users, meta, config, command, faults, history>>

AutoDeleteRow(f) ==
  /\ f \in rows /\ meta[f].auto
  /\ Box!Unlist(f)
  /\ UNCHANGED <<users, meta, config, command, faults, history>>

(* Decrypt succeeds with the private key that belongs to the seal. *)
TakeDownload(u) ==
  LET f == work[u].file
  IN  /\ At(u, "answer", "download")
      /\ \/ /\ reply[u].status = "error"
            /\ UNCHANGED <<read, wasted, unreadable>>
         \/ /\ reply[u].status = "ok" /\ Opens(u, f)
            /\ read' = read \cup {<<u, f>>}
            /\ UNCHANGED <<wasted, unreadable>>
         \/ /\ reply[u].status = "ok" /\ ~Opens(u, f)
            /\ wasted' = wasted \cup {f}
            /\ unreadable' = IF meta[f].recipient = u THEN unreadable \cup {f}
                                                     ELSE unreadable
            /\ UNCHANGED read
      /\ Return(u)
      /\ UNCHANGED <<server, config, faults, told, unanswered, asked>>

-----------------------------------------------------------------------------
(* delete-file. *)

DeleteFile(u, f) ==
  /\ Idle(u) /\ state[f] # "unsent"
  /\ GetAuthHeader(u, [NoWork EXCEPT !.op = "delete", !.file = f])
  /\ UNCHANGED <<server, config, reply, faults, history>>

MayDelete(u, f) == f \in rows /\ u \in {meta[f].sender, meta[f].recipient}

(* The content goes first, unless an interrupted deletion has removed it.  *)
HandleDelete(u) ==
  LET f == work[u].file
  IN  /\ Admitted(u, "delete") /\ MayDelete(u, f)
      /\ \/ Box!Remove(f)
         \/ state[f] = "gone" /\ UNCHANGED mailbox
      /\ asked' = asked \cup {f}
      /\ Enter(u, "confirm", work[u])
      /\ UNCHANGED <<users, meta, config, reply, faults, told, unanswered,
                     read, wasted, unreadable>>

(* Then the row. *)
HandleDeleteRow(u) ==
  /\ pc[u] = "confirm"
  /\ Box!Confirm(work[u].file)
  /\ Answer(u, "ok", <<>>)
  /\ UNCHANGED <<users, meta, config, work, faults, history>>

DeleteRefused(u) ==
  /\ Admitted(u, "delete") /\ ~MayDelete(u, work[u].file)
  /\ Answer(u, "error", <<>>)
  /\ UNCHANGED <<server, config, work, faults, history>>

TakeDeleted(u) ==
  /\ At(u, "answer", "delete")
  /\ Return(u)
  /\ UNCHANGED <<server, config, faults, history>>

-----------------------------------------------------------------------------
(* Faults. *)

(* The 24 hours of a session are over. *)
Expire(u) ==
  /\ token[u] = "live" /\ Fault
  /\ token' = [token EXCEPT ![u] = "expired"]
  /\ UNCHANGED <<server, key, book, index, command, history>>

(* The command is killed, a message is lost, the server crashes between    *)
(* two steps of a deletion, or the downloaded file cannot be written.      *)
Interrupt(u) ==
  LET f == work[u].file
      answered(op) == At(u, "answer", op) /\ reply[u].status = "ok"
  IN  /\ pc[u] # "idle" /\ Fault
      /\ unanswered' = IF answered("send") THEN unanswered \cup {f}
                                           ELSE unanswered
      /\ wasted' = IF answered("download") THEN wasted \cup {f}
                                           ELSE wasted
      /\ Return(u)
      /\ UNCHANGED <<server, config, told, read, unreadable, asked>>

-----------------------------------------------------------------------------
(* What a command that runs, and the server for it, do next. *)
Step(u) ==
  \/ HandleRegister(u) \/ TakeRegistered(u)
  \/ Login(u) \/ LoginFails(u) \/ Refuse(u)
  \/ LookupUser(u) \/ UserUnknown(u) \/ HandleUpload(u) \/ TakeUploaded(u)
  \/ HandleList(u) \/ TakeList(u)
  \/ HandleDownload(u) \/ TakeDownload(u)
  \/ HandleDelete(u) \/ HandleDeleteRow(u) \/ DeleteRefused(u) \/ TakeDeleted(u)

Command(u) ==
  \/ ConfigInit(u)
  \/ \E v \in Users : AddUser(u, v) \/ RemoveUser(u, v)
  \/ Register(u)
  \/ LoginCommand(u)
  \/ \E v \in Recipients, auto \in BOOLEAN : SendFile(u, v, auto)
  \/ ListFiles(u)
  \/ \E i \in DOMAIN index[u] : DownloadByIndex(u, i)
  \/ \E f \in Files : DownloadById(u, f) \/ DeleteFile(u, f)

Next ==
  \/ \E u \in Users : Command(u) \/ Step(u) \/ Expire(u) \/ Interrupt(u)
  \/ \E f \in Files : AutoDelete(f) \/ AutoDeleteRow(f)

Spec == Init /\ [][Next]_vars

(* A running command and its requests get on.  A recipient goes on working *)
(* with the client: if he may again and again, he registers, logs in again *)
(* when a token has expired, lists his files and downloads what is listed. *)
(* Nothing is assumed of senders, of deletions and of config init.         *)
FairSpec ==
  /\ Spec
  /\ \A u \in Users : WF_vars(Step(u))
  /\ \A u \in Recipients :
       /\ SF_vars(Register(u) /\ users[u] = None)
       /\ SF_vars(LoginCommand(u) /\ token[u] = "expired")
       /\ SF_vars(ListFiles(u))
       /\ \A i \in 1..Cardinality(Files) : SF_vars(DownloadByIndex(u, i))

-----------------------------------------------------------------------------
(* Decryption is by the recipient: the server hands a file to any user who *)
(* names its id, and only the seal keeps the others from reading it.       *)
OnlyAddresseeReads ==
  \A u \in Users, f \in Files : <<u, f>> \in read => u = meta[f].recipient

(* What a recipient cannot decrypt was sealed for a pair of his own that   *)
(* he had before the one he has: wherever the sender found the key, it is  *)
(* one the recipient has drawn.  Such files are those sent before he drew  *)
(* new keys, and those sent afterwards with the old key, which address     *)
(* books keep until somebody changes them and the server for ever.         *)
ReadableUnlessRekeyed ==
  \A f \in unreadable :
    LET v == meta[f].recipient
    IN  meta[f].seal \in {<<v, n>> : n \in 1..(key[v] - 1)}

(* Success is reported of stored files only, and a file is stored without  *)
(* its sender being told only if the response to send-file was lost.       *)
SendReportsTruth ==
  /\ told \subseteq acked
  /\ acked \subseteq told \cup unanswered \cup
       {work[u].file : u \in {v \in Users : At(v, "answer", "send")}}

(* A file of which success was reported is still offered to its recipient, *)
(* or was read by him, or deleted by a party; only one with auto-delete    *)
(* may be lost otherwise, by a download that did not save it.              *)
NothingLost ==
  \A f \in told :
    \/ state[f] = "stored" /\ f \in rows
    \/ <<meta[f].recipient, f>> \in read
    \/ f \in asked
    \/ /\ meta[f].auto
       /\ \/ f \in wasted
          \/ \E u \in Users : At(u, "answer", "download") /\ work[u].file = f

(* Store and forward: a file of which success was reported gets to its     *)
(* recipient, unless it is deleted or he has drawn new keys; an expired    *)
(* token or a lost answer only delays it.                                  *)
StoreAndForward ==
  \A f \in Files, v \in Recipients :
    f \in told /\ meta[f].recipient = v
      ~> <<v, f>> \in read \/ state[f] = "gone" \/ key[v] > 1
=============================================================================
