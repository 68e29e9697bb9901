---------------------------- MODULE FileService ----------------------------
(***************************************************************************)
(* The life of a file on the server: UploadFile, DownloadFile and          *)
(* DeleteFile (internal/server/handler.go, handler_delete.go) with the     *)
(* storage calls they make (storage.go, blob_store.go, s3_store.go).       *)
(*                                                                         *)
(* net/http runs every request in a goroutine of its own and Storage has   *)
(* no lock and no transaction, so the atomic steps are the single database *)
(* statements and the single blob store calls; every other request, a      *)
(* disconnecting client or a crash of the server may come between two of   *)
(* them.  A member of Requests is one HTTP request, used once, that        *)
(* AuthMiddleware has let through as some user.                            *)
(***************************************************************************)
CONSTANTS
  Users,         \* user names, as AuthMiddleware puts them in the context
  Requests,      \* HTTP requests
  Files,         \* the UUIDs the server may draw
  StorageType,   \* "local" or "s3", the variable STORAGE_TYPE
  Faults,        \* which of "db" and "blob" may fail without being asked to
  None           \* no user, no file, no row

Meta == [sender : Users, recipient : Users, autoDelete : BOOLEAN]

ASSUME StorageTypeAssumption == StorageType \in {"local", "s3"}
ASSUME FaultsAssumption == Faults \subseteq {"db", "blob"}
ASSUME NoneAssumption == None \notin Users \cup Files \cup Meta

VARIABLES
  blob,      \* blob[f]: the object f of the blob store
  row,       \* row[f]: the row f of table files, or None
  pc,        \* pc[r]: where the handler of r is
  op,        \* op[r]: which handler serves r
  user,      \* user[r]: the authenticated user of r
  file,      \* file[r]: the id drawn for an upload, or the id asked for
  meta,      \* meta[r]: the metadata sent with, or read by, r
  content,   \* content[r]: what a download has read from the blob store
  status,    \* status[r]: the response written so far
  conn,      \* conn[r]: the client's end of the connection
  received,  \* received[r]: the client has the whole response
  doomed     \* history: files Storage.DeleteFile has been called for

stores == <<blob, row>>
request == <<op, user, file>>
client == <<conn, received>>
vars == <<blob, row, pc, op, user, file, meta, content, status, conn,
          received, doomed>>

Blobs == {"absent", "partial", "whole"}
Stages == {"idle", "save", "saving", "insert", "lookup", "read", "encode",
           "unblob", "unrow", "done", "dead"}
Statuses == {"pending", "created", "ok", "not_found", "forbidden", "error"}

(* Every variable has the shape the actions rely on: a handler past its    *)
(* lookup has metadata to work with, a busy one has a user and a file.     *)
TypeOK ==
  /\ blob \in [Files -> Blobs]
  /\ row \in [Files -> Meta \cup {None}]
  /\ pc \in [Requests -> Stages]
  /\ op \in [Requests -> {"none", "upload", "download", "delete"}]
  /\ user \in [Requests -> Users \cup {None}]
  /\ file \in [Requests -> Files \cup {None}]
  /\ meta \in [Requests -> Meta \cup {None}]
  /\ content \in [Requests -> {"none", "partial", "whole"}]
  /\ status \in [Requests -> Statuses]
  /\ conn \in [Requests -> {"open", "closed"}]
  /\ received \in [Requests -> BOOLEAN]
  /\ doomed \subseteq Files
  /\ \A r \in Requests :
       /\ pc[r] # "idle" =>
            op[r] # "none" /\ user[r] # None /\ file[r] # None
       /\ pc[r] \in {"save", "saving", "insert", "read", "encode", "unblob",
                    "unrow"} => meta[r] # None

Init ==
  /\ blob = [f \in Files |-> "absent"]
  /\ row = [f \in Files |-> None]
  /\ pc = [r \in Requests |-> "idle"]
  /\ op = [r \in Requests |-> "none"]
  /\ user = [r \in Requests |-> None]
  /\ file = [r \in Requests |-> None]
  /\ meta = [r \in Requests |-> None]
  /\ content = [r \in Requests |-> "none"]
  /\ status = [r \in Requests |-> "pending"]
  /\ conn = [r \in Requests |-> "open"]
  /\ received = [r \in Requests |-> FALSE]
  /\ doomed = {}

InFlight(r) == pc[r] \notin {"idle", "done", "dead"}

(* Ids already drawn by uuid.New; a new one differs from all of them. *)
Issued == {file[r] : r \in {q \in Requests : op[q] = "upload"}}

(* Every query takes r.Context(), which net/http cancels once it notices   *)
(* that the client has gone; the call then fails without effect.  It may   *)
(* also run before that is noticed.  Blob store calls take no context.     *)
DBMayFail(r) == conn[r] = "closed" \/ "db" \in Faults
BlobMayFail == "blob" \in Faults

Goto(r, stage) == pc' = [pc EXCEPT ![r] = stage]
Reply(r, s) == status' = [status EXCEPT ![r] = s]
Finish(r, s) == Goto(r, "done") /\ Reply(r, s)

IsParty(u, m) == u = m.sender \/ u = m.recipient

(* The response to a DELETE tells the outcome; a download's is written. *)
DeleteOutcome(r, s) ==
  IF op[r] = "delete" THEN Finish(r, s) ELSE Goto(r, "done") /\ UNCHANGED status

-----------------------------------------------------------------------------
(* Faulty variants of single actions below, which no specification uses;   *)
(* each breaks one property, to show that the property can fail.           *)

(* SaveFile inserts the row before it stores the content. *)
RowBeforeBlob(r) ==
  /\ pc[r] = "save"
  /\ row' = [row EXCEPT ![file[r]] = meta[r]]
  /\ blob' = [blob EXCEPT ![file[r]] = "partial"]
  /\ Goto(r, "saving")
  /\ UNCHANGED <<request, meta, content, status, client, doomed>>

(* SaveFile drops the error of BlobStore.Save. *)
BlobSaveErrorDropped(r) ==
  /\ pc[r] \in {"save", "saving"}
  /\ BlobMayFail
  /\ Goto(r, "insert")
  /\ UNCHANGED <<stores, request, meta, content, status, client, doomed>>

(* DownloadFile ignores the ok result of GetFileMetadata. *)
LookupUnchecked(r) ==
  /\ pc[r] = "lookup" /\ op[r] = "download"
  /\ meta' = [meta EXCEPT ![r] = row[file[r]]]
  /\ Goto(r, "read")
  /\ UNCHANGED <<stores, request, content, status, client, doomed>>

(* DeleteFile skips the check that the user is sender or recipient. *)
LookupWithoutCheck(r) ==
  /\ pc[r] = "lookup" /\ op[r] = "delete"
  /\ row[file[r]] # None
  /\ meta' = [meta EXCEPT ![r] = row[file[r]]]
  /\ Goto(r, "unblob")
  /\ UNCHANGED <<stores, request, content, status, client, doomed>>

(* Storage.DeleteFile drops the error of BlobStore.Delete. *)
BlobDeleteErrorDropped(r) ==
  /\ pc[r] = "unblob"
  /\ BlobMayFail
  /\ doomed' = doomed \cup {file[r]}
  /\ Goto(r, "unrow")
  /\ UNCHANGED <<stores, request, meta, content, status, client>>

(* LocalBlobStore.Delete reports a missing file as an error. *)
MissingBlobIsAnError(r) ==
  /\ pc[r] = "unblob"
  /\ doomed' = doomed \cup {file[r]}
  /\ IF blob[file[r]] = "absent"
     THEN DeleteOutcome(r, "error") /\ UNCHANGED blob
     ELSE /\ blob' = [blob EXCEPT ![file[r]] = "absent"]
          /\ Goto(r, "unrow") /\ UNCHANGED status
  /\ UNCHANGED <<row, request, meta, content, client>>

(* DeleteFile drops the error of the DELETE statement and answers 200. *)
RowDeleteErrorDropped(r) ==
  /\ pc[r] = "unrow"
  /\ DBMayFail(r)
  /\ DeleteOutcome(r, "ok")
  /\ UNCHANGED <<stores, request, meta, content, client, doomed>>

-----------------------------------------------------------------------------
(* UploadFile and Storage.SaveFile: content first, metadata second.        *)

(* The request is decoded and validated, and given a fresh id. *)
UploadFile(r, u, m, f) ==
  /\ pc[r] = "idle"
  /\ f \notin Issued
  /\ op' = [op EXCEPT ![r] = "upload"]
  /\ user' = [user EXCEPT ![r] = u]
  /\ file' = [file EXCEPT ![r] = f]
  /\ meta' = [meta EXCEPT ![r] = m]
  /\ Goto(r, "save")
  /\ UNCHANGED <<stores, content, status, client, doomed>>

(* os.WriteFile creates the file, then fills it; PutObject shows nothing   *)
(* until it completes.                                                     *)
BlobSaveBegin(r) ==
  /\ pc[r] = "save"
  /\ blob' = IF StorageType = "local"
             THEN [blob EXCEPT ![file[r]] = "partial"] ELSE blob
  /\ Goto(r, "saving")
  /\ UNCHANGED <<row, request, meta, content, status, client, doomed>>

BlobSaveEnd(r) ==
  /\ pc[r] = "saving"
  /\ blob' = [blob EXCEPT ![file[r]] = "whole"]
  /\ Goto(r, "insert")
  /\ UNCHANGED <<row, request, meta, content, status, client, doomed>>

(* A failed write leaves what was written; a failed PutObject may have     *)
(* reached the bucket.  SaveFile returns and no row is inserted.           *)
BlobSaveFails(r) ==
  /\ pc[r] \in {"save", "saving"}
  /\ BlobMayFail
  /\ \/ UNCHANGED blob
     \/ /\ pc[r] = "saving" /\ StorageType = "s3"
        /\ blob' = [blob EXCEPT ![file[r]] = "whole"]
  /\ Finish(r, "error")
  /\ UNCHANGED <<row, request, meta, content, client, doomed>>

CreateFile(r) ==
  /\ pc[r] = "insert"
  /\ row' = [row EXCEPT ![file[r]] = meta[r]]
  /\ Finish(r, "created")
  /\ UNCHANGED <<blob, request, meta, content, client, doomed>>

CreateFileFails(r) ==
  /\ pc[r] = "insert"
  /\ DBMayFail(r)
  /\ Finish(r, "error")
  /\ UNCHANGED <<stores, request, meta, content, client, doomed>>

-----------------------------------------------------------------------------
(* DownloadFile and DeleteFile both begin with GetFileMetadata.            *)

DownloadFile(r, u, f) ==
  /\ pc[r] = "idle"
  /\ op' = [op EXCEPT ![r] = "download"]
  /\ user' = [user EXCEPT ![r] = u]
  /\ file' = [file EXCEPT ![r] = f]
  /\ Goto(r, "lookup")
  /\ UNCHANGED <<stores, meta, content, status, client, doomed>>

DeleteFile(r, u, f) ==
  /\ pc[r] = "idle"
  /\ op' = [op EXCEPT ![r] = "delete"]
  /\ user' = [user EXCEPT ![r] = u]
  /\ file' = [file EXCEPT ![r] = f]
  /\ Goto(r, "lookup")
  /\ UNCHANGED <<stores, meta, content, status, client, doomed>>

(* No such row, or an error, which GetFileMetadata reports the same way. *)
LookupMisses(r) ==
  /\ pc[r] = "lookup"
  /\ row[file[r]] = None \/ DBMayFail(r)
  /\ Finish(r, "not_found")
  /\ UNCHANGED <<stores, request, meta, content, client, doomed>>

LookupForDownload(r) ==
  /\ pc[r] = "lookup" /\ op[r] = "download"
  /\ row[file[r]] # None
  /\ meta' = [meta EXCEPT ![r] = row[file[r]]]
  /\ Goto(r, "read")
  /\ UNCHANGED <<stores, request, content, status, client, doomed>>

LookupForDelete(r) ==
  /\ pc[r] = "lookup" /\ op[r] = "delete"
  /\ row[file[r]] # None
  /\ meta' = [meta EXCEPT ![r] = row[file[r]]]
  /\ IF IsParty(user[r], row[file[r]])
     THEN Goto(r, "unblob") /\ UNCHANGED status
     ELSE Finish(r, "forbidden")
  /\ UNCHANGED <<stores, request, content, client, doomed>>

-----------------------------------------------------------------------------
(* The rest of DownloadFile.                                               *)

GetFileContent(r) ==
  /\ pc[r] = "read"
  /\ blob[file[r]] # "absent"
  /\ content' = [content EXCEPT ![r] = blob[file[r]]]
  /\ Goto(r, "encode")
  /\ UNCHANGED <<stores, request, meta, status, client, doomed>>

GetFileContentFails(r) ==
  /\ pc[r] = "read"
  /\ blob[file[r]] = "absent" \/ BlobMayFail
  /\ Finish(r, "error")
  /\ UNCHANGED <<stores, request, meta, content, client, doomed>>

(* Encode returns nil once the response is in the server's buffers. *)
EncodeResponse(r) ==
  /\ pc[r] = "encode"
  /\ Reply(r, "ok")
  /\ Goto(r, IF meta[r].autoDelete THEN "unblob" ELSE "done")
  /\ UNCHANGED <<stores, request, meta, content, client, doomed>>

EncodeFails(r) ==
  /\ pc[r] = "encode"
  /\ conn[r] = "closed"
  /\ Finish(r, "error")
  /\ UNCHANGED <<stores, request, meta, content, client, doomed>>

-----------------------------------------------------------------------------
(* Storage.DeleteFile, called by DeleteFile and, with its error dropped,   *)
(* by DownloadFile for an auto-delete file: content first, row second.     *)
(* Both blob stores accept the deletion of an object that is not there.    *)

DeleteBlob(r) ==
  /\ pc[r] = "unblob"
  /\ blob' = [blob EXCEPT ![file[r]] = "absent"]
  /\ doomed' = doomed \cup {file[r]}
  /\ Goto(r, "unrow")
  /\ UNCHANGED <<row, request, meta, content, status, client>>

(* An error of DeleteObject does not tell whether the object is gone. *)
DeleteBlobFails(r) ==
  /\ pc[r] = "unblob"
  /\ BlobMayFail
  /\ \/ UNCHANGED blob
     \/ StorageType = "s3" /\ blob' = [blob EXCEPT ![file[r]] = "absent"]
  /\ doomed' = doomed \cup {file[r]}
  /\ DeleteOutcome(r, "error")
  /\ UNCHANGED <<row, request, meta, content, client>>

DeleteRow(r) ==
  /\ pc[r] = "unrow"
  /\ row' = [row EXCEPT ![file[r]] = None]
  /\ DeleteOutcome(r, "ok")
  /\ UNCHANGED <<blob, request, meta, content, client, doomed>>

DeleteRowFails(r) ==
  /\ pc[r] = "unrow"
  /\ DBMayFail(r)
  /\ DeleteOutcome(r, "error")
  /\ UNCHANGED <<stores, request, meta, content, client, doomed>>

-----------------------------------------------------------------------------
(* The environment.                                                        *)

(* The client goes away: it gives up waiting, or it has what it wants. *)
Disconnect(r) ==
  /\ pc[r] # "idle" /\ conn[r] = "open"
  /\ conn' = [conn EXCEPT ![r] = "closed"]
  /\ UNCHANGED <<stores, pc, request, meta, content, status, received, doomed>>

(* The client has read the whole response.  A body larger than the write   *)
(* buffer can arrive while the handler is still running.                   *)
Receive(r) ==
  /\ status[r] # "pending" /\ conn[r] = "open" /\ ~received[r]
  /\ received' = [received EXCEPT ![r] = TRUE]
  /\ UNCHANGED <<stores, pc, request, meta, content, status, conn, doomed>>

(* The process is killed and started again: NewStorage opens the same      *)
(* database and directory, and creates the tables only if they are missing *)
(* so both stores survive; the running handlers do not.                    *)
CrashRestart ==
  /\ \E r \in Requests : InFlight(r)
  /\ pc' = [r \in Requests |-> IF InFlight(r) THEN "dead" ELSE pc[r]]
  /\ UNCHANGED <<stores, request, meta, content, status, client, doomed>>

-----------------------------------------------------------------------------
(* The steps of the goroutine that serves r. *)
Upload(r) ==
  \/ BlobSaveBegin(r) \/ BlobSaveEnd(r) \/ BlobSaveFails(r)
  \/ CreateFile(r) \/ CreateFileFails(r)

Lookup(r) == LookupMisses(r) \/ LookupForDownload(r) \/ LookupForDelete(r)

Download(r) ==
  \/ GetFileContent(r) \/ GetFileContentFails(r)
  \/ EncodeResponse(r) \/ EncodeFails(r)

Remove(r) ==
  \/ DeleteBlob(r) \/ DeleteBlobFails(r)
  \/ DeleteRow(r) \/ DeleteRowFails(r)

Handle(r) == Upload(r) \/ Lookup(r) \/ Download(r) \/ Remove(r)

Arrive(r) ==
  \E u \in Users, f \in Files :
    \/ \E m \in Meta : UploadFile(r, u, m, f)
    \/ DownloadFile(r, u, f)
    \/ DeleteFile(r, u, f)

Next ==
  \/ \E r \in Requests : Arrive(r) \/ Handle(r) \/ Disconnect(r) \/ Receive(r)
  \/ CrashRestart

Spec == Init /\ [][Next]_vars

(* A goroutine that can run is run, and storage calls return. *)
Fairness == \A r \in Requests : WF_vars(Handle(r))
FairSpec == Spec /\ Fairness

-----------------------------------------------------------------------------
(* Safety.                                                                 *)

(* The file can be looked up and its content read. *)
Stored(f) == row[f] # None /\ blob[f] = "whole"

(* Files whose upload has been answered 201. *)
Published ==
  {file[r] : r \in {q \in Requests : op[q] = "upload" /\ status[q] = "created"}}

(* Between the two writes of SaveFile, across crashes and failed writes,   *)
(* no download ever reads a blob that is still being written: the row that *)
(* leads to a blob appears after os.WriteFile has returned.                *)
NoHalfWrittenDownload == \A r \in Requests : content[r] # "partial"

(* A file whose upload was answered 201 has its row and its whole content  *)
(* until Storage.DeleteFile is called for it, whatever other requests,     *)
(* failed storage calls, disconnections and crashes come in between.       *)
AvailableUntilDeleted == \A f \in Published \ doomed : Stored(f)

(* Once the row of an uploaded file is gone, no content is left behind in  *)
(* the blob store, where nothing would ever find and delete it.            *)
NoContentWithoutRow ==
  \A f \in Published : row[f] = None => blob[f] = "absent"

(* Request r was entitled to delete f: a DELETE by a party to the file, or *)
(* a download of the whole content of a file sent with auto-delete.        *)
MayDelete(r, f) ==
  /\ file[r] = f /\ meta[r] # None
  /\ \/ op[r] = "delete" /\ IsParty(user[r], meta[r])
     \/ op[r] = "download" /\ meta[r].autoDelete /\ content[r] = "whole"

(* No interleaving lets Storage.DeleteFile be called for a file but by a   *)
(* request entitled to it, although the check and the deletion are several *)
(* storage calls apart.                                                    *)
OnlyEntitledDelete ==
  \A f \in doomed : \E r \in Requests : MayDelete(r, f)

(* A DELETE answered 200 means that row and content are gone, and they     *)
(* stay gone whatever requests were already past their lookup.             *)
AckedDeleteIsFinal ==
  \A r \in Requests :
    op[r] = "delete" /\ status[r] = "ok" =>
      row[file[r]] = None /\ blob[file[r]] = "absent"

-----------------------------------------------------------------------------
(* What the files look like from outside.                                  *)

MailboxState ==
  [f \in Files |-> IF Stored(f) THEN "stored"
                   ELSE IF f \in doomed THEN "gone" ELSE "unsent"]

Listed == {f \in Files : row[f] # None}

Fetched == {<<r, file[r]>> : r \in {q \in Requests :
              op[q] = "download" /\ content[q] # "none"}}

Confirmed == {file[r] : r \in {q \in Requests :
                op[q] = "delete" /\ status[q] = "ok"}}

Promise == INSTANCE Mailbox WITH
  state <- MailboxState, listed <- Listed, acked <- Published,
  fetched <- Fetched, confirmed <- Confirmed

(* To its clients the two-store server with its crashes and failed calls   *)
(* is the abstract mailbox: a file becomes available, is handed out and    *)
(* disappears in single steps, never comes back, is never handed out by a  *)
(* request that was past its lookup when the file went, and stays on the   *)
(* lists at least as long as its content is there.                         *)
ImplementsMailbox == Promise!MailboxSpec

-----------------------------------------------------------------------------
(* Liveness, under FairSpec.                                               *)

Gone(f) == row[f] = None /\ blob[f] = "absent"
Abandoned(r) == conn[r] = "closed" \/ pc[r] = "dead"

(* When no storage call fails, a DELETE by a party to a file that has a    *)
(* row, and a download that has written an auto-delete file, get the file  *)
(* off the server unless the client hangs up or the server crashes; this   *)
(* includes the retry of a deletion that stopped between blob and row.     *)
DeletionCompletes ==
  \A r \in Requests, f \in Files :
    /\ file[r] = f
    /\ \/ /\ op[r] = "delete" /\ pc[r] = "lookup"
          /\ row[f] # None /\ IsParty(user[r], row[f])
       \/ pc[r] = "unblob"
    ~> Abandoned(r) \/ Gone(f)

-----------------------------------------------------------------------------
(* Statements about the program that its behaviours contradict.            *)

(* README.md: files sent with auto-delete are deleted from the server      *)
(* "immediately after download".  Stated when the download is over, its    *)
(* response received and no storage call can fail: the row must be gone.   *)
DownloadedAutoDeleteIsGone ==
  \A r \in Requests :
    /\ op[r] = "download" /\ pc[r] = "done" /\ received[r]
    /\ status[r] = "ok" /\ meta[r].autoDelete
    => row[file[r]] = None

(* handler.go: "Auto-delete after successful download".  A file that no    *)
(* DELETE asked for is deleted only if some downloader has received it or  *)
(* is still there to receive it.                                           *)
AutoDeletedWasDelivered ==
  \A f \in doomed : \E r \in Requests :
    /\ file[r] = f
    /\ \/ op[r] = "delete"
       \/ op[r] = "download" /\ (received[r] \/ conn[r] = "open")
=============================================================================
