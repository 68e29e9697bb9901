----------------------- MODULE FileServiceRefinement -----------------------
(***************************************************************************)
(* Proof that FileService implements Mailbox: one lemma for each kind of   *)
(* step, saying which step of Mailbox it is, if any.                       *)
(***************************************************************************)
EXTENDS FileServiceProofs

USE DEF stores, request, client, Goto, Reply, Finish

abstract == <<MailboxState, Listed, Published, Fetched, Confirmed>>

-----------------------------------------------------------------------------
(* Steps that clients cannot see.                                          *)

(* Content on its way into the store belongs to no published file. *)
LEMMA SavingIsSilent ==
  ASSUME IInv, NEW r \in Requests,
         BlobSaveBegin(r) \/ BlobSaveEnd(r) \/ BlobSaveFails(r)
  PROVE  UNCHANGED abstract
<1> USE DEF IInv
<1>1. /\ op[r] = "upload" /\ status[r] # "created"
      /\ row[file[r]] = None /\ file[r] \notin doomed
  BY DEF ProgressInv, UploadInv, Uploading, BlobSaveBegin, BlobSaveEnd, BlobSaveFails
<1>2. /\ UNCHANGED <<row, op, file, content, doomed>>
      /\ \A q \in Requests \ {r} : status'[q] = status[q]
      /\ status'[r] \in {status[r], "error"}
      /\ \A f \in Files \ {file[r]} : blob'[f] = blob[f]
  BY DEF TypeOK, BlobSaveBegin, BlobSaveEnd, BlobSaveFails
<1>3. Published' = Published
  BY <1>1, <1>2, PublishedSame
<1>4. MailboxState' = MailboxState
  BY <1>1, <1>2 DEF MailboxState, Stored
<1>5. Fetched' = Fetched
  BY <1>2 DEF Fetched
<1>6. Confirmed' = Confirmed
  BY <1>1, <1>2 DEF Confirmed
<1>7. Listed' = Listed
  BY <1>2 DEF Listed
<1>8. QED
  BY <1>3, <1>4, <1>5, <1>6, <1>7 DEF abstract

(* A request that changes neither store. *)
Silent(r) ==
  \/ CreateFileFails(r) \/ LookupMisses(r)
  \/ LookupForDownload(r) \/ LookupForDelete(r)
  \/ GetFileContentFails(r) \/ EncodeResponse(r) \/ EncodeFails(r)
  \/ DeleteRowFails(r)

LEMMA SilentSteps ==
  ASSUME IInv, NEW r \in Requests, Silent(r)
  PROVE  UNCHANGED abstract
<1> USE DEF IInv
<1>1. /\ UNCHANGED <<blob, row, op, file, content, doomed>>
      /\ \A q \in Requests \ {r} : status'[q] = status[q]
  BY DEF TypeOK, Silent, CreateFileFails, LookupMisses, LookupForDownload,
     LookupForDelete, GetFileContentFails, EncodeResponse, EncodeFails,
     DeleteRowFails, DeleteOutcome
<1>2. /\ status[r] = "created" <=> status'[r] = "created"
      /\ op[r] = "delete" => status[r] # "ok" /\ status'[r] # "ok"
  BY DEF TypeOK, ProgressInv, Uploading, Removing, Silent, CreateFileFails,
     LookupMisses, LookupForDownload, LookupForDelete, GetFileContentFails,
     EncodeResponse, EncodeFails, DeleteRowFails, DeleteOutcome
<1>3. Published' = Published
  BY <1>1, <1>2, PublishedSame
<1>4. MailboxState' = MailboxState
  BY <1>1 DEF MailboxState, Stored
<1>5. Fetched' = Fetched
  BY <1>1 DEF Fetched
<1>6. Confirmed' = Confirmed
  BY <1>1, <1>2 DEF Confirmed
<1>7. Listed' = Listed
  BY <1>1 DEF Listed
<1>8. QED
  BY <1>3, <1>4, <1>5, <1>6, <1>7 DEF abstract

(* A request begins, its client hangs up or reads, the server crashes. *)
LEMMA OutsideIsSilent ==
  ASSUME IInv,
         \/ \E r \in Requests : Arrive(r) \/ Disconnect(r) \/ Receive(r)
         \/ CrashRestart
         \/ UNCHANGED vars
  PROVE  UNCHANGED abstract
<1> USE DEF IInv
<1>1. UNCHANGED <<blob, row, content, status, doomed>>
  BY DEF Arrive, UploadFile, DownloadFile, DeleteFile, Disconnect, Receive,
     CrashRestart, vars
<1>2. \A q \in Requests :
        \/ op'[q] = op[q] /\ file'[q] = file[q]
        \/ op[q] = "none" /\ status[q] = "pending" /\ content[q] = "none"
  BY DEF TypeOK, ProgressInv, Arrive, UploadFile, DownloadFile, DeleteFile,
     Disconnect, Receive, CrashRestart, vars
<1>3. Published' = Published
  BY <1>1, <1>2, PublishedSame
<1>4. MailboxState' = MailboxState
  BY <1>1 DEF MailboxState, Stored
<1>5. Fetched' = Fetched
  BY <1>1, <1>2 DEF Fetched
<1>6. Confirmed' = Confirmed
  BY <1>1, <1>2 DEF Confirmed
<1>7. Listed' = Listed
  BY <1>1 DEF Listed
<1>8. QED
  BY <1>3, <1>4, <1>5, <1>6, <1>7 DEF abstract

-----------------------------------------------------------------------------
(* Steps that clients can see.                                             *)

(* The INSERT of the row is the deposit. *)
LEMMA CreateFileDeposits ==
  ASSUME IInv, NEW r \in Requests, CreateFile(r)
  PROVE  Promise!Deposit(file[r])
<1> USE DEF IInv
<1>1. /\ op[r] = "upload" /\ file[r] \in Files /\ meta[r] # None
      /\ file[r] \notin doomed /\ row[file[r]] = None
      /\ blob[file[r]] = "whole"
  BY DEF TypeOK, ProgressInv, UploadInv, Uploading, CreateFile
<1>2. Published' = Published \cup {file[r]}
  BY <1>1 DEF Published, TypeOK, CreateFile
<1>3. /\ MailboxState[file[r]] = "unsent"
      /\ MailboxState' = [MailboxState EXCEPT ![file[r]] = "stored"]
  BY <1>1 DEF MailboxState, Stored, TypeOK, CreateFile
<1>4. Fetched' = Fetched
  BY DEF Fetched, CreateFile
<1>5. Confirmed' = Confirmed
  BY <1>1 DEF Confirmed, TypeOK, CreateFile
<1>6. Listed' = Listed \cup {file[r]}
  BY <1>1 DEF Listed, TypeOK, CreateFile
<1>7. QED
  BY <1>2, <1>3, <1>4, <1>5, <1>6 DEF Promise!Deposit

(* Reading the blob is the fetch: whoever finds the whole blob, however    *)
(* long after the lookup, still finds the row.                             *)
LEMMA GetFileContentFetches ==
  ASSUME IInv, NEW r \in Requests, GetFileContent(r)
  PROVE  Promise!Fetch(r, file[r])
<1> USE DEF IInv
<1>1. op[r] = "download" /\ file[r] \in Files /\ file[r] \in Published
  BY DEF TypeOK, ProgressInv, RemoveInv, Entitled, GetFileContent
<1>2. Stored(file[r])
  BY <1>1 DEF TypeOK, Blobs, FileInv, Stored, GetFileContent
<1>3. MailboxState[file[r]] = "stored" /\ MailboxState' = MailboxState
  BY <1>1, <1>2 DEF MailboxState, Stored, GetFileContent
<1>4. Fetched' = Fetched \cup {<<r, file[r]>>}
  <2>1. content' = [content EXCEPT ![r] = "whole"]
    BY <1>2 DEF Stored, GetFileContent
  <2>2. QED
    BY <1>1, <2>1 DEF Fetched, TypeOK, GetFileContent
<1>5. Published' = Published
  BY PublishedSame DEF GetFileContent
<1>6. Confirmed' = Confirmed
  BY DEF Confirmed, GetFileContent
<1>7. Listed' = Listed
  BY DEF Listed, GetFileContent
<1>8. QED
  BY <1>3, <1>4, <1>5, <1>6, <1>7 DEF Promise!Fetch

(* Deleting the blob is the removal; a second deletion changes nothing,    *)
(* and neither does an attempt that leaves the blob where it is.           *)
LEMMA DeleteBlobRemoves ==
  ASSUME IInv, NEW r \in Requests, DeleteBlob(r) \/ DeleteBlobFails(r)
  PROVE  file[r] \in Files /\ (Promise!Remove(file[r]) \/ UNCHANGED abstract)
<1> USE DEF IInv
<1>1. /\ file[r] \in Files /\ file[r] \in Published
      /\ op[r] = "download" \/ op[r] = "delete"
  BY DEF TypeOK, ProgressInv, RemoveInv, Removing, Entitled, DeleteBlob, DeleteBlobFails
<1>2. /\ UNCHANGED <<row, op, file, content>>
      /\ doomed' = doomed \cup {file[r]}
      /\ \/ UNCHANGED blob
         \/ blob' = [blob EXCEPT ![file[r]] = "absent"]
      /\ \A q \in Requests \ {r} : status'[q] = status[q]
      /\ status'[r] \in {status[r], "error"}
  BY DEF TypeOK, DeleteBlob, DeleteBlobFails, DeleteOutcome
<1>3. status'[r] # status[r] => status[r] = "pending"
  BY DEF TypeOK, ProgressInv, Removing, DeleteBlob, DeleteBlobFails, DeleteOutcome
<1>4. Published' = Published
  BY <1>1, <1>2, <1>3, PublishedSame
<1>5. Fetched' = Fetched
  BY <1>2 DEF Fetched
<1>6. Confirmed' = Confirmed
  BY <1>2, <1>3 DEF Confirmed
<1>l. Listed' = Listed
  BY <1>2 DEF Listed
<1>7. CASE UNCHANGED blob \/ ~Stored(file[r])
  <2>1. MailboxState' = MailboxState
    BY <1>1, <1>2, <1>7 DEF TypeOK, FileInv, MailboxState, Stored
  <2>2. QED
    BY <1>1, <1>4, <1>5, <1>6, <1>l, <2>1 DEF abstract
<1>8. CASE blob' = [blob EXCEPT ![file[r]] = "absent"] /\ Stored(file[r])
  <2>1. /\ MailboxState[file[r]] = "stored"
        /\ MailboxState' = [MailboxState EXCEPT ![file[r]] = "gone"]
    BY <1>1, <1>2, <1>8 DEF TypeOK, MailboxState, Stored
  <2>2. QED
    BY <1>1, <1>4, <1>5, <1>6, <1>l, <2>1 DEF Promise!Remove
<1>9. QED
  BY <1>2, <1>7, <1>8

(* Deleting the row takes the file off the lists; answering a DELETE with  *)
(* it is the confirmation, and after a download nobody is told.            *)
LEMMA DeleteRowConfirms ==
  ASSUME IInv, NEW r \in Requests, DeleteRow(r)
  PROVE  file[r] \in Files /\ (Promise!Confirm(file[r]) \/ Promise!Unlist(file[r]))
<1> USE DEF IInv
<1>1. /\ file[r] \in Files /\ file[r] \in doomed /\ blob[file[r]] = "absent"
      /\ op[r] = "delete" => status[r] = "pending"
  BY DEF TypeOK, ProgressInv, RemoveInv, Removing, DeleteRow
<1>2. MailboxState' = MailboxState /\ MailboxState[file[r]] = "gone"
  BY <1>1 DEF TypeOK, MailboxState, Stored, DeleteRow
<1>3. Published' = Published
  BY <1>1, PublishedSame DEF TypeOK, DeleteRow, DeleteOutcome
<1>4. Fetched' = Fetched
  BY DEF Fetched, DeleteRow, DeleteOutcome
<1>l. Listed' = Listed \ {file[r]}
  <2>1. row' = [row EXCEPT ![file[r]] = None]
    BY DEF DeleteRow
  <2>. QED
    BY <1>1, <2>1 DEF Listed, TypeOK
<1>5. CASE op[r] = "delete"
  <2>1. Confirmed' = Confirmed \cup {file[r]}
    BY <1>5 DEF Confirmed, TypeOK, DeleteRow, DeleteOutcome
  <2>2. QED
    BY <1>1, <1>2, <1>3, <1>4, <1>l, <2>1 DEF Promise!Confirm
<1>6. CASE op[r] # "delete"
  <2>1. Confirmed' = Confirmed
    BY <1>6 DEF Confirmed, DeleteRow, DeleteOutcome
  <2>2. QED
    BY <1>1, <1>2, <1>3, <1>4, <1>l, <2>1 DEF Promise!Unlist
<1>7. QED
  BY <1>5, <1>6

-----------------------------------------------------------------------------
LEMMA RefinementInit == Init => Promise!MailboxInit
<1> SUFFICES ASSUME Init PROVE Promise!MailboxInit
  OBVIOUS
<1>1. MailboxState = [f \in Files |-> "unsent"]
  BY DEF Init, MailboxState, Stored
<1>2. Published = {} /\ Fetched = {} /\ Confirmed = {}
  BY DEF Init, Published, Fetched, Confirmed
<1>3. Listed = {}
  BY DEF Init, Listed
<1>4. QED
  BY <1>1, <1>2, <1>3 DEF Promise!MailboxInit

LEMMA RefinementStep ==
  IInv /\ [Next]_vars => [Promise!MailboxNext]_(Promise!mailboxVars)
<1> SUFFICES ASSUME IInv, [Next]_vars
             PROVE  Promise!MailboxNext \/ UNCHANGED abstract
  BY DEF Promise!mailboxVars, abstract
<1>1. ASSUME NEW r \in Requests,
             BlobSaveBegin(r) \/ BlobSaveEnd(r) \/ BlobSaveFails(r)
      PROVE  UNCHANGED abstract
  BY <1>1, SavingIsSilent
<1>2. ASSUME NEW r \in Requests, Silent(r) PROVE UNCHANGED abstract
  BY <1>2, SilentSteps
<1>3. CASE \/ \E r \in Requests : Arrive(r) \/ Disconnect(r) \/ Receive(r)
           \/ CrashRestart
           \/ UNCHANGED vars
  BY <1>3, OutsideIsSilent
<1>4. ASSUME NEW r \in Requests, CreateFile(r) PROVE Promise!MailboxNext
  <2>1. file[r] \in Files
    BY <1>4 DEF IInv, TypeOK, CreateFile
  <2>2. QED
    BY <1>4, <2>1, CreateFileDeposits DEF Promise!MailboxNext
<1>5. ASSUME NEW r \in Requests, GetFileContent(r) PROVE Promise!MailboxNext
  <2>1. file[r] \in Files
    BY <1>5 DEF IInv, TypeOK, GetFileContent
  <2>2. QED
    BY <1>5, <2>1, GetFileContentFetches DEF Promise!MailboxNext
<1>6. ASSUME NEW r \in Requests, DeleteBlob(r) \/ DeleteBlobFails(r)
      PROVE  Promise!MailboxNext \/ UNCHANGED abstract
  BY <1>6, DeleteBlobRemoves DEF Promise!MailboxNext
<1>7. ASSUME NEW r \in Requests, DeleteRow(r)
      PROVE  Promise!MailboxNext
  BY <1>7, DeleteRowConfirms DEF Promise!MailboxNext
<1>8. QED
  BY <1>1, <1>2, <1>3, <1>4, <1>5, <1>6, <1>7
  DEF Next, Handle, Upload, Lookup, Download, Remove, Silent

(* The server, whatever its users, requests and files and whatever fails,  *)
(* implements the mailbox: every step of it is one step of Mailbox or none.*)
THEOREM Refinement == Spec => ImplementsMailbox
<1>1. QED
  BY RefinementInit, RefinementStep, Invariance, PTL
  DEF Spec, ImplementsMailbox, Promise!MailboxSpec
=============================================================================
