------------------------- MODULE FileServiceProofs -------------------------
(***************************************************************************)
(* Proofs that FileService keeps its safety properties for every set of    *)
(* users, requests and files, for both blob stores and whatever may fail.  *)
(***************************************************************************)
EXTENDS FileService, TLAPS

-----------------------------------------------------------------------------
(* The inductive invariant.  The properties say what holds between the two *)
(* stores; they are kept only because of where the running handlers are.   *)

Uploading == {"save", "saving", "insert"}
Removing == {"unblob", "unrow"}
Entitled == {"read", "encode"} \cup Removing

(* Which handler can be at which stage, and what it has done by then. *)
ProgressInv ==
  \A r \in Requests :
    /\ pc[r] = "idle" =>
         /\ op[r] = "none" /\ status[r] = "pending"
         /\ meta[r] = None /\ content[r] = "none"
    /\ pc[r] \in Uploading => op[r] = "upload"
    /\ pc[r] = "lookup" =>
         /\ op[r] \in {"download", "delete"}
         /\ status[r] = "pending" /\ meta[r] = None
    /\ pc[r] \in {"read", "encode"} => op[r] = "download"
    /\ pc[r] \in Removing =>
         \/ op[r] = "download"
         \/ op[r] = "delete" /\ status[r] = "pending"
    /\ status[r] = "created" => op[r] = "upload"
    /\ pc[r] \in Uploading => status[r] # "created"
    /\ content[r] # "partial"
    /\ pc[r] = "encode" => content[r] = "whole"

(* An id belongs to one upload, and nobody else knows it before its row is *)
(* in the table: until then neither row nor deletion exists for it.        *)
UploadInv ==
  /\ \A r, q \in Requests :
       op[r] = "upload" /\ op[q] = "upload" /\ file[r] = file[q] => r = q
  /\ \A r \in Requests :
       pc[r] \in Uploading =>
         /\ file[r] \notin Published /\ file[r] \notin doomed
         /\ row[file[r]] = None
         /\ pc[r] = "insert" => blob[file[r]] = "whole"

(* How row, content and deletion of a file hang together. *)
FileInv ==
  \A f \in Files :
    /\ row[f] # None => f \in Published
    /\ f \in Published => blob[f] # "partial"
    /\ f \in Published /\ row[f] = None => blob[f] = "absent"
    /\ f \in Published /\ f \notin doomed => Stored(f)
    /\ f \in doomed => f \in Published

(* What lets a handler past its lookup continue, and what it has caused. *)
RemoveInv ==
  /\ \A r \in Requests :
       /\ pc[r] \in Entitled => file[r] \in Published
       /\ pc[r] \in Removing => MayDelete(r, file[r])
       /\ pc[r] = "unrow" => file[r] \in doomed /\ blob[file[r]] = "absent"
       /\ op[r] = "delete" /\ status[r] = "ok" =>
            file[r] \in Published /\ Gone(file[r])
  /\ OnlyEntitledDelete

IInv == TypeOK /\ ProgressInv /\ UploadInv /\ FileInv /\ RemoveInv
-----------------------------------------------------------------------------
(* Type correctness.                                                       *)

USE DEF stores, request, client, Goto, Reply, Finish

LEMMA TypeInit == Init => TypeOK
  BY DEF Init, TypeOK, Blobs, Stages, Statuses

LEMMA TypeArrive ==
  ASSUME TypeOK, NEW r \in Requests, Arrive(r)
  PROVE  TypeOK'
<1> PICK u \in Users, f \in Files :
      \/ \E m \in Meta : UploadFile(r, u, m, f)
      \/ DownloadFile(r, u, f)
      \/ DeleteFile(r, u, f)
  BY DEF Arrive
<1>1. ASSUME NEW m \in Meta, UploadFile(r, u, m, f)
      PROVE  TypeOK'
  BY <1>1, NoneAssumption DEF TypeOK, Stages, UploadFile
<1>2. CASE DownloadFile(r, u, f)
  BY <1>2, NoneAssumption DEF TypeOK, Stages, DownloadFile
<1>3. CASE DeleteFile(r, u, f)
  BY <1>3, NoneAssumption DEF TypeOK, Stages, DeleteFile
<1>4. QED
  BY <1>1, <1>2, <1>3

LEMMA TypeStep == TypeOK /\ [Next]_vars => TypeOK'
<1> SUFFICES ASSUME TypeOK, [Next]_vars PROVE TypeOK'
  OBVIOUS
<1>1. ASSUME NEW r \in Requests, Arrive(r) PROVE TypeOK'
  BY <1>1, TypeArrive
<1>2. ASSUME NEW r \in Requests, BlobSaveBegin(r) PROVE TypeOK'
  BY <1>2 DEF TypeOK, Meta, Blobs, Stages, Statuses, BlobSaveBegin
<1>3. ASSUME NEW r \in Requests, BlobSaveEnd(r) PROVE TypeOK'
  BY <1>3 DEF TypeOK, Meta, Blobs, Stages, Statuses, BlobSaveEnd
<1>4. ASSUME NEW r \in Requests, BlobSaveFails(r) PROVE TypeOK'
  BY <1>4 DEF TypeOK, Meta, Blobs, Stages, Statuses, BlobSaveFails
<1>5. ASSUME NEW r \in Requests, CreateFile(r) PROVE TypeOK'
  BY <1>5 DEF TypeOK, Meta, Blobs, Stages, Statuses, CreateFile
<1>6. ASSUME NEW r \in Requests, CreateFileFails(r) PROVE TypeOK'
  BY <1>6 DEF TypeOK, Meta, Blobs, Stages, Statuses, CreateFileFails
<1>7. ASSUME NEW r \in Requests, LookupMisses(r) PROVE TypeOK'
  BY <1>7 DEF TypeOK, Meta, Blobs, Stages, Statuses, LookupMisses
<1>8. ASSUME NEW r \in Requests, LookupForDownload(r) PROVE TypeOK'
  BY <1>8 DEF TypeOK, Meta, Blobs, Stages, Statuses, LookupForDownload
<1>9. ASSUME NEW r \in Requests, LookupForDelete(r) PROVE TypeOK'
  BY <1>9 DEF TypeOK, Meta, Blobs, Stages, Statuses, LookupForDelete
<1>10. ASSUME NEW r \in Requests, GetFileContent(r) PROVE TypeOK'
  BY <1>10 DEF TypeOK, Meta, Blobs, Stages, Statuses, GetFileContent
<1>11. ASSUME NEW r \in Requests, GetFileContentFails(r) PROVE TypeOK'
  BY <1>11 DEF TypeOK, Meta, Blobs, Stages, Statuses, GetFileContentFails
<1>12. ASSUME NEW r \in Requests, EncodeResponse(r) PROVE TypeOK'
  BY <1>12 DEF TypeOK, Meta, Blobs, Stages, Statuses, EncodeResponse
<1>13. ASSUME NEW r \in Requests, EncodeFails(r) PROVE TypeOK'
  BY <1>13 DEF TypeOK, Meta, Blobs, Stages, Statuses, EncodeFails
<1>14. ASSUME NEW r \in Requests, DeleteBlob(r) PROVE TypeOK'
  BY <1>14 DEF TypeOK, Meta, Blobs, Stages, Statuses, DeleteBlob
<1>15. ASSUME NEW r \in Requests, DeleteBlobFails(r) PROVE TypeOK'
  BY <1>15 DEF TypeOK, Meta, Blobs, Stages, Statuses, DeleteBlobFails, DeleteOutcome
<1>16. ASSUME NEW r \in Requests, DeleteRow(r) PROVE TypeOK'
  BY <1>16 DEF TypeOK, Meta, Blobs, Stages, Statuses, DeleteRow, DeleteOutcome
<1>17. ASSUME NEW r \in Requests, DeleteRowFails(r) PROVE TypeOK'
  BY <1>17 DEF TypeOK, Meta, Blobs, Stages, Statuses, DeleteRowFails, DeleteOutcome
<1>18. ASSUME NEW r \in Requests, Disconnect(r) PROVE TypeOK'
  BY <1>18 DEF TypeOK, Meta, Blobs, Stages, Statuses, Disconnect
<1>19. ASSUME NEW r \in Requests, Receive(r) PROVE TypeOK'
  BY <1>19 DEF TypeOK, Meta, Blobs, Stages, Statuses, Receive
<1>20. CASE CrashRestart
  BY <1>20 DEF TypeOK, Stages, CrashRestart, InFlight
<1>21. CASE UNCHANGED vars
  BY <1>21 DEF TypeOK, vars
<1>22. QED
  BY <1>1, <1>2, <1>3, <1>4, <1>5, <1>6, <1>7, <1>8, <1>9, <1>10, <1>11, <1>12, <1>13, <1>14, <1>15, <1>16, <1>17, <1>18, <1>19, <1>20, <1>21
  DEF Next, Handle, Upload, Lookup, Download, Remove

(* Type correctness: every variable has the shape the handlers rely on; in *)
(* particular no handler gets past GetFileMetadata without metadata.       *)
THEOREM TypeCorrect == Spec => []TypeOK
<1>1. QED
  BY TypeInit, TypeStep, PTL DEF Spec

-----------------------------------------------------------------------------
(* The inductive invariant is kept by every step.                        *)

(* A step that writes no "created" leaves the published files as they are. *)
LEMMA PublishedSame ==
  ASSUME \A q \in Requests :
           /\ op'[q] = "upload" /\ status'[q] = "created" <=>
                op[q] = "upload" /\ status[q] = "created"
           /\ op[q] = "upload" /\ status[q] = "created" => file'[q] = file[q]
  PROVE  Published' = Published
  BY DEF Published

LEMMA KeepBlobSaveBegin ==
  ASSUME IInv, TypeOK', NEW r \in Requests, BlobSaveBegin(r)
  PROVE  IInv'
<1> USE DEF IInv
<1>1. Published' = Published
  BY PublishedSame DEF TypeOK, ProgressInv, Uploading, BlobSaveBegin
<1>2. ProgressInv'
  BY DEF TypeOK, ProgressInv, Uploading, Removing, BlobSaveBegin
<1>3. UploadInv'
  BY <1>1 DEF TypeOK, ProgressInv, UploadInv, FileInv, RemoveInv, Uploading, Entitled, Removing, BlobSaveBegin
<1>4. FileInv'
  BY <1>1 DEF TypeOK, FileInv, UploadInv, RemoveInv, Stored, Uploading, Entitled, Removing, BlobSaveBegin
<1>5. RemoveInv'
  BY <1>1 DEF TypeOK, ProgressInv, UploadInv, FileInv, RemoveInv, MayDelete, OnlyEntitledDelete, Gone,
     IsParty, Uploading, Removing, Entitled, BlobSaveBegin
<1>6. QED
  BY <1>2, <1>3, <1>4, <1>5

LEMMA KeepBlobSaveEnd ==
  ASSUME IInv, TypeOK', NEW r \in Requests, BlobSaveEnd(r)
  PROVE  IInv'
<1> USE DEF IInv
<1>1. Published' = Published
  BY PublishedSame DEF TypeOK, ProgressInv, Uploading, BlobSaveEnd
<1>2. ProgressInv'
  BY DEF TypeOK, ProgressInv, Uploading, Removing, BlobSaveEnd
<1>3. UploadInv'
  BY <1>1 DEF TypeOK, ProgressInv, UploadInv, FileInv, RemoveInv, Uploading, Entitled, Removing, BlobSaveEnd
<1>4. FileInv'
  BY <1>1 DEF TypeOK, FileInv, UploadInv, RemoveInv, Stored, Uploading, Entitled, Removing, BlobSaveEnd
<1>5. RemoveInv'
  BY <1>1 DEF TypeOK, ProgressInv, UploadInv, FileInv, RemoveInv, MayDelete, OnlyEntitledDelete, Gone,
     IsParty, Uploading, Removing, Entitled, BlobSaveEnd
<1>6. QED
  BY <1>2, <1>3, <1>4, <1>5

LEMMA KeepBlobSaveFails ==
  ASSUME IInv, TypeOK', NEW r \in Requests, BlobSaveFails(r)
  PROVE  IInv'
<1> USE DEF IInv
<1>1. Published' = Published
  BY PublishedSame DEF TypeOK, ProgressInv, Uploading, BlobSaveFails
<1>2. ProgressInv'
  BY DEF TypeOK, ProgressInv, Uploading, Removing, BlobSaveFails
<1>3. UploadInv'
  BY <1>1 DEF TypeOK, ProgressInv, UploadInv, FileInv, RemoveInv, Uploading, Entitled, Removing, BlobSaveFails
<1>4. FileInv'
  BY <1>1 DEF TypeOK, FileInv, UploadInv, RemoveInv, Stored, Uploading, Entitled, Removing, BlobSaveFails
<1>5. RemoveInv'
  BY <1>1 DEF TypeOK, ProgressInv, UploadInv, FileInv, RemoveInv, MayDelete, OnlyEntitledDelete, Gone,
     IsParty, Uploading, Removing, Entitled, BlobSaveFails
<1>6. QED
  BY <1>2, <1>3, <1>4, <1>5

LEMMA KeepCreateFileFails ==
  ASSUME IInv, TypeOK', NEW r \in Requests, CreateFileFails(r)
  PROVE  IInv'
<1> USE DEF IInv
<1>1. Published' = Published
  BY PublishedSame DEF TypeOK, ProgressInv, Uploading, CreateFileFails
<1>2. ProgressInv'
  BY DEF TypeOK, ProgressInv, Uploading, Removing, CreateFileFails
<1>3. UploadInv'
  BY <1>1 DEF TypeOK, ProgressInv, UploadInv, FileInv, RemoveInv, Uploading, Entitled, Removing, CreateFileFails
<1>4. FileInv'
  BY <1>1 DEF TypeOK, FileInv, UploadInv, RemoveInv, Stored, Uploading, Entitled, Removing, CreateFileFails
<1>5. RemoveInv'
  BY <1>1 DEF TypeOK, ProgressInv, UploadInv, FileInv, RemoveInv, MayDelete, OnlyEntitledDelete, Gone,
     IsParty, Uploading, Removing, Entitled, CreateFileFails
<1>6. QED
  BY <1>2, <1>3, <1>4, <1>5

LEMMA KeepLookupMisses ==
  ASSUME IInv, TypeOK', NEW r \in Requests, LookupMisses(r)
  PROVE  IInv'
<1> USE DEF IInv
<1>1. Published' = Published
  BY PublishedSame DEF TypeOK, ProgressInv, Uploading, LookupMisses
<1>2. ProgressInv'
  BY DEF TypeOK, ProgressInv, Uploading, Removing, LookupMisses
<1>3. UploadInv'
  BY <1>1 DEF TypeOK, ProgressInv, UploadInv, FileInv, RemoveInv, Uploading, Entitled, Removing, LookupMisses
<1>4. FileInv'
  BY <1>1 DEF TypeOK, FileInv, UploadInv, RemoveInv, Stored, Uploading, Entitled, Removing, LookupMisses
<1>5. RemoveInv'
  BY <1>1 DEF TypeOK, ProgressInv, UploadInv, FileInv, RemoveInv, MayDelete, OnlyEntitledDelete, Gone,
     IsParty, Uploading, Removing, Entitled, LookupMisses
<1>6. QED
  BY <1>2, <1>3, <1>4, <1>5

LEMMA KeepLookupForDownload ==
  ASSUME IInv, TypeOK', NEW r \in Requests, LookupForDownload(r)
  PROVE  IInv'
<1> USE DEF IInv
<1>1. Published' = Published
  BY PublishedSame DEF TypeOK, ProgressInv, Uploading, LookupForDownload
<1>2. ProgressInv'
  BY DEF TypeOK, ProgressInv, Uploading, Removing, LookupForDownload
<1>3. UploadInv'
  BY <1>1 DEF TypeOK, ProgressInv, UploadInv, FileInv, RemoveInv, Uploading, Entitled, Removing, LookupForDownload
<1>4. FileInv'
  BY <1>1 DEF TypeOK, FileInv, UploadInv, RemoveInv, Stored, Uploading, Entitled, Removing, LookupForDownload
<1>5. RemoveInv'
  BY <1>1 DEF TypeOK, ProgressInv, UploadInv, FileInv, RemoveInv, MayDelete, OnlyEntitledDelete, Gone,
     IsParty, Uploading, Removing, Entitled, LookupForDownload
<1>6. QED
  BY <1>2, <1>3, <1>4, <1>5

LEMMA KeepLookupForDelete ==
  ASSUME IInv, TypeOK', NEW r \in Requests, LookupForDelete(r)
  PROVE  IInv'
<1> USE DEF IInv
<1>1. Published' = Published
  BY PublishedSame DEF TypeOK, ProgressInv, Uploading, LookupForDelete
<1>2. ProgressInv'
  BY DEF TypeOK, ProgressInv, Uploading, Removing, LookupForDelete
<1>3. UploadInv'
  BY <1>1 DEF TypeOK, ProgressInv, UploadInv, FileInv, RemoveInv, Uploading, Entitled, Removing, LookupForDelete
<1>4. FileInv'
  BY <1>1 DEF TypeOK, FileInv, UploadInv, RemoveInv, Stored, Uploading, Entitled, Removing, LookupForDelete
<1>5. RemoveInv'
  BY <1>1 DEF TypeOK, ProgressInv, UploadInv, FileInv, RemoveInv, MayDelete, OnlyEntitledDelete, Gone,
     IsParty, Uploading, Removing, Entitled, LookupForDelete
<1>6. QED
  BY <1>2, <1>3, <1>4, <1>5

LEMMA KeepGetFileContent ==
  ASSUME IInv, TypeOK', NEW r \in Requests, GetFileContent(r)
  PROVE  IInv'
<1> USE DEF IInv
<1>0. content' = [content EXCEPT ![r] = "whole"]
  <2>1. file[r] \in Published /\ file[r] \in Files
    BY DEF RemoveInv, Entitled, TypeOK, GetFileContent
  <2>2. blob[file[r]] = "whole"
    BY <2>1 DEF TypeOK, Blobs, FileInv, GetFileContent
  <2>3. QED
    BY <2>2 DEF GetFileContent
<1>1. Published' = Published
  BY PublishedSame DEF TypeOK, ProgressInv, Uploading, GetFileContent
<1>2. ProgressInv'
  BY <1>0 DEF TypeOK, ProgressInv, Uploading, Removing, GetFileContent
<1>3. UploadInv'
  BY <1>1 DEF TypeOK, ProgressInv, UploadInv, FileInv, RemoveInv, Uploading, Entitled, Removing, GetFileContent
<1>4. FileInv'
  BY <1>1 DEF TypeOK, FileInv, UploadInv, RemoveInv, Stored, Uploading, Entitled, Removing, GetFileContent
<1>5. RemoveInv'
  BY <1>0, <1>1 DEF TypeOK, ProgressInv, UploadInv, FileInv, RemoveInv, MayDelete, OnlyEntitledDelete, Gone,
     IsParty, Uploading, Removing, Entitled, GetFileContent
<1>6. QED
  BY <1>2, <1>3, <1>4, <1>5

LEMMA KeepGetFileContentFails ==
  ASSUME IInv, TypeOK', NEW r \in Requests, GetFileContentFails(r)
  PROVE  IInv'
<1> USE DEF IInv
<1>1. Published' = Published
  BY PublishedSame DEF TypeOK, ProgressInv, Uploading, GetFileContentFails
<1>2. ProgressInv'
  BY DEF TypeOK, ProgressInv, Uploading, Removing, GetFileContentFails
<1>3. UploadInv'
  BY <1>1 DEF TypeOK, ProgressInv, UploadInv, FileInv, RemoveInv, Uploading, Entitled, Removing, GetFileContentFails
<1>4. FileInv'
  BY <1>1 DEF TypeOK, FileInv, UploadInv, RemoveInv, Stored, Uploading, Entitled, Removing, GetFileContentFails
<1>5. RemoveInv'
  BY <1>1 DEF TypeOK, ProgressInv, UploadInv, FileInv, RemoveInv, MayDelete, OnlyEntitledDelete, Gone,
     IsParty, Uploading, Removing, Entitled, GetFileContentFails
<1>6. QED
  BY <1>2, <1>3, <1>4, <1>5

LEMMA KeepEncodeResponse ==
  ASSUME IInv, TypeOK', NEW r \in Requests, EncodeResponse(r)
  PROVE  IInv'
<1> USE DEF IInv
<1>1. Published' = Published
  BY PublishedSame DEF TypeOK, ProgressInv, Uploading, EncodeResponse
<1>2. ProgressInv'
  BY DEF TypeOK, ProgressInv, Uploading, Removing, EncodeResponse
<1>3. UploadInv'
  BY <1>1 DEF TypeOK, ProgressInv, UploadInv, FileInv, RemoveInv, Uploading, Entitled, Removing, EncodeResponse
<1>4. FileInv'
  BY <1>1 DEF TypeOK, FileInv, UploadInv, RemoveInv, Stored, Uploading, Entitled, Removing, EncodeResponse
<1>5. RemoveInv'
  BY <1>1 DEF TypeOK, ProgressInv, UploadInv, FileInv, RemoveInv, MayDelete, OnlyEntitledDelete, Gone,
     IsParty, Uploading, Removing, Entitled, EncodeResponse
<1>6. QED
  BY <1>2, <1>3, <1>4, <1>5

LEMMA KeepEncodeFails ==
  ASSUME IInv, TypeOK', NEW r \in Requests, EncodeFails(r)
  PROVE  IInv'
<1> USE DEF IInv
<1>1. Published' = Published
  BY PublishedSame DEF TypeOK, ProgressInv, Uploading, EncodeFails
<1>2. ProgressInv'
  BY DEF TypeOK, ProgressInv, Uploading, Removing, EncodeFails
<1>3. UploadInv'
  BY <1>1 DEF TypeOK, ProgressInv, UploadInv, FileInv, RemoveInv, Uploading, Entitled, Removing, EncodeFails
<1>4. FileInv'
  BY <1>1 DEF TypeOK, FileInv, UploadInv, RemoveInv, Stored, Uploading, Entitled, Removing, EncodeFails
<1>5. RemoveInv'
  BY <1>1 DEF TypeOK, ProgressInv, UploadInv, FileInv, RemoveInv, MayDelete, OnlyEntitledDelete, Gone,
     IsParty, Uploading, Removing, Entitled, EncodeFails
<1>6. QED
  BY <1>2, <1>3, <1>4, <1>5

LEMMA KeepDeleteBlob ==
  ASSUME IInv, TypeOK', NEW r \in Requests, DeleteBlob(r)
  PROVE  IInv'
<1> USE DEF IInv
<1>1. Published' = Published
  BY PublishedSame DEF TypeOK, ProgressInv, Uploading, DeleteBlob
<1>2. ProgressInv'
  BY DEF TypeOK, ProgressInv, Uploading, Removing, DeleteBlob
<1>3. UploadInv'
  BY <1>1 DEF TypeOK, ProgressInv, UploadInv, FileInv, RemoveInv, Uploading, Entitled, Removing, DeleteBlob
<1>4. FileInv'
  BY <1>1 DEF TypeOK, FileInv, UploadInv, RemoveInv, Stored, Uploading, Entitled, Removing, DeleteBlob
<1>5. RemoveInv'
  BY <1>1 DEF TypeOK, ProgressInv, UploadInv, FileInv, RemoveInv, MayDelete, OnlyEntitledDelete, Gone,
     IsParty, Uploading, Removing, Entitled, DeleteBlob
<1>6. QED
  BY <1>2, <1>3, <1>4, <1>5

LEMMA KeepDeleteBlobFails ==
  ASSUME IInv, TypeOK', NEW r \in Requests, DeleteBlobFails(r)
  PROVE  IInv'
<1> USE DEF IInv
<1>1. Published' = Published
  BY PublishedSame DEF TypeOK, ProgressInv, Uploading, DeleteBlobFails, DeleteOutcome
<1>2. ProgressInv'
  BY DEF TypeOK, ProgressInv, Uploading, Removing, DeleteBlobFails, DeleteOutcome
<1>3. UploadInv'
  BY <1>1 DEF TypeOK, ProgressInv, UploadInv, FileInv, RemoveInv, Uploading, Entitled, Removing, DeleteBlobFails, DeleteOutcome
<1>4. FileInv'
  BY <1>1 DEF TypeOK, FileInv, UploadInv, RemoveInv, Stored, Uploading, Entitled, Removing, DeleteBlobFails, DeleteOutcome
<1>5. RemoveInv'
  BY <1>1 DEF TypeOK, ProgressInv, UploadInv, FileInv, RemoveInv, MayDelete, OnlyEntitledDelete, Gone,
     IsParty, Uploading, Removing, Entitled, DeleteBlobFails, DeleteOutcome
<1>6. QED
  BY <1>2, <1>3, <1>4, <1>5

LEMMA KeepDeleteRow ==
  ASSUME IInv, TypeOK', NEW r \in Requests, DeleteRow(r)
  PROVE  IInv'
<1> USE DEF IInv
<1>1. Published' = Published
  BY PublishedSame DEF TypeOK, ProgressInv, Uploading, DeleteRow, DeleteOutcome
<1>2. ProgressInv'
  BY DEF TypeOK, ProgressInv, Uploading, Removing, DeleteRow, DeleteOutcome
<1>3. UploadInv'
  BY <1>1 DEF TypeOK, ProgressInv, UploadInv, FileInv, RemoveInv, Uploading, Entitled, Removing, DeleteRow, DeleteOutcome
<1>4. FileInv'
  BY <1>1 DEF TypeOK, FileInv, UploadInv, RemoveInv, Stored, Uploading, Entitled, Removing, DeleteRow, DeleteOutcome
<1>5. RemoveInv'
  BY <1>1 DEF TypeOK, ProgressInv, UploadInv, FileInv, RemoveInv, MayDelete, OnlyEntitledDelete, Gone,
     IsParty, Uploading, Removing, Entitled, DeleteRow, DeleteOutcome
<1>6. QED
  BY <1>2, <1>3, <1>4, <1>5

LEMMA KeepDeleteRowFails ==
  ASSUME IInv, TypeOK', NEW r \in Requests, DeleteRowFails(r)
  PROVE  IInv'
<1> USE DEF IInv
<1>1. Published' = Published
  BY PublishedSame DEF TypeOK, ProgressInv, Uploading, DeleteRowFails, DeleteOutcome
<1>2. ProgressInv'
  BY DEF TypeOK, ProgressInv, Uploading, Removing, DeleteRowFails, DeleteOutcome
<1>3. UploadInv'
  BY <1>1 DEF TypeOK, ProgressInv, UploadInv, FileInv, RemoveInv, Uploading, Entitled, Removing, DeleteRowFails, DeleteOutcome
<1>4. FileInv'
  BY <1>1 DEF TypeOK, FileInv, UploadInv, RemoveInv, Stored, Uploading, Entitled, Removing, DeleteRowFails, DeleteOutcome
<1>5. RemoveInv'
  BY <1>1 DEF TypeOK, ProgressInv, UploadInv, FileInv, RemoveInv, MayDelete, OnlyEntitledDelete, Gone,
     IsParty, Uploading, Removing, Entitled, DeleteRowFails, DeleteOutcome
<1>6. QED
  BY <1>2, <1>3, <1>4, <1>5

(* The only step that publishes: the id was not published before, its blob *)
(* is whole and nobody has deleted it.                                     *)
LEMMA KeepCreateFile ==
  ASSUME IInv, TypeOK', NEW r \in Requests, CreateFile(r)
  PROVE  IInv'
<1> USE DEF IInv
<1>1. /\ op[r] = "upload" /\ file[r] \in Files /\ meta[r] # None
      /\ file[r] \notin Published /\ file[r] \notin doomed
      /\ row[file[r]] = None /\ blob[file[r]] = "whole"
  BY DEF TypeOK, ProgressInv, UploadInv, Uploading, CreateFile
<1>2. Published' = Published \cup {file[r]}
  BY <1>1 DEF Published, TypeOK, CreateFile
<1>3. ProgressInv'
  BY <1>1 DEF TypeOK, ProgressInv, Uploading, Removing, CreateFile
<1>4. UploadInv'
  BY <1>1, <1>2 DEF TypeOK, ProgressInv, UploadInv, Uploading, CreateFile
<1>5. FileInv'
  BY <1>1, <1>2 DEF TypeOK, FileInv, Stored, CreateFile
<1>6. RemoveInv'
  BY <1>1, <1>2 DEF TypeOK, ProgressInv, RemoveInv, MayDelete, OnlyEntitledDelete,
     Gone, IsParty, Uploading, Removing, Entitled, CreateFile
<1>7. QED
  BY <1>3, <1>4, <1>5, <1>6

(* A new upload draws an id no upload has; other requests may guess it. *)
LEMMA KeepArrive ==
  ASSUME IInv, TypeOK', NEW r \in Requests, Arrive(r)
  PROVE  IInv'
<1> USE DEF IInv
<1>1. PICK u \in Users, f \in Files :
      \/ \E m \in Meta : UploadFile(r, u, m, f)
      \/ DownloadFile(r, u, f)
      \/ DeleteFile(r, u, f)
  BY DEF Arrive
<1>2. ASSUME NEW m \in Meta, UploadFile(r, u, m, f)
      PROVE  IInv'
  <2>1. op[r] = "none" /\ status[r] # "created" /\ f \notin Published /\ f \notin doomed /\ row[f] = None
    BY <1>2 DEF ProgressInv, FileInv, Published, UploadFile, Issued
  <2>2. Published' = Published
    BY <1>2, <2>1, PublishedSame DEF TypeOK, UploadFile
  <2>3. ProgressInv'
    BY <1>2 DEF TypeOK, ProgressInv, Uploading, Removing, UploadFile
  <2>4. UploadInv'
    BY <1>2, <2>1, <2>2 DEF TypeOK, ProgressInv, UploadInv, Uploading, UploadFile, Issued
  <2>5. FileInv'
    BY <1>2, <2>2 DEF FileInv, Stored, UploadFile
  <2>6. RemoveInv'
    BY <1>2, <2>1, <2>2 DEF TypeOK, ProgressInv, RemoveInv, MayDelete, OnlyEntitledDelete,
       Gone, IsParty, Uploading, Removing, Entitled, UploadFile
  <2>7. QED
    BY <2>3, <2>4, <2>5, <2>6
<1>3. ASSUME DownloadFile(r, u, f) \/ DeleteFile(r, u, f)
      PROVE  IInv'
  <2>1. op[r] = "none" /\ status[r] = "pending" /\ meta[r] = None
    BY <1>3 DEF ProgressInv, DownloadFile, DeleteFile
  <2>2. Published' = Published
    BY <1>3, <2>1, PublishedSame DEF TypeOK, DownloadFile, DeleteFile
  <2>3. ProgressInv'
    BY <1>3, <2>1 DEF TypeOK, ProgressInv, Uploading, Removing, DownloadFile, DeleteFile
  <2>4. UploadInv'
    BY <1>3, <2>1, <2>2 DEF TypeOK, ProgressInv, UploadInv, Uploading, DownloadFile, DeleteFile
  <2>5. FileInv'
    BY <1>3, <2>2 DEF FileInv, Stored, DownloadFile, DeleteFile
  <2>6. RemoveInv'
    BY <1>3, <2>1, <2>2 DEF TypeOK, ProgressInv, RemoveInv, MayDelete, OnlyEntitledDelete,
       Gone, IsParty, Uploading, Removing, Entitled, DownloadFile, DeleteFile
  <2>7. QED
    BY <2>3, <2>4, <2>5, <2>6
<1>4. QED
  BY <1>1, <1>2, <1>3

(* The client hangs up or reads, the server crashes, or nothing happens. *)
LEMMA KeepEnvironment ==
  ASSUME IInv, TypeOK', 
         \/ \E r \in Requests : Disconnect(r) \/ Receive(r)
         \/ CrashRestart
         \/ UNCHANGED vars
  PROVE  IInv'
<1> USE DEF IInv
<1>1. /\ UNCHANGED <<blob, row, op, user, file, meta, content, status, doomed>>
      /\ \A r \in Requests : pc'[r] = pc[r] \/ pc'[r] = "dead"
  BY DEF TypeOK, Disconnect, Receive, CrashRestart, InFlight, vars
<1>2. Published' = Published
  BY <1>1 DEF Published
<1>3. ProgressInv'
  BY <1>1 DEF ProgressInv, Uploading, Removing
<1>4. UploadInv'
  BY <1>1, <1>2 DEF UploadInv, Uploading
<1>5. FileInv'
  BY <1>1, <1>2 DEF FileInv, Stored
<1>6. RemoveInv'
  BY <1>1, <1>2 DEF RemoveInv, MayDelete, OnlyEntitledDelete, Gone, IsParty, Removing, Entitled
<1>7. QED
  BY <1>3, <1>4, <1>5, <1>6

LEMMA KeepStart == Init => IInv
  <1> SUFFICES ASSUME Init PROVE IInv
    OBVIOUS
  <1>1. Published = {}
    BY DEF Init, Published
  <1>2. QED
    BY <1>1, TypeInit DEF Init, IInv, ProgressInv, UploadInv, FileInv, RemoveInv,
       OnlyEntitledDelete, Uploading, Removing, Entitled

LEMMA KeepStep == IInv /\ [Next]_vars => IInv'
<1> SUFFICES ASSUME IInv, [Next]_vars PROVE IInv'
  OBVIOUS
<1>1. TypeOK'
  BY TypeStep DEF IInv
<1>2. ASSUME NEW r \in Requests, Arrive(r) PROVE IInv'
  BY <1>1, <1>2, KeepArrive
<1>3. ASSUME NEW r \in Requests, BlobSaveBegin(r) PROVE IInv'
  BY <1>1, <1>3, KeepBlobSaveBegin
<1>4. ASSUME NEW r \in Requests, BlobSaveEnd(r) PROVE IInv'
  BY <1>1, <1>4, KeepBlobSaveEnd
<1>5. ASSUME NEW r \in Requests, BlobSaveFails(r) PROVE IInv'
  BY <1>1, <1>5, KeepBlobSaveFails
<1>6. ASSUME NEW r \in Requests, CreateFileFails(r) PROVE IInv'
  BY <1>1, <1>6, KeepCreateFileFails
<1>7. ASSUME NEW r \in Requests, LookupMisses(r) PROVE IInv'
  BY <1>1, <1>7, KeepLookupMisses
<1>8. ASSUME NEW r \in Requests, LookupForDownload(r) PROVE IInv'
  BY <1>1, <1>8, KeepLookupForDownload
<1>9. ASSUME NEW r \in Requests, LookupForDelete(r) PROVE IInv'
  BY <1>1, <1>9, KeepLookupForDelete
<1>10. ASSUME NEW r \in Requests, GetFileContent(r) PROVE IInv'
  BY <1>1, <1>10, KeepGetFileContent
<1>11. ASSUME NEW r \in Requests, GetFileContentFails(r) PROVE IInv'
  BY <1>1, <1>11, KeepGetFileContentFails
<1>12. ASSUME NEW r \in Requests, EncodeResponse(r) PROVE IInv'
  BY <1>1, <1>12, KeepEncodeResponse
<1>13. ASSUME NEW r \in Requests, EncodeFails(r) PROVE IInv'
  BY <1>1, <1>13, KeepEncodeFails
<1>14. ASSUME NEW r \in Requests, DeleteBlob(r) PROVE IInv'
  BY <1>1, <1>14, KeepDeleteBlob
<1>15. ASSUME NEW r \in Requests, DeleteBlobFails(r) PROVE IInv'
  BY <1>1, <1>15, KeepDeleteBlobFails
<1>16. ASSUME NEW r \in Requests, DeleteRow(r) PROVE IInv'
  BY <1>1, <1>16, KeepDeleteRow
<1>17. ASSUME NEW r \in Requests, DeleteRowFails(r) PROVE IInv'
  BY <1>1, <1>17, KeepDeleteRowFails
<1>18. ASSUME NEW r \in Requests, CreateFile(r) PROVE IInv'
  BY <1>1, <1>18, KeepCreateFile
<1>19. CASE (\E r \in Requests : Disconnect(r) \/ Receive(r)) \/ CrashRestart \/ UNCHANGED vars
  BY <1>1, <1>19, KeepEnvironment
<1>20. QED
  BY <1>2, <1>3, <1>4, <1>5, <1>6, <1>7, <1>8, <1>9, <1>10, <1>11, <1>12, <1>13, <1>14, <1>15, <1>16, <1>17, <1>18, <1>19
  DEF Next, Handle, Upload, Lookup, Download, Remove

(* The four parts of the invariant hold in every reachable state: where a  *)
(* handler is, whose id it has, how row and content hang together, and     *)
(* what entitles a deletion.                                               *)
THEOREM Invariance == Spec => []IInv
<1>1. QED
  BY KeepStart, KeepStep, PTL DEF Spec

-----------------------------------------------------------------------------
(* The safety properties.                                                  *)

(* For every download, from any interleaving with uploads, crashes and     *)
(* failed writes: the content read from the blob store is never partial.   *)
THEOREM NeverHalfWritten == Spec => []NoHalfWrittenDownload
<1>1. IInv => NoHalfWrittenDownload
  BY DEF IInv, ProgressInv, NoHalfWrittenDownload
<1>2. QED
  BY <1>1, Invariance, PTL

LEMMA PublishedFiles == IInv => Published \subseteq Files
  BY DEF IInv, TypeOK, ProgressInv, Published

(* A file whose upload was answered 201 can be looked up and read until    *)
(* Storage.DeleteFile is called for it.                                    *)
THEOREM Availability == Spec => []AvailableUntilDeleted
<1>1. IInv => AvailableUntilDeleted
  BY PublishedFiles DEF IInv, FileInv, AvailableUntilDeleted
<1>2. QED
  BY <1>1, Invariance, PTL

(* No order of deletions, crashes and failed calls removes the row of an   *)
(* uploaded file and leaves its content in the blob store.                 *)
THEOREM NoLeftovers == Spec => []NoContentWithoutRow
<1>1. IInv => NoContentWithoutRow
  BY PublishedFiles DEF IInv, FileInv, NoContentWithoutRow
<1>2. QED
  BY <1>1, Invariance, PTL

(* Storage.DeleteFile is called for a file only by a party's DELETE or by  *)
(* the download of an auto-delete file.                                    *)
THEOREM Entitlement == Spec => []OnlyEntitledDelete
<1>1. IInv => OnlyEntitledDelete
  BY DEF IInv, RemoveInv
<1>2. QED
  BY <1>1, Invariance, PTL

(* After a DELETE was answered 200 neither row nor content ever returns.   *)
THEOREM DeleteFinality == Spec => []AckedDeleteIsFinal
<1>1. IInv => AckedDeleteIsFinal
  BY DEF IInv, RemoveInv, Gone, AckedDeleteIsFinal
<1>2. QED
  BY <1>1, Invariance, PTL
=============================================================================
