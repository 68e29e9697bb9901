--------------------------- MODULE MCFileService ---------------------------
(***************************************************************************)
(* Small instances of FileService for TLC.                                 *)
(***************************************************************************)
EXTENDS FileService, TLC

(* Requests, files and users are interchangeable: no action or property    *)
(* names one.  Used in the safety runs only; symmetry does not preserve    *)
(* liveness properties.                                                    *)
Symmetric ==
  Permutations(Requests) \cup Permutations(Files) \cup Permutations(Users)
=============================================================================
