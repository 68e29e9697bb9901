--------------------------- MODULE MCClientConfig ---------------------------
(***************************************************************************)
(* Instances of ClientConfig for TLC.                                      *)
(***************************************************************************)
EXTENDS ClientConfig, TLC

(* Invocations are interchangeable; the users of an instance are not, for  *)
(* its sets of names tell them apart.                                      *)
Symmetric == Permutations(Procs)
=============================================================================
