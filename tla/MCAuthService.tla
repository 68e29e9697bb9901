--------------------------- MODULE MCAuthService ---------------------------
(***************************************************************************)
(* Small instances of AuthService for TLC.                                 *)
(***************************************************************************)
EXTENDS AuthService, TLC

(* No action or property names a particular request, user or key. *)
Symmetric ==
  Permutations(Requests) \cup Permutations(Users) \cup Permutations(Keys)
=============================================================================
