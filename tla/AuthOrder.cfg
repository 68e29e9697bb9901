\* Statements do not fail unasked; clients may go and the server may crash.
SPECIFICATION Spec
CONSTANTS
  Users = {u1}
  Keys = {k1, k2}
  Requests = {r1, r2, r3, r4}
  Lifetime = 1
  MaxTime = 2
  Routes = "mux"
  Guesses = {None}
  DBFaults = FALSE
  None = None
SYMMETRY Symmetric
INVARIANTS
  SessionHoldsRegisteredKey
  SpentNonceIsRefused
  RefusedOnlyIfDisturbed
PROPERTY
  ImplementsAccounts
\* Every request ends and there are finitely many.
CHECK_DEADLOCK FALSE
