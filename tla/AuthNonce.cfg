\* What storage.go says of the nonce: one-time use.
SPECIFICATION Spec
CONSTANTS
  Users = {u1}
  Keys = {k1}
  Requests = {r1, r2, r3}
  Lifetime = 1
  MaxTime = 0
  Routes = "mux"
  Guesses = {}
  DBFaults = FALSE
  None = None
INVARIANT
  NonceUsedOnce
CHECK_DEADLOCK FALSE
