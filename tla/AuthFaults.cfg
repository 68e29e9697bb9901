\* The routes of Handler.ServeHTTP; any statement may fail; sessions expire.
SPECIFICATION Spec
CONSTANTS
  Users = {u1, u2}
  Keys = {k1}
  Requests = {r1, r2, r3, r4}
  Lifetime = 1
  MaxTime = 2
  Routes = "handler"
  Guesses = {}
  DBFaults = TRUE
  None = None
SYMMETRY Symmetric
INVARIANT
  TypeOK
PROPERTIES
  ExpiredStaysExpired
  OnlyOwnAccountDeleted
  ImplementsAccounts
\* Every request ends and there are finitely many.
CHECK_DEADLOCK FALSE
