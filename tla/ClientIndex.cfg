\* One command after the other, by two users who share a config file.
SPECIFICATION Spec
CONSTANTS
  Users = {u1, u2}
  Procs = {p1, p2, p3, p4}
  Book = {}
  Own = {u1, u2}
  MaxRunning = 1
  SaveFaults = FALSE
  None = None
SYMMETRY Symmetric
INVARIANT
  IndexIsForCurrentUser
\* Every invocation ends and there are finitely many.
CHECK_DEADLOCK FALSE
