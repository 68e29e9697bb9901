\* Invocations overlap, fail to save and are killed.
SPECIFICATION Spec
CONSTANTS
  Users = {u1, u2}
  Procs = {p1, p2, p3}
  Book = {u1, u2}
  Own = {u1}
  MaxRunning = 3
  SaveFaults = TRUE
  None = None
SYMMETRY Symmetric
INVARIANTS
  TypeOK
  KeysKept
  RegistersHeldOrEnteredKey
  IndexIsOfListShown
\* Every invocation ends and there are finitely many.
CHECK_DEADLOCK FALSE
