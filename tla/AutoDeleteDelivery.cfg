\* What a comment in handler.go says of auto-delete.
SPECIFICATION Spec
CONSTANTS
  Users = {u1, u2}
  Requests = {r1, r2}
  Files = {f1}
  StorageType = "local"
  Faults = {}
  None = None
INVARIANT
  AutoDeletedWasDelivered
CHECK_DEADLOCK FALSE
