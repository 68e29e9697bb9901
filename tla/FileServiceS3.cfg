\* The S3 blob store, where a failed call may still have taken effect; every
\* storage call may fail.
SPECIFICATION Spec
CONSTANTS
  Users = {u1, u2}
  Requests = {r1, r2, r3}
  Files = {f1}
  StorageType = "s3"
  Faults = {"db", "blob"}
  None = None
SYMMETRY Symmetric
INVARIANTS
  TypeOK
  AvailableUntilDeleted
  NoContentWithoutRow
  OnlyEntitledDelete
  AckedDeleteIsFinal
PROPERTY
  ImplementsMailbox
\* Every request ends and there are finitely many.
CHECK_DEADLOCK FALSE
