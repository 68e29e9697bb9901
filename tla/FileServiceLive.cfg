\* The local blob store, whose calls return without error; clients may hang up,
\* the server may crash.  No symmetry: DeletionCompletes is a liveness property.
SPECIFICATION FairSpec
CONSTANTS
  Users = {u1}
  Requests = {r1, r2, r3}
  Files = {f1}
  StorageType = "local"
  Faults = {}
  None = None
INVARIANT
  NoHalfWrittenDownload
PROPERTY
  DeletionCompletes
\* Every request ends and there are finitely many.
CHECK_DEADLOCK FALSE
