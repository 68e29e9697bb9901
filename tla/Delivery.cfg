\* One file, with or without auto-delete, for a recipient who may draw new keys.
\* No symmetry: StoreAndForward is a liveness property.
SPECIFICATION FairSpec
CONSTANTS
  Users = {u1, u2}
  Senders = {u1}
  Recipients = {u2}
  Rekeying = {u2}
  Files = {f1}
  MaxKeys = 2
  MaxFaults = 1
  None = None
INVARIANTS
  TypeOK
  OnlyAddresseeReads
  ReadableUnlessRekeyed
  SendReportsTruth
  NothingLost
PROPERTY
  StoreAndForward
\* A sender may have nothing more to do.
CHECK_DEADLOCK FALSE
