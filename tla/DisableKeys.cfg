SPECIFICATION FairSpec
CONSTANTS
  Masks = {m1, m2}
  Unset = Unset
  Absent = Absent
  Jobs = {j1, j2}
  MaxNumber = 3
  Retries = 2
INVARIANTS
  AcceptedStaysInTurn
  ReadbackIsOwn
  PendingHasOwner
PROPERTIES
  NoStaleWrite
  RecoveryCompletes
