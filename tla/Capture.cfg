SPECIFICATION FairSpec
CONSTANTS
  Devices = {d1}
  Targets = {t1, t2}
  Dispatches = {p1, p2}
  NoPlan = NoPlan
  Exclusives = {x1}
  MaxChanges = 3
  MaxInputs = 1
INVARIANTS SoleOwner ReportsAreOwned OwedIsTracked GracefulStopIsNative
PROPERTIES FreshDispatch ExclusiveServed Converges StopCompletes
CHECK_DEADLOCK FALSE
