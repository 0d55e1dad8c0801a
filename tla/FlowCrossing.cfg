SPECIFICATION Spec
CONSTANTS
  Hosts = {a, b}
  Devices = {m, t}
  Pointing = {m, t}
  ArmTimeout = 3
  MaxArmTimeout = 3
  NetworkSlack = 1
  CompletedLimit = 1
  MaxTransfers = 2
  MaxFaults = 0
INVARIANTS ReportIsHonest CursorPlacedOnce SenderOutwaitsReceiver
PROPERTIES WriteStartsInWindow
CHECK_DEADLOCK FALSE
SYMMETRY HostAndDeviceSymmetry
