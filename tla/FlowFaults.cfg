SPECIFICATION FairSpec
CONSTANTS
  Hosts = {a, b}
  Devices = {m, t}
  Pointing = {m, t}
  ArmTimeout = 2
  MaxArmTimeout = 2
  NetworkSlack = 1
  CompletedLimit = 1
  MaxTransfers = 1
  MaxFaults = 1
INVARIANTS NoCancelAfterWrite
PROPERTIES ArmedOnce TransfersEnd
CHECK_DEADLOCK FALSE
