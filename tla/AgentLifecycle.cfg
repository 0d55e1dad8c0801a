SPECIFICATION FairSpec
CONSTANTS
  Managers = {g, k}
  LaunchAtLogin = FALSE
  GoneTicks = 2
  MaxUpdates = 1
  MaxLogins = 2
  MaxFaults = 1
INVARIANTS SuccessorIsWhole
PROPERTIES ArmsAsWished ReplacementOwesNothing FleetsDoNotOverlap ChangeIsHeeded
