SPECIFICATION FairSpec
CONSTANTS
  hook = hook
  session = session
  button = button
  gkey = gkey
  Controller = controller
  NoWindow = NoWindow
  Keys = {button}
  Sources = {hook}
  SourceOf <- MCSourceOf
  Hooks = {hook}
  GKeys = {}
  Bindings = {"longPress"}
  Windows = {}
  Kinds = {"down", "up", "invalidate"}
  Capacity = 1
  Threshold = 1
  MaxCalls = 3
  MaxNow = 1
INVARIANTS
  Balanced
  ExitEndsAll
PROPERTIES
  ReleaseEnds
  ThresholdSettles
  ShutdownServed
