SPECIFICATION Spec
CONSTANTS
  hook = hook
  session = session
  button = button
  gkey = gkey
  Controller = controller
  NoWindow = NoWindow
  Keys = {button, gkey}
  Sources = {hook, session}
  SourceOf <- MCSourceOf
  Hooks = {hook}
  GKeys = {gkey}
  Bindings = {"gesture", "wheelHold"}
  Windows = {w1, w2}
  Kinds = {"down", "up", "pulse", "trigger", "wheel", "stale", "source", "gkeys", "hooks", "pointer"}
  Capacity = 3
  Threshold = 1
  MaxCalls = 3
  MaxNow = 0
INVARIANTS
  Balanced
PROPERTIES
  HoldFollowsPointer
SYMMETRY MCSymmetry
