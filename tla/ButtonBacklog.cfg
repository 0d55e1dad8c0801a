SPECIFICATION Spec
CONSTANTS
  hook = hook
  session = session
  button = button
  gkey = gkey
  Controller = controller
  NoWindow = NoWindow
  Keys = {button, gkey}
  Sources = {hook, session}
  SourceOf <- MCSourceOf
  Hooks = {hook}
  GKeys = {gkey}
  Bindings = {"longPress"}
  Windows = {}
  Kinds = {"down", "up"}
  Capacity = 2
  Threshold = 1
  MaxCalls = 4
  MaxNow = 1
PROPERTIES
  EarlyReleaseWins
