SPECIFICATION Spec
CONSTANTS
  first = first
  again = again
  differs = differs
  NoReply = NoReply
  Keys = {"k1"}
  Bodies = {"b1", "b2"}
  KeyOf <- MCKeyOf
  BodyOf <- MCBodyOf
  Requests = {first, again, differs}
  Adopting = {}
  WriteThrough = {}
  Grace = 1
PROPERTIES
  WindowReplyDiscarded
