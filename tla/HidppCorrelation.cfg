SPECIFICATION FairSpec
CONSTANTS
  first = first
  again = again
  differs = differs
  NoReply = NoReply
  Keys = {"k1"}
  Bodies = {"b1", "b2"}
  KeyOf <- MCKeyOf
  BodyOf <- MCBodyOf
  Requests = {first, again, differs}
  Adopting = {again}
  WriteThrough = {differs}
  Grace = 1
INVARIANTS
  TypeOK
  OneHolderPerKey
  RepliesAreOwed
  NoMisattributedReply
PROPERTIES
  ParkedRegisters
