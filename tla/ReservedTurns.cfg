SPECIFICATION FairSpec
CONSTANT MaxTickets = 4
INVARIANTS
  FinishedIsExact
  StrictOrder
PROPERTIES
  ImplementsLine
