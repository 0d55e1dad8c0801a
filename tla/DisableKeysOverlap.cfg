SPECIFICATION Spec
CONSTANTS
  Masks = {m1, m2}
  Unset = Unset
  Absent = Absent
  Jobs = {j1, j2}
  MaxNumber = 2
  Retries = 1
INVARIANTS
  AcceptedStays
