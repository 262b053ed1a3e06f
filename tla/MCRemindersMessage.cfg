\* A scan that is interrupted, a new due date, and the scan that follows.
CONSTANTS
  Users = {ann}
  Admins = {}
  Scanners = {s1}
  Workers = {w1}
  Deadlines = {0, 2}
  LastHour <- Clocks
  Attempts = 2
  MaxStalls = 1
  MaxEdits = 1
  None = None
SPECIFICATION Spec
INVARIANTS
  MessageNamesDueDate
CHECK_DEADLOCK FALSE
