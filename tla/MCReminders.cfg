\* A task in one slot or a project on one day, with scans and deliveries that overlap.
CONSTANTS
  Users = {ann}
  Admins = {}
  Scanners = {s1, s2}
  Workers = {w1, w2}
  Deadlines = {0, 2}
  LastHour <- Clocks
  Attempts = 2
  MaxStalls = 1
  MaxEdits = 1
  None = None
SPECIFICATION Spec
SYMMETRY ReminderSymmetry
INVARIANTS
  TypeOK
  ToldOnceUnlessRetried
  RemindersAreTrue
CHECK_DEADLOCK FALSE
