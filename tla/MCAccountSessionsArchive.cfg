\* An administrator archives an account while a failed login is locking it.
CONSTANTS
  Requests = {r1, r2, r3}
  None = None
  Ops = {"login", "forgot", "resetPassword", "adminArchiveUser"}
  MaxAttempts = 1
SPECIFICATION Spec
SYMMETRY RequestSymmetry
PROPERTY ArchivedUntilRestored
\* Every request is made once: the instance stops when all have ended.
CHECK_DEADLOCK FALSE
