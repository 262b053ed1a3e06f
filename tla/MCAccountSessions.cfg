\* Three requests of any kind, against the account's status, password and tokens; and four around
\* refresh tokens: two sessions, replays, a logout in between.
CONSTANTS
  Requests = {r1, r2, r3, r4}
  None = None
  Ops = {"login", "refresh", "request", "logout", "changePassword", "deleteMyAccount", "forgot", "resetPassword", "adminUpdateUser", "adminArchiveUser", "adminRestoreUser"}
  MaxAttempts = 1
SPECIFICATION Spec
SYMMETRY RequestSymmetry
CONSTRAINT FewOrAboutTokens
INVARIANTS
  TypeOK
  NoSessionOutlivesItsPassword
  RestoringRevivesNothing
  RedeemedOnce
  ReplaysAreReal
PROPERTY EndedStaysEnded
\* Every request is made once: the instance stops when all have ended.
CHECK_DEADLOCK FALSE
