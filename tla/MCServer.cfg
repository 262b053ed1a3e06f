SPECIFICATION MCSpec
CONSTANTS
  Ideas = {i1, i2}
  Polls = {p1, p2}
  Writers = {r1, r2}
  NoIdea = NoIdea
  People = {ann, bob}
  Leader = ann
  Changes = {r1, r2, r3}
  Nobody = Nobody
  Syncs = {sync}
  Sweeps = {sweep}
  Events = {e1}
  MaxChanges = 1
  MaxGrants = 2
  MaxNow = 2
  Entries = {r1, r2}
  MaxAttempts = 2
  MaxSends = 2
  MaxCodes = 2
CHECK_DEADLOCK FALSE
INVARIANTS
  BegunIdeasSelected
  BegunOnce
  OffersAreHonoured
  HistoryAccountsForTask
  HistoryChains
  CursorNeverAhead
  MirrorGoesWithConnection
  ExpiredOnlyIfRefused
  MaintenanceStaysEnded
  DigestOncePerDay
  WrongGuessesBounded
