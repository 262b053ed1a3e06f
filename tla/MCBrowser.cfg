SPECIFICATION MCSpec
CONSTANTS
  Sockets = {x1, x2, x3}
  Guest = x3
  Nobody = Nobody
  Limits = {1, 2, 3}
  MaxJoins = 3
  MaxRevokes = 1
  Tabs = {x1, x2}
  Accounts = {ann}
  NoAccount = NoAccount
  MaxPairs = 3
  Groups = {x1, x2}
  NoGroup = NoGroup
  MaxHappenings = 1
  MaxAsks = 2
  MaxNotes = 3
  Pages = {x1, x2}
  Browsers = {laptop, phone}
  Owners = {ann, bob}
  NoOwner = NoOwner
  MaxMade = 4
SYMMETRY BrowserSymmetry
CHECK_DEADLOCK FALSE
INVARIANTS
  SeatsWithinLimit
  CallersConnect
  SeatsAreUsed
  HostIsPresent
  PageRedeemsOnce
  StoredTokenIsGood
  
  EnabledBrowserIsToldOnce
PROPERTY
  LaterNotificationStays
