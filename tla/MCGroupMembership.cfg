\* A leader and two members, one of them with a socket, and three requests at once.
CONSTANTS
  Users = {leader, ann, bob}
  Founder = leader
  Joined = {ann, bob}
  Connected = {ann}
  Requests = {r1, r2, r3}
  None = None
SYMMETRY MembershipSymmetry
SPECIFICATION Spec
INVARIANTS
  TypeOK
  KickedAreOut
PROPERTY
  LastLeaderLostOnlyByRace
\* Every request is made once: the instance stops when all have ended.
CHECK_DEADLOCK FALSE
