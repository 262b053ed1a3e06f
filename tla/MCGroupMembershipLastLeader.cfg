\* Two members and a leader, nobody with a socket: leaving and deleting an account.
CONSTANTS
  Users = {leader, ann, bob}
  Founder = leader
  Joined = {ann, bob}
  Connected = {}
  Requests = {r1, r2, r3}
  None = None
SYMMETRY MembershipSymmetry
SPECIFICATION Spec
PROPERTY
  LeavingKeepsALeader
\* Every request is made once: the instance stops when all have ended.
CHECK_DEADLOCK FALSE
