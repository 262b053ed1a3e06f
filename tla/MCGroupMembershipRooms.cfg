\* The same group and two requests; without symmetry, which a liveness property forbids.
CONSTANTS
  Users = {leader, ann, bob}
  Founder = leader
  Joined = {ann, bob}
  Connected = {ann}
  Requests = {r1, r2}
  None = None
SPECIFICATION Spec
PROPERTY
  KickedLeaveRoom
\* Every request is made once: the instance stops when all have ended.
CHECK_DEADLOCK FALSE
