\* A vote races a leader who closes the poll.
CONSTANTS
  Members = {leader, member}
  Leaders = {leader}
  Requests = {r1, r2}
  Sweepers = {}
  Timer = Timer
  Nobody = Nobody
  MaxPolls = 1
  Horizon = 1
  Hours = {1}
  SweepBatch = 1
  MaxFailures = 0
SPECIFICATION Spec
PROPERTY VotesRefusedOnClosedPoll
\* The clock stops at Horizon and no poll is left to open: the instance really may stop.
CHECK_DEADLOCK FALSE
