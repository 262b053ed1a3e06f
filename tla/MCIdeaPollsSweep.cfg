\* The timer sweep against one request, with a failure half-way: liveness.
CONSTANTS
  Members = {leader, member}
  Leaders = {leader}
  Requests = {r1}
  Sweepers = {s1}
  Timer = Timer
  Nobody = Nobody
  MaxPolls = 2
  Horizon = 1
  Hours = {1}
  SweepBatch = 1
  MaxFailures = 1
SPECIFICATION FairSpec
INVARIANT TypeOK
PROPERTIES
  DuePollsGetSettled
  GroupHearsOfClose
\* The clock stops at Horizon and no poll is left to open: the instance really may stop.
CHECK_DEADLOCK FALSE
