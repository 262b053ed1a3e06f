\* Two requests racing over two polls.
CONSTANTS
  Members = {leader}
  Leaders = {leader}
  Requests = {r1, r2}
  Sweepers = {}
  Timer = Timer
  Nobody = Nobody
  MaxPolls = 2
  Horizon = 1
  Hours = {1}
  SweepBatch = 1
  MaxFailures = 0
SPECIFICATION Spec
SYMMETRY RequestSymmetry
INVARIANTS
  ClosingRecordTruthful
  NoOrphanVotes
PROPERTIES
  OverlapOnlyByRace
  ImplementsLifecycle
\* The clock stops at Horizon and no poll is left to open: the instance really may stop.
CHECK_DEADLOCK FALSE
