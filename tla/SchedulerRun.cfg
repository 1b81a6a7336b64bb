SPECIFICATION FairSpec
CONSTANTS
  Tasks = {backup, compaction}
  Callers = {c1, c2}
  Workers = {w1, w2}
  OneOffs = {o1, o2}
  None = None
INVARIANTS TypeOK WorkersAreReachable OneOffsRunOnce
PROPERTY CancelReturns
