CONSTANTS
  Nil = Nil
  Procs = {p1, p2}
  Bundles = {b1}
  Legacy = {}
  Oversized = {}
  Limit = 1
  RegisterLimit = 2
  MaxFaults = 1
  MaxRevocations = 1
  MaxDecisions = 0
SPECIFICATION FairSpec
PROPERTIES EventuallyStored
CHECK_DEADLOCK FALSE
