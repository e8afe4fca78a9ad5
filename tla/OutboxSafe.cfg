CONSTANTS
  Nil = Nil
  Procs = {p1, p2}
  Bundles = {b1, b2, old}
  Legacy = {old}
  Oversized = {}
  Limit = 1
  RegisterLimit = 2
  MaxFaults = 1
  MaxRevocations = 0
  MaxDecisions = 1
SPECIFICATION Spec
SYMMETRY Symmetry
CHECK_DEADLOCK FALSE
INVARIANTS TypeOK NoRecordLost StoredOnce CompletedIsStored OptOutStopsFlush
