CONSTANTS
  Nil = Nil
  Procs = {p1, p2}
  Interval = 2
  MaxTime = 3
  MaxDecisions = 2
SPECIFICATION Spec
CHECK_DEADLOCK FALSE
INVARIANTS NoInventedConsent
PROPERTIES ReviewsSpaced
