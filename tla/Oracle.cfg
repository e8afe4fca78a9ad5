SPECIFICATION FairSpec
CONSTANTS
  Roots = {r1, r2}
  Nil = Nil
  Clients = {"score", "decide", "propose"}
  Misbehaviour = {"die", "hang", "slow", "garbage", "null", "half"}
  MaxFaults = 3
  Large = TRUE
INVARIANTS AnsweredInTurn
PROPERTIES CallEnds GuidedAgain
CHECK_DEADLOCK FALSE
