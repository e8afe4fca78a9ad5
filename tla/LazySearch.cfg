SPECIFICATION FairSpec
CONSTANTS
  LazyStates <- MCLazyStates
  Identities <- MCIdentities
  Classes <- MCClasses
  Grammars <- MCGrammars
  Modes = {"guided", "exhaustive", "live"}
  Reserved = {"b"}
  NodeBudget <- MCNodeBudget
  WorkBudget <- MCWorkBudget
  Deadline = TRUE
  Nil = Nil
INVARIANTS Lineage LazyExact ExhaustiveIsWhole
PROPERTIES GraphSpec LazyEnds
CHECK_DEADLOCK FALSE
