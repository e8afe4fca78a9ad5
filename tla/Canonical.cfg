CONSTANTS
  Nil = Nil
  States <- MCStates
  Ids <- MCStates
  Actions <- MCActions
  Grammars <- MCGrammars
  InitialStates <- MCInitialStates
  EnabledActions <- MCEnabledActions
  ApplyAction <- MCApplyAction
  TerminalStates <- MCTerminalStates
  Canon <- MCCanon
  Rank <- Alphabetical
  Key <- Alphabetical
  Text <- Reversed
  Footprint <- MCFootprint
  Native <- MCNative
  PorPolicy <- MCPorPolicy
  NodeBudget <- MCNodeBudget
  WorkBudget <- MCWorkBudget
  Learned <- MCLearned
  SaveOnCompletion = TRUE
  MaxStops <- MCMaxStops
  MaxCrashes <- MCMaxCrashes
SPECIFICATION Spec
INVARIANTS TypeOK FrontierOwned TerminalsExact DependencyTerminalsExact PathsLead DepthIsDistance ResumeAccepted BudgetSpentForGood
PROPERTY RunEnds
