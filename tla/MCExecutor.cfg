CONSTANTS
  None = None
  END = END
  Malformed = Malformed
  Strings <- MCStrings
  ErrorClasses <- MCErrorClasses
  Bases <- MCBases
  Workflows <- MCWorkflows
  HookCounts = {2}
  Outputs <- MCOutputs
  Raised <- MCRaised
SPECIFICATION FairSpec
INVARIANTS
  TypeOK
  EventOrder
  MissedEventEndsTheRun
  ApprovalGuardsInvocation
  RetriesFollowPolicy
  ResultAccountsForTheRun
  TraceExplainsPath
  OutcomeConsistent
  BoundaryTellsTheOutcome
  ExceptionsBecomeResults
PROPERTIES
  NothingRunsAfterFailure
  EveryStepProgresses
  WalksTheGraph
  Terminates
