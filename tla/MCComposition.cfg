CONSTANTS
  None = None
  END = END
  Malformed = Malformed
  Strings <- MCStrings
  ErrorClasses <- MCErrorClasses
  Bases <- MCBases
  Workflows <- MCWorkflows
  HookCounts = {0, 1}
  Outputs = {None}
  Raised <- MCRaised
  Instances <- MCInstances
  ClassOf <- MCClassOf
  Handlers <- MCHandlers
  HookLists <- MCHookLists
  Calls <- MCCalls
  MaxRuns = 3
SPECIFICATION CSpec
INVARIANTS
  CTypeOK
  ChildrenRecordedOnce
  FailedChildHandled
  ControlsFollowTheContext
  StateIsOfAnAcceptedRun
PROPERTIES
  RootIsARun
