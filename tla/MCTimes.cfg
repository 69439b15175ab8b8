CONSTANTS
  None = None
  END = END
  Malformed = Malformed
  Strings <- MCStrings
  ErrorClasses <- MCErrorClasses
  Bases <- MCBases
  Workflows <- MCWorkflows
  HookCounts = {1}
  Outputs = {"yes"}
  Raised = {"RuntimeError"}
  TicksPerMs = 2
  Short = {2}
  MaxClock = 4
SPECIFICATION TSpec
INVARIANTS
  DurationsAgree
  VisitsLieInTheRun
