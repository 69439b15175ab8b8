CONSTANTS
  None = None
  END = END
  Malformed = Malformed
  Strings <- MCStrings
  ErrorClasses <- MCErrorClasses
  Bases <- MCBases
  Workflows <- MCWorkflows
  HookCounts = {2}
  Outputs <- MCOutputs
  Raised <- MCRaised
SPECIFICATION Spec
INVARIANT SignaturesValidatedFirst
