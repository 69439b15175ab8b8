CONSTANTS
  None = None
  END = END
  Malformed = Malformed
  Strings <- MCStrings
  ErrorClasses <- MCErrorClasses
  Bases <- MCBases
  Classes <- MCClasses
  Mro <- MCMro
  Callables <- RunCallables
  FunctionName <- RunFunctionName
  InjectedRun = InjectedRun
  State = State
  Instance <- MCInstance
  Attributes <- RunAttributes
  StepOptions <- RunStepOptions
  WorkflowOptions <- MCWorkflowOptions
SPECIFICATION Spec
INVARIANT ReservedNameIsRejected
