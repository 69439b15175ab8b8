CONSTANTS
  None = None
  END = END
  Malformed = Malformed
  Strings <- MCStrings
  ErrorClasses <- MCErrorClasses
  Bases <- MCBases
  Classes <- MCClasses
  Mro <- MCMro
  Callables <- StateCallables
  FunctionName <- StateFunctionName
  InjectedRun = InjectedRun
  State = State
  Instance <- MCInstance
  Attributes <- StateAttributes
  StepOptions <- StateStepOptions
  WorkflowOptions <- MCWorkflowOptions
SPECIFICATION Spec
INVARIANT StepMethodsAreBound
