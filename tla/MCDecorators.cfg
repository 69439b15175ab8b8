CONSTANTS
  None = None
  END = END
  Malformed = Malformed
  Strings <- MCStrings
  ErrorClasses <- MCErrorClasses
  Bases <- MCBases
  Classes <- MCClasses
  Mro <- MCMro
  Callables <- MCCallables
  FunctionName <- MCFunctionName
  InjectedRun = InjectedRun
  State = State
  Instance <- MCInstance
  Attributes <- MCAttributes
  StepOptions <- MCStepOptions
  WorkflowOptions <- MCWorkflowOptions
SPECIFICATION Spec
INVARIANTS
  TypeOK
  EachFunctionIsOneStep
  StepsKeepTheirPlaces
  StepsRunTheirFunctions
