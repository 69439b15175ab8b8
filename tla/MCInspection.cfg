CONSTANTS
  None = None
  END = END
  Malformed = Malformed
  Strings <- MCStrings
  ErrorClasses <- MCErrorClasses
  Bases <- MCBases
  Workflows <- MCWorkflows
  Spelling <- MCSpelling
SPECIFICATION ChartSpec
INVARIANTS
  GraphShowsEveryMove
  GraphIsAcyclic
  GraphIsClosed
  AcceptedIsRunnable
  NamesIdentifySteps
  LinesStayWhole
  LabelsStayInside
  ChartReadsBack
