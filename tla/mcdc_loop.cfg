CONSTANTS
  Decision <- MCDecision
  Size <- MCSize
  Instance <- MCInstance
  Evaluation <- MCEvaluation
  Feasible <- MCFeasible
  Paths <- MCPaths
  MaxOther = 2
SPECIFICATION Spec
INVARIANT ReportTrue
INVARIANT TestSetIsMinimal
PROPERTY EveryConditionShown
