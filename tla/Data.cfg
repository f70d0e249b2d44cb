SPECIFICATION DataSpec
CONSTANTS
  None = None
  Missing = Missing
  MaxFieldChanges = 2
  Tokens = {0, 1, 3}
  ToolFunctions <- MCToolFunctions
  Annotations <- MCAnnotations
  JsonValues <- MCJsonValues
  Nesting = 4
  CallNames = {"add", "find"}
  ArgNames = {"p", "q"}
  MaxRegistrations = 2
  MaxUnusual = 2
  Values = {v1, v2}
  v1 = v1
  v2 = v2
  MaxPolicies = 2
  Threads = {t1}
  EventTypes = {e1, e2}
  RegisteredTypes = {e1}
  MaxGovernance = 3
SYMMETRY DataSymmetry
CHECK_DEADLOCK FALSE
INVARIANTS
  DataSurvivesTravel EachTokenAtItsRate DescriptionsAreKept RedactionHolds
  GovernanceHolds
