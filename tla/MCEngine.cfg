SPECIFICATION Spec
CONSTANTS
  Absent = Absent
  Predicates = {encrypted}
  Classes <- MCClasses
  Policies <- MCPolicies
  Components <- MCComponents
  Requests <- MCRequests
  Declarations <- MCDeclarations
  Overheads = {1}
  MaxLength = 2
  FailureDomains = {"a", "b"}
  Ppm = 10
  MaxEpoch = 2
  MaxTime = 3
  MaxChanges = 1
INVARIANTS
  
  RelaxationIsReported
  VerdictIsExplained
PROPERTIES
  WorseningNeverHelps
  BlameIsRight
\* Stops when the changes are used up.
CHECK_DEADLOCK FALSE
