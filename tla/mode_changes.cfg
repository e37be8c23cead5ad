SPECIFICATION FairSpec
CONSTANTS
  op1 = op1  op2 = op2  op3 = op3
  Operations = {op1, op2, op3}
  AllowedModes <- OneOfEachKind
  InitialMode = 0
  None = None
INVARIANTS
  CountersMatch
  RunsInAllowedMode
PROPERTIES
  DrainOnlyShrinks
  ImplementsGate
  WaiterReturns
