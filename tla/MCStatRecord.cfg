CONSTANTS
  NULL = NULL
  GenericFlows <- MCGenericFlows
  CntFlows <- MCCntFlows
  NeverSeen = 100
CONSTRAINT FlowBound
INIT Init
NEXT Next
INVARIANTS UpdateOrderIndependent StatMatchesSpec
