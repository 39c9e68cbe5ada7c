CONSTANTS
  Requests <- MCRequests
  Outputs = {7}
  Protocols = {P, Q}
  P = P
  Q = Q
  Algo = Algo
  U = U
  V = V
  None = None
  setupKey = setupKey
  enterKey = enterKey
  borrowKey = borrowKey
  SwapKey = SwapKey
  OptInKey = OptInKey
  Fee = 1
  Bps = 10
SPECIFICATION Spec
INVARIANTS
  GroupsRunInOrder
  SpendWithinBudget
  ProtocolWithinCap
  RebalanceIsADelta
  CurrentWeightsAddUp
  PlanPassesItsPolicy
  ReserveIsKept
CHECK_DEADLOCK FALSE
