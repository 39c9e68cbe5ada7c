SPECIFICATION Spec
CONSTANTS
  r1 = r1
  r2 = r2
  r3 = r3
  r4 = r4
  p1 = p1
  p2 = p2
  Requests <- FourRequests
  Payments <- TwoPayments
  DryRun = FALSE
  None = None
INVARIANTS ServedIsPaid ErrorsAreFree GatedWorkIsPaid
SYMMETRY GatewaySymmetry
CHECK_DEADLOCK FALSE
