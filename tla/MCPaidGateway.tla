----------------------------- MODULE MCPaidGateway -----------------------------
(***************************************************************************)
(* Model-checking instances of PaidGateway.                                *)
(***************************************************************************)
EXTENDS PaidGateway, TLC

CONSTANTS r1, r2, r3, r4, p1, p2

TwoRequests == {r1, r2}
ThreeRequests == {r1, r2, r3}
FourRequests == {r1, r2, r3, r4}
OnePayment == {p1}
TwoPayments == {p1, p2}

\* Requests and payments are compared for equality only.
GatewaySymmetry == Permutations(Requests) \cup Permutations(Payments)
==============================================================================
