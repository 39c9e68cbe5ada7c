----------------------------- MODULE MCRequestGate -----------------------------
(***************************************************************************)
(* Model-checking instances of RequestGate.                                *)
(***************************************************************************)
EXTENDS RequestGate, TLC

CONSTANTS r1, r2, r3

TwoRequests == {r1, r2}
ThreeRequests == {r1, r2, r3}

\* Requests are compared for equality only.
RequestSymmetry == Permutations(Requests)
==============================================================================
