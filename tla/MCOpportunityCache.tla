-------------------------- MODULE MCOpportunityCache --------------------------
(***************************************************************************)
(* Model-checking instance of OpportunityCache.                            *)
(***************************************************************************)
EXTENDS OpportunityCache, TLC

CONSTANTS r1, r2, r3

ThreeRequests == {r1, r2, r3}

\* Requests are compared for equality only.
RequestSymmetry == Permutations(Requests)
==============================================================================
