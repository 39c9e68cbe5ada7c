------------------------- MODULE MCOpportunityHistory -------------------------
(***************************************************************************)
(* Model-checking instance of OpportunityHistory.                          *)
(***************************************************************************)
EXTENDS OpportunityHistory

CONSTANTS r1, r2

TwoRequests == {r1, r2}
==============================================================================
