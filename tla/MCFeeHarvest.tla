----------------------------- MODULE MCFeeHarvest -----------------------------
(***************************************************************************)
(* A model-checking instance of FeeHarvest.  A harvest by hand is to the   *)
(* job what a sweep is, or another instance whose turn came after the lock *)
(* ran out, so that none is needed.                                        *)
(***************************************************************************)
EXTENDS FeeHarvest

CONSTANTS i1, i2, s1

TwoInstances == {i1, i2}
OneSweep == {s1}
==============================================================================
