----------------------------- MODULE MCWebSession -----------------------------
(***************************************************************************)
(* Two sessions of one unit a bucket that live two ticks, three buttons.   *)
(***************************************************************************)
EXTENDS WebSession

OneEach == [b \in Buckets |-> 1]
==============================================================================
