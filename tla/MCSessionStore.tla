---------------------------- MODULE MCSessionStore ----------------------------
(***************************************************************************)
(* Model-checking instances of SessionStore.                               *)
(***************************************************************************)
EXTENDS SessionStore

CONSTANTS s1, s2, s3, i1, i2

\* As many ids as calls, so that a refresh never lacks one to mint.
MCManySessions == {s1, s2, s3}

MCInstances == {i1, i2}

MCSmallBudget == [b \in Buckets |-> IF b = "research" THEN 1 ELSE 0]

\* Ids are drawn in one order.  Nothing tells one id from another, so every
\* behaviour is one of these with its ids renamed; unlike a symmetry set this
\* keeps the liveness check sound.
DrawnInOrder == minted \in {{}, {s1}, {s1, s2}, {s1, s2, s3}}
==============================================================================
