----------------------------- MODULE MCWatchStore -----------------------------
(***************************************************************************)
(* Model-checking instances of WatchStore.                                 *)
(***************************************************************************)
EXTENDS WatchStore, TLC

CONSTANTS w1, c1, c2, p1, p2

OneWatch == {w1}
OneClient == {c1}
TwoClients == {c1, c2}
OnePoller == {p1}
TwoPollers == {p1, p2}

\* Clients and pollers are compared for equality only.
ProcessSymmetry == Permutations(Clients) \cup Permutations(Pollers)
==============================================================================
