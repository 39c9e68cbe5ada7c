---------------------------- MODULE PrepaidCredit ----------------------------
(***************************************************************************)
(* What a prepaid session promises, whatever keeps it: a grant sets a      *)
(* session's credit to the configured budget (it does not add to it), a    *)
(* call takes one unit out of one bucket and only if there is one, and a   *)
(* session that runs out of time loses what is left.  SessionStore is      *)
(* shown to implement this module.                                         *)
(***************************************************************************)
EXTENDS Integers

CONSTANTS
  Sessions,       \* session ids ("csess_...")
  Buckets,        \* the two quota buckets
  Budget          \* units a grant puts in each bucket

VARIABLES
  credit,         \* units left, per session and bucket
  granted,        \* units ever granted
  spent           \* units ever taken

vars == <<credit, granted, spent>>

Ledger == [Sessions -> [Buckets -> Nat]]

TypeOK == credit \in Ledger /\ granted \in Ledger /\ spent \in Ledger

Init ==
  /\ credit = [s \in Sessions |-> [b \in Buckets |-> 0]]
  /\ granted = credit
  /\ spent = credit

\* A paid create or refresh: credit is reset to the budget.
Grant(s) ==
  /\ credit' = [credit EXCEPT ![s] = Budget]
  /\ granted' = [granted EXCEPT ![s] = [b \in Buckets |-> @[b] + Budget[b]]]
  /\ UNCHANGED spent

\* One unit of one bucket pays for one call.
Spend(s, b) ==
  /\ credit[s][b] > 0
  /\ credit' = [credit EXCEPT ![s][b] = @ - 1]
  /\ spent' = [spent EXCEPT ![s][b] = @ + 1]
  /\ UNCHANGED granted

\* The sessions of a set run out of time and forfeit their credit.
Lapse(S) ==
  /\ credit' = [s \in Sessions |->
                  IF s \in S THEN [b \in Buckets |-> 0] ELSE credit[s]]
  /\ UNCHANGED <<granted, spent>>

Next ==
  \/ \E s \in Sessions : Grant(s)
  \/ \E s \in Sessions, b \in Buckets : Spend(s, b)
  \/ \E S \in SUBSET Sessions : Lapse(S)

Spec == Init /\ [][Next]_vars

\* No session ever serves more units than it was granted, and what it still
\* holds is covered by grants as well.
NoOverspend ==
  \A s \in Sessions, b \in Buckets : spent[s][b] + credit[s][b] <= granted[s][b]
==============================================================================
