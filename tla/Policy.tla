-------------------------------- MODULE Policy --------------------------------
(***************************************************************************)
(* The policy an operator validates a compiled answer against              *)
(* (services/policy.ts): what is read off each row, and the rules on       *)
(* protocol weight, ALGO reserve, borrows and eligibility.  The rules on   *)
(* value locked, freshness and readiness compare a field with a bound, as  *)
(* the compiler did with the same field, and are left out.                 *)
(***************************************************************************)
EXTENDS RebalanceGraph

(***************************************************************************)
(* A row that is judged: protocol, weight, amount, asset (each of the last *)
(* three may be None), borrow, and the eligibility it carries: canEnter    *)
(* and checkable, both TRUE for a row without one.                         *)
(***************************************************************************)
SubjectFromAllocation(row, allocation, asset) ==
  [protocol |-> row.protocol, weight |-> allocation.weight,
   amount |-> allocation.amount, asset |-> asset,
   borrow |-> \E i \in DOMAIN allocation.chain : allocation.chain[i].borrow,
   canEnter |-> row.canEnter, checkable |-> row.checkable]

\* The amount of a step is read from input.amount or input.assetAAmount, not from the
\* other fields a shape may ask it in; its asset from whichever of assetId,
\* depositAssetId and assetAId its input has.  No step of the compiler carries
\* allocatedAmount or allocatedAssetId, which would come first.
SubjectFromStep(step) ==
  [protocol |-> step.protocol, weight |-> None,
   amount |-> IF step.field \in {"amount", "assetAAmount"} THEN step.amount ELSE None,
   asset |-> IF step.named THEN step.asset ELSE None,
   borrow |-> step.borrow, canEnter |-> TRUE, checkable |-> TRUE]

\* Swaps and opt-ins are not judged.
SubjectsFromSteps(steps) ==
  LET judged == Filter(steps, LAMBDA s : s.kind \in {"enter", "setup", "claim", "exit"})
  IN  [i \in DOMAIN judged |-> SubjectFromStep(judged[i])]

-----------------------------------------------------------------------------
AllHave(subjects, f(_)) == \A s \in Members(subjects) : f(s) # None
Of(subjects, protocol) == Filter(subjects, LAMBDA s : s.protocol = protocol)

\* Bug: the amounts are looked at although weights were allocated.
WeightByAmount(subjects, protocol) ==
  LET amount(s) == s.amount
  IN  (SumOver(Of(subjects, protocol), amount) * Bps) \div SumOver(subjects, amount)

\* deriveProtocolWeights: the weights that were allocated, else shares of the
\* amounts, whatever assets they are in.
ProtocolWeight(subjects, protocol) ==
  LET amount(s) == s.amount
  IN  IF AllHave(subjects, LAMBDA s : s.weight)
      THEN SumOver(Of(subjects, protocol), LAMBDA s : s.weight)
      ELSE (SumOver(Of(subjects, protocol), amount) * Bps) \div SumOver(subjects, amount)

Derivable(subjects) ==
  \/ AllHave(subjects, LAMBDA s : s.weight)
  \/ AllHave(subjects, LAMBDA s : s.amount) /\ SumOver(subjects, LAMBDA s : s.amount) > 0

WeightReasons(policy, subjects) ==
  LET placed == Filter(subjects, LAMBDA s : s.protocol # None)
  IN  IF policy.cap = None THEN {}
      ELSE (IF placed = subjects THEN {} ELSE {"missing-protocol"})
        \cup (IF placed = <<>> THEN {}
              ELSE IF ~Derivable(placed) THEN {"missing-weight"}
              ELSE {"protocol-weight" : s \in {s \in Members(placed) :
                      ProtocolWeight(placed, s.protocol) > policy.cap}})

AlgoOut(subjects) ==
  SumOver(Filter(subjects, LAMBDA s : s.amount # None /\ s.asset = Algo),
          LAMBDA s : s.amount)

\* Bug: fees are forgotten.
ReserveBeforeFees(policy, subjects, fee) ==
  IF policy.floor # None /\ policy.wallet - AlgoOut(subjects) < policy.floor
  THEN {"below-reserve"} ELSE {}

\* evaluateReserve: ALGO that goes out according to the rows, and the fees.
ReserveReasons(policy, subjects, fee) ==
  LET spending == Filter(subjects, LAMBDA s : s.amount # None)
  IN  IF policy.floor = None THEN {}
      ELSE IF ~AllHave(spending, LAMBDA s : s.asset) THEN {"missing-reserve"}
      ELSE IF policy.wallet - AlgoOut(subjects) - fee < policy.floor THEN {"below-reserve"}
      ELSE {}

Reasons(policy, subjects, fee) ==
  IF subjects = <<>> THEN {"empty-subject"}
  ELSE WeightReasons(policy, subjects) \cup ReserveReasons(policy, subjects, fee)
    \cup {"new-borrow" : s \in {s \in Members(subjects) : policy.noNewBorrows /\ s.borrow}}
    \cup {"blocked-eligibility" : s \in {s \in Members(subjects) : ~s.canEnter}}
    \cup {"eligibility-not-fully-checkable" : s \in {s \in Members(subjects) : ~s.checkable}}

Pass(policy, subjects, fee) == Reasons(policy, subjects, fee) = {}
==============================================================================
