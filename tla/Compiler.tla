------------------------------- MODULE Compiler -------------------------------
(***************************************************************************)
(* POST /plans and /plans/rebalance: how an answer of unsigned groups      *)
(* comes about (services/plans.ts, rebalance.ts and compose.ts).           *)
(*                                                                         *)
(* A request becomes intents: one enter for a plan, those of               *)
(* RebalanceGraph for a rebalance.  An enter is sliced over the ranked     *)
(* markets, one market a step, and each slice is composed of a swap quote, *)
(* an opt-in, a swap and the shapes of the market, each of which an        *)
(* external service may refuse.  A step below is one such call.            *)
(***************************************************************************)
EXTENDS Policy

CONSTANTS
  Requests,    \* what may be asked, with the markets as they are ranked
  Outputs,     \* what a swap may be quoted to give
  Protocols,
  Fee,         \* of each group
  SwapKey, OptInKey   \* SWAP_SHAPE_KEY and SWAP_OPTIN_SHAPE_KEY

\* Requests that pass validateRequest, over markets as they are published.
RequestOK(r) ==
  /\ r.kind \in {"plan", "rebalance"} /\ (r.kind = "rebalance" => Book(r.book))
  /\ r.amount \in Nat /\ r.cap \in Nat
  /\ IsList(r.markets)
  /\ \A row \in Members(r.markets) :
       /\ row.protocol \in Protocols /\ IsList(row.chain)
       /\ \A s \in Members(row.chain) : s.kind \in {"setup", "enter"}

ASSUME CompilerAssumption ==
  Fee \in Nat /\ None \notin Protocols /\ \A r \in Requests : RequestOK(r)

\* A router quotes something or refuses: a quote of nothing fails the whole request
\* (applySlippageHaircut throws), which is left out.
ASSUME QuotesAssumption == Outputs \subseteq Nat \ {0}

VARIABLES
  req,         \* the request
  phase,       \* where it is
  todo,        \* intents not taken yet
  cands,       \* markets the enter under way may still be put in
  remaining,   \* its amount that is not sliced yet
  used,        \* usedBpsByProtocol of that enter
  slices,      \* slices not composed yet; the first one is under way
  keys,        \* its compiledKeys
  prereqs,     \* its swapPrereqs
  enter,       \* its enterAmount and enterAssetId, the swap quote, and swapCompiled
  legs,        \* its steps so far
  answer       \* groups of steps in order, and what was blocked

slicing == <<cands, remaining, used>>
composing == <<keys, prereqs, enter, legs>>
vars == <<req, phase, todo, slicing, slices, composing, answer>>

-----------------------------------------------------------------------------
(***************************************************************************)
(* Markets.  A market has protocol, opp, assetIds, chain, rejected (by the *)
(* rules on readiness, value locked or freshness), canEnter, checkable and *)
(* curable (nothing but what one swap into its asset brings is missing).   *)
(* A shape has key, kind, borrow, required, needs, known (its inputs) and  *)
(* how its input names amount (field) and asset (named).                   *)
(***************************************************************************)
\* selectEnterChain.
Chain(row) == Filter(row.chain, LAMBDA s : ~(req.noNewBorrows /\ s.borrow))
Required(row) == UNION {s.required : s \in Members(Chain(row))}

\* selectComposeTargetAsset.
SwapTarget(row) ==
  IF req.asset \notin Required(row) /\ \E a \in Required(row) : Required(row) = {a}
  THEN CHOOSE a \in Required(row) : TRUE ELSE None

\* composeCanUnblockEligibility.
CanCompose(row) == SwapTarget(row) # None /\ row.checkable /\ (row.canEnter \/ row.curable)

\* acceptsBudgetAsset, of plans and rebalances; POST /execution/compose does not ask it.
Fits(row) ==
  \/ SwapTarget(row) # None
  \/ req.asset \in (IF Required(row) = {} THEN row.assetIds ELSE Required(row))

\* constraintRejectReasons and eligibility.
Enterable(row) ==
  /\ ~row.rejected /\ Chain(row) # <<>> /\ Fits(row)
  /\ row.canEnter \/ CanCompose(row)

\* applySlippageHaircut.
Haircut(quoted) ==
  LET less == quoted - (quoted * req.slippage) \div Bps IN IF less > 0 THEN less ELSE quoted

-----------------------------------------------------------------------------
NoEnter == [asset |-> None, amount |-> 0, quoted |-> 0, swapped |-> FALSE]
NoAnswer == [groups |-> <<>>, blocked |-> {}]

Start(r) ==
  IF r.kind = "rebalance" THEN Deltas(r.book)
  ELSE <<Intent("enter", None, r.asset, r.amount, TRUE)>>

Init ==
  /\ req \in Requests
  /\ phase = "intents" /\ todo = Start(req)
  /\ cands = <<>> /\ remaining = 0 /\ used = [p \in Protocols |-> 0]
  /\ slices = <<>>
  /\ keys = {} /\ prereqs = {} /\ legs = <<>>
  /\ enter = NoEnter
  /\ answer = NoAnswer

Step(kind, status, key) ==
  [kind |-> kind, status |-> status, key |-> key, needs |-> {}, protocol |-> None,
   asset |-> None, amount |-> 0, field |-> "none", named |-> FALSE, borrow |-> FALSE]

GroupOf(market, amount, weight, steps) ==
  [market |-> market, amount |-> amount, weight |-> weight, steps |-> steps]

Append1(group) == answer' = [answer EXCEPT !.groups = Append(@, group)]

\* compileClaimStep, compileExitStep: compiled or refused; an exit may lack inputs.
CompileLeave ==
  /\ phase = "intents" /\ todo # <<>> /\ Head(todo).kind \in {"claim", "exit"}
  /\ \E status \in {"compiled", "blocked", "deferred"} :
       /\ status = "deferred" => Head(todo).kind = "exit"
       /\ LET i == Head(todo)
              step == [Step(i.kind, status, i.position) EXCEPT
                         !.protocol = i.protocol, !.asset = i.asset, !.amount = i.amount,
                         !.named = TRUE,
                         !.field = IF i.kind = "exit" THEN "amount" ELSE "none"]
          IN  Append1(GroupOf(None, i.amount, None, <<step>>))
  /\ todo' = Tail(todo)
  /\ UNCHANGED <<req, phase, slicing, slices, composing>>

\* An enter that waits for the proceeds of an exit.
DeferEnter ==
  /\ phase = "intents" /\ todo # <<>>
  /\ Head(todo).kind = "enter" /\ ~Head(todo).compileNow
  /\ Append1(GroupOf(None, 0, None, <<Step("enter", "deferred", None)>>))
  /\ todo' = Tail(todo)
  /\ UNCHANGED <<req, phase, slicing, slices, composing>>

\* The markets are ranked and judged; a pinned enter looks at its own only, which may
\* not be among them.
TakeEnter ==
  /\ phase = "intents" /\ todo # <<>>
  /\ Head(todo).kind = "enter" /\ Head(todo).compileNow
  /\ LET considered == Filter(req.markets, LAMBDA row :
                         Head(todo).opp \in {None, row.opp})
     IN  /\ cands' = Filter(considered, Enterable)
         /\ answer' = [answer EXCEPT !.blocked =
              @ \cup {row.opp : row \in {x \in Members(considered) : ~Enterable(x)}}
                \cup (IF considered = <<>> THEN {Head(todo).opp} \ {None} ELSE {})]
  /\ remaining' = Head(todo).amount
  /\ used' = [p \in Protocols |-> 0]
  /\ phase' = "slicing"
  /\ UNCHANGED <<req, todo, slices, composing>>

MaxSlices == IF Head(todo).opp # None THEN 1 ELSE req.maxAllocations

\* Bug: what other slices of the protocol took is forgotten.
SliceAlone ==
  /\ phase = "slicing" /\ cands # <<>> /\ Len(slices) < MaxSlices /\ remaining > 0
  /\ LET row == Head(cands)
         cap == (Head(todo).amount * req.cap) \div Bps
         amount == IF remaining < cap THEN remaining ELSE cap
         weight == (amount * Bps) \div Head(todo).amount
     IN  IF amount <= 0 THEN UNCHANGED <<slices, remaining, used>>
         ELSE /\ slices' = Append(slices, [market |-> row, amount |-> amount, weight |-> weight])
              /\ used' = [used EXCEPT ![row.protocol] = @ + weight]
              /\ remaining' = remaining - amount
  /\ cands' = Tail(cands)
  /\ UNCHANGED <<req, phase, todo, composing, answer>>

\* One round of allocateBudget.
Slice ==
  /\ phase = "slicing" /\ cands # <<>> /\ Len(slices) < MaxSlices /\ remaining > 0
  /\ LET row == Head(cands)
         room == req.cap - used[row.protocol]
         cap == (Head(todo).amount * room) \div Bps
         amount == IF remaining < cap THEN remaining ELSE cap
         weight == (amount * Bps) \div Head(todo).amount
     IN  IF room <= 0 \/ amount <= 0 THEN UNCHANGED <<slices, remaining, used>>
         ELSE /\ slices' = Append(slices, [market |-> row, amount |-> amount, weight |-> weight])
              /\ used' = [used EXCEPT ![row.protocol] = @ + weight]
              /\ remaining' = remaining - amount
  /\ cands' = Tail(cands)
  /\ UNCHANGED <<req, phase, todo, composing, answer>>

\* allocateBudget is over, and so is the enter if it has no slice.
EndSlicing ==
  /\ phase = "slicing"
  /\ cands = <<>> \/ Len(slices) >= MaxSlices \/ remaining <= 0
  /\ cands' = <<>>
  /\ IF slices = <<>> THEN phase' = "intents" /\ todo' = Tail(todo)
     ELSE phase' = "slices" /\ UNCHANGED todo
  /\ UNCHANGED <<req, remaining, used, slices, composing, answer>>

-----------------------------------------------------------------------------
(***************************************************************************)
(* composeEnterSteps on the first slice.                                   *)
(***************************************************************************)
slice == Head(slices)
target == SwapTarget(slice.market)

AddLeg(step) == legs' = Append(legs, [step EXCEPT !.protocol = slice.market.protocol])

\* The eligibility step comes first.
Compose ==
  /\ phase = "slices" /\ slices # <<>>
  /\ LET ok == slice.market.canEnter \/ CanCompose(slice.market)
     IN  legs' = <<Step("eligibility", IF ok THEN "compiled" ELSE "blocked", None)>>
  /\ keys' = {} /\ prereqs' = {}
  /\ enter' = [NoEnter EXCEPT !.asset = req.asset, !.amount = slice.amount]
  /\ phase' = IF target # None THEN "quote" ELSE "shapes"
  /\ UNCHANGED <<req, todo, slicing, slices, answer>>

\* A swap leg was refused: there will be no swap, and the shapes are deferred.
SwapRefused ==
  /\ AddLeg([Step("swap", "blocked", SwapKey) EXCEPT !.needs = prereqs])
  /\ phase' = "shapes"
  /\ UNCHANGED <<prereqs, enter, keys>>

GetQuote ==
  /\ phase = "quote"
  /\ \/ SwapRefused
     \/ /\ \E quoted \in Outputs : enter' = [enter EXCEPT !.quoted = quoted]
        /\ phase' = "optIns"
        /\ UNCHANGED <<keys, prereqs, legs>>
  /\ UNCHANGED <<req, todo, slicing, slices, answer>>

\* buildOptIns: a group of its own if something is missing.
BuildOptIns ==
  /\ phase = "optIns"
  /\ \/ SwapRefused
     \/ /\ \/ UNCHANGED <<legs, prereqs>>
           \/ /\ AddLeg(Step("opt-in", "compiled", OptInKey))
              /\ prereqs' = {OptInKey}
        /\ phase' = "swap"
        /\ UNCHANGED <<keys, enter>>
  /\ UNCHANGED <<req, todo, slicing, slices, answer>>

\* buildSwapTransactions: what the swap is quoted to give, less slippage, is entered.
BuildSwap ==
  /\ phase = "swap"
  /\ \/ SwapRefused
     \/ /\ AddLeg([Step("swap", "compiled", SwapKey) EXCEPT
                     !.needs = prereqs, !.asset = req.asset, !.amount = slice.amount])
        /\ prereqs' = prereqs \cup {SwapKey}
        /\ keys' = keys \cup prereqs'
        /\ enter' = [enter EXCEPT !.asset = target, !.amount = Haircut(enter.quoted),
                                  !.swapped = TRUE]
        /\ phase' = "shapes"
  /\ UNCHANGED <<req, todo, slicing, slices, answer>>

Shaped == Len(Filter(legs, LAMBDA s : s.kind \in {"setup", "enter"}))

ShapeLeg(shape, status) ==
  AddLeg([Step(shape.kind, status, shape.key) EXCEPT
            !.needs = shape.needs \cup prereqs, !.borrow = shape.borrow,
            !.asset = enter.asset, !.field = shape.field, !.named = shape.named,
            !.amount = IF shape.field = "none" THEN 0 ELSE enter.amount])

\* Bug: only keys are looked at, and a swap that failed early left none.
Waits(shape) == ~shape.known \/ ~(shape.needs \cup prereqs \subseteq keys)

Deferred(shape) ==
  \/ ~shape.known
  \/ ~(shape.needs \cup prereqs \subseteq keys)
  \/ target # None /\ ~enter.swapped

CompileShape ==
  /\ phase = "shapes" /\ Shaped < Len(Chain(slice.market))
  /\ LET shape == Chain(slice.market)[Shaped + 1] IN
       \/ Deferred(shape) /\ ShapeLeg(shape, "deferred") /\ UNCHANGED keys
       \/ ~Deferred(shape) /\ ShapeLeg(shape, "blocked") /\ UNCHANGED keys
       \/ ~Deferred(shape) /\ ShapeLeg(shape, "compiled") /\ keys' = keys \cup {shape.key}
  /\ UNCHANGED <<req, phase, todo, slicing, slices, prereqs, enter, answer>>

HasCompiledGroup ==
  \E i \in DOMAIN legs :
    legs[i].status = "compiled" /\ legs[i].kind \in {"enter", "setup", "swap", "opt-in"}

\* A plan leaves out what has nothing to sign, a rebalance shows its steps.
EndSlice ==
  /\ phase = "shapes" /\ Shaped = Len(Chain(slice.market))
  /\ answer' = [groups |-> IF HasCompiledGroup \/ req.kind = "rebalance"
                           THEN Append(answer.groups,
                                  GroupOf(slice.market, slice.amount, slice.weight, legs))
                           ELSE answer.groups,
                blocked |-> answer.blocked
                  \cup (IF HasCompiledGroup THEN {} ELSE {slice.market.opp})]
  /\ slices' = Tail(slices)
  /\ IF Tail(slices) = <<>> THEN phase' = "intents" /\ todo' = Tail(todo)
     ELSE phase' = "slices" /\ UNCHANGED todo
  /\ keys' = {} /\ prereqs' = {} /\ legs' = <<>> /\ enter' = NoEnter
  /\ UNCHANGED <<req, slicing>>

Answer ==
  /\ phase = "intents" /\ todo = <<>>
  /\ phase' = "answered"
  /\ UNCHANGED <<req, todo, slicing, slices, composing, answer>>

Next ==
  \/ CompileLeave \/ DeferEnter \/ TakeEnter \/ Slice \/ EndSlicing
  \/ Compose \/ GetQuote \/ BuildOptIns \/ BuildSwap \/ CompileShape \/ EndSlice
  \/ Answer

Spec == Init /\ [][Next]_vars

-----------------------------------------------------------------------------
(***************************************************************************)
(* Properties of an answer.                                                *)
(***************************************************************************)
answered == phase = "answered"
ofPlan == answered /\ req.kind = "plan"
ofRebalance == answered /\ req.kind = "rebalance"

Groups == Members(answer.groups)
Signed(steps) == Filter(steps, LAMBDA s : s.status = "compiled" /\ s.kind # "eligibility")
NetworkFee == Fee * SumOver(answer.groups, LAMBDA g : Len(Signed(g.steps)))

\* A step may be signed after those before it, in a market that takes asset behind a
\* swap, or None if it needs none.
Ready(step, before, asset) ==
  /\ step.needs \subseteq {s.key : s \in before}
  /\ step.kind \in {"setup", "enter"} /\ asset # None =>
       (\E s \in before : s.kind = "swap") /\ step.asset = asset

RunsInOrder(steps, asset) ==
  \A i \in DOMAIN steps :
    steps[i].status = "compiled" =>
      Ready(steps[i], {steps[j] : j \in {j \in 1..(i - 1) : steps[j].status = "compiled"}},
            asset)

\* Whoever signs the compiled groups of an answer in order never signs one whose
\* prerequisite is not behind it, nor puts money into a market that takes another
\* asset before the swap into that asset is compiled (composeEnterSteps).
GroupsRunInOrder == \A g \in Groups : RunsInOrder(g.steps, SwapTarget(g.market))

\* What signing a group takes out of the asset the request spends: the swap, or
\* else what its shapes are entered with.
Spent(g, asset) ==
  LET swaps == Filter(Signed(g.steps), LAMBDA s : s.kind = "swap")
      shapes == Filter(Signed(g.steps), LAMBDA s :
                  s.kind \in {"setup", "enter"} /\ s.asset = asset /\ s.amount > 0)
  IN  IF swaps # <<>> THEN IF Head(swaps).asset = asset THEN Head(swaps).amount ELSE 0
      ELSE IF shapes # <<>> THEN Head(shapes).amount ELSE 0

\* However a budget is sliced over gaps and markets and whatever is refused on the
\* way, the compiled groups together never spend more than there is: the amount of
\* a plan, the idle ALGO of a rebalance (allocateBudget in plans.ts, rebalance.ts).
SpendWithinBudget ==
  answered => SumOver(answer.groups, LAMBDA g : Spent(g, req.asset))
                <= (IF req.kind = "plan" THEN req.amount ELSE req.book.idle)

\* No protocol is given more weight than the cap, although a protocol has several
\* markets and weights are rounded down.  Its amounts may be above the cap by what
\* rounding hid: less than one part in Bps of the budget for each slice.
ProtocolWithinCap ==
  ofPlan => \A p \in Protocols :
    LET sum(f(_)) ==
          SumOver(answer.groups, LAMBDA g : IF g.market.protocol = p THEN f(g) ELSE 0)
        groups == sum(LAMBDA g : 1)
    IN  /\ sum(LAMBDA g : g.weight) <= req.cap
        /\ groups > 0 =>
             sum(LAMBDA g : g.amount) * Bps < (req.cap + groups) * req.amount

-----------------------------------------------------------------------------
(***************************************************************************)
(* A rebalance as it is read by its user: what leaves and what is entered. *)
(***************************************************************************)
Leaving(kind) ==
  LET one == Filter(answer.groups, LAMBDA g : g.steps # <<>> /\ Head(g.steps).kind = kind)
  IN  [i \in DOMAIN one |-> Head(one[i].steps)]
Distinct(steps) == \A i, j \in DOMAIN steps : steps[i].key = steps[j].key => i = j

PositionOf(key) == CHOOSE p \in Members(req.book.positions) : p.id = key

\* A rebalance only takes out of targeted markets, each position once and never more
\* than it holds, the whole of it when the target is nothing, no reward twice, and
\* it puts nothing into a market it takes something out of, unless a gap of nothing
\* counts as a gap (computeRebalanceDeltas).
RebalanceIsADelta ==
  ofRebalance =>
    /\ Distinct(Leaving("claim")) /\ Distinct(Leaving("exit"))
    /\ \A s \in Members(Leaving("exit")) :
         LET p == PositionOf(s.key)
         IN  /\ p.opp \in Targeted(req.book) /\ s.amount \in 1..p.raw
             /\ \A t \in Members(req.book.targets) :
                  t.opp = p.opp /\ t.bps = 0 => s.amount = p.raw
             /\ req.book.minDelta > 0 =>
                  \A g \in Groups : g.market # None => g.market.opp # p.opp
    \* everything priced in a market with no target leaves
    /\ \A p \in Members(req.book.positions), t \in Members(req.book.targets) :
         p.book /\ p.exits > 0 /\ p.raw > 0 /\ t.opp = p.opp /\ t.bps = 0
           /\ CurrentBps(req.book, p.opp) > 0
         => \E s \in Members(Leaving("exit")) : s.key = p.id

\* Current weights are rounded so that they make up the whole book, no rounding is
\* lost between overweight and underweight (allocateWeightBps).
CurrentWeightsAddUp ==
  ofRebalance /\ TotalUsd(req.book) > 0 =>
    SumOver(Weights(req.book), LAMBDA row : row.current) = Bps

-----------------------------------------------------------------------------
(***************************************************************************)
(* The answer handed to POST /policy/validate.                             *)
(***************************************************************************)
Subjects ==
  IF req.kind = "plan"
  THEN [i \in DOMAIN answer.groups |->
          LET g == answer.groups[i]
          IN  SubjectFromAllocation(g.market,
                [weight |-> g.weight, amount |-> g.amount, chain |-> Chain(g.market)],
                req.asset)]
  ELSE SubjectsFromSteps(Flatten([i \in DOMAIN answer.groups |-> answer.groups[i].steps]))

NoRules == [cap |-> None, floor |-> None, wallet |-> 0, noNewBorrows |-> FALSE]

\* A plan that was compiled under a cap and without borrows is not refused by a
\* policy with that cap and without borrows; the policy refuses one only because a
\* market is entered behind a swap or is not fully checkable, or for being empty.
PlanPassesItsPolicy ==
  ofPlan =>
    LET policy == [NoRules EXCEPT !.cap = req.cap, !.noNewBorrows = req.noNewBorrows]
        behindSwap == \E g \in Groups : ~g.market.canEnter
        unchecked == \E g \in Groups : ~g.market.checkable
    IN  Reasons(policy, Subjects, NetworkFee) =
          (IF answer.groups = <<>> THEN {"empty-subject"} ELSE {})
            \cup (IF behindSwap THEN {"blocked-eligibility"} ELSE {})
            \cup (IF unchecked THEN {"eligibility-not-fully-checkable"} ELSE {})

\* ALGO that is left of a wallet which just has the budget once all that is compiled
\* is signed; refused by the policy when its floor is above that.
Left(wallet) ==
  wallet - SumOver(answer.groups, LAMBDA g : Spent(g, Algo)) - NetworkFee
ReserveProven(wallet) ==
  \A floor \in {Left(wallet) + 1, Left(wallet) + 2} :
    ReserveReasons([NoRules EXCEPT !.floor = floor, !.wallet = wallet],
                   Subjects, NetworkFee) # {}

\* If the reserve rule does not refuse a plan then the wallet keeps that
\* reserve when every compiled group is signed (evaluateReserve).
ReserveIsKept == ofPlan /\ answer.groups # <<>> => ReserveProven(req.amount)

\* The same of a rebalance: docs/policy-schema.md calls the reserve what must remain
\* after the subject and a pass a proof of every selected rule.
ReserveIsProven == ofRebalance /\ Subjects # <<>> => ReserveProven(req.book.idle)
==============================================================================
