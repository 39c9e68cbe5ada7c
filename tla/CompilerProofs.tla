----------------------------- MODULE CompilerProofs -----------------------------
(***************************************************************************)
(* Theorems about the answers of Compiler, for any requests, markets,      *)
(* quotes and refusals.                                                    *)
(***************************************************************************)
EXTENDS Compiler, ListProofs

(***************************************************************************)
(* GroupsRunInOrder: the inductive invariant.                              *)
(***************************************************************************)
Legs == {"quote", "optIns", "swap", "shapes"}
CompiledKeys == {s.key : s \in {s \in Members(legs) : s.status = "compiled"}}
SwapIsIn == \E s \in Members(legs) : s.status = "compiled" /\ s.kind = "swap"

AnswerShape ==
  /\ answer = [groups |-> answer.groups, blocked |-> answer.blocked]
  /\ IsList(answer.groups)

\* Of the slice under way: what composeEnterSteps holds to be compiled is compiled,
\* and money is in another asset only behind a swap.
LegsInOrder ==
  phase \in Legs =>
    /\ IsList(legs) /\ RunsInOrder(legs, target)
    /\ keys \subseteq CompiledKeys
    /\ phase # "shapes" => target # None /\ prereqs \subseteq CompiledKeys
    /\ enter = [asset |-> enter.asset, amount |-> enter.amount, quoted |-> enter.quoted,
                swapped |-> enter.swapped]
    /\ phase # "shapes" => ~enter.swapped
    /\ enter.swapped => enter.asset = target /\ SwapIsIn

OrderInv == AnswerShape /\ LegsInOrder /\ GroupsRunInOrder

\* A leg goes behind those that are there.
LEMMA OneMoreLeg ==
  ASSUME NEW steps, IsList(steps), NEW asset, RunsInOrder(steps, asset), NEW step,
         step.status = "compiled" =>
           Ready(step, {s \in Members(steps) : s.status = "compiled"}, asset)
  PROVE  RunsInOrder(Append(steps, step), asset)
<1> DEFINE more == Append(steps, step)
           Before(t, i) == {t[j] : j \in {j \in 1..(i - 1) : t[j].status = "compiled"}}
<1>1. /\ Len(steps) \in Nat /\ DOMAIN more = 1..(Len(steps) + 1)
      /\ more[Len(steps) + 1] = step /\ \A n \in 1..Len(steps) : more[n] = steps[n]
      /\ DOMAIN steps = 1..Len(steps)
  BY Appended, ListFacts
<1> HIDE DEF more
<1>2. ASSUME NEW i \in DOMAIN more, more[i].status = "compiled"
      PROVE  Ready(more[i], Before(more, i), asset)
  <2>1. i \in 1..(Len(steps) + 1) /\ \A j \in 1..(i - 1) : j \in 1..Len(steps) BY <1>1
  <2>2. \A j \in 1..(i - 1) : more[j] = steps[j] BY <1>1, <2>1
  <2>3. Before(more, i) = Before(steps, i) BY <2>2
  <2>4. CASE i \in 1..Len(steps)
    <3>1. more[i] = steps[i] BY <1>1, <2>4
    <3> QED BY <1>1, <1>2, <2>3, <2>4, <3>1 DEF RunsInOrder
  <2>5. CASE i = Len(steps) + 1
    <3>1. i - 1 = Len(steps) BY <1>1, <2>5
    <3>2. Before(steps, i) = {s \in Members(steps) : s.status = "compiled"}
      BY <1>1, <3>1 DEF Members
    <3> QED BY <1>1, <1>2, <2>3, <2>5, <3>2
  <2> QED BY <1>1, <2>1, <2>4, <2>5
<1> QED BY <1>2 DEF RunsInOrder, more

\* A group that is in order is added to the answer.
LEMMA OneMoreGroup ==
  ASSUME AnswerShape, GroupsRunInOrder, NEW group,
         RunsInOrder(group.steps, SwapTarget(group.market)'),
         UNCHANGED req, answer'.groups = Append(answer.groups, group),
         answer' = [groups |-> answer'.groups, blocked |-> answer'.blocked]
  PROVE  AnswerShape' /\ GroupsRunInOrder'
<1>1. Members(answer'.groups) = Members(answer.groups) \cup {group} /\ IsList(answer'.groups)
  BY Appended DEF AnswerShape
<1>2. ASSUME NEW market PROVE SwapTarget(market)' = SwapTarget(market)
  BY DEF SwapTarget, Required, Chain, Filter
<1>3. ASSUME NEW g \in Members(answer'.groups)
      PROVE  RunsInOrder(g.steps, SwapTarget(g.market)')
  <2>1. CASE g \in Members(answer.groups)
    BY <1>2, <2>1 DEF GroupsRunInOrder, Groups
  <2>2. CASE g = group BY <2>2
  <2> QED BY <1>1, <1>3, <2>1, <2>2
<1>4. GroupsRunInOrder' BY <1>3 DEF GroupsRunInOrder, Groups
<1> QED BY <1>1, <1>4 DEF AnswerShape

LEMMA SameTarget ==
  ASSUME UNCHANGED <<req, slices>>
  PROVE  target' = target
BY DEF target, slice, SwapTarget, Required, Chain, Filter

LEMMA InitOrder == Init => OrderInv
<1> SUFFICES ASSUME Init PROVE OrderInv OBVIOUS
<1>1. answer = [groups |-> <<>>, blocked |-> {}] /\ phase = "intents"
  BY DEF Init, NoAnswer
<1>2. answer.groups = <<>> /\ IsList(<<>>) /\ Members(<<>>) = {} BY <1>1, NoList
<1> QED BY <1>1, <1>2
     DEF OrderInv, AnswerShape, LegsInOrder, GroupsRunInOrder, Groups, Legs

\* What a step that adds a leg needs to keep.
LEMMA LegAdded ==
  ASSUME LegsInOrder, phase \in Legs, phase' \in Legs, NEW step,
         UNCHANGED <<req, slices>>, legs' = Append(legs, step),
         step.status = "compiled" =>
           Ready(step, {s \in Members(legs) : s.status = "compiled"}, target),
         keys' \subseteq CompiledKeys
                           \cup (IF step.status = "compiled" THEN {step.key} ELSE {}),
         phase' # "shapes" => prereqs' \subseteq CompiledKeys
                              \cup (IF step.status = "compiled" THEN {step.key} ELSE {}),
         phase' # "shapes" => target # None /\ ~enter'.swapped,
         enter' = [asset |-> enter'.asset, amount |-> enter'.amount,
                   quoted |-> enter'.quoted, swapped |-> enter'.swapped],
         enter'.swapped => /\ enter'.asset = target
                           /\ SwapIsIn \/ (step.status = "compiled" /\ step.kind = "swap")
  PROVE  LegsInOrder'
<1>1. IsList(legs') /\ Members(legs') = Members(legs) \cup {step}
  BY Appended DEF LegsInOrder
<1>2. target' = target BY SameTarget
<1>3. RunsInOrder(legs', target) BY OneMoreLeg DEF LegsInOrder
<1>4. CompiledKeys' = CompiledKeys
                        \cup (IF step.status = "compiled" THEN {step.key} ELSE {})
  BY <1>1 DEF CompiledKeys
<1>5. SwapIsIn' <=> SwapIsIn \/ (step.status = "compiled" /\ step.kind = "swap")
  BY <1>1 DEF SwapIsIn
<1> QED BY <1>1, <1>2, <1>3, <1>4, <1>5 DEF LegsInOrder

LEMMA RefusalInOrder ==
  ASSUME LegsInOrder, phase \in Legs, SwapRefused, UNCHANGED <<req, slices>>
  PROVE  LegsInOrder'
<1> DEFINE step == [[Step("swap", "blocked", SwapKey) EXCEPT !.needs = prereqs]
                      EXCEPT !.protocol = slice.market.protocol]
<1>1. step.status = "blocked" BY DEF Step
<1>2. legs' = Append(legs, step) /\ phase' = "shapes" /\ UNCHANGED <<enter, keys>>
  BY DEF SwapRefused, AddLeg
<1> HIDE DEF step
<1> QED BY <1>1, <1>2, LegAdded DEF LegsInOrder, Legs

LEMMA QuoteInOrder == ASSUME LegsInOrder, GetQuote PROVE LegsInOrder'
<1>1. phase = "quote" /\ UNCHANGED <<req, slices>> BY DEF GetQuote
<1>2. CASE SwapRefused BY <1>1, <1>2, RefusalInOrder DEF Legs
<1>3. CASE phase' = "optIns" /\ UNCHANGED <<keys, prereqs, legs>>
           /\ \E quoted \in Outputs : enter' = [enter EXCEPT !.quoted = quoted]
  <2>1. target' = target /\ CompiledKeys' = CompiledKeys
    BY <1>1, <1>3, SameTarget DEF CompiledKeys
  <2>2. PICK quoted \in Outputs : enter' = [enter EXCEPT !.quoted = quoted] BY <1>3
  <2>3. enter = [asset |-> enter.asset, amount |-> enter.amount, quoted |-> enter.quoted,
                 swapped |-> enter.swapped] /\ ~enter.swapped
    BY <1>1 DEF LegsInOrder, Legs
  <2>4. enter' = [asset |-> enter.asset, amount |-> enter.amount, quoted |-> quoted,
                  swapped |-> enter.swapped]
    BY <2>2, <2>3
  <2>5. enter' = [asset |-> enter'.asset, amount |-> enter'.amount, quoted |-> enter'.quoted,
                  swapped |-> enter'.swapped] /\ ~enter'.swapped
    BY <2>3, <2>4
  <2> QED BY <1>1, <1>3, <2>1, <2>5 DEF LegsInOrder, Legs
<1> QED BY <1>2, <1>3 DEF GetQuote

LEMMA OptInsInOrder == ASSUME LegsInOrder, BuildOptIns PROVE LegsInOrder'
<1>1. phase = "optIns" /\ UNCHANGED <<req, slices>> BY DEF BuildOptIns
<1>2. CASE SwapRefused BY <1>1, <1>2, RefusalInOrder DEF Legs
<1>3. CASE phase' = "swap" /\ UNCHANGED <<keys, enter, legs, prereqs>>
  <2>1. target' = target /\ CompiledKeys' = CompiledKeys
    BY <1>1, <1>3, SameTarget DEF CompiledKeys
  <2> QED BY <1>1, <1>3, <2>1 DEF LegsInOrder, Legs
<1>4. CASE /\ AddLeg(Step("opt-in", "compiled", OptInKey)) /\ prereqs' = {OptInKey}
           /\ phase' = "swap" /\ UNCHANGED <<keys, enter>>
  <2> DEFINE step == [Step("opt-in", "compiled", OptInKey)
                        EXCEPT !.protocol = slice.market.protocol]
  <2>1. step.status = "compiled" /\ step.kind = "opt-in" /\ step.needs = {}
        /\ step.key = OptInKey
    BY DEF Step
  <2>2. legs' = Append(legs, step) BY <1>4 DEF AddLeg
  <2> HIDE DEF step
  <2>3. Ready(step, {s \in Members(legs) : s.status = "compiled"}, target)
    BY <2>1 DEF Ready
  <2> QED BY <1>1, <1>4, <2>1, <2>2, <2>3, LegAdded DEF LegsInOrder, Legs
<1> QED BY <1>2, <1>3, <1>4 DEF BuildOptIns

LEMMA SwapInOrder == ASSUME LegsInOrder, BuildSwap PROVE LegsInOrder'
<1>1. phase = "swap" /\ UNCHANGED <<req, slices>> BY DEF BuildSwap
<1>2. CASE SwapRefused BY <1>1, <1>2, RefusalInOrder DEF Legs
<1>3. CASE ~SwapRefused
  <2> DEFINE step == [[Step("swap", "compiled", SwapKey) EXCEPT
                        !.needs = prereqs, !.asset = req.asset, !.amount = slice.amount]
                          EXCEPT !.protocol = slice.market.protocol]
  <2>1. step.status = "compiled" /\ step.kind = "swap" /\ step.needs = prereqs
        /\ step.key = SwapKey
    BY DEF Step
  <2>2. /\ legs' = Append(legs, step) /\ phase' = "shapes"
        /\ prereqs' = prereqs \cup {SwapKey} /\ keys' = keys \cup prereqs'
        /\ enter' = [enter EXCEPT !.asset = target, !.amount = Haircut(enter.quoted),
                                  !.swapped = TRUE]
    BY <1>3 DEF BuildSwap, AddLeg
  <2> HIDE DEF step
  <2>3. prereqs \subseteq CompiledKeys /\ keys \subseteq CompiledKeys
        /\ enter = [asset |-> enter.asset, amount |-> enter.amount,
                    quoted |-> enter.quoted, swapped |-> enter.swapped]
    BY <1>1 DEF LegsInOrder, Legs
  <2>4. Ready(step, {s \in Members(legs) : s.status = "compiled"}, target)
    BY <2>1, <2>3 DEF Ready, CompiledKeys
  <2>5. /\ enter' = [asset |-> enter'.asset, amount |-> enter'.amount,
                     quoted |-> enter'.quoted, swapped |-> enter'.swapped]
        /\ enter'.asset = target
    BY <2>2, <2>3
  <2>6. keys' \subseteq CompiledKeys \cup {SwapKey} BY <2>2, <2>3
  <2> QED BY <1>1, <2>1, <2>2, <2>4, <2>5, <2>6, LegAdded DEF Legs
<1> QED BY <1>2, <1>3

LEMMA ShapeInOrder == ASSUME LegsInOrder, CompileShape PROVE LegsInOrder'
<1> DEFINE shape == Chain(slice.market)[Shaped + 1]
           step(status) ==
             [[Step(shape.kind, status, shape.key) EXCEPT
                 !.needs = shape.needs \cup prereqs, !.borrow = shape.borrow,
                 !.asset = enter.asset, !.field = shape.field, !.named = shape.named,
                 !.amount = IF shape.field = "none" THEN 0 ELSE enter.amount]
                   EXCEPT !.protocol = slice.market.protocol]
<1>1. phase = "shapes" /\ UNCHANGED <<req, phase, slices, prereqs, enter>>
  BY DEF CompileShape
<1>2. /\ enter = [asset |-> enter.asset, amount |-> enter.amount,
                  quoted |-> enter.quoted, swapped |-> enter.swapped]
      /\ keys \subseteq CompiledKeys
      /\ enter.swapped => enter.asset = target /\ SwapIsIn
  BY <1>1 DEF LegsInOrder, Legs
<1>3. ASSUME NEW status
      PROVE  /\ step(status).status = status /\ step(status).key = shape.key
             /\ step(status).needs = shape.needs \cup prereqs
             /\ step(status).asset = enter.asset
  BY DEF Step
<1>4. \/ \E status \in {"deferred", "blocked"} : legs' = Append(legs, step(status)) /\ keys' = keys
      \/ ~Deferred(shape) /\ legs' = Append(legs, step("compiled"))
           /\ keys' = keys \cup {shape.key}
  BY DEF CompileShape, ShapeLeg, AddLeg
<1> HIDE DEF step, shape
<1>5. CASE \E status \in {"deferred", "blocked"} :
             legs' = Append(legs, step(status)) /\ keys' = keys
  <2>1. PICK status \in {"deferred", "blocked"} :
               legs' = Append(legs, step(status)) /\ keys' = keys
    BY <1>5
  <2>2. step(status).status # "compiled" BY <1>3
  <2> QED BY <1>1, <1>2, <2>1, <2>2, LegAdded DEF Legs
<1>6. CASE ~Deferred(shape) /\ legs' = Append(legs, step("compiled"))
           /\ keys' = keys \cup {shape.key}
  <2>1. shape.needs \cup prereqs \subseteq keys /\ (target # None => enter.swapped)
    BY <1>6 DEF Deferred
  <2>2. Ready(step("compiled"), {s \in Members(legs) : s.status = "compiled"}, target)
    BY <1>2, <1>3, <2>1 DEF Ready, CompiledKeys, SwapIsIn
  <2> QED BY <1>1, <1>2, <1>3, <1>6, <2>2, LegAdded DEF Legs
<1> QED BY <1>4, <1>5, <1>6

LEMMA ComposeInOrder == ASSUME Compose PROVE LegsInOrder'
<1> DEFINE ok == slice.market.canEnter \/ CanCompose(slice.market)
           step == Step("eligibility", IF ok THEN "compiled" ELSE "blocked", None)
<1>1. /\ legs' = <<step>> /\ keys' = {} /\ prereqs' = {}
      /\ enter' = [NoEnter EXCEPT !.asset = req.asset, !.amount = slice.amount]
      /\ phase' = IF target # None THEN "quote" ELSE "shapes"
      /\ UNCHANGED <<req, slices>>
  BY DEF Compose
<1>2. step.needs = {} /\ step.kind = "eligibility" BY DEF Step
<1> HIDE DEF step
<1>3. RunsInOrder(<<step>>, target)
  <2>1. DOMAIN <<step>> = {1} /\ <<step>>[1] = step OBVIOUS
  <2> QED BY <1>2, <2>1 DEF RunsInOrder, Ready
<1>4. IsList(legs') BY <1>1, OneMember
<1>5. target' = target BY <1>1, SameTarget
<1>6. enter' = [asset |-> req.asset, amount |-> slice.amount, quoted |-> 0, swapped |-> FALSE]
  BY <1>1 DEF NoEnter
<1>7. enter' = [asset |-> enter'.asset, amount |-> enter'.amount, quoted |-> enter'.quoted,
                swapped |-> enter'.swapped] /\ ~enter'.swapped
  BY <1>6
<1> QED BY <1>1, <1>3, <1>4, <1>5, <1>7 DEF LegsInOrder, Legs

LEMMA GroupOfIs ==
  ASSUME NEW market, NEW amount, NEW weight, NEW steps
  PROVE  /\ GroupOf(market, amount, weight, steps).market = market
         /\ GroupOf(market, amount, weight, steps).amount = amount
         /\ GroupOf(market, amount, weight, steps).weight = weight
         /\ GroupOf(market, amount, weight, steps).steps = steps
BY DEF GroupOf

LEMMA Append1Is ==
  ASSUME AnswerShape, NEW group, Append1(group)
  PROVE  /\ answer' = [groups |-> Append(answer.groups, group), blocked |-> answer.blocked]
         /\ answer'.groups = Append(answer.groups, group)
         /\ answer' = [groups |-> answer'.groups, blocked |-> answer'.blocked]
<1>1. answer' = [groups |-> Append(answer.groups, group), blocked |-> answer.blocked]
  BY DEF Append1, AnswerShape
<1> QED BY <1>1

\* One step that needs nothing and enters nothing is in order.
LEMMA LoneStep ==
  ASSUME NEW step, step.needs = {}, step.kind \notin {"setup", "enter"}
                                    \/ step.status # "compiled", NEW asset
  PROVE  RunsInOrder(<<step>>, asset)
<1>1. DOMAIN <<step>> = {1} /\ <<step>>[1] = step OBVIOUS
<1> QED BY <1>1 DEF RunsInOrder, Ready

LEMMA LeaveInOrder == ASSUME OrderInv, CompileLeave \/ DeferEnter PROVE OrderInv'
<1>1. phase' = "intents" /\ UNCHANGED req BY DEF CompileLeave, DeferEnter
<1>2. \E group : /\ Append1(group)
                 /\ \A asset : RunsInOrder(group.steps, asset)
  <2>1. CASE CompileLeave
    <3> DEFINE i == Head(todo)
               step(status) == [Step(i.kind, status, i.position) EXCEPT
                         !.protocol = i.protocol, !.asset = i.asset, !.amount = i.amount,
                         !.named = TRUE,
                         !.field = IF i.kind = "exit" THEN "amount" ELSE "none"]
    <3>1. PICK status \in {"compiled", "blocked", "deferred"} :
             Append1(GroupOf(None, i.amount, None, <<step(status)>>))
      BY <2>1 DEF CompileLeave
    <3>2. i.kind \in {"claim", "exit"} BY <2>1 DEF CompileLeave
    <3>3. step(status).needs = {} /\ step(status).kind = i.kind BY DEF Step
    <3> HIDE DEF step, i
    <3>4. \A asset : RunsInOrder(<<step(status)>>, asset) BY <3>2, <3>3, LoneStep
    <3> QED BY <3>1, <3>4, GroupOfIs
  <2>2. CASE DeferEnter
    <3> DEFINE step == Step("enter", "deferred", None)
    <3>1. Append1(GroupOf(None, 0, None, <<step>>)) BY <2>2 DEF DeferEnter
    <3>2. step.needs = {} /\ step.status # "compiled" BY DEF Step
    <3> HIDE DEF step
    <3>3. \A asset : RunsInOrder(<<step>>, asset) BY <3>2, LoneStep
    <3> QED BY <3>1, <3>3, GroupOfIs
  <2> QED BY <2>1, <2>2
<1>3. PICK group : Append1(group) /\ \A asset : RunsInOrder(group.steps, asset) BY <1>2
<1>4. AnswerShape' /\ GroupsRunInOrder'
  BY <1>1, <1>3, Append1Is, OneMoreGroup DEF OrderInv
<1> QED BY <1>1, <1>4 DEF OrderInv, LegsInOrder, Legs

LEMMA EndSliceInOrder == ASSUME OrderInv, EndSlice PROVE OrderInv'
<1>0. PICK group : group = GroupOf(slice.market, slice.amount, slice.weight, legs) OBVIOUS
<1>1. phase = "shapes" /\ UNCHANGED req /\ phase' \in {"intents", "slices"}
  BY DEF EndSlice
<1>2. \E b : answer' = [groups |-> answer'.groups, blocked |-> b]
  BY DEF EndSlice
<1>3. answer' = [groups |-> answer'.groups, blocked |-> answer'.blocked] BY <1>2
<1>4. answer'.groups \in {answer.groups, Append(answer.groups, group)}
  BY <1>0 DEF EndSlice
<1>5. ASSUME NEW market PROVE SwapTarget(market)' = SwapTarget(market)
  BY <1>1 DEF SwapTarget, Required, Chain, Filter
<1>6. RunsInOrder(group.steps, SwapTarget(group.market)')
  <2>1. group.steps = legs /\ group.market = slice.market BY <1>0, GroupOfIs
  <2>2. RunsInOrder(legs, target) BY <1>1 DEF OrderInv, LegsInOrder, Legs
  <2> QED BY <1>5, <2>1, <2>2 DEF target
<1>7. AnswerShape' /\ GroupsRunInOrder'
  <2>1. CASE answer'.groups = Append(answer.groups, group)
    BY <1>1, <1>3, <1>6, <2>1, OneMoreGroup DEF OrderInv
  <2>2. CASE answer'.groups = answer.groups
    <3>1. AnswerShape' BY <1>3, <2>2 DEF OrderInv, AnswerShape
    <3>2. GroupsRunInOrder' BY <1>5, <2>2 DEF OrderInv, GroupsRunInOrder, Groups
    <3> QED BY <3>1, <3>2
  <2> QED BY <1>4, <2>1, <2>2
<1> QED BY <1>1, <1>7 DEF OrderInv, LegsInOrder, Legs

LEMMA StepOrder == OrderInv /\ [Next]_vars => OrderInv'
<1> SUFFICES ASSUME OrderInv, [Next]_vars PROVE OrderInv' OBVIOUS
<1>1. ASSUME NEW market, UNCHANGED req PROVE SwapTarget(market)' = SwapTarget(market)
  BY <1>1 DEF SwapTarget, Required, Chain, Filter
<1>2. ASSUME UNCHANGED <<req, answer>> PROVE AnswerShape' /\ GroupsRunInOrder'
  BY <1>1, <1>2 DEF OrderInv, AnswerShape, GroupsRunInOrder, Groups
<1>3. CASE GetQuote \/ BuildOptIns \/ BuildSwap \/ CompileShape
  <2>1. UNCHANGED <<req, answer>>
    BY <1>3 DEF GetQuote, BuildOptIns, BuildSwap, CompileShape
  <2>2. LegsInOrder'
    BY <1>3, QuoteInOrder, OptInsInOrder, SwapInOrder, ShapeInOrder DEF OrderInv
  <2> QED BY <1>2, <2>1, <2>2 DEF OrderInv
<1>4. CASE Compose
  <2>1. UNCHANGED <<req, answer>> BY <1>4 DEF Compose
  <2> QED BY <1>2, <1>4, <2>1, ComposeInOrder DEF OrderInv
<1>5. CASE CompileLeave \/ DeferEnter BY <1>5, LeaveInOrder
<1>6. CASE EndSlice BY <1>6, EndSliceInOrder
<1>7. CASE TakeEnter
  <2>1. phase' = "slicing" /\ UNCHANGED req /\ answer'.groups = answer.groups
        /\ answer' = [groups |-> answer'.groups, blocked |-> answer'.blocked]
    <3>1. \E b : answer' = [answer EXCEPT !.blocked = b] BY <1>7 DEF TakeEnter
    <3>2. PICK b : answer' = [answer EXCEPT !.blocked = b] BY <3>1
    <3>3. answer = [groups |-> answer.groups, blocked |-> answer.blocked]
      BY DEF OrderInv, AnswerShape
    <3>4. answer' = [groups |-> answer.groups, blocked |-> b] BY <3>2, <3>3
    <3> QED BY <1>7, <3>4 DEF TakeEnter
  <2>2. AnswerShape' BY <2>1 DEF OrderInv, AnswerShape
  <2>3. GroupsRunInOrder' BY <1>1, <2>1 DEF OrderInv, GroupsRunInOrder, Groups
  <2> QED BY <2>1, <2>2, <2>3 DEF OrderInv, LegsInOrder, Legs
<1>8. CASE Slice \/ EndSlicing \/ Answer
  <2>1. UNCHANGED <<req, answer>> /\ phase' \notin Legs
    BY <1>8 DEF Slice, EndSlicing, Answer, Legs
  <2> QED BY <1>2, <2>1 DEF OrderInv, LegsInOrder
<1>9. CASE UNCHANGED vars
  <2>1. UNCHANGED <<req, answer, phase, slices, legs, keys, prereqs, enter>>
    BY <1>9 DEF vars, composing
  <2>2. target' = target /\ CompiledKeys' = CompiledKeys /\ SwapIsIn' = SwapIsIn
    BY <2>1, SameTarget DEF CompiledKeys, SwapIsIn
  <2>3. LegsInOrder' BY <2>1, <2>2 DEF OrderInv, LegsInOrder
  <2> QED BY <1>2, <2>1, <2>3 DEF OrderInv
<1> QED BY <1>3, <1>4, <1>5, <1>6, <1>7, <1>8, <1>9 DEF Next

\* Whoever signs the compiled groups of any answer in order never signs one whose
\* prerequisite is not behind it, nor enters a market that takes another asset before
\* the swap into that asset is compiled, whatever was refused on the way.
THEOREM GroupsAreInOrder == Spec => []GroupsRunInOrder
<1>1. OrderInv => GroupsRunInOrder BY DEF OrderInv
<1> QED BY <1>1, InitOrder, StepOrder, PTL DEF Spec

-----------------------------------------------------------------------------
(***************************************************************************)
(* CurrentWeightsAddUp: what computeRebalanceDeltas makes of a book.       *)
(***************************************************************************)
\* Positions that are worth a whole number, or nothing that is known.
Priced(positions) ==
  IsList(positions) /\ \A p \in Members(positions) : p.usd \in Nat \cup {None}

LEMMA UsdNat == ASSUME NEW positions, Priced(positions) PROVE Usd(positions) \in Nat
<1> DEFINE worth == [n \in DOMAIN positions |->
                       IF positions[n].usd = None THEN 0 ELSE positions[n].usd]
<1>1. /\ Len(positions) \in Nat /\ DOMAIN positions = 1..Len(positions)
      /\ \A n \in 1..Len(positions) : positions[n] \in Members(positions)
  BY ListFacts DEF Priced
<1>2. \A n \in 1..Len(positions) : worth[n] \in Nat BY <1>1 DEF Priced
<1>3. worth \in Seq(Int) /\ Len(worth) = Len(positions) /\ \A n \in 1..Len(worth) : worth[n] \in Nat
  BY <1>1, <1>2
<1>4. Usd(positions) = Total(worth) BY DEF Usd, SumOver
<1> HIDE DEF worth
<1>5. Total(worth) >= 0 BY <1>3, TotalPositive
<1> QED BY <1>3, <1>4, <1>5, TotalInt

LEMMA UniverseIs ==
  ASSUME NEW in, Book(in)
  PROVE  /\ Priced(Universe(in)) /\ TotalUsd(in) \in Nat
         /\ Members(Universe(in)) = {p \in Members(in.positions) : p.book /\ p.opp \in Targeted(in)}
         /\ \A opp : /\ Priced(Group(in, opp)) /\ Usd(Group(in, opp)) \in Nat
                     /\ Members(Group(in, opp)) = {p \in Members(Universe(in)) : p.opp = opp}
<1>1. IsList(Universe(in))
      /\ Members(Universe(in)) = {p \in Members(in.positions) : p.book /\ p.opp \in Targeted(in)}
  <2> DEFINE T == {p \in Members(in.positions) : p.book /\ p.opp \in Targeted(in)}
  <2>1. Universe(in) = Keep(in.positions, T) BY DEF Universe, Filter
  <2>2. IsList(in.positions) BY DEF Book
  <2>3. Members(in.positions) \cap T = T OBVIOUS
  <2> HIDE DEF T
  <2>4. IsList(Universe(in)) /\ Members(Universe(in)) = T BY <2>1, <2>2, <2>3, Kept
  <2> QED BY <2>4 DEF T
<1>2. Priced(Universe(in)) BY <1>1 DEF Priced, Book
<1>3. ASSUME NEW opp
      PROVE  /\ Priced(Group(in, opp))
             /\ Members(Group(in, opp)) = {p \in Members(Universe(in)) : p.opp = opp}
  <2>1. IsList(Group(in, opp))
        /\ Members(Group(in, opp)) = {p \in Members(Universe(in)) : p.opp = opp}
    <3> DEFINE T == {p \in Members(Universe(in)) : p.opp = opp}
    <3>1. Group(in, opp) = Keep(Universe(in), T) BY DEF Group, Filter
    <3>2. Members(Universe(in)) \cap T = T OBVIOUS
    <3> HIDE DEF T
    <3>3. IsList(Group(in, opp)) /\ Members(Group(in, opp)) = T BY <1>1, <3>1, <3>2, Kept
    <3> QED BY <3>3 DEF T
  <2> QED BY <1>2, <2>1 DEF Priced
<1> QED BY <1>1, <1>2, <1>3, UsdNat DEF TotalUsd

LEMMA FloorNat ==
  ASSUME NEW in, Book(in), TotalUsd(in) > 0, NEW opp
  PROVE  FloorBps(in, opp) \in Nat
<1> DEFINE a == Usd(Group(in, opp)) * Bps
           b == TotalUsd(in)
<1>1. a \in Nat /\ b \in Nat /\ b > 0
  <2>1. Usd(Group(in, opp)) \in Nat /\ TotalUsd(in) \in Nat BY UniverseIs
  <2>2. \A x \in Nat : x * Bps \in Nat BY GraphAssumption
  <2> QED BY <2>1, <2>2
<1>2. FloorBps(in, opp) = a \div b BY DEF FloorBps
<1> HIDE DEF a, b
<1> QED BY <1>1, <1>2

\* Some group takes what rounding leaves over.
LEMMA LargestIsGrouped ==
  ASSUME NEW in, Book(in), TotalUsd(in) > 0
  PROVE  Largest(in) \in Grouped(in)
<1> DEFINE all == Universe(in)
           worth(n) == Usd(Group(in, all[n].opp))
           most == {n \in DOMAIN all : \A m \in DOMAIN all : worth(m) <= worth(n)}
           f == [n \in 1..Len(all) |-> worth(n)]
<1>1. /\ Len(all) \in Nat /\ DOMAIN all = 1..Len(all)
      /\ \A n \in 1..Len(all) : all[n] \in Members(all)
  <2>1. IsList(all) BY UniverseIs DEF Priced
  <2> HIDE DEF all
  <2> QED BY <2>1, ListFacts
<1>2. Len(all) # 0
  <2> SUFFICES ASSUME Len(all) = 0 PROVE FALSE OBVIOUS
  <2>1. all = <<>>
    <3>1. IsList(all) BY UniverseIs DEF Priced
    <3> HIDE DEF all
    <3>2. all \in Seq(Members(all)) BY <3>1 DEF IsList
    <3> QED BY <3>2
  <2>2. TotalUsd(in) = Total([n \in DOMAIN all |-> IF all[n].usd = None THEN 0 ELSE all[n].usd])
    BY DEF TotalUsd, Usd, SumOver
  <2>3. [n \in DOMAIN all |-> IF all[n].usd = None THEN 0 ELSE all[n].usd] = <<>> BY <2>1
  <2> QED BY <2>2, <2>3, TotalNone
<1>3. f \in [1..Len(all) -> Int]
  <2>1. \A n \in 1..Len(all) : worth(n) \in Nat BY UniverseIs
  <2> HIDE DEF worth
  <2> QED BY <2>1
<1>4. PICK n \in 1..Len(all) : \A m \in 1..Len(all) : f[m] <= f[n]
  <2>1. Len(all) \in Nat \ {0} BY <1>1, <1>2
  <2> HIDE DEF f, all
  <2> QED BY <1>3, <2>1, Greatest
<1>5. n \in most BY <1>1, <1>4
<1>6. most \subseteq Nat BY <1>1
<1>7. \E k \in most : \A m \in most : k <= m
  <2> HIDE DEF most
  <2> QED BY <1>5, <1>6, Least
<1>8. (CHOOSE k \in most : \A m \in most : k <= m) \in most
  <2> HIDE DEF most
  <2> QED BY <1>7
<1>9. PICK k \in most : Largest(in) = all[k].opp
  <2>1. Largest(in) = all[CHOOSE k \in most : \A m \in most : k <= m].opp BY DEF Largest
  <2> HIDE DEF most, all
  <2> QED BY <1>8, <2>1
<1>10. all[k] \in Members(all) BY <1>1
<1> QED BY <1>9, <1>10 DEF Grouped

LEMMA WeightsAddUp ==
  ASSUME NEW in, Book(in), TotalUsd(in) > 0
  PROVE  SumOver(Weights(in), LAMBDA row : row.current) = Bps
<1> DEFINE N == Len(in.targets)
           opp(n) == in.targets[n].opp
           floor == [n \in 1..N |-> IF opp(n) \in Grouped(in) THEN FloorBps(in, opp(n)) ELSE 0]
           rest == [n \in 1..N |-> IF opp(n) = Largest(in) THEN Bps - Total(floor) ELSE 0]
           current == [n \in 1..N |-> CurrentBps(in, opp(n))]
<1>1. N \in Nat /\ DOMAIN in.targets = 1..N BY ListFacts DEF Book
<1>2. floor \in Seq(Int) /\ Len(floor) = N
  <2>1. \A n \in 1..N : FloorBps(in, opp(n)) \in Int BY FloorNat
  <2> QED BY <1>1, <2>1
<1>3. SumOver(in.targets, LAMBDA t : IF t.opp \in Grouped(in) THEN FloorBps(in, t.opp) ELSE 0)
        = Total(floor)
  BY <1>1 DEF SumOver
<1>4. SumOver(Weights(in), LAMBDA row : row.current) = Total(current)
  BY <1>1 DEF SumOver, Weights
<1> HIDE DEF floor
<1>5. Bps - Total(floor) \in Int BY <1>2, TotalInt, GraphAssumption
<1>6. rest \in Seq(Int) /\ Len(rest) = N BY <1>1, <1>5
<1>7. \A n \in 1..N : current[n] = floor[n] + rest[n]
  <2> SUFFICES ASSUME NEW n \in 1..N PROVE current[n] = floor[n] + rest[n] OBVIOUS
  <2>1. TotalUsd(in) # 0 BY UniverseIs
  <2>2. CASE opp(n) \in Grouped(in)
    <3>1. floor[n] = FloorBps(in, opp(n)) BY <2>2 DEF floor
    <3>2. CurrentBps(in, opp(n))
            = FloorBps(in, opp(n)) + (IF opp(n) = Largest(in) THEN Bps - Total(floor) ELSE 0)
      BY <1>3, <2>1, <2>2 DEF CurrentBps
    <3> QED BY <3>1, <3>2
  <2>3. CASE opp(n) \notin Grouped(in)
    <3>1. floor[n] = 0 BY <2>3 DEF floor
    <3>2. rest[n] = 0 BY <2>3, LargestIsGrouped
    <3>3. current[n] = 0 BY <2>3 DEF CurrentBps
    <3> QED BY <3>1, <3>2, <3>3
  <2> QED BY <2>2, <2>3
<1>8. current \in Seq(Int) /\ Len(current) = N
  <2>1. \A n \in 1..N : floor[n] \in Int /\ rest[n] \in Int BY <1>2, <1>6
  <2>2. \A n \in 1..N : current[n] \in Int
    <3> HIDE DEF current, rest
    <3> QED BY <1>7, <2>1
  <2>3. current = [n \in 1..N |-> current[n]] OBVIOUS
  <2> HIDE DEF current
  <2> QED BY <1>1, <2>2, <2>3
<1>9. Total(rest) = Bps - Total(floor)
  <2>1. \E k \in 1..N : opp(k) = Largest(in)
    <3>1. Largest(in) \in Targeted(in) BY LargestIsGrouped, UniverseIs DEF Grouped
    <3> QED BY <1>1, <3>1 DEF Targeted
  <2>2. PICK k \in 1..N : opp(k) = Largest(in) BY <2>1
  <2>3. \A n \in 1..N : n # k => rest[n] = 0
    <3>1. \A n \in 1..N : opp(n) = opp(k) => n = k BY <1>1 DEF Book, ValidBook
    <3> QED BY <2>2, <3>1
  <2>4. rest[k] = Bps - Total(floor) BY <2>2
  <2> HIDE DEF rest, opp
  <2>5. Total(rest) = rest[k] BY <1>6, <2>3, TotalSpike
  <2> QED BY <2>4, <2>5
<1> HIDE DEF current, rest
<1>10. Total(current) = Total(floor) + Total(rest) BY <1>2, <1>6, <1>7, <1>8, TotalPlus
<1>11. Total(floor) \in Int BY <1>2, TotalInt
<1> QED BY <1>4, <1>9, <1>10, <1>11, GraphAssumption

LEMMA RequestStays == Spec => [](req \in Requests)
<1>1. Init => req \in Requests BY DEF Init
<1>2. req \in Requests /\ [Next]_vars => (req \in Requests)'
  <2> SUFFICES ASSUME [Next]_vars, req \in Requests PROVE req' = req OBVIOUS
  <2> QED BY DEF Next, vars, CompileLeave, DeferEnter, TakeEnter, Slice, EndSlicing, Compose,
       GetQuote, BuildOptIns, BuildSwap, CompileShape, EndSlice, Answer
<1> QED BY <1>1, <1>2, PTL DEF Spec

\* Whatever the positions are worth, the current weights of a rebalance make up the
\* whole book: what rounding down loses goes to one group, to no other and only once.
THEOREM WeightsMakeUpTheBook == Spec => []CurrentWeightsAddUp
<1>1. req \in Requests => CurrentWeightsAddUp
  <2> SUFFICES ASSUME req \in Requests, req.kind = "rebalance", TotalUsd(req.book) > 0
               PROVE  SumOver(Weights(req.book), LAMBDA row : row.current) = Bps
    BY DEF CurrentWeightsAddUp, ofRebalance
  <2>1. Book(req.book) BY CompilerAssumption DEF RequestOK
  <2> QED BY <2>1, WeightsAddUp
<1> QED BY <1>1, RequestStays, PTL

-----------------------------------------------------------------------------
(***************************************************************************)
(* What the intents of a book are.                                         *)
(***************************************************************************)
\* The rows of a book.
Rows(rows) ==
  IsList(rows) /\ \A row \in Members(rows) : row.delta \in Int

LEMMA CurrentInt == ASSUME NEW in, Book(in), NEW opp PROVE CurrentBps(in, opp) \in Int
<1> DEFINE floor == [n \in DOMAIN in.targets |->
                       IF in.targets[n].opp \in Grouped(in) THEN FloorBps(in, in.targets[n].opp) ELSE 0]
<1>1. CASE TotalUsd(in) = 0
  <2>1. CurrentBps(in, opp) = 0 BY <1>1 DEF CurrentBps
  <2> QED BY <2>1
<1>2. CASE TotalUsd(in) # 0
  <2>1. TotalUsd(in) > 0 BY <1>2, UniverseIs
  <2>2. Len(in.targets) \in Nat /\ DOMAIN in.targets = 1..Len(in.targets) BY ListFacts DEF Book
  <2>3. \A o : FloorBps(in, o) \in Int BY <2>1, FloorNat
  <2>4. floor \in Seq(Int) BY <2>2, <2>3
  <2>5. SumOver(in.targets, LAMBDA t : IF t.opp \in Grouped(in) THEN FloorBps(in, t.opp) ELSE 0)
          = Total(floor)
    BY DEF SumOver
  <2> HIDE DEF floor
  <2>6. Bps - Total(floor) \in Int BY <2>4, TotalInt, GraphAssumption
  <2>7. CurrentBps(in, opp) \in {0, FloorBps(in, opp) + (Bps - Total(floor)), FloorBps(in, opp) + 0}
    BY <2>5 DEF CurrentBps
  <2> QED BY <2>3, <2>6, <2>7
<1> QED BY <1>1, <1>2

LEMMA WeightsAre ==
  ASSUME NEW in, Book(in)
  PROVE  /\ Rows(Weights(in)) /\ Rows(Underweight(in)) /\ Rows(Overweight(in))
         /\ Members(Underweight(in))
              = {row \in Members(Weights(in)) : row.delta >= in.minDelta}
         /\ Members(Overweight(in))
              = {row \in Members(Weights(in)) :
                   (row.target = 0 /\ row.current > 0) \/ row.delta <= -in.minDelta}
<1>1. IsList(in.targets) /\ DOMAIN in.targets = 1..Len(in.targets) BY ListFacts DEF Book
<1>2. IsList(Weights(in)) /\ DOMAIN Weights(in) = DOMAIN in.targets
  <2> DEFINE f == Weights(in)
  <2>1. f = [n \in DOMAIN in.targets |-> f[n]] BY DEF Weights
  <2> HIDE DEF f
  <2>2. IsList(f) /\ DOMAIN f = DOMAIN in.targets BY <1>1, <2>1, MadeOf
  <2> QED BY <2>2 DEF f
<1>3. Rows(Weights(in))
  <2>1. ASSUME NEW n \in DOMAIN in.targets PROVE Weights(in)[n].delta \in Int
    <3>1. Weights(in)[n].delta = in.targets[n].bps - CurrentBps(in, in.targets[n].opp)
      BY DEF Weights
    <3>2. in.targets[n] \in Members(in.targets) BY DEF Members
    <3>3. in.targets[n].bps \in Nat BY <3>2 DEF Book
    <3> QED BY <3>1, <3>3, CurrentInt
  <2> QED BY <1>2, <2>1 DEF Rows, Members
<1>4. /\ Rows(Underweight(in))
      /\ Members(Underweight(in)) = {row \in Members(Weights(in)) : row.delta >= in.minDelta}
  <2> DEFINE T == {row \in Members(Weights(in)) : row.delta >= in.minDelta}
  <2>1. Underweight(in) = Keep(Weights(in), T) BY DEF Underweight, Filter
  <2>2. Members(Weights(in)) \cap T = T OBVIOUS
  <2> HIDE DEF T
  <2>3. IsList(Underweight(in)) /\ Members(Underweight(in)) = T BY <1>2, <2>1, <2>2, Kept
  <2> QED BY <1>3, <2>2, <2>3 DEF T, Rows
<1>5. /\ Rows(Overweight(in))
      /\ Members(Overweight(in))
           = {row \in Members(Weights(in)) :
                (row.target = 0 /\ row.current > 0) \/ row.delta <= -in.minDelta}
  <2> DEFINE T == {row \in Members(Weights(in)) :
                     (row.target = 0 /\ row.current > 0) \/ row.delta <= -in.minDelta}
  <2>1. Overweight(in) = Keep(Weights(in), T) BY DEF Overweight, Filter
  <2>2. Members(Weights(in)) \cap T = T OBVIOUS
  <2> HIDE DEF T
  <2>3. IsList(Overweight(in)) /\ Members(Overweight(in)) = T BY <1>2, <2>1, <2>2, Kept
  <2> QED BY <1>3, <2>2, <2>3 DEF T, Rows
<1> QED BY <1>3, <1>4, <1>5

Leaves(kind) == kind \in {"claim", "exit"}

\* No two intents take the same thing.
Lone(intents) ==
  \A i, j \in DOMAIN intents :
    Leaves(intents[i].kind) /\ intents[i].kind = intents[j].kind
      /\ intents[i].position = intents[j].position => i = j

\* Each target has one row.
LEMMA RowsAre ==
  ASSUME NEW in, Book(in)
  PROVE  /\ \A row \in Members(Weights(in)) :
              /\ row.target \in Nat /\ row.current \in Int /\ row.delta = row.target - row.current
              /\ \E t \in Members(in.targets) :
                   t.opp = row.opp /\ t.bps = row.target /\ row.current = CurrentBps(in, t.opp)
         /\ \A t \in Members(in.targets) : \E row \in Members(Weights(in)) :
              row.opp = t.opp /\ row.target = t.bps /\ row.current = CurrentBps(in, t.opp)
         /\ \A n, m \in DOMAIN Weights(in) : Weights(in)[n].opp = Weights(in)[m].opp => n = m
<1> DEFINE f == Weights(in)
           W(n) == [opp |-> in.targets[n].opp, current |-> CurrentBps(in, in.targets[n].opp),
                    target |-> in.targets[n].bps,
                    delta |-> in.targets[n].bps - CurrentBps(in, in.targets[n].opp)]
<1>1. DOMAIN f = DOMAIN in.targets /\ \A n \in DOMAIN in.targets : f[n] = W(n)
  BY DEF Weights
<1>2. \A n \in DOMAIN in.targets : in.targets[n] \in Members(in.targets) BY DEF Members
<1>3. \A t \in Members(in.targets) : t.bps \in Nat BY DEF Book
<1>4. \A n \in DOMAIN in.targets : CurrentBps(in, in.targets[n].opp) \in Int BY CurrentInt
<1>5. ASSUME NEW row \in Members(f)
      PROVE  /\ row.target \in Nat /\ row.current \in Int /\ row.delta = row.target - row.current
             /\ \E t \in Members(in.targets) :
                  t.opp = row.opp /\ t.bps = row.target /\ row.current = CurrentBps(in, t.opp)
  <2>1. PICK n \in DOMAIN in.targets : row = W(n) BY <1>1 DEF Members
  <2> QED BY <1>2, <1>3, <1>4, <2>1
<1>6. ASSUME NEW t \in Members(in.targets)
      PROVE  \E row \in Members(f) :
               row.opp = t.opp /\ row.target = t.bps /\ row.current = CurrentBps(in, t.opp)
  <2>1. PICK n \in DOMAIN in.targets : t = in.targets[n] BY DEF Members
  <2>2. f[n] \in Members(f) /\ f[n] = W(n) BY <1>1 DEF Members
  <2> QED BY <2>1, <2>2
<1>7. ASSUME NEW n \in DOMAIN f, NEW m \in DOMAIN f, f[n].opp = f[m].opp PROVE n = m
  <2>1. n \in DOMAIN in.targets /\ m \in DOMAIN in.targets BY <1>1
  <2>2. f[n] = W(n) /\ f[m] = W(m) BY <1>1, <2>1
  <2>3. W(n).opp = in.targets[n].opp /\ W(m).opp = in.targets[m].opp OBVIOUS
  <2> HIDE DEF f, W
  <2>4. in.targets[n].opp = in.targets[m].opp BY <1>7, <2>2, <2>3
  <2> QED BY <2>1, <2>4 DEF Book, ValidBook
<1> HIDE DEF f, W
<1>8. \A n, m \in DOMAIN f : f[n].opp = f[m].opp => n = m BY <1>7
<1> QED BY <1>5, <1>6, <1>8 DEF f

\* Two rows of one market are one row, and a target is that of its row.
LEMMA OneRow ==
  ASSUME NEW in, Book(in), NEW row \in Members(Weights(in))
  PROVE  /\ \A other \in Members(Weights(in)) : other.opp = row.opp => other = row
         /\ \A t \in Members(in.targets) : t.opp = row.opp =>
              row.target = t.bps /\ row.current = CurrentBps(in, t.opp)
<1>1. ASSUME NEW other \in Members(Weights(in)), other.opp = row.opp PROVE other = row
  <2>1. PICK n \in DOMAIN Weights(in) : row = Weights(in)[n] BY DEF Members
  <2>2. PICK m \in DOMAIN Weights(in) : other = Weights(in)[m] BY DEF Members
  <2>3. n = m BY <1>1, <2>1, <2>2, RowsAre
  <2> QED BY <2>1, <2>2, <2>3
<1>2. ASSUME NEW t \in Members(in.targets), t.opp = row.opp
      PROVE  row.target = t.bps /\ row.current = CurrentBps(in, t.opp)
  <2>1. PICK other \in Members(Weights(in)) :
           other.opp = t.opp /\ other.target = t.bps /\ other.current = CurrentBps(in, t.opp)
    BY RowsAre
  <2>2. other = row BY <1>1, <1>2, <2>1
  <2> QED BY <2>1, <2>2
<1> QED BY <1>1, <1>2

LEMMA ClaimIs == ASSUME NEW c PROVE Claim(c).kind = "claim" /\ Claim(c).position = c.key
BY DEF Claim, Intent

\* Rewards with one key are claimed once.
LEMMA ClaimsAreApart ==
  ASSUME NEW in, Book(in)
  PROVE  /\ IsList(Claims(in)) /\ \A i \in Members(Claims(in)) : i.kind = "claim"
         /\ \A n, m \in DOMAIN Claims(in) :
              Claims(in)[n].position = Claims(in)[m].position => n = m
<1> DEFINE T == {c \in Members(in.claims) : c.worth /\ c.quoted}
           worth == Keep(in.claims, T)
           places == [i \in DOMAIN worth |-> i]
           first == {i \in DOMAIN worth : \A j \in 1..(i - 1) : worth[j].key # worth[i].key}
           rows == Keep(places, first)
           claims == [i \in DOMAIN rows |-> Claim(worth[rows[i]])]
<1>1. IsList(worth) /\ DOMAIN worth = 1..Len(worth) /\ Len(worth) \in Nat
  <2>1. IsList(worth)
    <3> HIDE DEF T
    <3> QED BY Kept DEF Book
  <2> HIDE DEF worth
  <2> QED BY <2>1, ListFacts
<1>2. Claims(in) = IF ~in.includeClaims THEN <<>> ELSE claims BY DEF Claims, Filter
<1> HIDE DEF worth
<1>3. IsList(places) /\ DOMAIN places = DOMAIN worth /\ \A n \in DOMAIN worth : places[n] = n
  <2>1. places = [i \in DOMAIN worth |-> places[i]] OBVIOUS
  <2>2. DOMAIN places = DOMAIN worth /\ \A n \in DOMAIN worth : places[n] = n OBVIOUS
  <2> HIDE DEF places
  <2> QED BY <1>1, <2>1, <2>2, MadeOf
<1>4. IsList(rows) /\ Members(rows) \subseteq first
  <2> HIDE DEF first, places
  <2> QED BY <1>3, Kept
<1>5. \A n, m \in DOMAIN rows : rows[n] = rows[m] => n = m
  <2> HIDE DEF first, places
  <2>1. PICK m : Places(m, rows, places) BY <1>3, KeptPlaces
  <2> HIDE DEF rows
  <2> QED BY <1>3, <2>1 DEF Places
<1>6. ASSUME NEW n \in DOMAIN rows, NEW m \in DOMAIN rows,
             worth[rows[n]].key = worth[rows[m]].key
      PROVE  n = m
  <2>1. PICK a, b : a = rows[n] /\ b = rows[m] OBVIOUS
  <2>2. a \in first /\ b \in first BY <1>4, <2>1 DEF Members
  <2>3. a \in Nat /\ b \in Nat /\ a >= 1 /\ b >= 1 BY <1>1, <2>2
  <2>4. ~(a < b)
    <3> SUFFICES ASSUME a < b PROVE FALSE OBVIOUS
    <3>1. a \in 1..(b - 1) BY <2>3
    <3> QED BY <1>6, <2>1, <2>2, <3>1
  <2>5. ~(b < a)
    <3> SUFFICES ASSUME b < a PROVE FALSE OBVIOUS
    <3>1. b \in 1..(a - 1) BY <2>3
    <3> QED BY <1>6, <2>1, <2>2, <3>1
  <2>6. a = b BY <2>3, <2>4, <2>5
  <2> QED BY <1>5, <2>1, <2>6
<1> HIDE DEF rows
<1>7. IsList(claims) /\ DOMAIN claims = DOMAIN rows /\ \A n \in DOMAIN rows : claims[n] = Claim(worth[rows[n]])
  <2>1. claims = [i \in DOMAIN rows |-> claims[i]] OBVIOUS
  <2>2. DOMAIN claims = DOMAIN rows /\ \A n \in DOMAIN rows : claims[n] = Claim(worth[rows[n]])
    OBVIOUS
  <2> HIDE DEF claims
  <2> QED BY <1>4, <2>1, <2>2, MadeOf
<1> HIDE DEF claims
<1>8. \A i \in Members(claims) : i.kind = "claim" BY <1>7, ClaimIs DEF Members
<1>9. ASSUME NEW n \in DOMAIN claims, NEW m \in DOMAIN claims,
             claims[n].position = claims[m].position
      PROVE  n = m
  <2>1. claims[n].position = worth[rows[n]].key /\ claims[m].position = worth[rows[m]].key
    BY <1>7, ClaimIs
  <2> QED BY <1>6, <1>7, <1>9, <2>1
<1>10. CASE in.includeClaims BY <1>2, <1>7, <1>8, <1>9, <1>10
<1>11. CASE ~in.includeClaims
  <2>1. Claims(in) = <<>> BY <1>2, <1>11
  <2> QED BY <2>1, NoList
<1> QED BY <1>10, <1>11

\* What is taken out of a market for its row.
Exit(in, row, p) ==
  [Intent("exit", row.opp, p.asset, ExitAmount(in, row, p), TRUE)
     EXCEPT !.position = p.id, !.protocol = p.protocol]

LEMMA ExitIs ==
  ASSUME NEW in, NEW row, NEW p
  PROVE  /\ Exit(in, row, p).kind = "exit" /\ Exit(in, row, p).position = p.id
         /\ Exit(in, row, p).amount = ExitAmount(in, row, p)
BY DEF Exit, Intent

ExitOf(in, i, row) ==
  \E p \in Members(Group(in, row.opp)) :
    /\ i.kind = "exit" /\ i.position = p.id
    /\ i.amount = ExitAmount(in, row, p) /\ i.amount > 0

LEMMA OnePlace ==
  ASSUME NEW in, Book(in)
  PROVE  \A n, m \in DOMAIN Universe(in) : Universe(in)[n].id = Universe(in)[m].id => n = m
<1> DEFINE T == {p \in Members(in.positions) : p.book /\ p.opp \in Targeted(in)}
<1>1. Universe(in) = Keep(in.positions, T) BY DEF Universe, Filter
<1> HIDE DEF T
<1>2. PICK m : Places(m, Universe(in), in.positions) BY <1>1, KeptPlaces DEF Book
<1> QED BY <1>2 DEF Places, Book

LEMMA OnePosition ==
  ASSUME NEW in, Book(in), NEW p \in Members(in.positions), NEW q \in Members(in.positions),
         p.id = q.id
  PROVE  p = q
BY DEF Book, Members

LEMMA ExitsOfRow ==
  ASSUME NEW in, Book(in), NEW row
  PROVE  /\ IsList(ExitsOf(in, row))
         /\ \A i \in Members(ExitsOf(in, row)) : ExitOf(in, i, row)
         /\ \A p \in Members(Group(in, row.opp)) : p.exits > 0 /\ ExitAmount(in, row, p) > 0
              => \E i \in Members(ExitsOf(in, row)) : i.kind = "exit" /\ i.position = p.id
                                                       /\ i.amount = ExitAmount(in, row, p)
         /\ \A n, m \in DOMAIN ExitsOf(in, row) :
              ExitsOf(in, row)[n].position = ExitsOf(in, row)[m].position => n = m
<1> DEFINE T == {p \in Members(Group(in, row.opp)) : p.exits > 0 /\ ExitAmount(in, row, p) > 0}
           G == {p \in Members(Universe(in)) : p.opp = row.opp}
           group == Group(in, row.opp)
           leaving == Keep(group, T)
           f == [i \in DOMAIN leaving |-> Exit(in, row, leaving[i])]
<1>1. ExitsOf(in, row) = f BY DEF ExitsOf, Filter, Exit
<1>2. IsList(group) BY UniverseIs DEF Priced
<1>3. \A n, m \in DOMAIN group : group[n].id = group[m].id => n = m
  <2>1. group = Keep(Universe(in), G) BY DEF Group, Filter
  <2>2. IsList(Universe(in)) BY UniverseIs DEF Priced
  <2> HIDE DEF G, group
  <2>3. PICK m : Places(m, group, Universe(in)) BY <2>1, <2>2, KeptPlaces
  <2> QED BY <2>3, OnePlace DEF Places
<1>4. T \subseteq Members(group) OBVIOUS
<1>5. IsList(leaving) /\ Members(leaving) = T
      /\ \A n, m \in DOMAIN leaving : leaving[n].id = leaving[m].id => n = m
  <2> HIDE DEF T, group
  <2>1. IsList(leaving) /\ Members(leaving) = T BY <1>2, <1>4, Kept
  <2>2. PICK m : Places(m, leaving, group) BY <1>2, KeptPlaces
  <2> HIDE DEF leaving
  <2>3. \A n, k \in DOMAIN leaving : leaving[n].id = leaving[k].id => n = k
    BY <1>3, <2>2 DEF Places
  <2> QED BY <2>1, <2>3
<1> HIDE DEF leaving
<1>6. IsList(f) /\ DOMAIN f = DOMAIN leaving
      /\ \A n \in DOMAIN leaving : f[n] = Exit(in, row, leaving[n])
  <2>1. f = [i \in DOMAIN leaving |-> f[i]] OBVIOUS
  <2>2. DOMAIN f = DOMAIN leaving /\ \A n \in DOMAIN leaving : f[n] = Exit(in, row, leaving[n])
    OBVIOUS
  <2> HIDE DEF f
  <2> QED BY <1>5, <2>1, <2>2, MadeOf
<1> HIDE DEF f
<1>7. ASSUME NEW i \in Members(f) PROVE ExitOf(in, i, row)
  <2>1. PICK n \in DOMAIN leaving : i = Exit(in, row, leaving[n]) BY <1>6 DEF Members
  <2>2. leaving[n] \in T BY <1>5 DEF Members
  <2> QED BY <2>1, <2>2, ExitIs DEF ExitOf
<1>8. ASSUME NEW p \in T
      PROVE  \E i \in Members(f) : i.kind = "exit" /\ i.position = p.id
                                     /\ i.amount = ExitAmount(in, row, p)
  <2>1. PICK n \in DOMAIN leaving : p = leaving[n] BY <1>5 DEF Members
  <2>2. f[n] \in Members(f) /\ f[n] = Exit(in, row, p) BY <1>6, <2>1 DEF Members
  <2> QED BY <2>2, ExitIs
<1>9. ASSUME NEW n \in DOMAIN f, NEW m \in DOMAIN f, f[n].position = f[m].position PROVE n = m
  <2>1. f[n].position = leaving[n].id /\ f[m].position = leaving[m].id BY <1>6, ExitIs
  <2> QED BY <1>5, <1>6, <1>9, <2>1
<1>10. \A p \in Members(group) : p.exits > 0 /\ ExitAmount(in, row, p) > 0 => p \in T OBVIOUS
<1> HIDE DEF T
<1> QED BY <1>1, <1>6, <1>7, <1>8, <1>9, <1>10

LEMMA LoneJoined ==
  ASSUME NEW s, IsList(s), Lone(s), NEW t, IsList(t), Lone(t),
         \A x \in Members(s), y \in Members(t) : Leaves(x.kind) => x.kind # y.kind
  PROVE  Lone(s \o t)
<1>1. PICK u : u = s \o t /\ IsList(u) /\ Joined(u, s, t) BY Concatenated
<1>2. /\ Len(s) \in Nat /\ Len(t) \in Nat /\ DOMAIN s = 1..Len(s) /\ DOMAIN t = 1..Len(t)
      /\ DOMAIN u = 1..(Len(s) + Len(t))
      /\ \A n \in 1..Len(s) : s[n] \in Members(s)
      /\ \A n \in 1..Len(t) : t[n] \in Members(t)
  BY <1>1, ListFacts DEF Joined
<1>3. ASSUME NEW n \in DOMAIN u
      PROVE  \/ n \in 1..Len(s) /\ u[n] = s[n]
             \/ \E k \in 1..Len(t) : n = Len(s) + k /\ u[n] = t[k]
  <2>1. CASE n <= Len(s) BY <1>1, <1>2, <2>1 DEF Joined
  <2>2. CASE n > Len(s)
    <3>1. n - Len(s) \in 1..Len(t) /\ n = Len(s) + (n - Len(s)) BY <1>2, <2>2
    <3> QED BY <1>1, <3>1 DEF Joined
  <2> QED BY <1>2, <2>1, <2>2
<1>4. ASSUME NEW i \in DOMAIN u, NEW j \in DOMAIN u, Leaves(u[i].kind),
             u[i].kind = u[j].kind, u[i].position = u[j].position
      PROVE  i = j
  <2>1. CASE i \in 1..Len(s) /\ u[i] = s[i] /\ j \in 1..Len(s) /\ u[j] = s[j]
    BY <1>2, <1>4, <2>1 DEF Lone
  <2>2. ASSUME NEW k \in 1..Len(t), i = Len(s) + k, u[i] = t[k],
               NEW m \in 1..Len(t), j = Len(s) + m, u[j] = t[m]
        PROVE  i = j
    BY <1>2, <1>4, <2>2 DEF Lone
  <2>3. ASSUME NEW a \in 1..Len(s), NEW b \in 1..Len(t),
               (u[i] = s[a] /\ u[j] = t[b]) \/ (u[j] = s[a] /\ u[i] = t[b])
        PROVE  FALSE
    BY <1>2, <1>4, <2>3
  <2> QED BY <1>3, <2>1, <2>2, <2>3
<1> QED BY <1>1, <1>4 DEF Lone

\* What leaves a market is in its group of positions, and in no other's.
LEMMA ExitsAre ==
  ASSUME NEW in, Book(in)
  PROVE  /\ IsList(Exits(in)) /\ Lone(Exits(in))
         /\ \A i \in Members(Exits(in)) : \E row \in Members(Overweight(in)) : ExitOf(in, i, row)
         /\ \A row \in Members(Overweight(in)) : \A p \in Members(Group(in, row.opp)) :
              p.exits > 0 /\ ExitAmount(in, row, p) > 0
                => \E i \in Members(Exits(in)) : i.kind = "exit" /\ i.position = p.id
                                                   /\ i.amount = ExitAmount(in, row, p)
<1> DEFINE rows == Overweight(in)
           each == [i \in DOMAIN rows |-> ExitsOf(in, rows[i])]
           T == {row \in Members(Weights(in)) :
                   (row.target = 0 /\ row.current > 0) \/ row.delta <= -in.minDelta}
<1>1. IsList(rows) /\ Members(rows) \subseteq Members(Weights(in)) BY WeightsAre DEF Rows
<1>2. \A n, m \in DOMAIN rows : rows[n].opp = rows[m].opp => n = m
  <2>1. rows = Keep(Weights(in), T) BY DEF Overweight, Filter
  <2>2. IsList(Weights(in)) BY WeightsAre DEF Rows
  <2> HIDE DEF T, rows
  <2>3. PICK m : Places(m, rows, Weights(in)) BY <2>1, <2>2, KeptPlaces
  <2> QED BY <2>3, RowsAre DEF Places
<1>3. Exits(in) = Flatten(each) BY DEF Exits
<1>4. DOMAIN each = DOMAIN rows /\ \A n \in DOMAIN rows : each[n] = ExitsOf(in, rows[n]) OBVIOUS
<1>5. each = [i \in DOMAIN rows |-> each[i]] OBVIOUS
<1> HIDE DEF each, rows
<1>6. IsList(each) BY <1>1, <1>5, MadeOf
<1>7. \A s \in Members(each) : IsList(s)
  <2> SUFFICES ASSUME NEW s \in Members(each) PROVE IsList(s) OBVIOUS
  <2>1. PICK n \in DOMAIN rows : s = ExitsOf(in, rows[n]) BY <1>4 DEF Members
  <2> QED BY <2>1, ExitsOfRow
<1>8. IsList(Exits(in)) /\ Members(Exits(in)) = UNION {Members(s) : s \in Members(each)}
  BY <1>3, <1>6, <1>7, Flattened
<1>9. ASSUME NEW i \in Members(Exits(in))
      PROVE  \E row \in Members(rows) : ExitOf(in, i, row)
  <2>1. PICK n \in DOMAIN rows : i \in Members(ExitsOf(in, rows[n])) BY <1>4, <1>8 DEF Members
  <2>2. ExitOf(in, i, rows[n]) BY <2>1, ExitsOfRow
  <2>3. rows[n] \in Members(rows) BY DEF Members
  <2> QED BY <2>2, <2>3
<1>10. ASSUME NEW row \in Members(rows), NEW p \in Members(Group(in, row.opp)),
              p.exits > 0, ExitAmount(in, row, p) > 0
       PROVE  \E i \in Members(Exits(in)) : i.kind = "exit" /\ i.position = p.id
                                              /\ i.amount = ExitAmount(in, row, p)
  <2>1. PICK n \in DOMAIN rows : row = rows[n] BY DEF Members
  <2>2. PICK i \in Members(ExitsOf(in, row)) :
           i.kind = "exit" /\ i.position = p.id /\ i.amount = ExitAmount(in, row, p)
    BY <1>10, ExitsOfRow
  <2>3. each[n] \in Members(each) /\ each[n] = ExitsOf(in, row) BY <1>4, <2>1 DEF Members
  <2>4. i \in Members(Exits(in)) BY <1>8, <2>3
  <2> QED BY <2>2, <2>4
<1>11. Lone(Exits(in))
  <2> DEFINE key == [i \in Members(Exits(in)) |-> i.position]
  <2>1. \A n \in DOMAIN rows : Members(each[n]) \subseteq Members(Exits(in))
    <3>1. \A n \in DOMAIN rows : each[n] \in Members(each) BY <1>4 DEF Members
    <3> QED BY <1>8, <3>1
  <2>2. \A i \in Members(Exits(in)) : key[i] = i.position OBVIOUS
  <2> HIDE DEF key
  <2>3. ASSUME NEW n \in DOMAIN each PROVE Apart(each[n], key)
    <3>1. \A k \in DOMAIN each[n] : each[n][k] \in Members(Exits(in)) BY <1>4, <2>1 DEF Members
    <3>2. \A k, m \in DOMAIN each[n] : each[n][k].position = each[n][m].position => k = m
      <4>1. each[n] = ExitsOf(in, rows[n]) BY <1>4
      <4> QED BY <4>1, ExitsOfRow
    <3> QED BY <2>2, <3>1, <3>2 DEF Apart
  <2>4. ASSUME NEW n \in DOMAIN each, NEW m \in DOMAIN each,
               NEW x \in Members(each[n]), NEW y \in Members(each[m]), key[x] = key[y]
        PROVE  n = m
    <3>1. x.position = y.position
      <4>1. x \in Members(Exits(in)) /\ y \in Members(Exits(in)) BY <1>4, <2>1
      <4> QED BY <2>2, <2>4, <4>1
    <3>2. ExitOf(in, x, rows[n]) /\ ExitOf(in, y, rows[m])
      <4>1. each[n] = ExitsOf(in, rows[n]) /\ each[m] = ExitsOf(in, rows[m]) BY <1>4
      <4> QED BY <4>1, ExitsOfRow
    <3>3. PICK p \in Members(Group(in, rows[n].opp)) : x.position = p.id BY <3>2 DEF ExitOf
    <3>4. PICK q \in Members(Group(in, rows[m].opp)) : y.position = q.id BY <3>2 DEF ExitOf
    <3>5. /\ p \in Members(in.positions) /\ p.opp = rows[n].opp
          /\ q \in Members(in.positions) /\ q.opp = rows[m].opp
      BY UniverseIs
    <3>6. p = q BY <3>1, <3>3, <3>4, <3>5, OnePosition
    <3> QED BY <1>2, <1>4, <3>5, <3>6
  <2>5. Apart(Exits(in), key) BY <1>3, <1>6, <1>7, <2>3, <2>4, FlattenedApart
  <2>6. \A n \in DOMAIN Exits(in) : Exits(in)[n] \in Members(Exits(in)) BY DEF Members
  <2> QED BY <2>2, <2>5, <2>6 DEF Apart, Lone
<1> QED BY <1>8, <1>9, <1>10, <1>11 DEF rows

\* Where an enter that is compiled goes: anywhere when there is no target, else into
\* an underweight market.
EnterOf(in, i) ==
  \/ i.opp = None /\ in.targets = <<>>
  \/ \E row \in Members(Underweight(in)) : i.opp = row.opp /\ i.opp # None

LEMMA EntersAre ==
  ASSUME NEW in, Book(in)
  PROVE  /\ IsList(Enters(in)) /\ \A i \in Members(Enters(in)) : i.kind = "enter" /\ EnterOf(in, i)
<1> DEFINE rows == Underweight(in)
           funded == in.idle > 0 /\ SumOver(rows, LAMBDA row : row.delta) > 0
           intent(i) == Intent("enter", rows[i].opp, Algo,
                              IF funded THEN Share(in, i) ELSE 0, funded)
           enters == [i \in DOMAIN rows |-> intent(i)]
           T == {x \in Members(enters) : x.amount > 0}
<1>1. EntersByGap(in) \in {<<>>, enters, Keep(enters, T)} BY DEF EntersByGap, Filter
<1>2. IsList(rows) /\ \A row \in Members(rows) : row \in Members(Weights(in)) BY WeightsAre DEF Rows
<1>3. \A row \in Members(rows) : row.opp # None
  <2> SUFFICES ASSUME NEW row \in Members(rows) PROVE row.opp # None OBVIOUS
  <2>1. PICK t \in Members(in.targets) : t.opp = row.opp BY <1>2, RowsAre
  <2> QED BY <2>1 DEF Book
<1>4. \A i \in DOMAIN rows : intent(i).kind = "enter" /\ intent(i).opp = rows[i].opp BY DEF Intent
<1>5. /\ enters = [i \in DOMAIN rows |-> enters[i]] /\ DOMAIN enters = DOMAIN rows
      /\ \A i \in DOMAIN rows : enters[i].kind = "enter" /\ enters[i].opp = rows[i].opp
  <2> HIDE DEF intent
  <2> QED BY <1>4
<1> HIDE DEF enters
<1>6. IsList(enters)
  <2> HIDE DEF rows
  <2> QED BY <1>2, <1>5, MadeOf
<1>7. ASSUME NEW i \in Members(enters) PROVE i.kind = "enter" /\ EnterOf(in, i)
  <2>1. PICK n \in DOMAIN rows : i = enters[n] BY <1>5 DEF Members
  <2>2. rows[n] \in Members(rows) BY DEF Members
  <2> QED BY <1>3, <1>5, <2>1, <2>2 DEF EnterOf
<1>8. IsList(Keep(enters, T)) /\ Members(Keep(enters, T)) \subseteq Members(enters)
  <2> HIDE DEF T
  <2> QED BY <1>6, Kept
<1>9. CASE in.targets # <<>>
  <2>1. Enters(in) \in {<<>>, enters, Keep(enters, T)} BY <1>1, <1>9 DEF Enters
  <2> HIDE DEF T
  <2> QED BY <1>6, <1>7, <1>8, <2>1, NoList
<1>10. CASE in.targets = <<>>
  <2>1. PICK e : e = Intent("enter", None, Algo, in.idle, TRUE) OBVIOUS
  <2>2. e.kind = "enter" /\ e.opp = None BY <2>1 DEF Intent
  <2>3. Enters(in) \in {<<>>, <<e>>} BY <1>10, <2>1 DEF Enters
  <2> QED BY <1>10, <2>2, <2>3, NoList, OneMember DEF EnterOf
<1> QED BY <1>9, <1>10

\* The intents of a book.
LEMMA DeltasAre ==
  ASSUME NEW in, Book(in)
  PROVE  /\ IsList(Deltas(in)) /\ Lone(Deltas(in))
         /\ \A i \in Members(Deltas(in)) :
              /\ i.kind \in {"claim", "exit", "enter"}
              /\ i.kind = "exit" => \E row \in Members(Overweight(in)) : ExitOf(in, i, row)
              /\ i.kind = "enter" => EnterOf(in, i)
         /\ \A row \in Members(Overweight(in)) : \A p \in Members(Group(in, row.opp)) :
              p.exits > 0 /\ ExitAmount(in, row, p) > 0
                => \E i \in Members(Deltas(in)) : i.kind = "exit" /\ i.position = p.id
                                                    /\ i.amount = ExitAmount(in, row, p)
<1> DEFINE c == Claims(in)
           x == Exits(in)
           e == Enters(in)
<1>1. IsList(c) /\ \A i \in Members(c) : i.kind = "claim" BY ClaimsAreApart
<1>2. Lone(c)
  <2>1. \A n, m \in DOMAIN c : c[n].position = c[m].position => n = m BY ClaimsAreApart
  <2> QED BY <2>1 DEF Lone
<1>3. /\ IsList(x) /\ Lone(x)
      /\ \A i \in Members(x) : i.kind = "exit" /\ \E row \in Members(Overweight(in)) : ExitOf(in, i, row)
  BY ExitsAre DEF ExitOf
<1>4. IsList(e) /\ \A i \in Members(e) : i.kind = "enter" /\ EnterOf(in, i) BY EntersAre
<1>5. Lone(e)
  <2>1. \A n \in DOMAIN e : ~Leaves(e[n].kind)
    <3>1. \A n \in DOMAIN e : e[n] \in Members(e) BY DEF Members
    <3> HIDE DEF e
    <3> QED BY <1>4, <3>1 DEF Leaves
  <2> QED BY <2>1 DEF Lone
<1>6. Deltas(in) = (c \o x) \o e BY DEF Deltas
<1>7. \A row \in Members(Overweight(in)) : \A p \in Members(Group(in, row.opp)) :
        p.exits > 0 /\ ExitAmount(in, row, p) > 0
          => \E i \in Members(x) : i.kind = "exit" /\ i.position = p.id
                                     /\ i.amount = ExitAmount(in, row, p)
  BY ExitsAre
<1> HIDE DEF c, x, e
<1>8. IsList(c \o x) /\ Members(c \o x) = Members(c) \cup Members(x) BY <1>1, <1>3, Concatenated
<1>9. Lone(c \o x) BY <1>1, <1>2, <1>3, LoneJoined
<1>10. PICK l : l = c \o x OBVIOUS
<1>11. IsList(l \o e) /\ Members(l \o e) = Members(l) \cup Members(e)
  BY <1>4, <1>8, <1>10, Concatenated
<1>12. Lone(l \o e)
  <2>1. \A i \in Members(l), j \in Members(e) : Leaves(i.kind) => i.kind # j.kind
    BY <1>4 DEF Leaves
  <2> QED BY <1>4, <1>5, <1>8, <1>9, <1>10, <2>1, LoneJoined
<1>13. Members(Deltas(in)) = Members(c) \cup Members(x) \cup Members(e) BY <1>6, <1>8, <1>10, <1>11
<1> QED BY <1>1, <1>3, <1>4, <1>6, <1>7, <1>10, <1>11, <1>12, <1>13

-----------------------------------------------------------------------------
(***************************************************************************)
(* What the intents of a book are to spend.                                *)
(***************************************************************************)
Now(i) == IF i.kind = "enter" /\ i.compileNow THEN i.amount ELSE 0
Due(intents) == SumOver(intents, Now)
Intents(intents) == IsList(intents) /\ \A i \in Members(intents) : Now(i) \in Nat

LEMMA DueIsMapped ==
  ASSUME NEW intents, NEW S, Members(intents) \subseteq S
  PROVE  Due(intents) = Total(Mapped(intents, [i \in S |-> Now(i)]))
<1>1. \A n \in DOMAIN intents : intents[n] \in S BY DEF Members
<1>2. [n \in DOMAIN intents |-> Now(intents[n])]
        = [n \in DOMAIN intents |-> [i \in S |-> Now(i)][intents[n]]]
  BY <1>1
<1> QED BY <1>2 DEF Due, SumOver, Mapped

LEMMA DueNat == ASSUME NEW intents, Intents(intents) PROVE Due(intents) \in Nat
<1> DEFINE now == [n \in DOMAIN intents |-> Now(intents[n])]
<1>1. /\ Len(intents) \in Nat /\ DOMAIN intents = 1..Len(intents)
      /\ \A n \in 1..Len(intents) : intents[n] \in Members(intents)
  BY ListFacts DEF Intents
<1>2. \A n \in 1..Len(intents) : now[n] \in Nat BY <1>1 DEF Intents
<1>3. now \in Seq(Int) /\ Len(now) = Len(intents) /\ \A n \in 1..Len(now) : now[n] \in Nat
  BY <1>1, <1>2
<1>4. Due(intents) = Total(now) BY DEF Due, SumOver
<1> HIDE DEF now
<1> QED BY <1>3, <1>4, TotalPositive, TotalInt

LEMMA DueTail ==
  ASSUME NEW intents, Intents(intents), intents # <<>>
  PROVE  /\ Intents(Tail(intents)) /\ Now(Head(intents)) \in Nat
         /\ Due(intents) = Now(Head(intents)) + Due(Tail(intents))
<1> DEFINE S == Members(intents)
           g == [i \in S |-> Now(i)]
<1>1. /\ IsList(intents) /\ IsList(Tail(intents)) /\ Members(Tail(intents)) \subseteq S
      /\ Head(intents) \in S
  BY Tailed DEF Intents
<1>2. \A i \in S : Now(i) \in Nat BY DEF Intents
<1>3. \A i \in S : g[i] = Now(i) OBVIOUS
<1>4. Due(intents) = Total(Mapped(intents, g)) /\ Due(Tail(intents)) = Total(Mapped(Tail(intents), g))
  BY <1>1, DueIsMapped
<1> HIDE DEF g
<1>5. \A i \in Members(intents) : g[i] \in Int
  <2> SUFFICES ASSUME NEW i \in Members(intents) PROVE g[i] \in Int OBVIOUS
  <2>1. Now(i) \in Nat BY <1>2
  <2>2. g[i] = Now(i) BY <1>3
  <2> QED BY <2>1, <2>2
<1>6. Total(Mapped(intents, g)) = g[Head(intents)] + Total(Mapped(Tail(intents), g))
  BY <1>1, <1>5, MappedTail
<1> QED BY <1>1, <1>2, <1>3, <1>4, <1>6 DEF Intents

LEMMA DueJoined ==
  ASSUME NEW s, Intents(s), NEW t, Intents(t)
  PROVE  Intents(s \o t) /\ Due(s \o t) = Due(s) + Due(t)
<1> DEFINE S == Members(s) \cup Members(t)
           g == [i \in S |-> Now(i)]
<1>1. IsList(s) /\ IsList(t) BY DEF Intents
<1>2. IsList(s \o t) /\ Members(s \o t) = S BY <1>1, Concatenated
<1>3. \A i \in S : Now(i) \in Nat BY DEF Intents
<1>4. \A i \in S : g[i] \in Int BY <1>3
<1>5. /\ Due(s \o t) = Total(Mapped(s \o t, g))
      /\ Due(s) = Total(Mapped(s, g)) /\ Due(t) = Total(Mapped(t, g))
  BY <1>2, DueIsMapped
<1> HIDE DEF g
<1>6. Total(Mapped(s \o t, g)) = Total(Mapped(s, g)) + Total(Mapped(t, g))
  BY <1>1, <1>4, MappedJoined
<1> QED BY <1>2, <1>3, <1>5, <1>6 DEF Intents

\* Intents that are no enter, or wait, spend nothing.
LEMMA NothingDue ==
  ASSUME NEW s, IsList(s), \A i \in Members(s) : Now(i) = 0
  PROVE  Intents(s) /\ Due(s) = 0
<1> DEFINE now == [n \in DOMAIN s |-> Now(s[n])]
<1>1. /\ Len(s) \in Nat /\ DOMAIN s = 1..Len(s) /\ \A n \in 1..Len(s) : s[n] \in Members(s)
  BY ListFacts
<1>2. now \in Seq(Int) /\ Len(now) = Len(s) /\ \A n \in 1..Len(now) : now[n] = 0 BY <1>1
<1>3. Due(s) = Total(now) BY DEF Due, SumOver
<1> HIDE DEF now
<1> QED BY <1>2, <1>3, TotalZero DEF Intents

LEMMA IntentIs ==
  ASSUME NEW kind, NEW opp, NEW asset, NEW amount, NEW now
  PROVE  /\ Intent(kind, opp, asset, amount, now).kind = kind
         /\ Intent(kind, opp, asset, amount, now).amount = amount
         /\ Intent(kind, opp, asset, amount, now).compileNow = now
BY DEF Intent

LEMMA ClaimsDue ==
  ASSUME NEW in, Book(in)
  PROVE  Intents(Claims(in)) /\ Due(Claims(in)) = 0
<1>1. IsList(Claims(in)) /\ \A i \in Members(Claims(in)) : Now(i) = 0 BY ClaimsAreApart DEF Now
<1> QED BY <1>1, NothingDue

LEMMA ExitsDue ==
  ASSUME NEW in, Book(in)
  PROVE  Intents(Exits(in)) /\ Due(Exits(in)) = 0
<1>1. IsList(Exits(in)) /\ \A i \in Members(Exits(in)) : Now(i) = 0
  BY ExitsAre DEF ExitOf, Now
<1> QED BY <1>1, NothingDue

\* What \div rounds down.
LEMMA DivFloors ==
  ASSUME NEW a \in Nat, NEW g \in Nat \ {0}
  PROVE  a \div g \in Nat /\ g * (a \div g) <= a /\ a < g * (a \div g) + g
<1>1. a \div g \in Nat OBVIOUS
<1>2. g * (a \div g) <= a OBVIOUS
<1>3. a < g * (a \div g) + g OBVIOUS
<1> QED BY <1>1, <1>2, <1>3

LEMMA Cancelled ==
  ASSUME NEW g \in Int, g > 0, NEW x \in Int, NEW y \in Int, g * x <= g * y
  PROVE  x <= y
<1> SUFFICES ASSUME y < x PROVE FALSE OBVIOUS
<1>1. g * (y + 1) <= g * x
  <2>1. y + 1 <= x OBVIOUS
  <2> QED BY <2>1
<1>2. g * (y + 1) = g * y + g OBVIOUS
<1> QED BY <1>1, <1>2

\* Whole parts of a budget in proportion to terms of a sum are within the budget.
LEMMA PartsWithin ==
  ASSUME NEW d \in Seq(Int), \A n \in 1..Len(d) : d[n] >= 0,
         NEW gap \in Nat \ {0}, Total(d) <= gap, NEW budget \in Nat,
         NEW parts \in Seq(Int), Len(parts) = Len(d),
         \A n \in 1..Len(d) : parts[n] = (budget * d[n]) \div gap
  PROVE  Total(parts) \in 0..budget /\ \A n \in 1..Len(d) : parts[n] \in Nat
<1>1. ASSUME NEW n \in 1..Len(d)
      PROVE  parts[n] \in Nat /\ gap * parts[n] <= budget * d[n]
  <2> DEFINE a == budget * d[n]
  <2>1. d[n] \in Nat BY SMT
  <2>2. a \in Nat
    <3>1. \A x \in Nat : budget * x \in Nat OBVIOUS
    <3> QED BY <2>1, <3>1
  <2>3. parts[n] = a \div gap OBVIOUS
  <2> HIDE DEF a
  <2>4. a \div gap \in Nat /\ gap * (a \div gap) <= a BY <2>2, DivFloors
  <2> QED BY <2>3, <2>4 DEF a
<1>2. PICK c \in Int : c = 0 OBVIOUS
<1>3. \A n \in 1..Len(parts) : gap * parts[n] <= budget * d[n] + c
  <2> SUFFICES ASSUME NEW n \in 1..Len(parts) PROVE gap * parts[n] <= budget * d[n] + c
    OBVIOUS
  <2>1. d[n] \in Int OBVIOUS
  <2>2. \A x \in Int : budget * x \in Int OBVIOUS
  <2>3. budget * d[n] \in Int BY <2>1, <2>2
  <2>4. gap * parts[n] <= budget * d[n] BY <1>1
  <2> QED BY <1>2, <2>3, <2>4
<1>4. gap * Total(parts) <= budget * Total(d) + c * Len(parts)
  <2>1. gap \in Int /\ budget \in Int OBVIOUS
  <2> QED BY <1>3, <2>1, TotalBound
<1>5. Total(parts) \in Int /\ Total(d) \in Int /\ Len(parts) \in Nat BY TotalInt
<1>6. gap * Total(parts) <= budget * Total(d) BY <1>2, <1>4, <1>5
<1>7. budget * Total(d) <= budget * gap
  <2>1. \A x, y \in Int, b \in Nat : x <= y => b * x <= b * y OBVIOUS
  <2> QED BY <1>5, <2>1
<1>8. Total(parts) <= budget
  <2>1. \A x, b, g \in Int : g > 0 /\ g * x <= b * g => x <= b OBVIOUS
  <2>2. gap * Total(parts) \in Int /\ budget * Total(d) \in Int /\ budget * gap \in Int
    BY <1>5
  <2>3. gap * Total(parts) <= budget * gap BY <1>6, <1>7, <2>2
  <2> QED BY <1>5, <2>1, <2>3
<1>9. Total(parts) >= 0 BY <1>1, TotalPositive
<1> QED BY <1>1, <1>5, <1>8, <1>9

\* All of the idle ALGO is shared, and no share is less than nothing.
LEMMA SharesAre ==
  ASSUME NEW in, Book(in), SumOver(Underweight(in), LAMBDA row : row.delta) > 0,
         NEW shares, shares = [i \in 1..Len(Underweight(in)) |-> Share(in, i)]
  PROVE  /\ shares \in Seq(Int) /\ Len(shares) = Len(Underweight(in))
         /\ Total(shares) = in.idle /\ \A i \in 1..Len(shares) : shares[i] >= 0
<1> DEFINE rows == Underweight(in)
           n == Len(rows)
           d == [i \in 1..n |-> rows[i].delta]
           gap == Total(d)
           part(j) == (in.idle * rows[j].delta) \div gap
           e == [i \in 1..(n - 1) |-> rows[i].delta]
           parts == [i \in 1..(n - 1) |-> part(i)]
<1>1. Rows(rows) /\ \A row \in Members(rows) : row.delta >= in.minDelta BY WeightsAre
<1>2. in.minDelta \in Nat /\ in.idle \in Nat BY DEF Book
<1>3. SumOver(rows, LAMBDA row : row.delta) = Total([i \in DOMAIN rows |-> rows[i].delta])
  BY DEF SumOver
<1>4. Share(in, n) = in.idle - Total([j \in 1..(n - 1) |->
          (in.idle * rows[j].delta) \div SumOver(rows, LAMBDA row : row.delta)])
      /\ \A i \in 1..n : i < n => Share(in, i)
            = (in.idle * rows[i].delta) \div SumOver(rows, LAMBDA row : row.delta)
  <2>1. \A i : Share(in, i) =
           IF i < Len(Underweight(in))
           THEN (in.idle * Underweight(in)[i].delta)
                  \div SumOver(Underweight(in), LAMBDA row : row.delta)
           ELSE in.idle - Total([j \in 1..(Len(Underweight(in)) - 1) |->
                  (in.idle * Underweight(in)[j].delta)
                    \div SumOver(Underweight(in), LAMBDA row : row.delta)])
    BY DEF Share
  <2>2. ~(n < n)
    <3>1. n \in Nat BY <1>1, ListFacts DEF Rows
    <3> QED BY <3>1
  <2> QED BY <2>1, <2>2
<1> HIDE DEF rows
<1>5. /\ n \in Nat /\ DOMAIN rows = 1..n
      /\ \A i \in 1..n : rows[i].delta \in Int /\ rows[i].delta >= 0
  <2>1. n \in Nat /\ DOMAIN rows = 1..n /\ \A i \in 1..n : rows[i] \in Members(rows)
    BY <1>1, ListFacts DEF Rows
  <2>2. \A i \in 1..n : rows[i].delta \in Int /\ rows[i].delta >= in.minDelta
    BY <1>1, <2>1 DEF Rows
  <2> QED BY <1>2, <2>1, <2>2
<1>6. gap = SumOver(rows, LAMBDA row : row.delta) BY <1>3, <1>5
<1>7. d \in Seq(Int) /\ Len(d) = n /\ \A i \in 1..n : d[i] = rows[i].delta BY <1>5
<1>8. gap > 0 /\ gap \in Int
  <2>1. gap > 0 BY <1>6 DEF rows
  <2>2. gap \in Int
    <3> HIDE DEF d
    <3> QED BY <1>7, TotalInt
  <2> QED BY <2>1, <2>2
<1>9. n # 0
  <2> SUFFICES ASSUME n = 0 PROVE FALSE OBVIOUS
  <2>1. \A i \in 1..Len(d) : d[i] = 0 BY <1>5, <1>7
  <2>2. gap = 0
    <3> HIDE DEF d
    <3> QED BY <1>7, <2>1, TotalZero
  <2> QED BY <1>8, <2>2
<1>10. e \in Seq(Int) /\ Len(e) = n - 1 /\ \A i \in 1..(n - 1) : e[i] = d[i] /\ e[i] >= 0
  BY <1>5, <1>7, <1>9
<1>11. Total(e) <= gap
  <2>1. Len(d) = Len(e) + 1 /\ \A i \in 1..Len(e) : d[i] = e[i] BY <1>5, <1>7, <1>9, <1>10
  <2> HIDE DEF d, e
  <2>2. Total(d) = Total(e) + d[Len(d)] BY <1>7, <1>10, <2>1, TotalLonger
  <2>3. d[Len(d)] \in Int /\ d[Len(d)] >= 0 BY <1>5, <1>7, <1>9
  <2>4. Total(e) \in Int BY <1>10, TotalInt
  <2> QED BY <2>2, <2>3, <2>4
<1> HIDE DEF gap
<1>12. \A i \in 1..(n - 1) : e[i] = rows[i].delta /\ parts[i] = (in.idle * e[i]) \div gap
  BY <1>5, <1>9
<1>13. parts \in Seq(Int) /\ Len(parts) = n - 1
  <2>1. \A i \in 1..(n - 1) : part(i) \in Int
    <3> SUFFICES ASSUME NEW i \in 1..(n - 1) PROVE part(i) \in Int OBVIOUS
    <3>1. rows[i].delta \in Int BY <1>5
    <3>2. \A x \in Int : (in.idle * x) \div gap \in Int BY <1>2, <1>8
    <3> QED BY <3>1, <3>2
  <2> HIDE DEF part
  <2> QED BY <1>5, <1>9, <2>1
<1> HIDE DEF parts, e, d
<1>14. Total(parts) \in 0..in.idle /\ \A i \in 1..(n - 1) : parts[i] \in Nat
  <2>1. gap \in Nat \ {0} BY <1>8
  <2>2. /\ \A i \in 1..Len(e) : e[i] >= 0
        /\ \A i \in 1..Len(e) : parts[i] = (in.idle * e[i]) \div gap
        /\ Len(parts) = Len(e)
    BY <1>10, <1>12, <1>13
  <2>3. Total(parts) \in 0..in.idle /\ \A i \in 1..Len(e) : parts[i] \in Nat
    BY <1>2, <1>10, <1>11, <1>13, <2>1, <2>2, PartsWithin
  <2> QED BY <1>10, <2>3
<1>15. shares = [i \in 1..n |-> Share(in, i)] BY DEF rows
<1>16. shares[n] = in.idle - Total(parts)
  <2>1. n \in 1..n BY <1>5, <1>9
  <2>2. Share(in, n) = in.idle - Total(parts) BY <1>4, <1>6 DEF parts
  <2> QED BY <1>15, <2>1, <2>2
<1>17. ASSUME NEW i \in 1..(n - 1) PROVE shares[i] = parts[i]
  <2>1. i \in 1..n /\ i < n BY <1>5
  <2> QED BY <1>4, <1>6, <1>15, <2>1 DEF parts
<1>18. \A i \in 1..n : shares[i] \in Nat
  <2>1. \A i \in 1..n : i = n \/ i \in 1..(n - 1) BY <1>5
  <2>2. shares[n] \in Nat BY <1>2, <1>14, <1>16
  <2>3. \A i \in 1..(n - 1) : shares[i] \in Nat BY <1>14, <1>17
  <2> QED BY <2>1, <2>2, <2>3
<1>19. shares \in Seq(Int) /\ Len(shares) = n
  <2>1. shares = [i \in 1..n |-> shares[i]] BY <1>15
  <2> HIDE DEF rows
  <2> QED BY <1>5, <1>18, <2>1
<1>20. Total(shares) = in.idle
  <2>1. Total(shares) = Total(parts) + shares[n]
    <3>1. Len(shares) = Len(parts) + 1 BY <1>5, <1>13, <1>19
    <3>2. \A i \in 1..Len(parts) : shares[i] = parts[i] BY <1>13, <1>17
    <3>3. Len(shares) = n BY <1>19
    <3> QED BY <1>13, <1>19, <3>1, <3>2, <3>3, TotalLonger
  <2> QED BY <1>2, <1>14, <1>16, <2>1
<1> QED BY <1>18, <1>19, <1>20 DEF rows

LEMMA EntersByGapDue ==
  ASSUME NEW in, Book(in)
  PROVE  Intents(EntersByGap(in)) /\ Due(EntersByGap(in)) <= in.idle
<1> DEFINE rows == Underweight(in)
           funded == in.idle > 0 /\ SumOver(rows, LAMBDA row : row.delta) > 0
           intent(i) == Intent("enter", rows[i].opp, Algo,
                              IF funded THEN Share(in, i) ELSE 0, funded)
           enters == [i \in DOMAIN rows |-> intent(i)]
           T == {x \in Members(enters) : x.amount > 0}
<1>1. /\ funded => EntersByGap(in) = Keep(enters, T)
      /\ ~funded => EntersByGap(in) \in {<<>>, enters}
  BY DEF EntersByGap, Filter
<1>2. IsList(rows) BY WeightsAre DEF Rows
<1>3. in.idle \in Nat BY DEF Book
<1>4. IsList(enters) /\ Len(enters) = Len(rows) /\ DOMAIN enters = 1..Len(rows)
  <2>1. enters = [i \in DOMAIN rows |-> enters[i]] OBVIOUS
  <2> HIDE DEF enters, rows
  <2>2. IsList(enters) /\ Len(enters) = Len(rows) BY <1>2, <2>1, MadeOf
  <2> QED BY <2>2, ListFacts
<1>5. CASE ~funded
  <2>1. \A x \in Members(enters) : Now(x) = 0 BY <1>5, IntentIs DEF Members, Now
  <2> HIDE DEF enters, funded
  <2>2. EntersByGap(in) \in {<<>>, enters} BY <1>1, <1>5
  <2>3. \A s \in {<<>>, enters} : IsList(s) /\ \A x \in Members(s) : Now(x) = 0
    BY <1>4, <2>1, NoList
  <2> QED BY <1>3, <2>2, <2>3, NothingDue
<1>6. CASE funded
  <2> DEFINE shares == [i \in 1..Len(Underweight(in)) |-> Share(in, i)]
  <2>1. /\ shares \in Seq(Int) /\ Len(shares) = Len(rows)
        /\ Total(shares) = in.idle /\ \A i \in 1..Len(shares) : shares[i] >= 0
    BY <1>6, SharesAre
  <2>2. \A i \in 1..Len(rows) :
          enters[i].kind = "enter" /\ enters[i].compileNow /\ enters[i].amount = shares[i]
    <3> SUFFICES ASSUME NEW i \in 1..Len(rows)
                 PROVE  enters[i].kind = "enter" /\ enters[i].compileNow
                          /\ enters[i].amount = shares[i]
      OBVIOUS
    <3>1. enters[i] = Intent("enter", rows[i].opp, Algo, Share(in, i), TRUE) BY <1>4, <1>6
    <3>2. shares[i] = Share(in, i) OBVIOUS
    <3> HIDE DEF enters, shares
    <3> QED BY <3>1, <3>2 DEF Intent
  <2> DEFINE g == [i \in Members(enters) |-> Now(i)]
  <2>3. EntersByGap(in) = Keep(enters, T) BY <1>1, <1>6
  <2>4. \A i \in 1..Len(rows) : enters[i] \in Members(enters)
    <3> HIDE DEF enters
    <3> QED BY <1>4 DEF Members
  <2> HIDE DEF enters, shares, rows, funded
  <2>5. \A i \in 1..Len(rows) : shares[i] \in Nat
    <3> SUFFICES ASSUME NEW i \in 1..Len(rows) PROVE shares[i] \in Nat OBVIOUS
    <3>1. i \in 1..Len(shares) BY <2>1
    <3>2. shares[i] >= 0 BY <2>1, <3>1
    <3>3. shares[i] \in Int BY <2>1, <3>1
    <3> QED BY <3>2, <3>3
  <2>6. \A i \in 1..Len(rows) : Now(enters[i]) = shares[i] BY <2>2 DEF Now
  <2>7. \A x \in Members(enters) : \E i \in 1..Len(rows) : x = enters[i] BY <1>4 DEF Members
  <2>8. \A x \in Members(enters) : Now(x) \in Nat BY <2>5, <2>6, <2>7
  <2>9. \A x \in Members(enters) : g[x] \in Int
    <3> SUFFICES ASSUME NEW x \in Members(enters) PROVE g[x] \in Int OBVIOUS
    <3>1. g[x] = Now(x) OBVIOUS
    <3>2. Now(x) \in Nat BY <2>8
    <3> HIDE DEF g
    <3> QED BY <3>1, <3>2
  <2>10. \A i \in 1..Len(rows) : MappedIf(enters, T, g)[i] = shares[i]
    <3> SUFFICES ASSUME NEW i \in 1..Len(rows) PROVE MappedIf(enters, T, g)[i] = shares[i]
      OBVIOUS
    <3>1. MappedIf(enters, T, g)[i] = IF enters[i] \in T THEN g[enters[i]] ELSE 0
      BY <1>4 DEF MappedIf
    <3>2. g[enters[i]] = shares[i] BY <2>4, <2>6
    <3>3. enters[i] \in T <=> shares[i] > 0 BY <2>2, <2>4
    <3>4. shares[i] \in Nat BY <2>5
    <3> HIDE DEF T, g
    <3> QED BY <3>1, <3>2, <3>3, <3>4
  <2>11. MappedIf(enters, T, g) = shares
    <3>1. DOMAIN MappedIf(enters, T, g) = 1..Len(rows) BY <1>4 DEF MappedIf
    <3>2. MappedIf(enters, T, g) = [i \in 1..Len(rows) |-> MappedIf(enters, T, g)[i]]
      BY <3>1 DEF MappedIf
    <3>3. shares = [i \in 1..Len(rows) |-> shares[i]] BY <2>1
    <3> QED BY <2>10, <3>2, <3>3
  <2>12. IsList(Keep(enters, T)) /\ Members(Keep(enters, T)) = Members(enters) \cap T
    <3> HIDE DEF T
    <3> QED BY <1>4, Kept
  <2>13. Due(Keep(enters, T)) = Total(Mapped(Keep(enters, T), g))
    <3>1. Members(Keep(enters, T)) \subseteq Members(enters) BY <2>12
    <3> HIDE DEF T
    <3> QED BY <3>1, DueIsMapped
  <2>14. Total(Mapped(Keep(enters, T), g)) = Total(MappedIf(enters, T, g))
    <3> HIDE DEF T, g
    <3> QED BY <1>4, <2>9, KeptTotal
  <2>15. Due(EntersByGap(in)) = in.idle BY <2>1, <2>3, <2>11, <2>13, <2>14
  <2>16. Intents(EntersByGap(in)) BY <2>3, <2>8, <2>12 DEF Intents
  <2> QED BY <1>3, <2>15, <2>16
<1> QED BY <1>5, <1>6

\* Whatever a book is, its enters are to spend no more than the idle ALGO.
LEMMA DeltasDue ==
  ASSUME NEW in, Book(in)
  PROVE  Intents(Deltas(in)) /\ Due(Deltas(in)) <= in.idle
<1>1. in.idle \in Nat BY DEF Book
<1>2. Intents(Enters(in)) /\ Due(Enters(in)) <= in.idle
  <2> DEFINE e == Intent("enter", None, Algo, in.idle, TRUE)
  <2>1. CASE in.targets # <<>> BY <2>1, EntersByGapDue DEF Enters
  <2>2. CASE in.targets = <<>> /\ in.harvestIdle /\ in.idle > 0
    <3>1. Enters(in) = <<e>> BY <2>2 DEF Enters
    <3>2. Now(e) = in.idle BY DEF Now, Intent
    <3> HIDE DEF e
    <3>3. IsList(<<e>>) /\ Members(<<e>>) = {e} BY OneMember
    <3>4. Intents(<<e>>) BY <1>1, <3>2, <3>3 DEF Intents
    <3>5. Tail(<<e>>) = <<>> /\ Head(<<e>>) = e /\ <<e>> # <<>> OBVIOUS
    <3>6. Due(<<>>) = 0 BY NoList, NothingDue
    <3>7. Due(<<e>>) = Now(e) + Due(<<>>) BY <3>4, <3>5, DueTail
    <3> QED BY <1>1, <3>1, <3>2, <3>4, <3>6, <3>7
  <2>3. CASE in.targets = <<>> /\ ~(in.harvestIdle /\ in.idle > 0)
    <3>1. Enters(in) = <<>> BY <2>3 DEF Enters
    <3> QED BY <1>1, <3>1, NoList, NothingDue
  <2> QED BY <2>1, <2>2, <2>3
<1>3. Intents(Claims(in)) /\ Due(Claims(in)) = 0 BY ClaimsDue
<1>4. Intents(Exits(in)) /\ Due(Exits(in)) = 0 BY ExitsDue
<1>5. Intents(Claims(in) \o Exits(in)) /\ Due(Claims(in) \o Exits(in)) = 0
  BY <1>3, <1>4, DueJoined
<1>6. Intents((Claims(in) \o Exits(in)) \o Enters(in))
      /\ Due((Claims(in) \o Exits(in)) \o Enters(in)) = 0 + Due(Enters(in))
  BY <1>2, <1>5, DueJoined
<1>7. Due(Enters(in)) \in Nat BY <1>2, DueNat
<1> QED BY <1>2, <1>6, <1>7 DEF Deltas

-----------------------------------------------------------------------------
(***************************************************************************)
(* SpendWithinBudget: the inductive invariant.                             *)
(***************************************************************************)
SpentOf(groups, asset) == SumOver(groups, LAMBDA g : Spent(g, asset))
Sliced(some) == SumOver(some, LAMBDA s : s.amount)

Budget == IF req.kind = "plan" THEN req.amount ELSE req.book.idle
UnderWay == phase \in {"slicing", "slices"} \cup Legs
Pending == IF UnderWay THEN Tail(todo) ELSE todo

Slices(some) ==
  IsList(some) /\ \A s \in Members(some) : s.amount \in Nat /\ s.market \in Members(req.markets)

SpendTypes ==
  /\ req \in Requests /\ Intents(todo)
  /\ phase \in {"intents", "answered", "slicing", "slices"} \cup Legs
  /\ UnderWay => todo # <<>> /\ Head(todo).kind = "enter" /\ Head(todo).compileNow
  /\ IsList(cands) /\ Members(cands) \subseteq Members(req.markets)
  /\ used \in [Protocols -> Nat]
  /\ phase = "slicing" => remaining \in 0..Head(todo).amount
  /\ Slices(slices)
  /\ phase \in {"slices"} \cup Legs => slices # <<>>
  /\ ~UnderWay => slices = <<>>
  /\ \A g \in Groups : Spent(g, req.asset) \in Nat

\* What the legs of a slice take out is the slice: by the swap, or else by the shapes.
LegsSpend ==
  phase \in Legs =>
    /\ \A s \in Members(legs) :
         s.status = "compiled" /\ s.kind = "swap"
           => s.amount = slice.amount /\ s.asset = req.asset
    /\ \/ SwapIsIn
       \/ /\ enter.amount = slice.amount /\ enter.asset = req.asset
          /\ \A s \in Members(legs) :
               s.status = "compiled" /\ s.kind \in {"setup", "enter"}
                 => s.amount \in {0, slice.amount} /\ s.asset = req.asset

\* What is spent, sliced, not sliced yet and still to be taken is within the budget.
SpendBound ==
  SpentOf(answer.groups, req.asset) + Sliced(slices)
    + (IF phase = "slicing" THEN remaining ELSE 0) + Due(Pending) <= Budget

SpendInv == SpendTypes /\ LegsSpend /\ SpendBound

LEMMA BudgetNat == req \in Requests => Budget \in Nat
BY CompilerAssumption DEF Budget, RequestOK, Book

LEMMA SpentMore ==
  ASSUME NEW groups, IsList(groups), NEW asset, \A g \in Members(groups) : Spent(g, asset) \in Nat,
         NEW group, Spent(group, asset) \in Nat
  PROVE  SpentOf(Append(groups, group), asset) = SpentOf(groups, asset) + Spent(group, asset)
<1> DEFINE S == Members(groups) \cup {group}
           f == [g \in S |-> Spent(g, asset)]
           more == Append(groups, group)
<1>1. Members(more) = S BY Appended
<1>2. \A some : Members(some) \subseteq S => SpentOf(some, asset) = Total(Mapped(some, f))
  <2> SUFFICES ASSUME NEW some, Members(some) \subseteq S
               PROVE  SpentOf(some, asset) = Total(Mapped(some, f))
    OBVIOUS
  <2>1. \A n \in DOMAIN some : some[n] \in S BY DEF Members
  <2>2. [n \in DOMAIN some |-> Spent(some[n], asset)] = [n \in DOMAIN some |-> f[some[n]]]
    BY <2>1
  <2> QED BY <2>2 DEF SpentOf, SumOver, Mapped
<1>3. f[group] = Spent(group, asset) /\ \A g \in Members(groups) : f[g] = Spent(g, asset)
  OBVIOUS
<1> HIDE DEF f, more
<1>4. f[group] \in Int BY <1>3
<1>5. \A g \in Members(groups) : f[g] \in Int
  <2> SUFFICES ASSUME NEW g \in Members(groups) PROVE f[g] \in Int OBVIOUS
  <2>1. f[g] = Spent(g, asset) BY <1>3
  <2> QED BY <2>1
<1>6. Total(Mapped(more, f)) = Total(Mapped(groups, f)) + f[group]
  BY <1>4, <1>5, MappedAppend DEF more
<1>7. SpentOf(more, asset) = Total(Mapped(more, f)) BY <1>1, <1>2
<1>8. SpentOf(groups, asset) = Total(Mapped(groups, f)) BY <1>2
<1> QED BY <1>3, <1>6, <1>7, <1>8 DEF more

LEMMA SpentOfNat ==
  ASSUME NEW groups, IsList(groups), NEW asset, \A g \in Members(groups) : Spent(g, asset) \in Nat
  PROVE  SpentOf(groups, asset) \in Nat
<1> DEFINE a == [n \in DOMAIN groups |-> Spent(groups[n], asset)]
<1>1. /\ Len(groups) \in Nat /\ DOMAIN groups = 1..Len(groups)
      /\ \A n \in 1..Len(groups) : groups[n] \in Members(groups)
  BY ListFacts
<1>2. \A n \in 1..Len(groups) : Spent(groups[n], asset) \in Nat BY <1>1
<1>3. a \in Seq(Int) /\ Len(a) = Len(groups) /\ \A n \in 1..Len(a) : a[n] \in Nat BY <1>1, <1>2
<1>4. SpentOf(groups, asset) = Total(a) BY DEF SpentOf, SumOver
<1> HIDE DEF a
<1> QED BY <1>3, <1>4, TotalPositive, TotalInt

AmountOf(some) == IsList(some) /\ \A s \in Members(some) : s.amount \in Nat

LEMMA SlicedIsMapped ==
  ASSUME NEW some, NEW S, Members(some) \subseteq S
  PROVE  Sliced(some) = Total(Mapped(some, [s \in S |-> s.amount]))
<1>1. \A n \in DOMAIN some : some[n] \in S BY DEF Members
<1>2. [n \in DOMAIN some |-> some[n].amount]
        = [n \in DOMAIN some |-> [s \in S |-> s.amount][some[n]]]
  BY <1>1
<1> QED BY <1>2 DEF Sliced, SumOver, Mapped

LEMMA SlicedMore ==
  ASSUME NEW some, AmountOf(some), NEW new, new.amount \in Nat
  PROVE  Sliced(Append(some, new)) = Sliced(some) + new.amount
<1> DEFINE S == Members(some) \cup {new}
           f == [s \in S |-> s.amount]
           more == Append(some, new)
<1>1. IsList(some) /\ \A s \in S : s.amount \in Nat BY DEF AmountOf
<1>2. Members(more) = S BY <1>1, Appended
<1>3. Sliced(more) = Total(Mapped(more, f)) /\ Sliced(some) = Total(Mapped(some, f))
  BY <1>2, SlicedIsMapped
<1>4. \A s \in S : f[s] = s.amount OBVIOUS
<1> HIDE DEF f
<1>5. \A s \in S : f[s] \in Int
  <2> SUFFICES ASSUME NEW s \in S PROVE f[s] \in Int OBVIOUS
  <2>1. f[s] = s.amount /\ s.amount \in Nat BY <1>1, <1>4
  <2> QED BY <2>1
<1>6. Total(Mapped(more, f)) = Total(Mapped(some, f)) + f[new]
  BY <1>1, <1>5, MappedAppend DEF more
<1> QED BY <1>3, <1>4, <1>6 DEF more

LEMMA SlicedTail ==
  ASSUME NEW some, AmountOf(some), some # <<>>
  PROVE  /\ AmountOf(Tail(some)) /\ Head(some).amount \in Nat
         /\ Sliced(some) = Head(some).amount + Sliced(Tail(some))
<1> DEFINE S == Members(some)
           f == [s \in S |-> s.amount]
<1>1. /\ IsList(some) /\ \A s \in S : s.amount \in Nat BY DEF AmountOf
<1>2. IsList(Tail(some)) /\ Members(Tail(some)) \subseteq S /\ Head(some) \in S BY <1>1, Tailed
<1>3. Sliced(Tail(some)) = Total(Mapped(Tail(some), f)) /\ Sliced(some) = Total(Mapped(some, f))
  BY <1>2, SlicedIsMapped
<1>4. \A s \in S : f[s] = s.amount OBVIOUS
<1> HIDE DEF f
<1>5. \A s \in S : f[s] \in Int
  <2> SUFFICES ASSUME NEW s \in S PROVE f[s] \in Int OBVIOUS
  <2>1. f[s] = s.amount /\ s.amount \in Nat BY <1>1, <1>4
  <2> QED BY <2>1
<1>6. Total(Mapped(some, f)) = f[Head(some)] + Total(Mapped(Tail(some), f))
  BY <1>1, <1>5, MappedTail
<1> QED BY <1>1, <1>2, <1>3, <1>4, <1>6 DEF AmountOf

LEMMA SlicedNat == ASSUME NEW some, AmountOf(some) PROVE Sliced(some) \in Nat
<1> DEFINE a == [n \in DOMAIN some |-> some[n].amount]
<1>1. /\ Len(some) \in Nat /\ DOMAIN some = 1..Len(some)
      /\ \A n \in 1..Len(some) : some[n] \in Members(some)
  BY ListFacts DEF AmountOf
<1>2. \A n \in 1..Len(some) : some[n].amount \in Nat BY <1>1 DEF AmountOf
<1>3. a \in Seq(Int) /\ Len(a) = Len(some) /\ \A n \in 1..Len(a) : a[n] \in Nat BY <1>1, <1>2
<1>4. Sliced(some) = Total(a) BY DEF Sliced, SumOver
<1> HIDE DEF a
<1> QED BY <1>3, <1>4, TotalPositive, TotalInt

\* A group takes out what its swap takes out, or else its shapes.
LEMMA SpentIs ==
  ASSUME NEW steps, IsList(steps), NEW amount, NEW asset,
         \A s \in Members(steps) :
           s.status = "compiled" /\ s.kind = "swap" => s.amount = amount,
         \/ \E s \in Members(steps) : s.status = "compiled" /\ s.kind = "swap"
         \/ \A s \in Members(steps) :
              s.status = "compiled" /\ s.kind \in {"setup", "enter"} => s.amount \in {0, amount},
         NEW g, g.steps = steps
  PROVE  Spent(g, asset) \in {0, amount}
<1> DEFINE A == {s \in Members(steps) : s.status = "compiled" /\ s.kind # "eligibility"}
           signed == Keep(steps, A)
           B == {s \in Members(signed) : s.kind = "swap"}
           swaps == Keep(signed, B)
           C == {s \in Members(signed) :
                   s.kind \in {"setup", "enter"} /\ s.asset = asset /\ s.amount > 0}
           shapes == Keep(signed, C)
<1>1. Spent(g, asset) =
        IF swaps # <<>> THEN IF Head(swaps).asset = asset THEN Head(swaps).amount ELSE 0
        ELSE IF shapes # <<>> THEN Head(shapes).amount ELSE 0
  BY DEF Spent, Signed, Filter
<1>2. IsList(signed) /\ Members(signed) = A
  <2>1. A \subseteq Members(steps) OBVIOUS
  <2> HIDE DEF A
  <2>2. IsList(signed) /\ Members(signed) = Members(steps) \cap A BY Kept
  <2> QED BY <2>1, <2>2
<1> HIDE DEF signed
<1>3. IsList(swaps) /\ Members(swaps) = B
  <2>1. B \subseteq Members(signed) OBVIOUS
  <2> HIDE DEF B
  <2>2. IsList(swaps) /\ Members(swaps) = Members(signed) \cap B BY <1>2, Kept
  <2> QED BY <2>1, <2>2
<1>4. IsList(shapes) /\ Members(shapes) = C
  <2>1. C \subseteq Members(signed) OBVIOUS
  <2> HIDE DEF C
  <2>2. IsList(shapes) /\ Members(shapes) = Members(signed) \cap C BY <1>2, Kept
  <2> QED BY <2>1, <2>2
<1> HIDE DEF swaps, shapes
<1>5. swaps # <<>> => Head(swaps).amount = amount
  <2> SUFFICES ASSUME swaps # <<>> PROVE Head(swaps).amount = amount OBVIOUS
  <2>1. Head(swaps) \in B BY <1>3, Tailed
  <2> QED BY <1>2, <2>1
<1>6. swaps = <<>> => \A s \in Members(steps) : ~(s.status = "compiled" /\ s.kind = "swap")
  <2> SUFFICES ASSUME swaps = <<>>, NEW s \in Members(steps),
                      s.status = "compiled", s.kind = "swap"
               PROVE  FALSE
    OBVIOUS
  <2>1. s \in B BY <1>2
  <2> QED BY <1>3, <2>1, NoList
<1>7. swaps = <<>> /\ shapes # <<>> => Head(shapes).amount \in {0, amount}
  <2> SUFFICES ASSUME swaps = <<>>, shapes # <<>> PROVE Head(shapes).amount \in {0, amount}
    OBVIOUS
  <2>1. Head(shapes) \in C BY <1>4, Tailed
  <2> QED BY <1>2, <1>6, <2>1
<1> QED BY <1>1, <1>5, <1>7

LEMMA InitSpend == Init => SpendInv
<1> SUFFICES ASSUME Init PROVE SpendInv OBVIOUS
<1>1. /\ req \in Requests /\ phase = "intents" /\ todo = Start(req) /\ cands = <<>>
      /\ slices = <<>> /\ used = [p \in Protocols |-> 0] /\ answer.groups = <<>>
  BY DEF Init, NoAnswer
<1>2. Intents(Start(req)) /\ Due(Start(req)) <= Budget
  <2>1. RequestOK(req) BY <1>1, CompilerAssumption
  <2>2. CASE req.kind = "rebalance" BY <2>1, <2>2, DeltasDue DEF Start, Budget, RequestOK
  <2>3. CASE req.kind = "plan"
    <3> DEFINE e == Intent("enter", None, req.asset, req.amount, TRUE)
    <3>1. Start(req) = <<e>> /\ Budget = req.amount BY <2>3 DEF Start, Budget
    <3>2. Now(e) = req.amount BY DEF Now, Intent
    <3>3. req.amount \in Nat BY <2>1 DEF RequestOK
    <3> HIDE DEF e
    <3>4. Intents(<<e>>)
      <4>1. IsList(<<e>>) /\ Members(<<e>>) = {e} BY OneMember
      <4> QED BY <3>2, <3>3, <4>1 DEF Intents
    <3>5. Tail(<<e>>) = <<>> /\ Head(<<e>>) = e /\ <<e>> # <<>> OBVIOUS
    <3>6. Due(<<>>) = 0 BY NoList, NothingDue
    <3>7. Due(<<e>>) = Now(e) + Due(<<>>) BY <3>4, <3>5, DueTail
    <3> QED BY <3>1, <3>2, <3>3, <3>4, <3>6, <3>7
  <2> QED BY <2>1, <2>2, <2>3 DEF RequestOK
<1>3. SpentOf(<<>>, req.asset) = 0
  <2>1. [n \in DOMAIN <<>> |-> Spent(<<>>[n], req.asset)] = <<>> OBVIOUS
  <2> QED BY <2>1, TotalNone DEF SpentOf, SumOver
<1>4. Sliced(<<>>) = 0
  <2>1. [n \in DOMAIN <<>> |-> <<>>[n].amount] = <<>> OBVIOUS
  <2> QED BY <2>1, TotalNone DEF Sliced, SumOver
<1>5. ~UnderWay /\ Pending = todo /\ phase \notin Legs BY <1>1 DEF UnderWay, Legs, Pending
<1>6. SpendTypes
  BY <1>1, <1>2, <1>5, NoList DEF SpendTypes, Slices, Groups
<1>7. SpendBound
  <2>1. Due(Start(req)) \in Nat BY <1>2, DueNat
  <2> QED BY <1>1, <1>2, <1>3, <1>4, <1>5, <2>1 DEF SpendBound
<1> QED BY <1>5, <1>6, <1>7 DEF SpendInv, LegsSpend

\* What a step that adds a leg needs to keep.
LEMMA LegSpends ==
  ASSUME IsList(legs), LegsSpend, phase \in Legs, UNCHANGED <<req, slices>>, NEW step,
         legs' = Append(legs, step),
         step.status = "compiled" /\ step.kind = "swap"
           => step.amount = slice.amount /\ step.asset = req.asset,
         \/ SwapIsIn
         \/ step.status = "compiled" /\ step.kind = "swap"
         \/ /\ enter'.amount = enter.amount /\ enter'.asset = enter.asset
            /\ step.status = "compiled" /\ step.kind \in {"setup", "enter"}
                 => step.amount \in {0, enter.amount} /\ step.asset = enter.asset
  PROVE  LegsSpend'
<1>1. Members(legs') = Members(legs) \cup {step} BY Appended
<1>2. slice' = slice BY DEF slice
<1>3. SwapIsIn' <=> SwapIsIn \/ (step.status = "compiled" /\ step.kind = "swap")
  BY <1>1 DEF SwapIsIn
<1>4. ASSUME NEW s \in Members(legs'), s.status = "compiled", s.kind = "swap"
      PROVE  s.amount = slice.amount /\ s.asset = req.asset
  BY <1>1, <1>4 DEF LegsSpend
<1>5. CASE SwapIsIn' BY <1>2, <1>4, <1>5 DEF LegsSpend
<1>6. CASE ~SwapIsIn'
  <2>1. enter'.amount = slice.amount /\ enter'.asset = req.asset BY <1>3, <1>6 DEF LegsSpend
  <2>2. ASSUME NEW s \in Members(legs'), s.status = "compiled", s.kind \in {"setup", "enter"}
        PROVE  s.amount \in {0, slice.amount} /\ s.asset = req.asset
    BY <1>1, <1>3, <1>6, <2>2 DEF LegsSpend
  <2> QED BY <1>2, <1>4, <2>1, <2>2 DEF LegsSpend
<1> QED BY <1>5, <1>6

LEMMA RefusalSpends ==
  ASSUME IsList(legs), LegsSpend, phase \in Legs, SwapRefused, UNCHANGED <<req, slices>>
  PROVE  LegsSpend'
<1> DEFINE step == [[Step("swap", "blocked", SwapKey) EXCEPT !.needs = prereqs]
                      EXCEPT !.protocol = slice.market.protocol]
<1>1. step.status = "blocked" BY DEF Step
<1>2. legs' = Append(legs, step) /\ UNCHANGED enter BY DEF SwapRefused, AddLeg
<1> HIDE DEF step
<1> QED BY <1>1, <1>2, LegSpends

LEMMA ChainIs ==
  ASSUME req \in Requests, NEW row \in Members(req.markets)
  PROVE  IsList(Chain(row)) /\ \A s \in Members(Chain(row)) : s.kind \in {"setup", "enter"}
<1> DEFINE T == {s \in Members(row.chain) : ~(req.noNewBorrows /\ s.borrow)}
<1>1. RequestOK(req) BY CompilerAssumption
<1>2. IsList(row.chain) /\ \A s \in Members(row.chain) : s.kind \in {"setup", "enter"}
  BY <1>1 DEF RequestOK
<1>3. Chain(row) = Keep(row.chain, T) BY DEF Chain, Filter
<1>4. IsList(Keep(row.chain, T)) /\ Members(Keep(row.chain, T)) = Members(row.chain) \cap T
  <2> HIDE DEF T
  <2> QED BY <1>2, Kept
<1> QED BY <1>2, <1>3, <1>4

LEMMA ShapeSpends ==
  ASSUME OrderInv, SpendInv, CompileShape
  PROVE  LegsSpend'
<1> DEFINE shape == Chain(slice.market)[Shaped + 1]
           step(status) ==
             [[Step(shape.kind, status, shape.key) EXCEPT
                 !.needs = shape.needs \cup prereqs, !.borrow = shape.borrow,
                 !.asset = enter.asset, !.field = shape.field, !.named = shape.named,
                 !.amount = IF shape.field = "none" THEN 0 ELSE enter.amount]
                   EXCEPT !.protocol = slice.market.protocol]
<1>1. phase = "shapes" /\ phase \in Legs /\ UNCHANGED <<req, slices, enter>>
  BY DEF CompileShape, Legs
<1>2. IsList(legs) /\ LegsSpend BY <1>1 DEF OrderInv, LegsInOrder, SpendInv
<1>3. shape.kind \in {"setup", "enter"}
  <2>1. slice.market \in Members(req.markets) /\ req \in Requests
    BY <1>1, Tailed DEF SpendInv, SpendTypes, Slices, slice
  <2>2. Shaped + 1 \in 1..Len(Chain(slice.market))
    <3>1. Len(Chain(slice.market)) \in Nat BY <2>1, ChainIs, ListFacts
    <3>2. Shaped \in Nat
      <4> DEFINE T == {s \in Members(legs) : s.kind \in {"setup", "enter"}}
      <4>1. Shaped = Len(Keep(legs, T)) BY DEF Shaped, Filter
      <4> HIDE DEF T
      <4> QED BY <1>2, <4>1, Kept, ListFacts
    <3>3. Shaped < Len(Chain(slice.market)) BY DEF CompileShape
    <3> QED BY <3>1, <3>2, <3>3
  <2>3. shape \in Members(Chain(slice.market))
    <3>1. IsList(Chain(slice.market)) BY <2>1, ChainIs
    <3> QED BY <2>2, <3>1, ListFacts
  <2> QED BY <2>1, <2>3, ChainIs
<1>4. \A status : step(status).kind = shape.kind
                    /\ step(status).amount \in {0, enter.amount}
                    /\ step(status).asset = enter.asset
  BY DEF Step
<1>5. \E status : legs' = Append(legs, step(status)) BY DEF CompileShape, ShapeLeg, AddLeg
<1>6. PICK status : legs' = Append(legs, step(status)) BY <1>5
<1>7. step(status).kind # "swap" /\ step(status).amount \in {0, enter.amount}
      /\ step(status).asset = enter.asset
  BY <1>3, <1>4
<1> HIDE DEF step, shape
<1> QED BY <1>1, <1>2, <1>6, <1>7, LegSpends

\* Steps of the slice under way change nothing but its legs.
LEMMA LegStepSpends ==
  ASSUME OrderInv, SpendInv, Compose \/ GetQuote \/ BuildOptIns \/ BuildSwap \/ CompileShape
  PROVE  SpendInv'
<1>1. /\ UNCHANGED <<req, todo, cands, remaining, used, slices, answer>>
      /\ phase \in {"slices"} \cup Legs /\ phase' \in Legs
  BY DEF Compose, GetQuote, BuildOptIns, BuildSwap, CompileShape, SwapRefused, slicing, Legs
<1>2. SpendTypes'
  <2>1. UnderWay /\ UnderWay' /\ phase # "slicing" /\ phase' # "slicing" BY <1>1 DEF UnderWay, Legs
  <2>2. Slices(slices)' BY <1>1 DEF SpendInv, SpendTypes, Slices
  <2> QED BY <1>1, <2>1, <2>2 DEF SpendInv, SpendTypes, Groups
<1>3. SpendBound'
  <2>1. phase # "slicing" /\ phase' # "slicing" /\ UnderWay /\ UnderWay'
    BY <1>1 DEF UnderWay, Legs
  <2>2. Pending' = Pending /\ Budget' = Budget BY <1>1, <2>1 DEF Pending, Budget
  <2> QED BY <1>1, <2>1, <2>2 DEF SpendInv, SpendBound
<1>4. LegsSpend'
  <2>1. CASE Compose
    <3> DEFINE ok == slice.market.canEnter \/ CanCompose(slice.market)
               step == Step("eligibility", IF ok THEN "compiled" ELSE "blocked", None)
    <3>1. legs' = <<step>> /\ enter' = [NoEnter EXCEPT !.asset = req.asset, !.amount = slice.amount]
      BY <2>1 DEF Compose
    <3>2. step.kind = "eligibility" BY DEF Step
    <3> HIDE DEF step
    <3>3. Members(legs') = {step} BY <3>1, OneMember
    <3>4. slice' = slice BY <1>1 DEF slice
    <3>5. enter'.amount = slice.amount /\ enter'.asset = req.asset BY <3>1 DEF NoEnter
    <3> QED BY <1>1, <3>2, <3>3, <3>4, <3>5 DEF LegsSpend
  <2>2. CASE CompileShape BY <2>2, ShapeSpends
  <2>3. CASE GetQuote \/ BuildOptIns \/ BuildSwap
    <3>1. phase \in Legs /\ phase # "shapes" BY <2>3 DEF GetQuote, BuildOptIns, BuildSwap, Legs
    <3>2. IsList(legs) /\ LegsSpend
          /\ enter = [asset |-> enter.asset, amount |-> enter.amount, quoted |-> enter.quoted,
                      swapped |-> enter.swapped]
      BY <3>1 DEF OrderInv, LegsInOrder, SpendInv
    <3>3. CASE SwapRefused BY <1>1, <3>1, <3>2, <3>3, RefusalSpends
    <3>4. CASE GetQuote /\ ~SwapRefused
      <4>1. PICK quoted \in Outputs : enter' = [enter EXCEPT !.quoted = quoted] /\ UNCHANGED legs
        BY <3>4 DEF GetQuote
      <4>2. enter' = [asset |-> enter.asset, amount |-> enter.amount, quoted |-> quoted,
                      swapped |-> enter.swapped]
        BY <3>2, <4>1
      <4>3. enter'.amount = enter.amount /\ enter'.asset = enter.asset BY <4>2
      <4>4. slice' = slice /\ SwapIsIn' = SwapIsIn BY <1>1, <4>1 DEF slice, SwapIsIn
      <4> QED BY <1>1, <3>1, <3>2, <4>1, <4>3, <4>4 DEF LegsSpend
    <3>5. CASE BuildOptIns /\ ~SwapRefused
      <4>1. UNCHANGED enter BY <3>5 DEF BuildOptIns
      <4>2. CASE UNCHANGED legs
        <5>1. slice' = slice /\ SwapIsIn' = SwapIsIn BY <1>1, <4>2 DEF slice, SwapIsIn
        <5> QED BY <1>1, <3>1, <3>2, <4>1, <4>2, <5>1 DEF LegsSpend
      <4>3. CASE AddLeg(Step("opt-in", "compiled", OptInKey))
        <5> DEFINE step == [Step("opt-in", "compiled", OptInKey)
                              EXCEPT !.protocol = slice.market.protocol]
        <5>1. step.kind = "opt-in" BY DEF Step
        <5>2. legs' = Append(legs, step) BY <4>3 DEF AddLeg
        <5> HIDE DEF step
        <5> QED BY <1>1, <3>1, <3>2, <4>1, <5>1, <5>2, LegSpends
      <4> QED BY <3>5, <4>2, <4>3 DEF BuildOptIns
    <3>6. CASE BuildSwap /\ ~SwapRefused
      <4> DEFINE step == [[Step("swap", "compiled", SwapKey) EXCEPT
                        !.needs = prereqs, !.asset = req.asset, !.amount = slice.amount]
                          EXCEPT !.protocol = slice.market.protocol]
      <4>1. /\ step.status = "compiled" /\ step.kind = "swap" /\ step.amount = slice.amount
            /\ step.asset = req.asset
        BY DEF Step
      <4>2. legs' = Append(legs, step) BY <3>6 DEF BuildSwap, AddLeg
      <4> HIDE DEF step
      <4> QED BY <1>1, <3>1, <3>2, <4>1, <4>2, LegSpends
    <3> QED BY <2>3, <3>3, <3>4, <3>5, <3>6
  <2> QED BY <2>1, <2>2, <2>3
<1> QED BY <1>2, <1>3, <1>4 DEF SpendInv

\* A lone step of a claim, of an exit, or of an enter that waits, spends nothing.
LEMMA LeaveSpends ==
  ASSUME OrderInv, SpendInv, CompileLeave \/ DeferEnter
  PROVE  SpendInv'
<1>1. /\ phase = "intents" /\ phase' = "intents" /\ todo # <<>> /\ todo' = Tail(todo)
      /\ UNCHANGED <<req, cands, remaining, used, slices>>
  BY DEF CompileLeave, DeferEnter, slicing
<1>2. Now(Head(todo)) = 0 BY DEF CompileLeave, DeferEnter, Now
<1>3. \E group : Append1(group) /\ Spent(group, req.asset) = 0
  <2>1. CASE CompileLeave
    <3> DEFINE i == Head(todo)
               step(status) == [Step(i.kind, status, i.position) EXCEPT
                         !.protocol = i.protocol, !.asset = i.asset, !.amount = i.amount,
                         !.named = TRUE,
                         !.field = IF i.kind = "exit" THEN "amount" ELSE "none"]
    <3>1. PICK status \in {"compiled", "blocked", "deferred"} :
             Append1(GroupOf(None, i.amount, None, <<step(status)>>))
      BY <2>1 DEF CompileLeave
    <3>2. step(status).kind = i.kind /\ i.kind \in {"claim", "exit"}
      BY <2>1 DEF CompileLeave, Step
    <3> HIDE DEF step, i
    <3>3. IsList(<<step(status)>>) /\ Members(<<step(status)>>) = {step(status)} BY OneMember
    <3>4. PICK group : group = GroupOf(None, i.amount, None, <<step(status)>>) OBVIOUS
    <3>5. group.steps = <<step(status)>> BY <3>4, GroupOfIs
    <3>6. Spent(group, req.asset) \in {0, 0} BY <3>2, <3>3, <3>5, SpentIs
    <3> QED BY <3>1, <3>4, <3>6
  <2>2. CASE DeferEnter
    <3> DEFINE step == Step("enter", "deferred", None)
    <3>1. Append1(GroupOf(None, 0, None, <<step>>)) BY <2>2 DEF DeferEnter
    <3>2. step.status # "compiled" BY DEF Step
    <3> HIDE DEF step
    <3>3. IsList(<<step>>) /\ Members(<<step>>) = {step} BY OneMember
    <3>4. PICK group : group = GroupOf(None, 0, None, <<step>>) OBVIOUS
    <3>5. group.steps = <<step>> BY <3>4, GroupOfIs
    <3>6. Spent(group, req.asset) \in {0, 0} BY <3>2, <3>3, <3>5, SpentIs
    <3> QED BY <3>1, <3>4, <3>6
  <2> QED BY <2>1, <2>2
<1>4. PICK group : Append1(group) /\ Spent(group, req.asset) = 0 BY <1>3
<1>5. answer'.groups = Append(answer.groups, group) BY <1>4, Append1Is DEF OrderInv
<1>6. IsList(answer.groups) BY DEF OrderInv, AnswerShape
<1>7. \A g \in Members(answer.groups) : Spent(g, req.asset) \in Nat
  BY DEF SpendInv, SpendTypes, Groups
<1>8. SpentOf(answer'.groups, req.asset) = SpentOf(answer.groups, req.asset) + 0
  BY <1>4, <1>5, <1>6, <1>7, SpentMore
<1>9. \A g \in Members(answer'.groups) : Spent(g, req.asset) \in Nat
  BY <1>4, <1>5, <1>6, <1>7, Appended
<1>10. Intents(todo') /\ Due(todo) = 0 + Due(todo')
  <2>1. Intents(todo) BY DEF SpendInv, SpendTypes
  <2> QED BY <1>1, <1>2, <2>1, DueTail
<1>11. ~UnderWay /\ ~UnderWay' /\ phase' \notin Legs /\ phase # "slicing"
  BY <1>1 DEF UnderWay, Legs
<1>12. SpendTypes'
  <2>1. Slices(slices)' BY <1>1 DEF SpendInv, SpendTypes, Slices
  <2> QED BY <1>1, <1>9, <1>10, <1>11, <2>1 DEF SpendInv, SpendTypes, Groups
<1>13. SpendBound'
  <2>1. Pending = todo /\ Pending' = todo' /\ Budget' = Budget
    BY <1>1, <1>11 DEF Pending, Budget
  <2>2. SpentOf(answer.groups, req.asset) \in Nat BY <1>6, <1>7, SpentOfNat
  <2>3. Due(todo') \in Nat BY <1>10, DueNat
  <2>4. Due(todo) = Due(todo') BY <1>10, <2>3
  <2> QED BY <1>1, <1>8, <1>11, <2>1, <2>2, <2>4 DEF SpendInv, SpendBound
<1> QED BY <1>11, <1>12, <1>13 DEF SpendInv, LegsSpend

LEMMA TakeEnterSpends == ASSUME OrderInv, SpendInv, TakeEnter PROVE SpendInv'
<1>1. /\ phase = "intents" /\ phase' = "slicing" /\ todo # <<>> /\ remaining' = Head(todo).amount
      /\ Head(todo).kind = "enter" /\ Head(todo).compileNow
      /\ UNCHANGED <<req, todo, slices>> /\ used' = [p \in Protocols |-> 0]
  BY DEF TakeEnter
<1>2. answer'.groups = answer.groups
  <2>1. PICK b : answer' = [answer EXCEPT !.blocked = b] BY DEF TakeEnter
  <2>2. answer = [groups |-> answer.groups, blocked |-> answer.blocked]
    BY DEF OrderInv, AnswerShape
  <2>3. answer' = [groups |-> answer.groups, blocked |-> b] BY <2>1, <2>2
  <2> QED BY <2>3
<1>3. IsList(cands') /\ Members(cands') \subseteq Members(req.markets)
  <2> DEFINE A == {row \in Members(req.markets) : Head(todo).opp \in {None, row.opp}}
             considered == Keep(req.markets, A)
             B == {row \in Members(considered) : Enterable(row)}
  <2>1. cands' = Keep(considered, B) BY DEF TakeEnter, Filter
  <2>2. IsList(req.markets) BY CompilerAssumption DEF SpendInv, SpendTypes, RequestOK
  <2>3. IsList(considered) /\ Members(considered) = Members(req.markets) \cap A
    <3> HIDE DEF A
    <3> QED BY <2>2, Kept
  <2> HIDE DEF considered
  <2>4. IsList(Keep(considered, B)) /\ Members(Keep(considered, B)) = Members(considered) \cap B
    <3> HIDE DEF B
    <3> QED BY <2>3, Kept
  <2> QED BY <2>1, <2>3, <2>4
<1>4. UnderWay' /\ ~UnderWay /\ phase' \notin Legs BY <1>1 DEF UnderWay, Legs
<1>5. slices = <<>> /\ Intents(todo) BY <1>4 DEF SpendInv, SpendTypes
<1>6. Now(Head(todo)) = Head(todo).amount BY <1>1 DEF Now
<1>7. Head(todo).amount \in Nat /\ Intents(Tail(todo))
      /\ Due(todo) = Head(todo).amount + Due(Tail(todo))
  BY <1>1, <1>5, <1>6, DueTail
<1>8. SpendTypes'
  <2>1. Slices(slices)' BY <1>1 DEF SpendInv, SpendTypes, Slices
  <2>2. remaining' \in 0..Head(todo').amount BY <1>1, <1>7
  <2>3. used' \in [Protocols -> Nat] BY <1>1
  <2> QED BY <1>1, <1>2, <1>3, <1>4, <1>5, <2>1, <2>2, <2>3 DEF SpendInv, SpendTypes, Groups, Legs
<1>9. SpendBound'
  <2>1. Pending = todo /\ Pending' = Tail(todo) /\ Budget' = Budget
    BY <1>1, <1>4 DEF Pending, Budget
  <2>2. Due(Tail(todo)) \in Nat BY <1>7, DueNat
  <2>3. SpentOf(answer.groups, req.asset) \in Nat
    BY SpentOfNat DEF OrderInv, AnswerShape, SpendInv, SpendTypes, Groups
  <2>4. Sliced(slices) \in Nat BY SlicedNat DEF SpendInv, SpendTypes, Slices, AmountOf
  <2>5. SpentOf(answer.groups, req.asset) + Sliced(slices) + 0 + Due(todo) <= Budget
    BY <1>1, <2>1 DEF SpendInv, SpendBound
  <2>6. SpentOf(answer.groups, req.asset) + Sliced(slices) + remaining' + Due(Tail(todo)) <= Budget
    BY <1>1, <1>7, <2>2, <2>3, <2>4, <2>5
  <2> QED BY <1>1, <1>2, <2>1, <2>6 DEF SpendBound
<1> QED BY <1>4, <1>8, <1>9 DEF SpendInv, LegsSpend

\* One round of allocateBudget: nothing, or a slice of what is left, of a weight that
\* the protocol has room for and that rounding has made smaller by less than one.
LEMMA SliceIs ==
  ASSUME SpendTypes, Slice
  PROVE  \/ UNCHANGED <<slices, remaining, used>>
         \/ \E amount, weight \in Nat :
              /\ amount <= remaining /\ remaining' = remaining - amount
              /\ slices' = Append(slices,
                   [market |-> Head(cands), amount |-> amount, weight |-> weight])
              /\ Head(cands).protocol \in Protocols
              /\ used' = [used EXCEPT ![Head(cands).protocol] = @ + weight]
              /\ used[Head(cands).protocol] + weight <= req.cap
              /\ Bps * amount < Head(todo).amount * weight + Head(todo).amount
<1> DEFINE row == Head(cands)
           all == Head(todo).amount
           room == req.cap - used[row.protocol]
           cap == (all * room) \div Bps
           amount == IF remaining < cap THEN remaining ELSE cap
           weight == (amount * Bps) \div all
<1>1. phase = "slicing" /\ cands # <<>> BY DEF Slice
<1>2. row.protocol \in Protocols /\ req.cap \in Nat
  <2>1. row \in Members(req.markets) BY <1>1, Tailed DEF SpendTypes
  <2> QED BY <2>1, CompilerAssumption DEF SpendTypes, RequestOK
<1>3. remaining \in Nat /\ all \in Nat /\ remaining <= all
  <2>1. remaining \in 0..all /\ todo # <<>> /\ Intents(todo)
        /\ Head(todo).kind = "enter" /\ Head(todo).compileNow
    BY <1>1 DEF SpendTypes, UnderWay
  <2>2. Now(Head(todo)) \in Nat BY <2>1, DueTail
  <2>3. all \in Nat BY <2>1, <2>2 DEF Now
  <2> QED BY <2>1, <2>3
<1>4. room \in Int
  <2>1. used[row.protocol] \in Nat BY <1>2 DEF SpendTypes
  <2> QED BY <1>2, <2>1
<1>5. \/ UNCHANGED <<slices, remaining, used>>
      \/ /\ ~(room <= 0 \/ amount <= 0)
         /\ slices' = Append(slices, [market |-> row, amount |-> amount, weight |-> weight])
         /\ used' = [used EXCEPT ![row.protocol] = @ + weight]
         /\ remaining' = remaining - amount
  BY DEF Slice
<1> SUFFICES ASSUME ~(room <= 0 \/ amount <= 0),
                    slices' = Append(slices, [market |-> row, amount |-> amount, weight |-> weight]),
                    used' = [used EXCEPT ![row.protocol] = @ + weight],
                    remaining' = remaining - amount
             PROVE  /\ amount \in Nat /\ weight \in Nat /\ amount <= remaining
                    /\ used[row.protocol] + weight <= req.cap
                    /\ Bps * amount < all * weight + all
  BY <1>2, <1>5
<1>6. PICK u : u = used[row.protocol] OBVIOUS
<1>7. u \in Nat /\ room = req.cap - u BY <1>2, <1>6 DEF SpendTypes
<1> HIDE DEF room, all
<1>8. all * room \in Int /\ cap \in Int
  <2>1. \A x, y \in Int : x * y \in Int OBVIOUS
  <2>2. all * room \in Int BY <1>3, <1>4, <2>1
  <2> HIDE DEF cap
  <2>3. cap \in Int BY <2>2, GraphAssumption DEF cap
  <2> QED BY <2>2, <2>3
<1> HIDE DEF cap
<1>9. amount \in Nat /\ amount > 0 /\ amount <= remaining /\ amount <= cap BY <1>3, <1>8
<1>10. room > 0 /\ room \in Nat /\ all > 0 BY <1>3, <1>4, <1>9
<1>11. Bps * cap <= all * room
  <2>1. all * room \in Nat
    <3>1. \A x, y \in Nat : x * y \in Nat OBVIOUS
    <3> QED BY <1>3, <1>10, <3>1
  <2> QED BY <2>1, DivFloors, GraphAssumption DEF cap
<1> HIDE DEF amount
<1>12. amount * Bps = Bps * amount /\ amount * Bps \in Nat
  <2>1. \A x, y \in Nat : x * y = y * x /\ x * y \in Nat OBVIOUS
  <2> QED BY <1>9, <2>1, GraphAssumption
<1>13. weight \in Nat /\ all * weight <= Bps * amount /\ Bps * amount < all * weight + all
  <2>1. all \in Nat \ {0} BY <1>3, <1>10
  <2> QED BY <1>12, <2>1, DivFloors
<1> HIDE DEF weight
<1>14. weight <= room
  <2>1. Bps * amount <= Bps * cap
    <3>1. \A b \in Nat, x, y \in Int : x <= y => b * x <= b * y OBVIOUS
    <3> QED BY <1>8, <1>9, <3>1, GraphAssumption
  <2>2. all * weight <= all * room
    <3>1. \A x, y \in Int : x * y \in Int OBVIOUS
    <3>2. Bps * amount \in Int /\ Bps * cap \in Int /\ all * weight \in Int
      BY <1>3, <1>8, <1>9, <1>13, <3>1, GraphAssumption
    <3> QED BY <1>8, <1>11, <1>13, <2>1, <3>2
  <2>3. all \in Int /\ all > 0 /\ weight \in Int /\ room \in Int BY <1>3, <1>4, <1>10, <1>13
  <2> QED BY <2>2, <2>3, Cancelled
<1>15. used[row.protocol] + weight <= req.cap BY <1>2, <1>6, <1>7, <1>13, <1>14
<1> QED BY <1>9, <1>13, <1>15

LEMMA SliceSpends == ASSUME OrderInv, SpendInv, Slice PROVE SpendInv'
<1>1. /\ phase = "slicing" /\ phase' = "slicing" /\ cands # <<>> /\ cands' = Tail(cands)
      /\ UNCHANGED <<req, todo, answer>>
  BY DEF Slice
<1>2. UnderWay /\ UnderWay' /\ phase' \notin Legs BY <1>1 DEF UnderWay, Legs
<1>3. IsList(cands') /\ Members(cands') \subseteq Members(req.markets)
  BY <1>1, Tailed DEF SpendInv, SpendTypes
<1>4. AmountOf(slices) BY DEF SpendInv, SpendTypes, Slices, AmountOf
<1>5. /\ remaining' \in 0..Head(todo).amount /\ used' \in [Protocols -> Nat]
      /\ Slices(slices)' /\ Sliced(slices') + remaining' = Sliced(slices) + remaining
  <2>1. remaining \in 0..Head(todo).amount /\ Head(todo).amount \in Nat
    <3>1. Now(Head(todo)) \in Nat BY <1>2, DueTail DEF SpendInv, SpendTypes
    <3> QED BY <1>1, <1>2, <3>1 DEF SpendInv, SpendTypes, Now
  <2>2. CASE UNCHANGED <<slices, remaining, used>>
    BY <1>1, <2>1, <2>2 DEF SpendInv, SpendTypes, Slices
  <2>3. CASE ~UNCHANGED <<slices, remaining, used>>
    <3>1. PICK amount, weight \in Nat :
              /\ amount <= remaining /\ remaining' = remaining - amount
              /\ slices' = Append(slices,
                   [market |-> Head(cands), amount |-> amount, weight |-> weight])
              /\ Head(cands).protocol \in Protocols
              /\ used' = [used EXCEPT ![Head(cands).protocol] = @ + weight]
      BY <2>3, SliceIs DEF SpendInv
    <3>2. remaining' \in 0..Head(todo).amount BY <2>1, <3>1
    <3>3. used' \in [Protocols -> Nat] BY <3>1 DEF SpendInv, SpendTypes
    <3>4. PICK new : new = [market |-> Head(cands), amount |-> amount, weight |-> weight] OBVIOUS
    <3>5. new.market \in Members(req.markets) /\ new.amount = amount
      BY <1>1, <3>4, Tailed DEF SpendInv, SpendTypes
    <3>6. IsList(slices') /\ Members(slices') = Members(slices) \cup {new}
      BY <1>4, <3>1, <3>4, Appended DEF AmountOf
    <3>7. Slices(slices)' BY <1>1, <3>5, <3>6 DEF SpendInv, SpendTypes, Slices
    <3>8. Sliced(slices') = Sliced(slices) + amount BY <1>4, <3>1, <3>4, <3>5, SlicedMore
    <3>9. Sliced(slices) \in Nat BY <1>4, SlicedNat
    <3> QED BY <2>1, <3>1, <3>2, <3>3, <3>7, <3>8, <3>9
  <2> QED BY <2>2, <2>3
<1>6. SpendTypes'
  BY <1>1, <1>2, <1>3, <1>5 DEF SpendInv, SpendTypes, Groups, Legs
<1>7. SpendBound'
  <2>1. Pending' = Pending /\ Budget' = Budget BY <1>1, <1>2 DEF Pending, Budget
  <2>2. SpentOf(answer.groups, req.asset) \in Nat
    BY SpentOfNat DEF OrderInv, AnswerShape, SpendInv, SpendTypes, Groups
  <2>3. Sliced(slices) \in Nat BY <1>4, SlicedNat
  <2>4. Sliced(slices') \in Nat
    <3>1. AmountOf(slices') BY <1>5 DEF Slices, AmountOf
    <3> QED BY <3>1, SlicedNat
  <2>5. remaining \in Int /\ remaining' \in Int BY <1>1, <1>5 DEF SpendInv, SpendTypes
  <2>6. Due(Pending) \in Nat
    <3>1. Pending = Tail(todo) /\ Intents(todo) /\ todo # <<>>
      BY <1>2 DEF Pending, SpendInv, SpendTypes
    <3> QED BY <3>1, DueTail, DueNat
  <2>7. SpentOf(answer.groups, req.asset) + Sliced(slices) + remaining + Due(Pending) <= Budget
    BY <1>1 DEF SpendInv, SpendBound
  <2>8. SpentOf(answer.groups, req.asset) + Sliced(slices') + remaining' + Due(Pending) <= Budget
    BY <1>5, <2>2, <2>3, <2>4, <2>5, <2>6, <2>7
  <2> QED BY <1>1, <2>1, <2>8 DEF SpendBound
<1> QED BY <1>2, <1>6, <1>7 DEF SpendInv, LegsSpend

LEMMA EndSlicingSpends == ASSUME OrderInv, SpendInv, EndSlicing PROVE SpendInv'
<1>1. /\ phase = "slicing" /\ cands' = <<>> /\ UNCHANGED <<req, remaining, used, slices, answer>>
      /\ \/ slices = <<>> /\ phase' = "intents" /\ todo' = Tail(todo)
         \/ slices # <<>> /\ phase' = "slices" /\ todo' = todo
  BY DEF EndSlicing
<1>2. UnderWay /\ phase' \notin Legs /\ phase' # "slicing" /\ (UnderWay' <=> phase' = "slices")
  BY <1>1 DEF UnderWay, Legs
<1>3. Pending' = Pending /\ Budget' = Budget /\ Pending = Tail(todo) BY <1>1, <1>2 DEF Pending, Budget
<1>4. Intents(todo) /\ todo # <<>> BY <1>2 DEF SpendInv, SpendTypes
<1>5. Intents(Tail(todo)) BY <1>4, DueTail
<1>6. Intents(todo') BY <1>1, <1>4, <1>5
<1>7. SpendTypes'
  <2>1. Slices(slices)' BY <1>1 DEF SpendInv, SpendTypes, Slices
  <2>2. IsList(cands') /\ Members(cands') \subseteq Members(req'.markets) BY <1>1, NoList
  <2> QED BY <1>1, <1>2, <1>6, <2>1, <2>2 DEF SpendInv, SpendTypes, Groups
<1>8. SpendBound'
  <2>1. SpentOf(answer.groups, req.asset) \in Nat
    BY SpentOfNat DEF OrderInv, AnswerShape, SpendInv, SpendTypes, Groups
  <2>2. Sliced(slices) \in Nat BY SlicedNat DEF SpendInv, SpendTypes, Slices, AmountOf
  <2>3. remaining \in Int /\ remaining >= 0 BY <1>1 DEF SpendInv, SpendTypes
  <2>4. Due(Pending) \in Nat BY <1>3, <1>5, DueNat
  <2>5. SpentOf(answer.groups, req.asset) + Sliced(slices) + remaining + Due(Pending) <= Budget
    BY <1>1 DEF SpendInv, SpendBound
  <2>6. Budget \in Nat BY BudgetNat DEF SpendInv, SpendTypes
  <2>7. SpentOf(answer.groups, req.asset) + Sliced(slices) + 0 + Due(Pending) <= Budget
    BY <2>1, <2>2, <2>3, <2>4, <2>5, <2>6
  <2> QED BY <1>1, <1>2, <1>3, <2>7 DEF SpendBound
<1> QED BY <1>2, <1>7, <1>8 DEF SpendInv, LegsSpend

LEMMA EndSliceSpends == ASSUME OrderInv, SpendInv, EndSlice PROVE SpendInv'
<1>1. /\ phase = "shapes" /\ slices' = Tail(slices) /\ UNCHANGED <<req, cands, remaining, used>>
      /\ \/ Tail(slices) = <<>> /\ phase' = "intents" /\ todo' = Tail(todo)
         \/ Tail(slices) # <<>> /\ phase' = "slices" /\ todo' = todo
  BY DEF EndSlice, slicing
<1>2. /\ UnderWay /\ phase \in Legs /\ phase # "slicing" /\ phase' \notin Legs
      /\ phase' # "slicing" /\ (UnderWay' <=> phase' = "slices")
  BY <1>1 DEF UnderWay, Legs
<1>3. Pending' = Pending /\ Budget' = Budget /\ Pending = Tail(todo) BY <1>1, <1>2 DEF Pending, Budget
<1>4. Intents(todo) /\ todo # <<>> BY <1>2 DEF SpendInv, SpendTypes
<1>5. Intents(Tail(todo)) BY <1>4, DueTail
<1>6. slices # <<>> /\ Slices(slices) /\ AmountOf(slices)
  BY <1>2 DEF SpendInv, SpendTypes, Slices, AmountOf
<1>7. /\ AmountOf(Tail(slices)) /\ slice.amount \in Nat
      /\ Sliced(slices) = slice.amount + Sliced(Tail(slices))
  BY <1>6, SlicedTail DEF slice
<1>8. PICK group : group = GroupOf(slice.market, slice.amount, slice.weight, legs) OBVIOUS
<1>9. Spent(group, req.asset) \in {0, slice.amount}
  <2>1. IsList(legs) /\ LegsSpend BY <1>2 DEF OrderInv, LegsInOrder, SpendInv
  <2>2. /\ \A s \in Members(legs) : s.status = "compiled" /\ s.kind = "swap" => s.amount = slice.amount
        /\ \/ \E s \in Members(legs) : s.status = "compiled" /\ s.kind = "swap"
           \/ \A s \in Members(legs) :
                s.status = "compiled" /\ s.kind \in {"setup", "enter"} => s.amount \in {0, slice.amount}
    BY <1>2, <2>1 DEF LegsSpend, SwapIsIn
  <2>3. group.steps = legs BY <1>8, GroupOfIs
  <2> QED BY <2>1, <2>2, <2>3, SpentIs
<1>10. answer'.groups \in {answer.groups, Append(answer.groups, group)}
  BY <1>8 DEF EndSlice
<1>11. IsList(answer.groups) BY DEF OrderInv, AnswerShape
<1>12. \A g \in Members(answer.groups) : Spent(g, req.asset) \in Nat
  BY DEF SpendInv, SpendTypes, Groups
<1>13. Spent(group, req.asset) \in Nat BY <1>7, <1>9
<1>14. /\ \A g \in Members(answer'.groups) : Spent(g, req.asset) \in Nat
       /\ SpentOf(answer'.groups, req.asset) <= SpentOf(answer.groups, req.asset) + slice.amount
       /\ SpentOf(answer'.groups, req.asset) \in Nat
  <2>1. SpentOf(answer.groups, req.asset) \in Nat BY <1>11, <1>12, SpentOfNat
  <2>2. CASE answer'.groups = answer.groups BY <1>7, <1>12, <2>1, <2>2
  <2>3. CASE answer'.groups = Append(answer.groups, group)
    <3>1. Members(answer'.groups) = Members(answer.groups) \cup {group} BY <1>11, <2>3, Appended
    <3>2. SpentOf(answer'.groups, req.asset)
            = SpentOf(answer.groups, req.asset) + Spent(group, req.asset)
      BY <1>11, <1>12, <1>13, <2>3, SpentMore
    <3> QED BY <1>7, <1>9, <1>12, <1>13, <2>1, <3>1, <3>2
  <2> QED BY <1>10, <2>2, <2>3
<1>15. Slices(slices)'
  <2>1. IsList(Tail(slices)) /\ Members(Tail(slices)) \subseteq Members(slices)
    BY <1>6, Tailed DEF AmountOf
  <2> QED BY <1>1, <1>6, <2>1 DEF Slices
<1>16. SpendTypes'
  <2>1. Intents(todo') BY <1>1, <1>4, <1>5
  <2>2. IsList(cands') /\ Members(cands') \subseteq Members(req'.markets)
    BY <1>1 DEF SpendInv, SpendTypes
  <2> QED BY <1>1, <1>2, <1>14, <1>15, <2>1, <2>2 DEF SpendInv, SpendTypes, Groups
<1>17. SpendBound'
  <2>1. SpentOf(answer.groups, req.asset) \in Nat BY <1>11, <1>12, SpentOfNat
  <2>2. Sliced(Tail(slices)) \in Nat BY <1>7, SlicedNat
  <2>3. Due(Pending) \in Nat BY <1>3, <1>5, DueNat
  <2>4. SpentOf(answer.groups, req.asset) + Sliced(slices) + 0 + Due(Pending) <= Budget
    BY <1>2 DEF SpendInv, SpendBound
  <2>5. Budget \in Nat BY BudgetNat DEF SpendInv, SpendTypes
  <2>6. SpentOf(answer'.groups, req.asset) + Sliced(Tail(slices)) + 0 + Due(Pending) <= Budget
    BY <1>7, <1>14, <2>1, <2>2, <2>3, <2>4, <2>5
  <2> QED BY <1>1, <1>2, <1>3, <2>6 DEF SpendBound
<1> QED BY <1>2, <1>16, <1>17 DEF SpendInv, LegsSpend

LEMMA StepSpend == OrderInv /\ SpendInv /\ [Next]_vars => SpendInv'
<1> SUFFICES ASSUME OrderInv, SpendInv, [Next]_vars PROVE SpendInv' OBVIOUS
<1>1. CASE Compose \/ GetQuote \/ BuildOptIns \/ BuildSwap \/ CompileShape BY <1>1, LegStepSpends
<1>2. CASE CompileLeave \/ DeferEnter BY <1>2, LeaveSpends
<1>3. CASE TakeEnter BY <1>3, TakeEnterSpends
<1>4. CASE Slice BY <1>4, SliceSpends
<1>5. CASE EndSlicing BY <1>5, EndSlicingSpends
<1>6. CASE EndSlice BY <1>6, EndSliceSpends
<1>7. CASE Answer \/ UNCHANGED vars
  <2>1. /\ UNCHANGED <<req, todo, cands, remaining, used, slices, keys, prereqs, enter, legs, answer>>
        /\ phase' = phase \/ (phase = "intents" /\ phase' = "answered")
    BY <1>7 DEF Answer, vars, slicing, composing
  <2>2. /\ UnderWay' = UnderWay /\ (phase' = "slicing" <=> phase = "slicing")
        /\ (phase' \in Legs <=> phase \in Legs) /\ (phase' = "slices" <=> phase = "slices")
    BY <2>1 DEF UnderWay, Legs
  <2>3. Pending' = Pending /\ Budget' = Budget /\ slice' = slice /\ SwapIsIn' = SwapIsIn
    BY <2>1, <2>2 DEF Pending, Budget, slice, SwapIsIn
  <2>4. LegsSpend' BY <2>1, <2>2, <2>3 DEF SpendInv, LegsSpend
  <2>5. SpendBound' BY <2>1, <2>2, <2>3 DEF SpendInv, SpendBound
  <2>6. Slices(slices)' BY <2>1 DEF SpendInv, SpendTypes, Slices
  <2>7. SpendTypes' BY <2>1, <2>2, <2>6 DEF SpendInv, SpendTypes, Groups
  <2> QED BY <2>4, <2>5, <2>7 DEF SpendInv
<1> QED BY <1>1, <1>2, <1>3, <1>4, <1>5, <1>6, <1>7 DEF Next

\* However a budget is sliced over gaps and markets, and whatever is quoted or refused
\* on the way, the compiled groups of an answer together never spend more than the
\* amount of the plan, or than the idle ALGO of the rebalance.
THEOREM BudgetIsKept == Spec => []SpendWithinBudget
<1>1. OrderInv /\ SpendInv => SpendWithinBudget
  <2> SUFFICES ASSUME OrderInv, SpendInv, answered PROVE SpentOf(answer.groups, req.asset) <= Budget
    BY DEF SpendWithinBudget, SpentOf, Budget
  <2>1. phase = "answered" /\ ~UnderWay /\ Pending = todo BY DEF answered, UnderWay, Legs, Pending
  <2>2. SpentOf(answer.groups, req.asset) \in Nat
    BY SpentOfNat DEF OrderInv, AnswerShape, SpendInv, SpendTypes, Groups
  <2>3. Sliced(slices) \in Nat BY SlicedNat DEF SpendInv, SpendTypes, Slices, AmountOf
  <2>4. Due(todo) \in Nat BY DueNat DEF SpendInv, SpendTypes
  <2>5. Budget \in Nat BY BudgetNat DEF SpendInv, SpendTypes
  <2>6. SpentOf(answer.groups, req.asset) + Sliced(slices) + 0 + Due(todo) <= Budget
    BY <2>1 DEF SpendInv, SpendBound
  <2> QED BY <2>2, <2>3, <2>4, <2>5, <2>6
<1> QED BY <1>1, InitOrder, InitSpend, StepOrder, StepSpend, PTL DEF Spec

-----------------------------------------------------------------------------
(***************************************************************************)
(* ProtocolWithinCap: the inductive invariant.                             *)
(***************************************************************************)
In(g, p, x) == IF g.market.protocol = p THEN x ELSE 0
WeightOf(some, p) == SumOver(some, LAMBDA g : In(g, p, g.weight))
Weighed(some) == IsList(some) /\ \A g \in Members(some) : g.weight \in Nat

\* A slice, and the group it becomes: what rounding hides of its weight is less than one.
Rounded(g) ==
  /\ g.amount \in Nat /\ g.weight \in Nat
  /\ Bps * g.amount < req.amount * g.weight + req.amount

PlanEnter == Intent("enter", None, req.asset, req.amount, TRUE)

CapInv ==
  req.kind = "plan" =>
    /\ todo \in {<<>>, <<PlanEnter>>}
    /\ phase \in {"intents", "slicing"} /\ todo # <<>> => answer.groups = <<>>
    /\ \A g \in Groups \cup Members(slices) : Rounded(g)
    /\ \A p \in Protocols :
         /\ WeightOf(answer.groups, p) + WeightOf(slices, p) <= used[p]
         /\ used[p] <= req.cap

LEMMA InNat == ASSUME NEW g, NEW p, NEW x \in Nat PROVE In(g, p, x) \in Nat
BY DEF In

LEMMA WeightIsMapped ==
  ASSUME NEW some, NEW p, NEW S, Members(some) \subseteq S
  PROVE  WeightOf(some, p) = Total(Mapped(some, [g \in S |-> In(g, p, g.weight)]))
<1>1. \A n \in DOMAIN some : some[n] \in S BY DEF Members
<1>2. [n \in DOMAIN some |-> In(some[n], p, some[n].weight)]
        = [n \in DOMAIN some |-> [g \in S |-> In(g, p, g.weight)][some[n]]]
  BY <1>1
<1> QED BY <1>2 DEF WeightOf, SumOver, Mapped

LEMMA WeightNat == ASSUME NEW some, Weighed(some), NEW p PROVE WeightOf(some, p) \in Nat
<1> DEFINE a == [n \in DOMAIN some |-> In(some[n], p, some[n].weight)]
<1>1. /\ Len(some) \in Nat /\ DOMAIN some = 1..Len(some)
      /\ \A n \in 1..Len(some) : some[n] \in Members(some)
  BY ListFacts DEF Weighed
<1>2. \A n \in 1..Len(some) : In(some[n], p, some[n].weight) \in Nat
  BY <1>1, InNat DEF Weighed
<1>3. a \in Seq(Int) /\ Len(a) = Len(some) /\ \A n \in 1..Len(a) : a[n] \in Nat BY <1>1, <1>2
<1>4. WeightOf(some, p) = Total(a) BY DEF WeightOf, SumOver
<1> HIDE DEF a
<1> QED BY <1>3, <1>4, TotalPositive, TotalInt

LEMMA WeightMore ==
  ASSUME NEW some, Weighed(some), NEW new, new.weight \in Nat, NEW p
  PROVE  WeightOf(Append(some, new), p) = WeightOf(some, p) + In(new, p, new.weight)
<1> DEFINE S == Members(some) \cup {new}
           f == [g \in S |-> In(g, p, g.weight)]
           more == Append(some, new)
<1>1. IsList(some) /\ \A g \in S : g.weight \in Nat BY DEF Weighed
<1>2. Members(more) = S BY <1>1, Appended
<1>3. WeightOf(more, p) = Total(Mapped(more, f)) /\ WeightOf(some, p) = Total(Mapped(some, f))
  BY <1>2, WeightIsMapped
<1>4. \A g \in S : f[g] = In(g, p, g.weight) OBVIOUS
<1> HIDE DEF f
<1>5. \A g \in S : f[g] \in Int
  <2> SUFFICES ASSUME NEW g \in S PROVE f[g] \in Int OBVIOUS
  <2>1. f[g] = In(g, p, g.weight) /\ In(g, p, g.weight) \in Nat BY <1>1, <1>4, InNat
  <2> QED BY <2>1
<1>6. Total(Mapped(more, f)) = Total(Mapped(some, f)) + f[new]
  BY <1>1, <1>5, MappedAppend DEF more
<1> QED BY <1>3, <1>4, <1>6 DEF more

LEMMA WeightTail ==
  ASSUME NEW some, Weighed(some), some # <<>>, NEW p
  PROVE  /\ Weighed(Tail(some)) /\ Head(some).weight \in Nat
         /\ WeightOf(some, p) = In(Head(some), p, Head(some).weight) + WeightOf(Tail(some), p)
<1> DEFINE S == Members(some)
           f == [g \in S |-> In(g, p, g.weight)]
<1>1. IsList(some) /\ \A g \in S : g.weight \in Nat BY DEF Weighed
<1>2. IsList(Tail(some)) /\ Members(Tail(some)) \subseteq S /\ Head(some) \in S BY <1>1, Tailed
<1>3. WeightOf(Tail(some), p) = Total(Mapped(Tail(some), f))
      /\ WeightOf(some, p) = Total(Mapped(some, f))
  BY <1>2, WeightIsMapped
<1>4. \A g \in S : f[g] = In(g, p, g.weight) OBVIOUS
<1> HIDE DEF f
<1>5. \A g \in S : f[g] \in Int
  <2> SUFFICES ASSUME NEW g \in S PROVE f[g] \in Int OBVIOUS
  <2>1. f[g] = In(g, p, g.weight) /\ In(g, p, g.weight) \in Nat BY <1>1, <1>4, InNat
  <2> QED BY <2>1
<1>6. Total(Mapped(some, f)) = f[Head(some)] + Total(Mapped(Tail(some), f))
  BY <1>1, <1>5, MappedTail
<1> QED BY <1>1, <1>2, <1>3, <1>4, <1>6 DEF Weighed

LEMMA NoWeight == \A p : WeightOf(<<>>, p) = 0
<1> SUFFICES ASSUME NEW p PROVE WeightOf(<<>>, p) = 0 OBVIOUS
<1>1. [n \in DOMAIN <<>> |-> In(<<>>[n], p, <<>>[n].weight)] = <<>> OBVIOUS
<1> QED BY <1>1, TotalNone DEF WeightOf, SumOver

\* What the lists of CapInv are.
LEMMA CapLists ==
  ASSUME OrderInv, SpendInv, CapInv, req.kind = "plan"
  PROVE  Weighed(answer.groups) /\ Weighed(slices)
<1>1. IsList(answer.groups) /\ IsList(slices)
  BY DEF OrderInv, AnswerShape, SpendInv, SpendTypes, Slices
<1>2. \A g \in Groups \cup Members(slices) : Rounded(g) BY DEF CapInv
<1> QED BY <1>1, <1>2 DEF Weighed, Rounded, Groups

LEMMA PlanEnterIs ==
  /\ <<PlanEnter>> # <<>> /\ Head(<<PlanEnter>>) = PlanEnter /\ Tail(<<PlanEnter>>) = <<>>
  /\ PlanEnter.kind = "enter" /\ PlanEnter.compileNow /\ PlanEnter.amount = req.amount
<1>1. PlanEnter.kind = "enter" /\ PlanEnter.compileNow /\ PlanEnter.amount = req.amount
  BY DEF PlanEnter, Intent
<1> QED BY <1>1

LEMMA InitCap == Init => CapInv
<1> SUFFICES ASSUME Init, req.kind = "plan" PROVE CapInv BY DEF CapInv
<1>1. /\ req \in Requests /\ todo = Start(req) /\ answer.groups = <<>> /\ slices = <<>>
      /\ used = [p \in Protocols |-> 0]
  BY DEF Init, NoAnswer
<1>2. Start(req) = <<PlanEnter>> BY DEF Start, PlanEnter
<1>3. req.cap \in Nat BY <1>1, CompilerAssumption DEF RequestOK
<1>4. Groups \cup Members(slices) = {} BY <1>1, NoList DEF Groups
<1> QED BY <1>1, <1>2, <1>3, <1>4, NoWeight DEF CapInv

LEMMA SliceCap == ASSUME OrderInv, SpendInv, CapInv, Slice PROVE CapInv'
<1> SUFFICES ASSUME req'.kind = "plan" PROVE CapInv' BY DEF CapInv
<1>1. phase = "slicing" /\ phase' = "slicing" /\ UNCHANGED <<req, todo, answer>> BY DEF Slice
<1>2. todo = <<PlanEnter>> /\ PlanEnter' = PlanEnter /\ Head(todo).amount = req.amount
  <2>1. todo # <<>> BY <1>1 DEF SpendInv, SpendTypes, UnderWay
  <2> QED BY <1>1, <2>1, PlanEnterIs DEF CapInv, PlanEnter
<1>3. Weighed(answer.groups) /\ Weighed(slices) BY <1>1, CapLists
<1>4. ASSUME NEW g PROVE Rounded(g)' <=> Rounded(g) BY <1>1 DEF Rounded
<1>5. CASE UNCHANGED <<slices, remaining, used>>
  <2>1. Groups' = Groups /\ UNCHANGED <<slices, used>> BY <1>1, <1>5 DEF Groups
  <2>2. \A g \in (Groups \cup Members(slices))' : Rounded(g)' BY <1>1, <1>4, <2>1 DEF CapInv
  <2>3. \A p \in Protocols :
         /\ WeightOf(answer'.groups, p) + WeightOf(slices', p) <= used'[p]
         /\ used'[p] <= req'.cap
    BY <1>1, <2>1 DEF CapInv
  <2> QED BY <1>1, <1>2, <2>1, <2>2, <2>3 DEF CapInv
<1>6. CASE ~UNCHANGED <<slices, remaining, used>>
  <2>1. PICK amount, weight \in Nat :
          /\ slices' = Append(slices,
               [market |-> Head(cands), amount |-> amount, weight |-> weight])
          /\ Head(cands).protocol \in Protocols
          /\ used' = [used EXCEPT ![Head(cands).protocol] = @ + weight]
          /\ used[Head(cands).protocol] + weight <= req.cap
          /\ Bps * amount < Head(todo).amount * weight + Head(todo).amount
    BY <1>6, SliceIs DEF SpendInv
  <2>2. PICK new : new = [market |-> Head(cands), amount |-> amount, weight |-> weight] OBVIOUS
  <2>3. /\ new.market = Head(cands) /\ new.amount = amount /\ new.weight = weight
        /\ slices' = Append(slices, new)
    BY <2>1, <2>2
  <2>4. Rounded(new) BY <1>2, <2>1, <2>3 DEF Rounded
  <2>5. Members(slices') = Members(slices) \cup {new} BY <1>3, <2>3, Appended DEF Weighed
  <2>6. \A g \in (Groups \cup Members(slices))' : Rounded(g)'
    BY <1>1, <1>4, <2>4, <2>5 DEF CapInv, Groups
  <2>7. ASSUME NEW p \in Protocols
        PROVE  /\ WeightOf(answer'.groups, p) + WeightOf(slices', p) <= used'[p]
               /\ used'[p] <= req'.cap
    <3>1. WeightOf(slices', p) = WeightOf(slices, p) + In(new, p, weight)
      BY <1>3, <2>3, WeightMore
    <3>2. WeightOf(answer.groups, p) \in Nat /\ WeightOf(slices, p) \in Nat BY <1>3, WeightNat
    <3>3. used \in [Protocols -> Nat] BY DEF SpendInv, SpendTypes
    <3>4. WeightOf(answer.groups, p) + WeightOf(slices, p) <= used[p] /\ used[p] <= req.cap
      BY <1>1 DEF CapInv
    <3>5. CASE Head(cands).protocol = p
      <4>1. In(new, p, weight) = weight /\ used'[p] = used[p] + weight
        BY <2>1, <2>3, <3>3, <3>5 DEF In
      <4>2. used[p] \in Nat BY <3>3
      <4> QED BY <1>1, <2>1, <3>1, <3>2, <3>4, <3>5, <4>1, <4>2
    <3>6. CASE Head(cands).protocol # p
      <4>1. In(new, p, weight) = 0 /\ used'[p] = used[p] BY <2>1, <2>3, <3>3, <3>6 DEF In
      <4> QED BY <1>1, <3>1, <3>2, <3>4, <4>1
    <3> QED BY <3>5, <3>6
  <2> QED BY <1>1, <1>2, <2>6, <2>7 DEF CapInv
<1> QED BY <1>5, <1>6

LEMMA EndSliceCap == ASSUME OrderInv, SpendInv, CapInv, EndSlice PROVE CapInv'
<1> SUFFICES ASSUME req'.kind = "plan" PROVE CapInv' BY DEF CapInv
<1>1. /\ phase = "shapes" /\ slices' = Tail(slices) /\ UNCHANGED <<req, used>>
      /\ \/ phase' = "intents" /\ todo' = Tail(todo)
         \/ phase' = "slices" /\ todo' = todo
  BY DEF EndSlice, slicing
<1>2. todo = <<PlanEnter>> /\ PlanEnter' = PlanEnter
  <2>1. todo # <<>> BY <1>1 DEF SpendInv, SpendTypes, UnderWay, Legs
  <2> QED BY <1>1, <2>1, PlanEnterIs DEF CapInv, PlanEnter
<1>3. Weighed(answer.groups) /\ Weighed(slices) /\ slices # <<>>
  BY <1>1, CapLists DEF SpendInv, SpendTypes, Legs
<1>4. ASSUME NEW g PROVE Rounded(g)' <=> Rounded(g) BY <1>1 DEF Rounded
<1>5. PICK group : group = GroupOf(slice.market, slice.amount, slice.weight, legs) OBVIOUS
<1>6. group.market = slice.market /\ group.amount = slice.amount /\ group.weight = slice.weight
  BY <1>5, GroupOfIs
<1>7. answer'.groups \in {answer.groups, Append(answer.groups, group)}
  BY <1>5 DEF EndSlice
<1>8. /\ Members(Tail(slices)) \subseteq Members(slices) /\ slice \in Members(slices)
  BY <1>3, Tailed DEF Weighed, slice
<1>9. Rounded(slice) BY <1>1, <1>8 DEF CapInv
<1>10. Rounded(group) /\ group.weight \in Nat BY <1>6, <1>9 DEF Rounded
<1>11. Members(answer'.groups) \subseteq Members(answer.groups) \cup {group}
  <2>1. Members(Append(answer.groups, group)) = Members(answer.groups) \cup {group}
    BY <1>3, Appended DEF Weighed
  <2> QED BY <1>7, <2>1
<1>12. \A g \in (Groups \cup Members(slices))' : Rounded(g)'
  BY <1>1, <1>4, <1>8, <1>10, <1>11 DEF CapInv, Groups
<1>13. ASSUME NEW p \in Protocols
       PROVE  /\ WeightOf(answer'.groups, p) + WeightOf(slices', p) <= used'[p]
              /\ used'[p] <= req'.cap
  <2>1. WeightOf(slices, p) = In(slice, p, slice.weight) + WeightOf(Tail(slices), p)
        /\ Weighed(Tail(slices))
    BY <1>3, WeightTail DEF slice
  <2>2. In(group, p, group.weight) = In(slice, p, slice.weight)
        /\ In(slice, p, slice.weight) \in Nat
    BY <1>6, <1>10, InNat DEF In
  <2>3. WeightOf(answer.groups, p) \in Nat /\ WeightOf(Tail(slices), p) \in Nat
    BY <1>3, <2>1, WeightNat
  <2>4. WeightOf(answer'.groups, p)
          \in {WeightOf(answer.groups, p), WeightOf(answer.groups, p) + In(slice, p, slice.weight)}
    BY <1>3, <1>7, <1>10, <2>2, WeightMore
  <2>5. WeightOf(answer.groups, p) + WeightOf(slices, p) <= used[p] /\ used[p] <= req.cap
    BY <1>1 DEF CapInv
  <2>6. used[p] \in Nat BY DEF SpendInv, SpendTypes
  <2> QED BY <1>1, <2>1, <2>2, <2>3, <2>4, <2>5, <2>6
<1>14. todo' \in {<<>>, <<PlanEnter>>'} /\ (phase' = "intents" => todo' = <<>>)
  BY <1>1, <1>2, PlanEnterIs
<1> QED BY <1>1, <1>12, <1>13, <1>14 DEF CapInv

LEMMA StepCap == OrderInv /\ SpendInv /\ CapInv /\ [Next]_vars => CapInv'
<1> SUFFICES ASSUME OrderInv, SpendInv, CapInv, [Next]_vars, req'.kind = "plan" PROVE CapInv'
  BY DEF CapInv
<1>1. CASE Slice BY <1>1, SliceCap
<1>2. CASE EndSlice BY <1>2, EndSliceCap
<1>3. CASE CompileLeave \/ DeferEnter
  <2>1. UNCHANGED req /\ todo # <<>> BY <1>3 DEF CompileLeave, DeferEnter
  <2>2. Head(todo).kind = "enter" /\ Head(todo).compileNow
    BY <2>1, PlanEnterIs DEF CapInv
  <2> QED BY <1>3, <2>2 DEF CompileLeave, DeferEnter
<1>4. CASE TakeEnter
  <2>1. /\ phase = "intents" /\ todo # <<>> /\ phase' = "slicing" /\ UNCHANGED <<req, todo, slices>>
        /\ used' = [p \in Protocols |-> 0]
    BY <1>4 DEF TakeEnter
  <2>2. answer.groups = <<>> BY <2>1 DEF CapInv
  <2>3. answer'.groups = <<>>
    <3>1. PICK b : answer' = [answer EXCEPT !.blocked = b] BY <1>4 DEF TakeEnter
    <3>2. answer = [groups |-> answer.groups, blocked |-> answer.blocked]
      BY DEF OrderInv, AnswerShape
    <3>3. answer' = [groups |-> answer.groups, blocked |-> b] BY <3>1, <3>2
    <3> QED BY <2>2, <3>3
  <2>4. slices = <<>> BY <2>1 DEF SpendInv, SpendTypes, UnderWay, Legs
  <2>5. (Groups \cup Members(slices))' = {} BY <2>1, <2>3, <2>4, NoList DEF Groups
  <2>6. req.cap \in Nat BY CompilerAssumption DEF SpendInv, SpendTypes, RequestOK
  <2>7. PlanEnter' = PlanEnter /\ todo \in {<<>>, <<PlanEnter>>} BY <2>1 DEF PlanEnter, CapInv
  <2>8. \A p \in Protocols :
         /\ WeightOf(answer'.groups, p) + WeightOf(slices', p) <= used'[p]
         /\ used'[p] <= req'.cap
    BY <2>1, <2>3, <2>4, <2>6, NoWeight
  <2> QED BY <2>1, <2>3, <2>5, <2>7, <2>8 DEF CapInv
<1>5. CASE EndSlicing \/ Compose \/ GetQuote \/ BuildOptIns \/ BuildSwap \/ CompileShape
           \/ Answer \/ UNCHANGED vars
  <2>1. /\ UNCHANGED <<req, used, slices, answer>>
        /\ \/ todo' = todo /\ (phase' \in {"intents", "slicing"} => phase' = phase)
           \/ todo # <<>> /\ todo' = Tail(todo)
    <3>1. CASE EndSlicing
      <4>1. todo # <<>> BY <3>1 DEF EndSlicing, SpendInv, SpendTypes, UnderWay
      <4> QED BY <3>1, <4>1 DEF EndSlicing
    <3>2. CASE ~EndSlicing
      BY <1>5, <3>2 DEF Compose, GetQuote, BuildOptIns, BuildSwap, CompileShape, SwapRefused,
        Answer, vars, slicing
    <3> QED BY <3>1, <3>2
  <2>2. Groups' = Groups BY <2>1 DEF Groups
  <2>3. ASSUME NEW g PROVE Rounded(g)' <=> Rounded(g) BY <2>1 DEF Rounded
  <2>4. \A g \in (Groups \cup Members(slices))' : Rounded(g)' BY <2>1, <2>2, <2>3 DEF CapInv
  <2>5. PlanEnter' = PlanEnter BY <2>1 DEF PlanEnter
  <2>6. todo' \in {<<>>, <<PlanEnter>>'}
        /\ (phase' \in {"intents", "slicing"} /\ todo' # <<>> => answer'.groups = <<>>)
    BY <2>1, <2>5, PlanEnterIs DEF CapInv
  <2>7. \A p \in Protocols :
         /\ WeightOf(answer'.groups, p) + WeightOf(slices', p) <= used'[p]
         /\ used'[p] <= req'.cap
    BY <2>1 DEF CapInv
  <2> QED BY <2>4, <2>6, <2>7 DEF CapInv
<1> QED BY <1>1, <1>2, <1>3, <1>4, <1>5 DEF Next

\* An inequality that holds of each element holds of the totals.
Within(xs, ws, os, A, b) ==
  \A n \in 1..Len(xs) : b * xs[n] + os[n] <= A * (ws[n] + os[n])

LEMMA RoundedSums ==
  ASSUME NEW xs \in Seq(Int), NEW ws \in Seq(Int), NEW os \in Seq(Int),
         Len(ws) = Len(xs), Len(os) = Len(xs), NEW A \in Int, NEW b \in Int,
         Within(xs, ws, os, A, b)
  PROVE  b * Total(xs) + Total(os) <= A * (Total(ws) + Total(os))
<1>1. PICK cs \in Seq(Int) : /\ Len(cs) = Len(xs) /\ \A n \in 1..Len(xs) : cs[n] = b * xs[n]
                             /\ Total(cs) = b * Total(xs)
  BY TotalScaled
<1>2. PICK bs \in Seq(Int) : /\ Len(bs) = Len(cs) /\ \A n \in 1..Len(cs) : bs[n] = cs[n] + os[n]
                             /\ Total(bs) = Total(cs) + Total(os)
  BY <1>1, TotalSummed
<1>3. PICK vs \in Seq(Int) : /\ Len(vs) = Len(ws) /\ \A n \in 1..Len(ws) : vs[n] = ws[n] + os[n]
                             /\ Total(vs) = Total(ws) + Total(os)
  BY TotalSummed
<1>4. PICK ys \in Seq(Int) : /\ Len(ys) = Len(vs) /\ \A n \in 1..Len(vs) : ys[n] = A * vs[n]
                             /\ Total(ys) = A * Total(vs)
  BY TotalScaled
<1>5. \A n \in 1..Len(bs) : bs[n] <= ys[n]
  <2> SUFFICES ASSUME NEW n \in 1..Len(bs) PROVE bs[n] <= ys[n] OBVIOUS
  <2>1. n \in 1..Len(xs) BY <1>1, <1>2
  <2>2. bs[n] = b * xs[n] + os[n] BY <1>1, <1>2, <2>1
  <2>3. ys[n] = A * (ws[n] + os[n]) BY <1>3, <1>4, <2>1
  <2> QED BY <2>1, <2>2, <2>3 DEF Within
<1>6. PICK j \in Int, z \in Int : j = 1 /\ z = 0 OBVIOUS
<1>7. j * Total(bs) <= j * Total(ys) + z * Len(bs)
  <2>1. Len(bs) = Len(ys) BY <1>1, <1>2, <1>3, <1>4
  <2>2. \A n \in 1..Len(bs) : j * bs[n] <= j * ys[n] + z
    <3> SUFFICES ASSUME NEW n \in 1..Len(bs) PROVE j * bs[n] <= j * ys[n] + z OBVIOUS
    <3>1. bs[n] \in Int /\ ys[n] \in Int BY <2>1
    <3> QED BY <1>5, <1>6, <3>1
  <2> QED BY <2>1, <2>2, TotalBound
<1>8. Total(bs) <= Total(ys)
  <2>1. Total(bs) \in Int /\ Total(ys) \in Int BY TotalInt
  <2>2. Len(bs) \in Int OBVIOUS
  <2> QED BY <1>6, <1>7, <2>1, <2>2
<1>9. Total(bs) = b * Total(xs) + Total(os)
  <2>1. Total(cs) = b * Total(xs) /\ Total(bs) = Total(cs) + Total(os) BY <1>1, <1>2
  <2> QED BY <2>1
<1>10. Total(ys) = A * (Total(ws) + Total(os))
  <2>1. Total(vs) = Total(ws) + Total(os) BY <1>3
  <2>2. Total(ys) = A * Total(vs) BY <1>4
  <2> QED BY <2>1, <2>2
<1> QED BY <1>8, <1>9, <1>10

\* The amounts of groups in a protocol, when each is within what its weight says.
LEMMA RoundedTotal ==
  ASSUME NEW groups, IsList(groups), NEW A \in Nat, NEW p,
         \A g \in Members(groups) : g.amount \in Nat /\ g.weight \in Nat
                                      /\ Bps * g.amount < A * g.weight + A
  PROVE  LET a == Total([n \in DOMAIN groups |-> In(groups[n], p, groups[n].amount)])
             w == Total([n \in DOMAIN groups |-> In(groups[n], p, groups[n].weight)])
             o == Total([n \in DOMAIN groups |-> In(groups[n], p, 1)])
         IN  a \in Int /\ w \in Int /\ o \in Int /\ Bps * a + o <= A * (w + o)
<1> DEFINE amount(n) == In(groups[n], p, groups[n].amount)
           weight(n) == In(groups[n], p, groups[n].weight)
           one(n) == In(groups[n], p, 1)
           xs == [n \in DOMAIN groups |-> amount(n)]
           ws == [n \in DOMAIN groups |-> weight(n)]
           os == [n \in DOMAIN groups |-> one(n)]
<1>1. PICK N \in Nat : /\ N = Len(groups) /\ DOMAIN groups = 1..N
                       /\ \A n \in 1..N : groups[n] \in Members(groups)
  BY ListFacts
<1>2. ASSUME NEW n \in 1..N
      PROVE  /\ amount(n) \in Int /\ weight(n) \in Int /\ one(n) \in Int
             /\ Bps * amount(n) + one(n) <= A * (weight(n) + one(n))
  <2>1. PICK g : g = groups[n] OBVIOUS
  <2>2. g.amount \in Nat /\ g.weight \in Nat /\ Bps * g.amount < A * g.weight + A BY <1>1, <2>1
  <2>3. amount(n) = In(g, p, g.amount) /\ weight(n) = In(g, p, g.weight) /\ one(n) = In(g, p, 1)
    BY <2>1
  <2> HIDE DEF amount, weight, one
  <2>4. CASE g.market.protocol = p
    <3>1. amount(n) = g.amount /\ weight(n) = g.weight /\ one(n) = 1 BY <2>3, <2>4 DEF In
    <3>2. A * (g.weight + 1) = A * g.weight + A /\ A * g.weight \in Int BY <2>2
    <3>3. Bps * g.amount \in Int BY <2>2, GraphAssumption
    <3> QED BY <2>2, <3>1, <3>2, <3>3
  <2>5. CASE g.market.protocol # p
    <3>1. amount(n) = 0 /\ weight(n) = 0 /\ one(n) = 0 BY <2>3, <2>5 DEF In
    <3> QED BY <3>1, GraphAssumption
  <2> QED BY <2>4, <2>5
<1> HIDE DEF amount, weight, one
<1>3. xs = [n \in 1..N |-> amount(n)] /\ ws = [n \in 1..N |-> weight(n)]
      /\ os = [n \in 1..N |-> one(n)]
  BY <1>1
<1> HIDE DEF xs, ws, os
<1>4. xs \in Seq(Int) /\ Len(xs) = N
  <2>1. \A n \in 1..N : amount(n) \in Int BY <1>2
  <2> QED BY <1>3, <2>1
<1>5. ws \in Seq(Int) /\ Len(ws) = N
  <2>1. \A n \in 1..N : weight(n) \in Int BY <1>2
  <2> QED BY <1>3, <2>1
<1>6. os \in Seq(Int) /\ Len(os) = N
  <2>1. \A n \in 1..N : one(n) \in Int BY <1>2
  <2> QED BY <1>3, <2>1
<1>7. ASSUME NEW n \in 1..N PROVE Bps * xs[n] + os[n] <= A * (ws[n] + os[n])
  BY <1>2, <1>3
<1>8. A \in Int /\ Bps \in Int BY GraphAssumption
<1>9. Bps * Total(xs) + Total(os) <= A * (Total(ws) + Total(os))
  <2>1. Within(xs, ws, os, A, Bps) BY <1>4, <1>7 DEF Within
  <2>2. Len(ws) = Len(xs) /\ Len(os) = Len(xs) BY <1>4, <1>5, <1>6
  <2> QED BY <1>4, <1>5, <1>6, <1>8, <2>1, <2>2, RoundedSums
<1>10. Total(xs) \in Int /\ Total(ws) \in Int /\ Total(os) \in Int
  BY <1>4, <1>5, <1>6, TotalInt
<1> QED BY <1>9, <1>10 DEF xs, ws, os, amount, weight, one

\* A plan gives no protocol more weight than the cap, however many markets it has and
\* whatever is refused, and its amounts are above the cap by less than a part for a group.
THEOREM CapIsKept == Spec => []ProtocolWithinCap
<1>1. OrderInv /\ SpendInv /\ CapInv => ProtocolWithinCap
  <2> SUFFICES ASSUME OrderInv, SpendInv, CapInv, ofPlan, NEW p \in Protocols
               PROVE  LET a == SumOver(answer.groups, LAMBDA g : In(g, p, g.amount))
                          w == SumOver(answer.groups, LAMBDA g : In(g, p, g.weight))
                          o == SumOver(answer.groups, LAMBDA g : In(g, p, 1))
                      IN  w <= req.cap /\ (o > 0 => a * Bps < (req.cap + o) * req.amount)
    BY DEF ProtocolWithinCap, In
  <2> DEFINE a == SumOver(answer.groups, LAMBDA g : In(g, p, g.amount))
             w == SumOver(answer.groups, LAMBDA g : In(g, p, g.weight))
             o == SumOver(answer.groups, LAMBDA g : In(g, p, 1))
  <2>1. req.kind = "plan" BY DEF ofPlan
  <2>2. req.amount \in Nat /\ req.cap \in Nat
    BY CompilerAssumption DEF SpendInv, SpendTypes, RequestOK
  <2>3. Weighed(answer.groups) /\ Weighed(slices) BY <2>1, CapLists
  <2>4. w <= req.cap
    <3>1. w = WeightOf(answer.groups, p) BY DEF WeightOf
    <3>2. WeightOf(answer.groups, p) \in Nat /\ WeightOf(slices, p) \in Nat BY <2>3, WeightNat
    <3>3. used[p] \in Nat BY DEF SpendInv, SpendTypes
    <3> HIDE DEF w
    <3> QED BY <2>1, <2>2, <3>1, <3>2, <3>3 DEF CapInv
  <2>5. a \in Int /\ w \in Int /\ o \in Int /\ Bps * a + o <= req.amount * (w + o)
    <3>1. \A g \in Members(answer.groups) :
            g.amount \in Nat /\ g.weight \in Nat
              /\ Bps * g.amount < req.amount * g.weight + req.amount
      BY <2>1 DEF CapInv, Rounded, Groups
    <3> QED BY <2>2, <2>3, <3>1, RoundedTotal DEF SumOver, Weighed
  <2> HIDE DEF a, w, o
  <2>6. ASSUME o > 0 PROVE a * Bps < (req.cap + o) * req.amount
    <3>1. PICK A \in Nat, cap \in Nat, b \in Nat : A = req.amount /\ cap = req.cap /\ b = Bps
      BY <2>2, GraphAssumption
    <3>2. A * (w + o) <= A * (cap + o)
      <4>1. w + o <= cap + o /\ w + o \in Int /\ cap + o \in Int BY <2>4, <2>5, <3>1
      <4>2. \A x, y \in Int : x <= y => A * x <= A * y OBVIOUS
      <4> QED BY <4>1, <4>2
    <3>3. b * a = a * b /\ A * (cap + o) = (cap + o) * A /\ b * a \in Int
          /\ A * (w + o) \in Int /\ A * (cap + o) \in Int
      BY <2>5
    <3>4. b * a + o <= A * (w + o) BY <2>5, <3>1
    <3>5. a * b < (cap + o) * A BY <2>5, <2>6, <3>2, <3>3, <3>4
    <3> QED BY <3>1, <3>5
  <2> QED BY <2>4, <2>6 DEF a, w, o
<1> QED BY <1>1, InitOrder, InitSpend, InitCap, StepOrder, StepSpend, StepCap, PTL DEF Spec

-----------------------------------------------------------------------------
(***************************************************************************)
(* PlanPassesItsPolicy and ReserveIsKept: the inductive invariant.         *)
(***************************************************************************)
\* A group of a plan is in a market of the request and, whatever its swap or its
\* shapes take, they take it out of the asset that is spent.
Placed(g) ==
  /\ g.market \in Members(req.markets) /\ IsList(g.steps)
  /\ Spent(g, Algo) \in {0, IF req.asset = Algo THEN g.amount ELSE 0}

PlanInv == req.kind = "plan" => \A g \in Groups : Placed(g)

\* A group takes nothing out of an asset that it does not spend.
LEMMA SpentElsewhere ==
  ASSUME NEW steps, IsList(steps), NEW asset, NEW other, other # asset,
         \A s \in Members(steps) : s.status = "compiled" /\ s.kind = "swap" => s.asset = asset,
         \/ \E s \in Members(steps) : s.status = "compiled" /\ s.kind = "swap"
         \/ \A s \in Members(steps) :
              s.status = "compiled" /\ s.kind \in {"setup", "enter"} => s.asset = asset,
         NEW g, g.steps = steps
  PROVE  Spent(g, other) = 0
<1> DEFINE A == {s \in Members(steps) : s.status = "compiled" /\ s.kind # "eligibility"}
           signed == Keep(steps, A)
           B == {s \in Members(signed) : s.kind = "swap"}
           swaps == Keep(signed, B)
           C == {s \in Members(signed) :
                   s.kind \in {"setup", "enter"} /\ s.asset = other /\ s.amount > 0}
           shapes == Keep(signed, C)
<1>1. Spent(g, other) =
        IF swaps # <<>> THEN IF Head(swaps).asset = other THEN Head(swaps).amount ELSE 0
        ELSE IF shapes # <<>> THEN Head(shapes).amount ELSE 0
  BY DEF Spent, Signed, Filter
<1>2. IsList(signed) /\ Members(signed) = A
  <2>1. A \subseteq Members(steps) OBVIOUS
  <2> HIDE DEF A
  <2>2. IsList(signed) /\ Members(signed) = Members(steps) \cap A BY Kept
  <2> QED BY <2>1, <2>2
<1> HIDE DEF signed
<1>3. IsList(swaps) /\ Members(swaps) = B
  <2>1. B \subseteq Members(signed) OBVIOUS
  <2> HIDE DEF B
  <2>2. IsList(swaps) /\ Members(swaps) = Members(signed) \cap B BY <1>2, Kept
  <2> QED BY <2>1, <2>2
<1>4. IsList(shapes) /\ Members(shapes) = C
  <2>1. C \subseteq Members(signed) OBVIOUS
  <2> HIDE DEF C
  <2>2. IsList(shapes) /\ Members(shapes) = Members(signed) \cap C BY <1>2, Kept
  <2> QED BY <2>1, <2>2
<1> HIDE DEF swaps, shapes
<1>5. swaps # <<>> => Head(swaps).asset = asset
  <2> SUFFICES ASSUME swaps # <<>> PROVE Head(swaps).asset = asset OBVIOUS
  <2>1. Head(swaps) \in B BY <1>3, Tailed
  <2> QED BY <1>2, <2>1
<1>6. swaps = <<>> => shapes = <<>>
  <2> SUFFICES ASSUME swaps = <<>>, shapes # <<>> PROVE FALSE OBVIOUS
  <2>1. \A s \in Members(steps) : ~(s.status = "compiled" /\ s.kind = "swap")
    <3> SUFFICES ASSUME NEW s \in Members(steps), s.status = "compiled", s.kind = "swap"
                 PROVE  FALSE
      OBVIOUS
    <3>1. s \in B BY <1>2
    <3> QED BY <1>3, <3>1, NoList
  <2>2. Head(shapes) \in C BY <1>4, Tailed
  <2> QED BY <1>2, <2>1, <2>2
<1> QED BY <1>1, <1>5, <1>6

\* The group that a slice becomes.
LEMMA SlicePlaced ==
  ASSUME OrderInv, SpendInv, phase \in Legs, NEW group,
         group = GroupOf(slice.market, slice.amount, slice.weight, legs)
  PROVE  Placed(group)
<1>1. group.market = slice.market /\ group.amount = slice.amount /\ group.steps = legs
  BY GroupOfIs
<1>2. slices # <<>> /\ Slices(slices) BY DEF SpendInv, SpendTypes
<1>3. slice.market \in Members(req.markets) BY <1>2, Tailed DEF Slices, slice
<1>4. IsList(legs) BY DEF OrderInv, LegsInOrder
<1>5. LegsSpend BY DEF SpendInv
<1>6. CASE req.asset = Algo
  <2>1. /\ \A s \in Members(legs) : s.status = "compiled" /\ s.kind = "swap" => s.amount = slice.amount
        /\ \/ \E s \in Members(legs) : s.status = "compiled" /\ s.kind = "swap"
           \/ \A s \in Members(legs) :
                s.status = "compiled" /\ s.kind \in {"setup", "enter"} => s.amount \in {0, slice.amount}
    BY <1>5 DEF LegsSpend, SwapIsIn
  <2>2. Spent(group, Algo) \in {0, slice.amount} BY <1>1, <1>4, <2>1, SpentIs
  <2> QED BY <1>1, <1>3, <1>4, <1>6, <2>2 DEF Placed
<1>7. CASE req.asset # Algo
  <2>1. /\ \A s \in Members(legs) : s.status = "compiled" /\ s.kind = "swap" => s.asset = req.asset
        /\ \/ \E s \in Members(legs) : s.status = "compiled" /\ s.kind = "swap"
           \/ \A s \in Members(legs) :
                s.status = "compiled" /\ s.kind \in {"setup", "enter"} => s.asset = req.asset
    BY <1>5 DEF LegsSpend, SwapIsIn
  <2>2. Spent(group, Algo) = 0 BY <1>1, <1>4, <1>7, <2>1, SpentElsewhere
  <2> QED BY <1>1, <1>3, <1>4, <1>7, <2>2 DEF Placed
<1> QED BY <1>6, <1>7

LEMMA StepPlan == OrderInv /\ SpendInv /\ CapInv /\ PlanInv /\ [Next]_vars => PlanInv'
<1> SUFFICES ASSUME OrderInv, SpendInv, CapInv, PlanInv, [Next]_vars, req'.kind = "plan"
             PROVE  \A g \in Groups' : Placed(g)'
  BY DEF PlanInv
<1>1. UNCHANGED req
  BY DEF Next, vars, CompileLeave, DeferEnter, TakeEnter, Slice, EndSlicing, Compose, GetQuote,
    BuildOptIns, BuildSwap, CompileShape, EndSlice, Answer
<1>2. ASSUME NEW g PROVE Placed(g)' <=> Placed(g)
  BY <1>1 DEF Placed, Spent, Signed, Filter
<1>3. CASE EndSlice
  <2>1. PICK group : group = GroupOf(slice.market, slice.amount, slice.weight, legs) OBVIOUS
  <2>2. answer'.groups \in {answer.groups, Append(answer.groups, group)}
    BY <1>3, <2>1 DEF EndSlice
  <2>3. Placed(group)
    <3>1. phase \in Legs BY <1>3 DEF EndSlice, Legs
    <3> QED BY <2>1, <3>1, SlicePlaced
  <2>4. Members(Append(answer.groups, group)) = Members(answer.groups) \cup {group}
    BY Appended DEF OrderInv, AnswerShape
  <2>5. Groups' \subseteq Groups \cup {group} BY <2>2, <2>4 DEF Groups
  <2> QED BY <1>1, <1>2, <2>3, <2>5 DEF PlanInv
<1>4. CASE CompileLeave \/ DeferEnter
  <2>1. todo # <<>> BY <1>4 DEF CompileLeave, DeferEnter
  <2>2. Head(todo).kind = "enter" /\ Head(todo).compileNow
    BY <1>1, <2>1, PlanEnterIs DEF CapInv
  <2> QED BY <1>4, <2>2 DEF CompileLeave, DeferEnter
<1>5. CASE TakeEnter
  <2>1. PICK b : answer' = [answer EXCEPT !.blocked = b] BY <1>5 DEF TakeEnter
  <2>2. answer = [groups |-> answer.groups, blocked |-> answer.blocked]
    BY DEF OrderInv, AnswerShape
  <2>3. answer' = [groups |-> answer.groups, blocked |-> b] BY <2>1, <2>2
  <2>4. Groups' = Groups BY <2>3 DEF Groups
  <2> QED BY <1>1, <1>2, <2>4 DEF PlanInv
<1>6. CASE Slice \/ EndSlicing \/ Compose \/ GetQuote \/ BuildOptIns \/ BuildSwap
           \/ CompileShape \/ Answer \/ UNCHANGED vars
  <2>1. UNCHANGED answer
    BY <1>6 DEF Slice, EndSlicing, Compose, GetQuote, BuildOptIns, BuildSwap, CompileShape,
      SwapRefused, Answer, vars
  <2>2. Groups' = Groups BY <2>1 DEF Groups
  <2> QED BY <1>1, <1>2, <2>2 DEF PlanInv
<1> QED BY <1>3, <1>4, <1>5, <1>6 DEF Next

LEMMA InitPlan == Init => PlanInv
<1> SUFFICES ASSUME Init PROVE PlanInv OBVIOUS
<1>1. answer.groups = <<>> BY DEF Init, NoAnswer
<1> QED BY <1>1, NoList DEF PlanInv, Groups

\* What the policy is handed of a plan.
SubjectOf(g) ==
  SubjectFromAllocation(g.market,
    [weight |-> g.weight, amount |-> g.amount, chain |-> Chain(g.market)], req.asset)

LEMMA SubjectIs ==
  ASSUME NEW g
  PROVE  /\ SubjectOf(g).protocol = g.market.protocol /\ SubjectOf(g).weight = g.weight
         /\ SubjectOf(g).amount = g.amount /\ SubjectOf(g).asset = req.asset
         /\ SubjectOf(g).borrow = (\E i \in DOMAIN Chain(g.market) : Chain(g.market)[i].borrow)
         /\ SubjectOf(g).canEnter = g.market.canEnter
         /\ SubjectOf(g).checkable = g.market.checkable
BY DEF SubjectOf, SubjectFromAllocation

LEMMA SubjectsAre ==
  ASSUME OrderInv, req.kind = "plan"
  PROVE  /\ IsList(Subjects) /\ Len(Subjects) = Len(answer.groups)
         /\ DOMAIN Subjects = DOMAIN answer.groups
         /\ \A n \in DOMAIN answer.groups : Subjects[n] = SubjectOf(answer.groups[n])
         /\ Members(Subjects) = {SubjectOf(g) : g \in Groups}
<1> DEFINE list == [n \in DOMAIN answer.groups |-> SubjectOf(answer.groups[n])]
<1>1. Subjects = list BY DEF Subjects, SubjectOf
<1>2. IsList(answer.groups) BY DEF OrderInv, AnswerShape
<1>3. \A n \in DOMAIN answer.groups : list[n] = SubjectOf(answer.groups[n]) OBVIOUS
<1>4. IsList(list) /\ Len(list) = Len(answer.groups) /\ DOMAIN list = DOMAIN answer.groups
  <2>1. list = [n \in DOMAIN answer.groups |-> list[n]] OBVIOUS
  <2> HIDE DEF list
  <2> QED BY <1>2, <2>1, MadeOf
<1> HIDE DEF list
<1>5. Members(list) = {SubjectOf(g) : g \in Groups} BY <1>3, <1>4 DEF Members, Groups
<1> QED BY <1>1, <1>3, <1>4, <1>5

\* No borrow is left in a chain that is to have none.
LEMMA NoBorrow ==
  ASSUME req \in Requests, NEW row \in Members(req.markets), req.noNewBorrows
  PROVE  ~\E i \in DOMAIN Chain(row) : Chain(row)[i].borrow
<1> DEFINE T == {s \in Members(row.chain) : ~(req.noNewBorrows /\ s.borrow)}
<1>1. IsList(row.chain) BY CompilerAssumption DEF RequestOK
<1>2. Chain(row) = Keep(row.chain, T) BY DEF Chain, Filter
<1>3. Members(Keep(row.chain, T)) = Members(row.chain) \cap T
  <2> HIDE DEF T
  <2> QED BY <1>1, Kept
<1>4. \A s \in Members(Chain(row)) : ~s.borrow BY <1>2, <1>3
<1> QED BY <1>4 DEF Members

LEMMA WeightWithinCap ==
  ASSUME OrderInv, SpendInv, CapInv, req.kind = "plan", NEW p \in Protocols
  PROVE  WeightOf(answer.groups, p) \in Nat /\ WeightOf(answer.groups, p) <= req.cap
<1>1. Weighed(answer.groups) /\ Weighed(slices) BY CapLists
<1>2. WeightOf(answer.groups, p) \in Nat /\ WeightOf(slices, p) \in Nat BY <1>1, WeightNat
<1>3. used[p] \in Nat /\ req.cap \in Nat BY CompilerAssumption DEF SpendInv, SpendTypes, RequestOK
<1> QED BY <1>2, <1>3 DEF CapInv

\* A sum over the subjects of a protocol is one over all groups.
LEMMA ProtocolWeightIs ==
  ASSUME OrderInv, SpendInv, CapInv, req.kind = "plan", NEW p
  PROVE  SumOver(Of(Subjects, p), LAMBDA s : s.weight) = WeightOf(answer.groups, p)
<1> DEFINE T == {s \in Members(Subjects) : s.protocol = p}
           kept == Keep(Subjects, T)
           f == [s \in Members(Subjects) |-> s.weight]
<1>1. Of(Subjects, p) = kept BY DEF Of, Filter
<1>2. /\ IsList(Subjects) /\ DOMAIN Subjects = DOMAIN answer.groups
      /\ \A n \in DOMAIN answer.groups : Subjects[n] = SubjectOf(answer.groups[n])
      /\ Members(Subjects) = {SubjectOf(g) : g \in Groups}
  BY SubjectsAre
<1>3. Weighed(answer.groups) BY CapLists
<1>4. \A s \in Members(Subjects) : f[s] \in Int
  <2> SUFFICES ASSUME NEW s \in Members(Subjects) PROVE f[s] \in Int OBVIOUS
  <2>1. PICK g \in Groups : s = SubjectOf(g) BY <1>2
  <2>2. f[s] = g.weight BY <2>1, SubjectIs
  <2> QED BY <1>3, <2>2 DEF Weighed, Groups
<1>5. Members(kept) = Members(Subjects) \cap T
  <2> HIDE DEF T
  <2> QED BY <1>2, Kept
<1>6. SumOver(kept, LAMBDA s : s.weight) = Total(Mapped(kept, f))
  <2>1. \A n \in DOMAIN kept : kept[n] \in Members(Subjects) BY <1>5 DEF Members
  <2>2. [n \in DOMAIN kept |-> kept[n].weight] = Mapped(kept, f) BY <2>1 DEF Mapped
  <2> QED BY <2>2 DEF SumOver
<1>7. Total(Mapped(kept, f)) = Total(MappedIf(Subjects, T, f))
  <2> HIDE DEF T, f
  <2> QED BY <1>2, <1>4, KeptTotal
<1>8. MappedIf(Subjects, T, f)
        = [n \in DOMAIN answer.groups |-> In(answer.groups[n], p, answer.groups[n].weight)]
  <2>1. ASSUME NEW n \in DOMAIN answer.groups
        PROVE  (IF Subjects[n] \in T THEN f[Subjects[n]] ELSE 0)
                 = In(answer.groups[n], p, answer.groups[n].weight)
    <3>1. Subjects[n] \in Members(Subjects) BY <1>2 DEF Members
    <3>2. Subjects[n].protocol = answer.groups[n].market.protocol
          /\ Subjects[n].weight = answer.groups[n].weight
      BY <1>2, SubjectIs
    <3> QED BY <3>1, <3>2 DEF In
  <2> HIDE DEF T, f
  <2> QED BY <1>2, <2>1 DEF MappedIf
<1> QED BY <1>1, <1>6, <1>7, <1>8 DEF WeightOf, SumOver

\* A plan is not refused by a policy with the cap it was compiled under and, if it was
\* compiled without borrows, without borrows, but for what it enters behind a swap or
\* cannot be checked fully, or for being empty.
THEOREM PlanKeepsItsPolicy == Spec => []PlanPassesItsPolicy
<1>1. OrderInv /\ SpendInv /\ CapInv /\ PlanInv => PlanPassesItsPolicy
  <2> SUFFICES ASSUME OrderInv, SpendInv, CapInv, PlanInv, req.kind = "plan"
               PROVE  PlanPassesItsPolicy
    BY DEF PlanPassesItsPolicy, ofPlan
  <2> DEFINE policy == [NoRules EXCEPT !.cap = req.cap, !.noNewBorrows = req.noNewBorrows]
             judged(f(_)) == {s \in Members(Subjects) : f(s)}
  <2>1. policy.cap = req.cap /\ policy.floor = None /\ policy.noNewBorrows = req.noNewBorrows
    BY DEF NoRules
  <2> HIDE DEF policy
  <2>2. /\ IsList(Subjects) /\ Len(Subjects) = Len(answer.groups)
        /\ Members(Subjects) = {SubjectOf(g) : g \in Groups}
    BY SubjectsAre
  <2>3. IsList(answer.groups) BY DEF OrderInv, AnswerShape
  <2>4. req \in Requests /\ req.cap \in Nat
    BY CompilerAssumption DEF SpendInv, SpendTypes, RequestOK
  <2>5. \A g \in Groups : Placed(g) /\ g.weight \in Nat BY DEF PlanInv, CapInv, Rounded
  <2>6. CASE answer.groups = <<>>
    <3>1. Subjects = <<>> BY <2>6 DEF Subjects
    <3>2. Groups = {} BY <2>6, NoList DEF Groups
    <3> QED BY <2>6, <3>1, <3>2 DEF PlanPassesItsPolicy, Reasons
  <2>7. CASE answer.groups # <<>>
    <3>1. Subjects # <<>>
      <4>1. Len(answer.groups) # 0 BY <2>3, <2>7 DEF IsList
      <4> QED BY <2>2, <4>1
    <3>2. WeightReasons(policy, Subjects) = {}
      <4> DEFINE T == {s \in Members(Subjects) : s.protocol # None}
      <4>1. ASSUME NEW s \in Members(Subjects)
            PROVE  s.protocol \in Protocols /\ s.protocol # None /\ s.weight \in Nat /\ s.weight # None
        <5>1. PICK g \in Groups : s = SubjectOf(g) BY <2>2
        <5>2. g.market.protocol \in Protocols /\ g.weight \in Nat
          BY <2>4, <2>5, CompilerAssumption DEF Placed, RequestOK
        <5>3. s.protocol = g.market.protocol /\ s.weight = g.weight BY <5>1, SubjectIs
        <5>4. None \notin Protocols /\ None \notin Int BY CompilerAssumption, GraphAssumption
        <5> QED BY <5>2, <5>3, <5>4
      <4>2. Keep(Subjects, T) = Subjects
        <5>1. Members(Subjects) \subseteq T BY <4>1
        <5> HIDE DEF T
        <5> QED BY <2>2, <5>1, KeptWhole
      <4>3. Filter(Subjects, LAMBDA s : s.protocol # None) = Subjects BY <4>2 DEF Filter
      <4>4. AllHave(Subjects, LAMBDA s : s.weight) BY <4>1 DEF AllHave
      <4>5. ASSUME NEW s \in Members(Subjects)
            PROVE  ~(ProtocolWeight(Subjects, s.protocol) > policy.cap)
        <5>1. ProtocolWeight(Subjects, s.protocol) = WeightOf(answer.groups, s.protocol)
          BY <4>4, ProtocolWeightIs DEF ProtocolWeight
        <5>2. /\ WeightOf(answer.groups, s.protocol) \in Nat
              /\ WeightOf(answer.groups, s.protocol) <= req.cap
          BY <4>1, WeightWithinCap
        <5> QED BY <2>1, <2>4, <5>1, <5>2
      <4>6. {s \in Members(Subjects) : ProtocolWeight(Subjects, s.protocol) > policy.cap} = {}
        BY <4>5
      <4> QED BY <3>1, <4>3, <4>4, <4>6 DEF WeightReasons, Derivable
    <3>3. ReserveReasons(policy, Subjects, NetworkFee) = {} BY <2>1 DEF ReserveReasons
    <3>4. {s \in Members(Subjects) : policy.noNewBorrows /\ s.borrow} = {}
      <4> SUFFICES ASSUME NEW s \in Members(Subjects), policy.noNewBorrows, s.borrow PROVE FALSE
        OBVIOUS
      <4>1. PICK g \in Groups : s = SubjectOf(g) BY <2>2
      <4>2. \E i \in DOMAIN Chain(g.market) : Chain(g.market)[i].borrow BY <4>1, SubjectIs
      <4>3. g.market \in Members(req.markets) /\ req.noNewBorrows BY <2>1, <2>5 DEF Placed
      <4> QED BY <2>4, <4>2, <4>3, NoBorrow
    <3>5. ASSUME NEW s, NEW g, s = SubjectOf(g)
          PROVE  s.canEnter = g.market.canEnter /\ s.checkable = g.market.checkable
      BY <3>5, SubjectIs
    <3> DEFINE A == {s \in Members(Subjects) : ~s.canEnter}
               B == {s \in Members(Subjects) : ~s.checkable}
    <3>6. Reasons(policy, Subjects, NetworkFee)
            = {"blocked-eligibility" : s \in A} \cup {"eligibility-not-fully-checkable" : s \in B}
      BY <3>1, <3>2, <3>3, <3>4 DEF Reasons
    <3>7. /\ A # {} <=> \E g \in Groups : ~g.market.canEnter
          /\ B # {} <=> \E g \in Groups : ~g.market.checkable
      <4>1. ASSUME NEW s \in A PROVE \E g \in Groups : ~g.market.canEnter
        <5>1. PICK g \in Groups : s = SubjectOf(g) BY <2>2
        <5> QED BY <3>5, <5>1
      <4>2. ASSUME NEW g \in Groups, ~g.market.canEnter PROVE A # {}
        <5>1. SubjectOf(g) \in A BY <2>2, <3>5, <4>2
        <5> QED BY <5>1
      <4>3. ASSUME NEW s \in B PROVE \E g \in Groups : ~g.market.checkable
        <5>1. PICK g \in Groups : s = SubjectOf(g) BY <2>2
        <5> QED BY <3>5, <5>1
      <4>4. ASSUME NEW g \in Groups, ~g.market.checkable PROVE B # {}
        <5>1. SubjectOf(g) \in B BY <2>2, <3>5, <4>4
        <5> QED BY <5>1
      <4> HIDE DEF A, B
      <4> QED BY <4>1, <4>2, <4>3, <4>4
    <3> HIDE DEF A, B
    <3>8. Reasons(policy, Subjects, NetworkFee)
            = (IF \E g \in Groups : ~g.market.canEnter THEN {"blocked-eligibility"} ELSE {})
                \cup (IF \E g \in Groups : ~g.market.checkable
                      THEN {"eligibility-not-fully-checkable"} ELSE {})
      BY <3>6, <3>7
    <3> QED BY <2>7, <3>8 DEF PlanPassesItsPolicy, policy
  <2> QED BY <2>6, <2>7
<1> QED BY <1>1, InitOrder, InitSpend, InitCap, InitPlan, StepOrder, StepSpend, StepCap, StepPlan,
         PTL DEF Spec

LEMMA NetworkFeeInt ==
  ASSUME OrderInv, PlanInv, req.kind = "plan"
  PROVE  NetworkFee \in Int
<1> DEFINE signed(g) == Len(Signed(g.steps))
           list == [n \in DOMAIN answer.groups |-> signed(answer.groups[n])]
<1>1. PICK N \in Nat : /\ DOMAIN answer.groups = 1..N
                       /\ \A n \in 1..N : answer.groups[n] \in Groups
  BY ListFacts DEF OrderInv, AnswerShape, Groups
<1>2. ASSUME NEW g \in Groups PROVE signed(g) \in Int
  <2> DEFINE T == {s \in Members(g.steps) : s.status = "compiled" /\ s.kind # "eligibility"}
  <2>1. Signed(g.steps) = Keep(g.steps, T) BY DEF Signed, Filter
  <2>2. IsList(g.steps) BY DEF PlanInv, Placed
  <2> HIDE DEF T
  <2>3. IsList(Keep(g.steps, T)) BY <2>2, Kept
  <2>4. Len(Keep(g.steps, T)) \in Nat BY <2>3, ListFacts
  <2> QED BY <2>1, <2>4
<1> HIDE DEF signed
<1>3. list = [n \in 1..N |-> signed(answer.groups[n])] BY <1>1
<1>4. \A n \in 1..N : signed(answer.groups[n]) \in Int BY <1>1, <1>2
<1> HIDE DEF list
<1>5. list \in Seq(Int) BY <1>3, <1>4
<1>6. Total(list) \in Int /\ Fee \in Int BY <1>5, TotalInt, CompilerAssumption
<1>7. NetworkFee = Fee * Total(list) BY DEF NetworkFee, SumOver, list, signed
<1>8. \A x, y \in Int : x * y \in Int OBVIOUS
<1> QED BY <1>6, <1>7, <1>8

\* What the policy counts as going out is no less than what is spent.
LEMMA SpentIsCounted ==
  ASSUME OrderInv, CapInv, PlanInv, req.kind = "plan"
  PROVE  /\ SpentOf(answer.groups, Algo) \in Int /\ AlgoOut(Subjects) \in Int
         /\ SpentOf(answer.groups, Algo) <= AlgoOut(Subjects)
<1> DEFINE T == {s \in Members(Subjects) : s.amount # None /\ s.asset = Algo}
           f == [s \in Members(Subjects) |-> s.amount]
           out == MappedIf(Subjects, T, f)
           spent == [n \in DOMAIN answer.groups |-> Spent(answer.groups[n], Algo)]
<1>1. /\ IsList(Subjects) /\ DOMAIN Subjects = DOMAIN answer.groups
      /\ \A n \in DOMAIN answer.groups : Subjects[n] = SubjectOf(answer.groups[n])
      /\ Members(Subjects) = {SubjectOf(g) : g \in Groups}
  BY SubjectsAre
<1>2. PICK N \in Nat : /\ DOMAIN answer.groups = 1..N
                       /\ \A n \in 1..N : answer.groups[n] \in Groups
  BY ListFacts DEF OrderInv, AnswerShape, Groups
<1>3. \A g \in Groups : g.amount \in Nat /\ g.amount # None
                          /\ Spent(g, Algo) \in {0, IF req.asset = Algo THEN g.amount ELSE 0}
  <2>1. \A g \in Groups : Rounded(g) /\ Placed(g) BY DEF CapInv, PlanInv
  <2> QED BY <2>1, GraphAssumption DEF Rounded, Placed
<1>4. \A s \in Members(Subjects) : f[s] \in Int
  <2> SUFFICES ASSUME NEW s \in Members(Subjects) PROVE f[s] \in Int OBVIOUS
  <2>1. PICK g \in Groups : s = SubjectOf(g) BY <1>1
  <2>2. f[s] = g.amount BY <2>1, SubjectIs
  <2> QED BY <1>3, <2>2
<1>5. AlgoOut(Subjects) = Total(out)
  <2> DEFINE kept == Keep(Subjects, T)
  <2>1. Members(kept) = Members(Subjects) \cap T
    <3> HIDE DEF T
    <3> QED BY <1>1, Kept
  <2>2. \A n \in DOMAIN kept : kept[n] \in Members(Subjects) BY <2>1 DEF Members
  <2>3. [n \in DOMAIN kept |-> kept[n].amount] = Mapped(kept, f) BY <2>2 DEF Mapped
  <2>4. AlgoOut(Subjects) = Total(Mapped(kept, f)) BY <2>3 DEF AlgoOut, SumOver, Filter
  <2> HIDE DEF T, f
  <2>5. Total(Mapped(kept, f)) = Total(MappedIf(Subjects, T, f)) BY <1>1, <1>4, KeptTotal
  <2> QED BY <2>4, <2>5
<1>6. out \in Seq(Int) /\ Len(out) = N
  <2> HIDE DEF T, f
  <2>1. out \in Seq(Int) /\ Len(out) = Len(Subjects) BY <1>1, <1>4, MappedInt
  <2>2. Len(Subjects) = N BY <1>1, <1>2, ListFacts
  <2> QED BY <2>1, <2>2
<1>7. ASSUME NEW n \in 1..N
      PROVE  /\ out[n] = IF req.asset = Algo THEN answer.groups[n].amount ELSE 0
             /\ spent[n] \in Int /\ spent[n] <= out[n]
  <2>1. PICK g \in Groups : g = answer.groups[n] BY <1>2
  <2>2. Subjects[n] = SubjectOf(g) /\ Subjects[n] \in Members(Subjects)
    BY <1>1, <1>2, <2>1 DEF Members
  <2>3. Subjects[n].amount = g.amount /\ Subjects[n].asset = req.asset BY <2>2, SubjectIs
  <2>4. out[n] = IF req.asset = Algo THEN g.amount ELSE 0
    BY <1>1, <1>2, <1>3, <2>2, <2>3 DEF MappedIf
  <2>5. spent[n] = Spent(g, Algo) BY <1>2, <2>1
  <2> HIDE DEF out, spent
  <2> QED BY <1>3, <2>1, <2>4, <2>5
<1>8. spent \in Seq(Int) /\ Len(spent) = N
  <2>1. \A n \in 1..N : spent[n] \in Int BY <1>7
  <2>2. spent = [n \in 1..N |-> spent[n]] BY <1>2
  <2> HIDE DEF spent
  <2> QED BY <2>1, <2>2
<1> HIDE DEF out, spent
<1>9. Total(out) \in Int /\ Total(spent) \in Int BY <1>6, <1>8, TotalInt
<1>10. PICK j \in Int, z \in Int : j = 1 /\ z = 0 OBVIOUS
<1>11. j * Total(spent) <= j * Total(out) + z * Len(spent)
  <2>1. Len(spent) = Len(out) BY <1>6, <1>8
  <2>2. \A n \in 1..Len(spent) : j * spent[n] <= j * out[n] + z
    <3> SUFFICES ASSUME NEW n \in 1..Len(spent) PROVE j * spent[n] <= j * out[n] + z OBVIOUS
    <3>1. spent[n] \in Int /\ out[n] \in Int /\ spent[n] <= out[n] BY <1>6, <1>7, <1>8
    <3> QED BY <1>10, <3>1
  <2> QED BY <1>6, <1>8, <2>1, <2>2, TotalBound
<1>12. Total(spent) <= Total(out)
  <2>1. Len(spent) \in Int BY <1>8
  <2> QED BY <1>9, <1>10, <1>11, <2>1
<1>13. SpentOf(answer.groups, Algo) = Total(spent) BY DEF SpentOf, SumOver, spent
<1> QED BY <1>5, <1>9, <1>12, <1>13

\* Whatever reserve the policy does not refuse a plan for, the wallet still has it when
\* every compiled group is signed and its fees are paid.
THEOREM ReserveIsNotSpent == Spec => []ReserveIsKept
<1>1. OrderInv /\ SpendInv /\ CapInv /\ PlanInv => ReserveIsKept
  <2> SUFFICES ASSUME OrderInv, SpendInv, CapInv, PlanInv, req.kind = "plan",
                      NEW floor \in {Left(req.amount) + 1, Left(req.amount) + 2}
               PROVE  ReserveReasons([NoRules EXCEPT !.floor = floor, !.wallet = req.amount],
                                     Subjects, NetworkFee) # {}
    BY DEF ReserveIsKept, ofPlan, ReserveProven
  <2> DEFINE policy == [NoRules EXCEPT !.floor = floor, !.wallet = req.amount]
  <2>1. policy.floor = floor /\ policy.wallet = req.amount /\ req.amount \in Nat
    BY CompilerAssumption DEF NoRules, SpendInv, SpendTypes, RequestOK
  <2> HIDE DEF policy
  <2>2. /\ SpentOf(answer.groups, Algo) \in Int /\ AlgoOut(Subjects) \in Int
        /\ SpentOf(answer.groups, Algo) <= AlgoOut(Subjects) /\ NetworkFee \in Int
    BY SpentIsCounted, NetworkFeeInt
  <2>3. Left(req.amount) = req.amount - SpentOf(answer.groups, Algo) - NetworkFee
    BY DEF Left, SpentOf
  <2>4. floor \in Int /\ floor # None BY <2>2, <2>3, GraphAssumption
  <2>5. policy.wallet - AlgoOut(Subjects) - NetworkFee < policy.floor BY <2>1, <2>2, <2>3
  <2> QED BY <2>1, <2>4, <2>5 DEF ReserveReasons, policy
<1> QED BY <1>1, InitOrder, InitSpend, InitCap, InitPlan, StepOrder, StepSpend, StepCap, StepPlan,
         PTL DEF Spec

-----------------------------------------------------------------------------
(***************************************************************************)
(* RebalanceIsADelta: the inductive invariant.                             *)
(***************************************************************************)
Intended == Members(Deltas(req.book))

\* The first step of a group is what the intent i asks for.
Leads(g, i) ==
  /\ g.steps # <<>> /\ Head(g.steps).kind = i.kind
  /\ Head(g.steps).key = i.position /\ Head(g.steps).amount = i.amount

IsLeaving(g) == g.steps # <<>> /\ Leaves(Head(g.steps).kind)
Wanted(market) == \E i \in Intended : i.kind = "enter" /\ i.opp \in {None, market.opp}

\* No two groups take the same thing, and none takes what is still to be taken.
TakenOnce ==
  /\ \A n, m \in DOMAIN answer.groups :
       LET g == answer.groups[n]
           h == answer.groups[m]
       IN  IsLeaving(g) /\ IsLeaving(h) /\ Head(g.steps).kind = Head(h.steps).kind
             /\ Head(g.steps).key = Head(h.steps).key => n = m
  /\ \A g \in Groups, i \in Members(todo) :
       IsLeaving(g) /\ Head(g.steps).kind = i.kind => Head(g.steps).key # i.position

GroupsInv ==
  /\ IsList(todo) /\ Lone(todo) /\ Members(todo) \subseteq Intended
  /\ TakenOnce
  \* what a group takes was intended, and what was intended is taken or still to be
  /\ \A g \in Groups : IsLeaving(g) => \E i \in Intended : Leads(g, i)
  /\ \A i \in Intended :
       i.kind = "exit" => i \in Members(todo) \/ \E g \in Groups : Leads(g, i)
  \* no market is entered but those that were to be
  /\ \A g \in Groups : g.market # None => Wanted(g.market)

\* An enter under way goes into a market that was wanted, and starts with a look at it.
Entering ==
  /\ phase = "slicing" => \A row \in Members(cands) : Wanted(row)
  /\ UnderWay => \A s \in Members(slices) : Wanted(s.market)
  /\ phase \in Legs => legs # <<>> /\ Head(legs).kind = "eligibility"
  /\ answered => todo = <<>>

DeltaInv == req.kind = "rebalance" => GroupsInv /\ Entering

LEMMA InitDelta == Init => DeltaInv
<1> SUFFICES ASSUME Init, req.kind = "rebalance" PROVE GroupsInv /\ Entering
  BY DEF DeltaInv
<1>1. Book(req.book) BY CompilerAssumption DEF Init, RequestOK
<1>2. todo = Deltas(req.book) BY DEF Init, Start
<1>3. IsList(todo) /\ Lone(todo) BY <1>1, <1>2, DeltasAre
<1>4. answer.groups = <<>> /\ phase = "intents" /\ slices = <<>> BY DEF Init, NoAnswer
<1>5. Groups = {} /\ DOMAIN answer.groups = {} BY <1>4, NoList DEF Groups
<1> QED BY <1>2, <1>3, <1>4, <1>5
         DEF GroupsInv, Entering, TakenOnce, Intended, UnderWay, Legs, answered

\* The rest of todo behind its head.
LEMMA RestOfTodo ==
  ASSUME NEW s, IsList(s), Lone(s), s # <<>>
  PROVE  /\ IsList(Tail(s)) /\ Lone(Tail(s)) /\ Members(s) = {Head(s)} \cup Members(Tail(s))
         /\ \A i \in Members(Tail(s)) :
              Leaves(i.kind) /\ i.kind = Head(s).kind => i.position # Head(s).position
<1> DEFINE t == Tail(s)
<1>1. /\ IsList(t) /\ Len(t) = Len(s) - 1
      /\ \A n \in 1..(Len(s) - 1) : t[n] = s[n + 1]
      /\ Head(s) = s[1] /\ Len(s) >= 1
  BY Tailed
<1>2. Members(s) = {Head(s)} \cup Members(t) BY TailMembers
<1> HIDE DEF t
<1>3. Len(s) \in Nat /\ DOMAIN s = 1..Len(s) /\ DOMAIN t = 1..(Len(s) - 1)
  BY <1>1, ListFacts
<1>4. Lone(t)
  <2> SUFFICES ASSUME NEW i \in DOMAIN t, NEW j \in DOMAIN t, Leaves(t[i].kind),
                      t[i].kind = t[j].kind, t[i].position = t[j].position
               PROVE  i = j
    BY DEF Lone
  <2>1. t[i] = s[i + 1] /\ t[j] = s[j + 1] BY <1>1, <1>3
  <2>2. i + 1 \in DOMAIN s /\ j + 1 \in DOMAIN s BY <1>3
  <2>3. i + 1 = j + 1 BY <2>1, <2>2 DEF Lone
  <2> QED BY <1>3, <2>3
<1>5. ASSUME NEW i \in Members(t), Leaves(i.kind), i.kind = Head(s).kind,
             i.position = Head(s).position
      PROVE  FALSE
  <2>1. PICK n \in DOMAIN t : i = t[n] BY DEF Members
  <2>2. i = s[n + 1] /\ n + 1 \in DOMAIN s /\ 1 \in DOMAIN s /\ n + 1 # 1 BY <1>1, <1>3, <2>1
  <2> QED BY <1>1, <1>5, <2>2 DEF Lone
<1> QED BY <1>1, <1>2, <1>4, <1>5 DEF t

\* A step that only takes a claim or an exit off todo, for a group of its own.
LEMMA LeaveDelta ==
  ASSUME OrderInv, SpendInv, DeltaInv, CompileLeave, req.kind = "rebalance"
  PROVE  DeltaInv'
<1>0. GroupsInv BY DEF DeltaInv
<1>1. /\ phase = "intents" /\ phase' = "intents" /\ todo # <<>> /\ todo' = Tail(todo)
      /\ UNCHANGED <<req, cands, slices>> /\ Leaves(Head(todo).kind)
  BY DEF CompileLeave, slicing, Leaves
<1>2. \E group : Append1(group) /\ group.market = None /\ Leads(group, Head(todo))
  <2> DEFINE i == Head(todo)
             step(status) == [Step(i.kind, status, i.position) EXCEPT
                       !.protocol = i.protocol, !.asset = i.asset, !.amount = i.amount,
                       !.named = TRUE,
                       !.field = IF i.kind = "exit" THEN "amount" ELSE "none"]
  <2>1. PICK status \in {"compiled", "blocked", "deferred"} :
           Append1(GroupOf(None, i.amount, None, <<step(status)>>))
    BY DEF CompileLeave
  <2>2. /\ step(status).kind = i.kind /\ step(status).key = i.position
        /\ step(status).amount = i.amount
    BY DEF Step
  <2> HIDE DEF step, i
  <2>3. <<step(status)>> # <<>> /\ Head(<<step(status)>>) = step(status) OBVIOUS
  <2>4. PICK group : group = GroupOf(None, i.amount, None, <<step(status)>>) OBVIOUS
  <2>5. group.market = None /\ group.steps = <<step(status)>> BY <2>4, GroupOfIs
  <2>6. Leads(group, i) BY <2>2, <2>3, <2>5 DEF Leads
  <2> QED BY <2>1, <2>4, <2>5, <2>6 DEF i
<1>3. PICK group : Append1(group) /\ group.market = None /\ Leads(group, Head(todo)) BY <1>2
<1>4. PICK i : i = Head(todo) OBVIOUS
<1>5. PICK L, M : L = answer.groups /\ M = answer'.groups OBVIOUS
<1>6. IsList(L) BY <1>5 DEF OrderInv, AnswerShape
<1>7. M = Append(L, group) BY <1>3, <1>5, Append1Is DEF OrderInv
<1>8. /\ IsList(M) /\ Members(M) = Members(L) \cup {group} /\ DOMAIN M = 1..(Len(L) + 1)
      /\ M[Len(L) + 1] = group /\ \A n \in 1..Len(L) : M[n] = L[n]
  BY <1>6, <1>7, Appended
<1>9. Len(L) \in Nat /\ DOMAIN L = 1..Len(L) /\ \A n \in DOMAIN L : L[n] \in Members(L)
  BY <1>6, ListFacts
<1>10. Groups = Members(L) /\ Groups' = Groups \cup {group} BY <1>5, <1>8 DEF Groups
<1>11. IsList(todo) /\ Lone(todo) BY <1>0 DEF GroupsInv
<1>12. /\ IsList(todo') /\ Lone(todo') /\ Members(todo) = {i} \cup Members(todo')
       /\ \A j \in Members(todo') : Leaves(j.kind) /\ j.kind = i.kind => j.position # i.position
  BY <1>1, <1>4, <1>11, RestOfTodo
<1>13. Intended' = Intended BY <1>1 DEF Intended
<1>14. IsLeaving(group) /\ Head(group.steps).kind = i.kind /\ Head(group.steps).key = i.position
  BY <1>1, <1>3, <1>4 DEF Leads, IsLeaving
<1>15. \A g \in Groups : IsLeaving(g) /\ Head(g.steps).kind = i.kind => Head(g.steps).key # i.position
  BY <1>0, <1>12 DEF GroupsInv, TakenOnce
<1>16. TakenOnce'
  <2>1. ASSUME NEW n \in DOMAIN M, NEW m \in DOMAIN M, IsLeaving(M[n]), IsLeaving(M[m]),
               Head(M[n].steps).kind = Head(M[m].steps).kind,
               Head(M[n].steps).key = Head(M[m].steps).key
        PROVE  n = m
    <3>1. \A k \in DOMAIN M : k \in 1..Len(L) \/ k = Len(L) + 1 BY <1>8, <1>9
    <3>2. CASE n \in 1..Len(L) /\ m \in 1..Len(L)
      <4>1. M[n] = L[n] /\ M[m] = L[m] BY <1>8, <3>2
      <4>2. n \in DOMAIN L /\ m \in DOMAIN L BY <1>9, <3>2
      <4> QED BY <1>0, <1>5, <2>1, <4>1, <4>2 DEF GroupsInv, TakenOnce
    <3>3. CASE n \in 1..Len(L) /\ m = Len(L) + 1
      <4>1. M[n] = L[n] /\ L[n] \in Groups /\ M[m] = group BY <1>8, <1>9, <1>10, <3>3
      <4> QED BY <1>14, <1>15, <2>1, <4>1
    <3>4. CASE m \in 1..Len(L) /\ n = Len(L) + 1
      <4>1. M[m] = L[m] /\ L[m] \in Groups /\ M[n] = group BY <1>8, <1>9, <1>10, <3>4
      <4> QED BY <1>14, <1>15, <2>1, <4>1
    <3> QED BY <3>1, <3>2, <3>3, <3>4
  <2>2. ASSUME NEW g \in Groups', NEW j \in Members(todo'),
               IsLeaving(g), Head(g.steps).kind = j.kind
        PROVE  Head(g.steps).key # j.position
    <3>1. CASE g \in Groups BY <1>0, <1>12, <2>2, <3>1 DEF GroupsInv, TakenOnce
    <3>2. CASE g = group BY <1>12, <1>14, <2>2, <3>2 DEF IsLeaving
    <3> QED BY <1>10, <3>1, <3>2
  <2>3. \A n, m \in DOMAIN M :
          IsLeaving(M[n]) /\ IsLeaving(M[m]) /\ Head(M[n].steps).kind = Head(M[m].steps).kind
            /\ Head(M[n].steps).key = Head(M[m].steps).key => n = m
    BY <2>1
  <2> QED BY <1>5, <2>2, <2>3 DEF TakenOnce
<1>17. \A g \in Groups' : IsLeaving(g) => \E j \in Intended : Leads(g, j)
  <2>1. i \in Intended BY <1>0, <1>12 DEF GroupsInv
  <2> QED BY <1>0, <1>3, <1>4, <1>10, <2>1 DEF GroupsInv
<1>18. \A j \in Intended :
         j.kind = "exit" => j \in Members(todo') \/ \E g \in Groups' : Leads(g, j)
  BY <1>0, <1>3, <1>4, <1>10, <1>12 DEF GroupsInv
<1>19. \A g \in Groups' : g.market # None => Wanted(g.market) BY <1>0, <1>3, <1>10 DEF GroupsInv
<1>20. Members(todo') \subseteq Intended BY <1>0, <1>12 DEF GroupsInv
<1>21. ~UnderWay' /\ phase' \notin Legs /\ phase' # "slicing" /\ ~answered'
  BY <1>1 DEF UnderWay, Legs, answered
<1>22. \A market : Wanted(market)' <=> Wanted(market) BY <1>13 DEF Wanted
<1> QED
  BY <1>12, <1>13, <1>16, <1>17, <1>18, <1>19, <1>20, <1>21, <1>22
  DEF DeltaInv, GroupsInv, Entering

\* Any other step: a group that takes nothing out of a position, or none.
LEMMA OtherGroup ==
  ASSUME OrderInv, GroupsInv, UNCHANGED req, NEW group, ~IsLeaving(group),
         group.market # None => Wanted(group.market),
         answer'.groups \in {answer.groups, Append(answer.groups, group)},
         \/ UNCHANGED todo
         \/ todo # <<>> /\ Head(todo).kind = "enter" /\ todo' = Tail(todo)
  PROVE  GroupsInv'
<1>1. PICK L, M : L = answer.groups /\ M = answer'.groups OBVIOUS
<1>2. IsList(L) BY <1>1 DEF OrderInv, AnswerShape
<1>3. Len(L) \in Nat /\ DOMAIN L = 1..Len(L) BY <1>2, ListFacts
<1>4. /\ Members(M) \subseteq Members(L) \cup {group} /\ Members(L) \subseteq Members(M)
      /\ \A n \in DOMAIN M : M[n] = group \/ (n \in DOMAIN L /\ M[n] = L[n])
  <2>1. CASE M = L
    <3>1. \A n \in DOMAIN M : n \in DOMAIN L /\ M[n] = L[n] BY <2>1
    <3> QED BY <2>1, <3>1
  <2>2. CASE M = Append(L, group)
    <3>1. /\ Members(M) = Members(L) \cup {group} /\ DOMAIN M = 1..(Len(L) + 1)
          /\ M[Len(L) + 1] = group /\ \A n \in 1..Len(L) : M[n] = L[n]
      BY <1>2, <2>2, Appended
    <3>2. \A n \in DOMAIN M : n \in 1..Len(L) \/ n = Len(L) + 1 BY <1>3, <3>1
    <3> QED BY <1>3, <3>1, <3>2
  <2> QED BY <1>1, <2>1, <2>2
<1>5. Groups = Members(L) /\ Groups' = Members(M) BY <1>1 DEF Groups
<1>6. IsList(todo) /\ Lone(todo) BY DEF GroupsInv
<1>7. /\ IsList(todo') /\ Lone(todo') /\ Members(todo') \subseteq Members(todo)
      /\ \A i \in Members(todo) : i.kind = "exit" => i \in Members(todo')
  <2>1. CASE UNCHANGED todo BY <1>6, <2>1
  <2>2. CASE todo # <<>> /\ Head(todo).kind = "enter" /\ todo' = Tail(todo)
    BY <1>6, <2>2, RestOfTodo
  <2> QED BY <2>1, <2>2
<1>8. Intended' = Intended BY DEF Intended
<1>9. \A market : Wanted(market)' <=> Wanted(market) BY <1>8 DEF Wanted
<1>10. TakenOnce'
  <2>1. ASSUME NEW n \in DOMAIN M, NEW m \in DOMAIN M, IsLeaving(M[n]), IsLeaving(M[m]),
               Head(M[n].steps).kind = Head(M[m].steps).kind,
               Head(M[n].steps).key = Head(M[m].steps).key
        PROVE  n = m
    <3>1. n \in DOMAIN L /\ M[n] = L[n] /\ m \in DOMAIN L /\ M[m] = L[m] BY <1>4, <2>1
    <3> QED BY <1>1, <2>1, <3>1 DEF GroupsInv, TakenOnce
  <2>2. ASSUME NEW g \in Groups', NEW j \in Members(todo'),
               IsLeaving(g), Head(g.steps).kind = j.kind
        PROVE  Head(g.steps).key # j.position
    BY <1>4, <1>5, <1>7, <2>2 DEF GroupsInv, TakenOnce
  <2>3. \A n, m \in DOMAIN M :
          IsLeaving(M[n]) /\ IsLeaving(M[m]) /\ Head(M[n].steps).kind = Head(M[m].steps).kind
            /\ Head(M[n].steps).key = Head(M[m].steps).key => n = m
    BY <2>1
  <2> QED BY <1>1, <2>2, <2>3 DEF TakenOnce
<1>11. \A g \in Groups' : IsLeaving(g) => \E j \in Intended : Leads(g, j)
  BY <1>4, <1>5 DEF GroupsInv
<1>12. \A j \in Intended :
         j.kind = "exit" => j \in Members(todo') \/ \E g \in Groups' : Leads(g, j)
  BY <1>4, <1>5, <1>7 DEF GroupsInv
<1>13. \A g \in Groups' : g.market # None => Wanted(g.market) BY <1>4, <1>5 DEF GroupsInv
<1>14. Members(todo') \subseteq Intended BY <1>7 DEF GroupsInv
<1> QED BY <1>7, <1>8, <1>9, <1>10, <1>11, <1>12, <1>13, <1>14 DEF GroupsInv

LEMMA OtherGroups ==
  ASSUME OrderInv, GroupsInv, UNCHANGED req, answer'.groups = answer.groups,
         \/ UNCHANGED todo
         \/ todo # <<>> /\ Head(todo).kind = "enter" /\ todo' = Tail(todo)
  PROVE  GroupsInv'
<1>1. PICK group : group = GroupOf(None, 0, None, <<>>) OBVIOUS
<1>2. group.market = None /\ group.steps = <<>> BY <1>1, GroupOfIs
<1>3. ~IsLeaving(group) BY <1>2 DEF IsLeaving
<1> QED BY <1>2, <1>3, OtherGroup

LEMMA WantedStays ==
  ASSUME UNCHANGED req, NEW market PROVE Wanted(market)' <=> Wanted(market)
BY DEF Wanted, Intended

\* Legs are added behind the look at the market.
LEMMA HeadStays ==
  ASSUME NEW s, IsList(s), s # <<>>, NEW x
  PROVE  Append(s, x) # <<>> /\ Head(Append(s, x)) = Head(s)
<1>1. Len(s) \in Nat /\ Len(s) >= 1 /\ Head(s) = s[1] BY Tailed, ListFacts
<1>2. PICK t : t = Append(s, x) OBVIOUS
<1>3. IsList(t) /\ Len(t) = Len(s) + 1 /\ \A n \in 1..Len(s) : t[n] = s[n]
  BY <1>2, Appended
<1>4. t # <<>>
  <2>1. Len(<<>>) = 0 OBVIOUS
  <2> QED BY <1>1, <1>3, <2>1
<1>5. Head(t) = t[1] BY <1>3, <1>4, Tailed
<1>6. t[1] = s[1] BY <1>1, <1>3
<1> QED BY <1>1, <1>2, <1>4, <1>5, <1>6

LEMMA LegStepDelta ==
  ASSUME OrderInv, GroupsInv, Entering, GetQuote \/ BuildOptIns \/ BuildSwap \/ CompileShape
  PROVE  GroupsInv' /\ Entering'
<1>1. /\ UNCHANGED <<req, todo, slices, answer>> /\ phase \in Legs /\ phase' \in Legs
      /\ legs' = legs \/ \E x : legs' = Append(legs, x)
  BY DEF GetQuote, BuildOptIns, BuildSwap, CompileShape, SwapRefused, ShapeLeg, AddLeg, Legs
<1>2. GroupsInv' BY <1>1, OtherGroups
<1>3. IsList(legs) /\ legs # <<>> /\ Head(legs).kind = "eligibility"
  BY <1>1 DEF OrderInv, LegsInOrder, Entering
<1>4. legs' # <<>> /\ Head(legs').kind = "eligibility" BY <1>1, <1>3, HeadStays
<1>5. \A s \in Members(slices') : Wanted(s.market)'
  <2>1. UnderWay BY <1>1 DEF UnderWay
  <2>2. \A s \in Members(slices) : Wanted(s.market) BY <2>1 DEF Entering
  <2>3. UNCHANGED slices BY <1>1
  <2>4. \A market : Wanted(market)' <=> Wanted(market) BY <1>1, WantedStays
  <2> QED BY <2>2, <2>3, <2>4
<1>6. phase' # "slicing" /\ ~answered' BY <1>1 DEF Legs, answered
<1> QED BY <1>2, <1>4, <1>5, <1>6 DEF Entering

LEMMA TakeEnterDelta ==
  ASSUME OrderInv, SpendInv, GroupsInv, Entering, TakeEnter
  PROVE  GroupsInv' /\ Entering'
<1>1. /\ phase = "intents" /\ phase' = "slicing" /\ todo # <<>> /\ Head(todo).kind = "enter"
      /\ UNCHANGED <<req, todo, slices>>
  BY DEF TakeEnter
<1>2. answer'.groups = answer.groups
  <2>1. PICK b : answer' = [answer EXCEPT !.blocked = b] BY DEF TakeEnter
  <2>2. answer = [groups |-> answer.groups, blocked |-> answer.blocked]
    BY DEF OrderInv, AnswerShape
  <2>3. answer' = [groups |-> answer.groups, blocked |-> b] BY <2>1, <2>2
  <2> QED BY <2>3
<1>3. \A row \in Members(cands') : Head(todo).opp \in {None, row.opp}
  <2> DEFINE A == {row \in Members(req.markets) : Head(todo).opp \in {None, row.opp}}
             considered == Keep(req.markets, A)
             B == {row \in Members(considered) : Enterable(row)}
  <2>1. cands' = Keep(considered, B) BY DEF TakeEnter, Filter
  <2>2. IsList(req.markets) BY CompilerAssumption DEF SpendInv, SpendTypes, RequestOK
  <2>3. IsList(considered) /\ Members(considered) = Members(req.markets) \cap A
    <3> HIDE DEF A
    <3> QED BY <2>2, Kept
  <2> HIDE DEF considered
  <2>4. Members(Keep(considered, B)) = Members(considered) \cap B
    <3> HIDE DEF B
    <3> QED BY <2>3, Kept
  <2> QED BY <2>1, <2>3, <2>4
<1>4. Head(todo) \in Intended
  <2>1. IsList(todo) /\ Members(todo) \subseteq Intended BY DEF GroupsInv
  <2> QED BY <1>1, <2>1, Tailed
<1>5. \A row \in Members(cands') : Wanted(row)'
  <2>1. \A row \in Members(cands') : Wanted(row) BY <1>1, <1>3, <1>4 DEF Wanted
  <2> QED BY <1>1, <2>1, WantedStays
<1>6. slices = <<>>
  <2>1. ~UnderWay BY <1>1 DEF UnderWay, Legs
  <2> QED BY <2>1 DEF SpendInv, SpendTypes
<1>7. GroupsInv' BY <1>1, <1>2, OtherGroups
<1>8. Members(slices') = {} /\ phase' \notin Legs /\ ~answered'
  BY <1>1, <1>6, NoList DEF Legs, answered
<1> QED BY <1>5, <1>7, <1>8 DEF Entering

LEMMA SlicingDelta ==
  ASSUME OrderInv, SpendInv, GroupsInv, Entering, Slice \/ EndSlicing \/ Compose
  PROVE  GroupsInv' /\ Entering'
<1>1. UNCHANGED <<req, answer>> BY DEF Slice, EndSlicing, Compose
<1>2. UnderWay /\ phase \notin Legs
  BY DEF Slice, EndSlicing, Compose, UnderWay, Legs
<1>3. Head(todo).kind = "enter" /\ todo # <<>> BY <1>2 DEF SpendInv, SpendTypes
<1>4. \A market : Wanted(market)' <=> Wanted(market) BY <1>1, WantedStays
<1>5. CASE Slice
  <2>1. phase = "slicing" /\ phase' = "slicing" /\ UNCHANGED todo /\ cands # <<>> /\ cands' = Tail(cands)
    BY <1>5 DEF Slice
  <2>2. GroupsInv' BY <1>1, <2>1, OtherGroups
  <2>3. IsList(cands) /\ IsList(slices) BY DEF SpendInv, SpendTypes, Slices
  <2>4. Members(cands') \subseteq Members(cands) /\ Head(cands) \in Members(cands)
    BY <2>1, <2>3, Tailed
  <2>5. \A row \in Members(cands) : Wanted(row) BY <2>1 DEF Entering
  <2>6. \A s \in Members(slices) : Wanted(s.market) BY <1>2 DEF Entering
  <2>7. \A s \in Members(slices') : Wanted(s.market)
    <3>1. CASE UNCHANGED slices BY <2>6, <3>1
    <3>2. ASSUME NEW s, s.market = Head(cands), slices' = Append(slices, s)
          PROVE  \A x \in Members(slices') : Wanted(x.market)
      <4>1. Members(Append(slices, s)) = Members(slices) \cup {s} BY <2>3, Appended
      <4> QED BY <2>4, <2>5, <2>6, <3>2, <4>1
    <3>3. \/ UNCHANGED slices
          \/ \E s : s.market = Head(cands) /\ slices' = Append(slices, s)
      <4>1. SpendTypes BY DEF SpendInv
      <4>2. CASE UNCHANGED <<slices, remaining, used>> BY <4>2
      <4>3. CASE \E amount, weight \in Nat : slices' = Append(slices,
                   [market |-> Head(cands), amount |-> amount, weight |-> weight])
        <5>1. PICK amount, weight \in Nat : slices' = Append(slices,
                   [market |-> Head(cands), amount |-> amount, weight |-> weight])
          BY <4>3
        <5>2. [market |-> Head(cands), amount |-> amount, weight |-> weight].market = Head(cands)
          OBVIOUS
        <5> QED BY <5>1, <5>2
      <4> QED BY <1>5, <4>1, <4>2, <4>3, SliceIs
    <3> QED BY <3>1, <3>2, <3>3
  <2>8. phase' \notin Legs /\ ~answered' BY <2>1 DEF Legs, answered
  <2> QED BY <1>4, <2>2, <2>4, <2>5, <2>7, <2>8 DEF Entering
<1>6. CASE EndSlicing
  <2>1. /\ UNCHANGED slices /\ phase' \in {"intents", "slices"}
        /\ UNCHANGED todo \/ todo' = Tail(todo)
    BY <1>6 DEF EndSlicing
  <2>2. GroupsInv' BY <1>1, <1>3, <2>1, OtherGroups
  <2>3. \A s \in Members(slices) : Wanted(s.market) BY <1>2 DEF Entering
  <2>4. phase' # "slicing" /\ phase' \notin Legs /\ ~answered' BY <2>1 DEF Legs, answered
  <2> QED BY <1>4, <2>1, <2>2, <2>3, <2>4 DEF Entering
<1>7. CASE Compose
  <2>1. /\ UNCHANGED <<slices, todo>> /\ phase' \in Legs
        /\ \E status : legs' = <<Step("eligibility", status, None)>>
    BY <1>7 DEF Compose, Legs
  <2>2. GroupsInv' BY <1>1, <2>1, OtherGroups
  <2>3. \A s \in Members(slices) : Wanted(s.market) BY <1>2 DEF Entering
  <2>4. legs' # <<>> /\ Head(legs').kind = "eligibility"
    <3>1. PICK status : legs' = <<Step("eligibility", status, None)>> BY <2>1
    <3>2. PICK x : x = Step("eligibility", status, None) OBVIOUS
    <3>3. x.kind = "eligibility" BY <3>2 DEF Step
    <3>4. <<x>> # <<>> /\ Head(<<x>>) = x OBVIOUS
    <3> QED BY <3>1, <3>2, <3>3, <3>4
  <2>5. phase' # "slicing" /\ ~answered' BY <2>1 DEF Legs, answered
  <2> QED BY <1>4, <2>1, <2>2, <2>3, <2>4, <2>5 DEF Entering
<1> QED BY <1>5, <1>6, <1>7

LEMMA EndSliceDelta ==
  ASSUME OrderInv, SpendInv, GroupsInv, Entering, EndSlice
  PROVE  GroupsInv' /\ Entering'
<1>1. /\ phase = "shapes" /\ UNCHANGED req /\ phase' \in {"intents", "slices"}
      /\ slices' = Tail(slices) /\ (UNCHANGED todo \/ todo' = Tail(todo))
  BY DEF EndSlice
<1>2. UnderWay /\ phase \in Legs BY <1>1 DEF UnderWay, Legs
<1>3. Head(todo).kind = "enter" /\ todo # <<>> /\ slices # <<>> /\ IsList(slices)
  BY <1>2 DEF SpendInv, SpendTypes, Slices
<1>4. \A s \in Members(slices) : Wanted(s.market) BY <1>2 DEF Entering
<1>5. Members(Tail(slices)) \subseteq Members(slices) /\ Head(slices) \in Members(slices)
  BY <1>3, Tailed
<1>6. PICK group : group = GroupOf(slice.market, slice.amount, slice.weight, legs) OBVIOUS
<1>7. group.market = slice.market /\ group.steps = legs BY <1>6, GroupOfIs
<1>8. Wanted(group.market) BY <1>4, <1>5, <1>7 DEF slice
<1>9. ~IsLeaving(group)
  <2>1. Head(legs).kind = "eligibility" BY <1>2 DEF Entering
  <2> QED BY <1>7, <2>1 DEF IsLeaving, Leaves
<1>10. answer'.groups \in {answer.groups, Append(answer.groups, group)}
  BY <1>6 DEF EndSlice
<1>11. GroupsInv' BY <1>1, <1>3, <1>8, <1>9, <1>10, OtherGroup
<1>12. \A s \in Members(slices') : Wanted(s.market)'
  <2>1. \A market : Wanted(market)' <=> Wanted(market) BY <1>1, WantedStays
  <2> QED BY <1>1, <1>4, <1>5, <2>1
<1>13. phase' # "slicing" /\ phase' \notin Legs /\ ~answered' BY <1>1 DEF Legs, answered
<1> QED BY <1>11, <1>12, <1>13 DEF Entering

LEMMA StepDelta == OrderInv /\ SpendInv /\ DeltaInv /\ [Next]_vars => DeltaInv'
<1> SUFFICES ASSUME OrderInv, SpendInv, DeltaInv, [Next]_vars, req'.kind = "rebalance"
             PROVE  GroupsInv' /\ Entering'
  BY DEF DeltaInv
<1>1. UNCHANGED req
  BY DEF Next, vars, CompileLeave, DeferEnter, TakeEnter, Slice, EndSlicing, Compose, GetQuote,
    BuildOptIns, BuildSwap, CompileShape, EndSlice, Answer
<1>2. GroupsInv /\ Entering BY <1>1 DEF DeltaInv
<1>3. \A market : Wanted(market)' <=> Wanted(market) BY <1>1, WantedStays
<1>4. CASE CompileLeave
  <2>1. DeltaInv' BY <1>1, <1>4, LeaveDelta
  <2> QED BY <2>1 DEF DeltaInv
<1>5. CASE DeferEnter
  <2> DEFINE step == Step("enter", "deferred", None)
  <2>1. /\ phase = "intents" /\ phase' = "intents" /\ todo # <<>> /\ Head(todo).kind = "enter"
        /\ todo' = Tail(todo) /\ UNCHANGED <<req, cands, slices>>
        /\ Append1(GroupOf(None, 0, None, <<step>>))
    BY <1>5 DEF DeferEnter, slicing
  <2>2. step.kind = "enter" BY DEF Step
  <2> HIDE DEF step
  <2>3. PICK group : group = GroupOf(None, 0, None, <<step>>) OBVIOUS
  <2>4. group.market = None /\ group.steps = <<step>> BY <2>3, GroupOfIs
  <2>5. ~IsLeaving(group)
    <3>1. Head(<<step>>) = step OBVIOUS
    <3> QED BY <2>2, <2>4, <3>1 DEF IsLeaving, Leaves
  <2>6. answer'.groups = Append(answer.groups, group) BY <2>1, <2>3, Append1Is DEF OrderInv
  <2>7. GroupsInv' BY <1>2, <2>1, <2>4, <2>5, <2>6, OtherGroup
  <2>8. ~UnderWay' /\ phase' \notin Legs /\ phase' # "slicing" /\ ~answered'
    BY <2>1 DEF UnderWay, Legs, answered
  <2> QED BY <2>7, <2>8 DEF Entering
<1>6. CASE TakeEnter BY <1>2, <1>6, TakeEnterDelta
<1>7. CASE Slice \/ EndSlicing \/ Compose BY <1>2, <1>7, SlicingDelta
<1>8. CASE GetQuote \/ BuildOptIns \/ BuildSwap \/ CompileShape BY <1>2, <1>8, LegStepDelta
<1>9. CASE EndSlice BY <1>2, <1>9, EndSliceDelta
<1>10. CASE Answer
  <2>1. UNCHANGED <<req, todo, answer>> /\ phase' = "answered" /\ todo = <<>>
    BY <1>10 DEF Answer
  <2>2. GroupsInv' BY <1>2, <2>1, OtherGroups
  <2>3. ~UnderWay' /\ phase' \notin Legs /\ phase' # "slicing" BY <2>1 DEF UnderWay, Legs
  <2> QED BY <2>1, <2>2, <2>3 DEF Entering
<1>11. CASE UNCHANGED vars
  <2>1. UNCHANGED <<req, todo, answer, phase, cands, slices, legs>>
    BY <1>11 DEF vars, slicing, composing
  <2>2. GroupsInv' BY <1>2, <2>1, OtherGroups
  <2>3. UnderWay' = UnderWay /\ answered' = answered BY <2>1 DEF UnderWay, answered
  <2> QED BY <1>2, <1>3, <2>1, <2>2, <2>3 DEF Entering
<1> QED BY <1>4, <1>5, <1>6, <1>7, <1>8, <1>9, <1>10, <1>11 DEF Next

LEMMA ProductNat == ASSUME NEW x \in Nat, NEW y \in Nat PROVE x * y \in Nat
OBVIOUS

\* Nobody takes more out of a position than it holds.
LEMMA ExitWithin ==
  ASSUME NEW in, Book(in), NEW row \in Members(Overweight(in)),
         NEW p \in Members(Group(in, row.opp)), ExitAmount(in, row, p) > 0
  PROVE  ExitAmount(in, row, p) \in 1..p.raw
<1>1. p.raw \in Nat
  <2>1. p \in Members(in.positions) BY UniverseIs
  <2> QED BY <2>1 DEF Book
<1>2. CASE row.target = 0
  <2>1. ExitAmount(in, row, p) = p.raw BY <1>2 DEF ExitAmount
  <2> QED BY <1>1, <2>1
<1>3. CASE row.target # 0
  <2> DEFINE num == -row.delta * TotalUsd(in)
             den == Bps * Usd(Group(in, row.opp))
             scaled == (p.raw * num) \div den
  <2>1. ExitAmount(in, row, p) =
          IF num = 0 \/ den = 0 THEN 0 ELSE IF scaled >= p.raw THEN p.raw ELSE scaled
    BY <1>3 DEF ExitAmount, ScaleAmount
  <2>2. num \in Nat
    <3>1. row.delta \in Int /\ row.delta <= -in.minDelta BY <1>3, WeightsAre DEF Rows
    <3>2. in.minDelta \in Nat BY DEF Book
    <3>3. -row.delta \in Nat BY <3>1, <3>2
    <3>4. TotalUsd(in) \in Nat BY UniverseIs
    <3>5. PICK d \in Int, u \in Nat : d = row.delta /\ u = TotalUsd(in) BY <3>1, <3>4
    <3>6. (-d) * u \in Nat BY <3>3, <3>5, ProductNat
    <3>7. (-d) * u = -(d * u) OBVIOUS
    <3> QED BY <3>5, <3>6, <3>7
  <2>3. den \in Nat
    <3>1. Usd(Group(in, row.opp)) \in Nat /\ Bps \in Nat BY UniverseIs, GraphAssumption
    <3> QED BY <3>1, ProductNat
  <2> HIDE DEF num, den
  <2>4. CASE num # 0 /\ den # 0
    <3>1. p.raw * num \in Nat BY <1>1, <2>2, ProductNat
    <3>2. scaled \in Nat BY <2>3, <2>4, <3>1, DivFloors
    <3> HIDE DEF scaled
    <3> QED BY <1>1, <2>1, <2>4, <3>2
  <2>5. CASE num = 0 \/ den = 0 BY <2>1, <2>5
  <2> QED BY <2>4, <2>5
<1> QED BY <1>2, <1>3

\* The first steps of the groups that take something of a kind.
LEMMA LeavingIs ==
  ASSUME OrderInv, TakenOnce, NEW kind, Leaves(kind)
  PROVE  /\ Distinct(Leaving(kind))
         /\ Members(Leaving(kind)) = {Head(g.steps) : g \in {g \in Groups :
              g.steps # <<>> /\ Head(g.steps).kind = kind}}
<1> DEFINE T == {g \in Members(answer.groups) : g.steps # <<>> /\ Head(g.steps).kind = kind}
           one == Keep(answer.groups, T)
           f == [i \in DOMAIN one |-> Head(one[i].steps)]
<1>1. Leaving(kind) = f BY DEF Leaving, Filter
<1>2. IsList(answer.groups) BY DEF OrderInv, AnswerShape
<1>3. T \subseteq Members(answer.groups) OBVIOUS
<1>4. \A g \in T : IsLeaving(g) /\ Head(g.steps).kind = kind BY DEF IsLeaving
<1>5. T = {g \in Groups : g.steps # <<>> /\ Head(g.steps).kind = kind} BY DEF Groups
<1> HIDE DEF T
<1>6. Members(one) = T BY <1>2, <1>3, Kept
<1>7. PICK m : Places(m, one, answer.groups) BY <1>2, KeptPlaces
<1> HIDE DEF one
<1>8. DOMAIN f = DOMAIN one /\ \A i \in DOMAIN one : f[i] = Head(one[i].steps) OBVIOUS
<1> HIDE DEF f
<1>9. ASSUME NEW i \in DOMAIN f, NEW j \in DOMAIN f, f[i].key = f[j].key PROVE i = j
  <2>1. one[i] \in T /\ one[j] \in T BY <1>6, <1>8 DEF Members
  <2>2. /\ m[i] \in DOMAIN answer.groups /\ one[i] = answer.groups[m[i]]
        /\ m[j] \in DOMAIN answer.groups /\ one[j] = answer.groups[m[j]]
    BY <1>7, <1>8 DEF Places
  <2>3. Head(one[i].steps).key = Head(one[j].steps).key BY <1>8, <1>9
  <2>4. m[i] = m[j] BY <1>4, <2>1, <2>2, <2>3 DEF TakenOnce
  <2> QED BY <1>7, <1>8, <2>4 DEF Places
<1>10. Members(f) = {Head(g.steps) : g \in T}
  <2>1. Members(f) = {Head(one[i].steps) : i \in DOMAIN one} BY <1>8 DEF Members
  <2>2. \A i \in DOMAIN one : one[i] \in T BY <1>6 DEF Members
  <2>3. \A g \in T : \E i \in DOMAIN one : g = one[i] BY <1>6 DEF Members
  <2> QED BY <2>1, <2>2, <2>3
<1> QED BY <1>1, <1>5, <1>9, <1>10 DEF Distinct

\* An underweight market is not overweight.
LEMMA NotBoth ==
  ASSUME NEW in, Book(in), in.minDelta > 0,
         NEW over \in Members(Overweight(in)), NEW under \in Members(Underweight(in))
  PROVE  over.opp # under.opp
<1> SUFFICES ASSUME over.opp = under.opp PROVE FALSE OBVIOUS
<1>1. /\ over \in Members(Weights(in)) /\ under \in Members(Weights(in))
      /\ under.delta >= in.minDelta
      /\ (over.target = 0 /\ over.current > 0) \/ over.delta <= -in.minDelta
  BY WeightsAre
<1>2. over = under BY <1>1, OneRow
<1>3. over.target \in Nat /\ over.current \in Int /\ over.delta = over.target - over.current
  BY <1>1, RowsAre
<1>4. in.minDelta \in Nat BY DEF Book
<1> QED BY <1>1, <1>2, <1>3, <1>4

LEMMA DeltaHolds ==
  ASSUME OrderInv, SpendInv, DeltaInv, ofRebalance
  PROVE  RebalanceIsADelta
<1> DEFINE in == req.book
<1>1. req.kind = "rebalance" /\ answered BY DEF ofRebalance
<1>2. Book(in) BY <1>1, CompilerAssumption DEF SpendInv, SpendTypes, RequestOK
<1>3. GroupsInv /\ todo = <<>> BY <1>1 DEF DeltaInv, Entering
<1>4. TakenOnce BY <1>3 DEF GroupsInv
<1>5. Distinct(Leaving("claim")) /\ Distinct(Leaving("exit")) BY <1>4, LeavingIs DEF Leaves
<1>6. Members(Leaving("exit")) = {Head(g.steps) : g \in {g \in Groups :
        g.steps # <<>> /\ Head(g.steps).kind = "exit"}}
  BY <1>4, LeavingIs DEF Leaves
<1>7. Intended = Members(Deltas(in)) BY DEF Intended
<1> HIDE DEF in
<1>8. ASSUME NEW s \in Members(Leaving("exit"))
      PROVE  \E row \in Members(Overweight(in)) : \E p \in Members(Group(in, row.opp)) :
               s.key = p.id /\ s.amount = ExitAmount(in, row, p) /\ s.amount > 0
  <2>1. PICK g \in Groups : s = Head(g.steps) /\ g.steps # <<>> /\ Head(g.steps).kind = "exit"
    BY <1>6
  <2>2. IsLeaving(g) BY <2>1 DEF IsLeaving, Leaves
  <2>3. PICK i \in Intended : Leads(g, i) BY <1>3, <2>2 DEF GroupsInv
  <2>4. i.kind = "exit" /\ s.key = i.position /\ s.amount = i.amount BY <2>1, <2>3 DEF Leads
  <2>5. PICK row \in Members(Overweight(in)) : ExitOf(in, i, row) BY <1>2, <1>7, <2>4, DeltasAre
  <2> QED BY <2>4, <2>5 DEF ExitOf
<1>9. ASSUME NEW s \in Members(Leaving("exit")), NEW p, p = PositionOf(s.key)
      PROVE  /\ p.opp \in Targeted(in) /\ s.amount \in 1..p.raw
             /\ \A t \in Members(in.targets) : t.opp = p.opp /\ t.bps = 0 => s.amount = p.raw
             /\ in.minDelta > 0 => \A g \in Groups : g.market # None => g.market.opp # p.opp
  <2>0. PICK row \in Members(Overweight(in)) : \E q \in Members(Group(in, row.opp)) :
           s.key = q.id /\ s.amount = ExitAmount(in, row, q) /\ s.amount > 0
    BY <1>8
  <2>1. PICK q \in Members(Group(in, row.opp)) :
           s.key = q.id /\ s.amount = ExitAmount(in, row, q) /\ s.amount > 0
    BY <2>0
  <2>2. q \in Members(in.positions) /\ q.opp \in Targeted(in) /\ q.opp = row.opp
    BY <1>2, UniverseIs
  <2>3. p = q
    <3>1. p \in Members(in.positions) /\ p.id = s.key
      BY <1>9, <2>1, <2>2 DEF PositionOf, in
    <3> QED BY <1>2, <2>1, <2>2, <3>1, OnePosition
  <2>4. s.amount \in 1..p.raw BY <1>2, <2>1, <2>3, ExitWithin
  <2>5. ASSUME NEW t \in Members(in.targets), t.opp = p.opp, t.bps = 0 PROVE s.amount = p.raw
    <3>1. row \in Members(Weights(in)) BY <1>2, WeightsAre
    <3>2. row.target = 0 BY <1>2, <2>2, <2>3, <2>5, <3>1, OneRow
    <3> QED BY <2>1, <2>3, <3>2 DEF ExitAmount
  <2>6. ASSUME in.minDelta > 0, NEW g \in Groups, g.market # None, g.market.opp = p.opp
        PROVE  FALSE
    <3>1. Wanted(g.market) BY <1>3, <2>6 DEF GroupsInv
    <3>2. PICK i \in Intended : i.kind = "enter" /\ i.opp \in {None, g.market.opp}
      BY <3>1 DEF Wanted
    <3>3. EnterOf(in, i) BY <1>2, <1>7, <3>2, DeltasAre
    <3>4. in.targets # <<>>
      <4>1. in.targets # <<>> \/ Targeted(in) = {} BY NoList DEF Targeted, Members
      <4> QED BY <2>2, <4>1
    <3>5. PICK under \in Members(Underweight(in)) : i.opp = under.opp /\ i.opp # None
      BY <3>3, <3>4 DEF EnterOf
    <3>6. under.opp = row.opp BY <2>2, <2>3, <2>6, <3>2, <3>5
    <3> QED BY <1>2, <2>6, <3>6, NotBoth
  <2> QED BY <2>2, <2>3, <2>4, <2>5, <2>6
<1>10. ASSUME NEW p \in Members(in.positions), NEW t \in Members(in.targets),
              p.book, p.exits > 0, p.raw > 0, t.opp = p.opp, t.bps = 0,
              CurrentBps(in, p.opp) > 0
       PROVE  \E s \in Members(Leaving("exit")) : s.key = p.id
  <2>1. PICK row \in Members(Weights(in)) :
           row.opp = t.opp /\ row.target = t.bps /\ row.current = CurrentBps(in, t.opp)
    BY <1>2, RowsAre
  <2>2. row \in Members(Overweight(in)) BY <1>2, <1>10, <2>1, WeightsAre
  <2>3. p.opp \in Targeted(in) BY <1>10 DEF Targeted, Members
  <2>4. p \in Members(Group(in, row.opp)) BY <1>2, <1>10, <2>1, <2>3, UniverseIs
  <2>5. ExitAmount(in, row, p) = p.raw BY <1>10, <2>1 DEF ExitAmount
  <2>6. PICK i \in Intended : i.kind = "exit" /\ i.position = p.id
    BY <1>2, <1>7, <1>10, <2>2, <2>4, <2>5, DeltasAre
  <2>7. PICK g \in Groups : Leads(g, i) BY <1>3, <2>6, NoList DEF GroupsInv
  <2>8. Head(g.steps) \in Members(Leaving("exit")) /\ Head(g.steps).key = p.id
    BY <1>6, <2>6, <2>7 DEF Leads
  <2> QED BY <2>8
<1>11. \A s \in Members(Leaving("exit")) :
         LET p == PositionOf(s.key)
         IN  /\ p.opp \in Targeted(in) /\ s.amount \in 1..p.raw
             /\ \A t \in Members(in.targets) : t.opp = p.opp /\ t.bps = 0 => s.amount = p.raw
             /\ in.minDelta > 0 => \A g \in Groups : g.market # None => g.market.opp # p.opp
  BY <1>9
<1>12. \A p \in Members(in.positions), t \in Members(in.targets) :
         p.book /\ p.exits > 0 /\ p.raw > 0 /\ t.opp = p.opp /\ t.bps = 0
           /\ CurrentBps(in, p.opp) > 0
         => \E s \in Members(Leaving("exit")) : s.key = p.id
  BY <1>10
<1> QED BY <1>5, <1>11, <1>12 DEF RebalanceIsADelta, in

\* Whatever is asked, refused or quoted: a rebalance takes each position and reward
\* once, no more than there is, the whole of what has no target left, and puts nothing
\* into a market it takes something out of.
THEOREM RebalanceTakesTheDelta == Spec => []RebalanceIsADelta
<1>1. OrderInv /\ SpendInv /\ DeltaInv => RebalanceIsADelta
  <2> SUFFICES ASSUME OrderInv, SpendInv, DeltaInv PROVE RebalanceIsADelta OBVIOUS
  <2>1. CASE ofRebalance BY <2>1, DeltaHolds
  <2>2. CASE ~ofRebalance BY <2>2 DEF RebalanceIsADelta
  <2> QED BY <2>1, <2>2
<1> QED BY <1>1, InitOrder, InitSpend, InitDelta, StepOrder, StepSpend, StepDelta, PTL DEF Spec
================================================================================
