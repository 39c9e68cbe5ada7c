---------------------------- MODULE RebalanceGraph ----------------------------
(***************************************************************************)
(* What a rebalance is to change (services/rebalance-graph.ts).            *)
(*                                                                         *)
(* computeRebalanceDeltas as operators of its input: the positions of a    *)
(* wallet, its claimable rewards, its idle ALGO and the target weights.    *)
(* Values in USD are whole numbers, weights are parts of Bps; what is      *)
(* rounded down in the code is rounded down here.                          *)
(***************************************************************************)
EXTENDS Lists

CONSTANTS
  Bps,     \* BPS_DENOMINATOR
  None,    \* no price, opportunity, asset, weight
  Algo     \* the asset with id 0

ASSUME GraphAssumption == Bps \in Nat \ {0} /\ None \notin Int

-----------------------------------------------------------------------------
(***************************************************************************)
(* The book.  "in" has: positions, in order, each with id, opp, protocol,  *)
(* asset, usd, raw, book (a type of BOOK_POSITION_TYPES) and exits (how    *)
(* many shapes leave it); claims; targets, in order; idle; harvestIdle;    *)
(* includeClaims; minDelta.                                                *)
(***************************************************************************)
Targeted(in) == {in.targets[i].opp : i \in DOMAIN in.targets}

Universe(in) == Filter(in.positions, LAMBDA p : p.book /\ p.opp \in Targeted(in))
Group(in, opp) == Filter(Universe(in), LAMBDA p : p.opp = opp)
Grouped(in) == {p.opp : p \in Members(Universe(in))}

\* Positions without a price count for nothing.
Usd(positions) == SumOver(positions, LAMBDA p : IF p.usd = None THEN 0 ELSE p.usd)
TotalUsd(in) == Usd(Universe(in))

FloorBps(in, opp) == (Usd(Group(in, opp)) * Bps) \div TotalUsd(in)

\* The first of the most valuable groups, which takes what rounding leaves over.
Largest(in) ==
  LET all == Universe(in)
      worth(n) == Usd(Group(in, all[n].opp))
      most == {n \in DOMAIN all : \A m \in DOMAIN all : worth(m) <= worth(n)}
  IN  all[CHOOSE n \in most : \A m \in most : n <= m].opp

\* Bug: every group is rounded down and nobody takes the rest.
FlooredBps(in, opp) ==
  IF opp \notin Grouped(in) \/ TotalUsd(in) = 0 THEN 0 ELSE FloorBps(in, opp)

\* Whatever is grouped is targeted, so that the targets are all the rows there are.
CurrentBps(in, opp) ==
  IF opp \notin Grouped(in) \/ TotalUsd(in) = 0 THEN 0
  ELSE FloorBps(in, opp)
         + (IF opp = Largest(in)
            THEN Bps - SumOver(in.targets, LAMBDA t : IF t.opp \in Grouped(in)
                                                      THEN FloorBps(in, t.opp) ELSE 0)
            ELSE 0)

Weights(in) ==
  [i \in DOMAIN in.targets |->
     LET opp == in.targets[i].opp
         current == CurrentBps(in, opp)
     IN  [opp |-> opp, current |-> current, target |-> in.targets[i].bps,
          delta |-> in.targets[i].bps - current]]

Overweight(in) ==
  Filter(Weights(in), LAMBDA row :
    (row.target = 0 /\ row.current > 0) \/ row.delta <= -in.minDelta)
Underweight(in) == Filter(Weights(in), LAMBDA row : row.delta >= in.minDelta)

-----------------------------------------------------------------------------
(***************************************************************************)
(* The intents: claims, then exits, then enters.                           *)
(***************************************************************************)
Intent(kind, opp, asset, amount, compileNow) ==
  [kind |-> kind, opp |-> opp, asset |-> asset, amount |-> amount,
   position |-> None, protocol |-> None, compileNow |-> compileNow]

Claim(c) ==
  [Intent("claim", None, Algo, 0, TRUE) EXCEPT !.position = c.key, !.protocol = c.protocol]

\* Bug: a reward shared by two positions is claimed for each.
ClaimEach(in) ==
  IF ~in.includeClaims THEN <<>>
  ELSE LET worth == Filter(in.claims, LAMBDA c : c.worth /\ c.quoted)
       IN  [i \in DOMAIN worth |-> Claim(worth[i])]

\* Rewards with one claim key are claimed by one group.
Claims(in) ==
  LET worth == Filter(in.claims, LAMBDA c : c.worth /\ c.quoted)
      first == {i \in DOMAIN worth : \A j \in 1..(i - 1) : worth[j].key # worth[i].key}
      rows == Keep([i \in DOMAIN worth |-> i], first)
  IN  IF ~in.includeClaims THEN <<>>
      ELSE [i \in DOMAIN rows |-> Claim(worth[rows[i]])]

\* scaleAmount: raw in proportion num / den, never more than raw.
ScaleAmount(raw, num, den) ==
  IF num = 0 \/ den = 0 THEN 0
  ELSE LET scaled == (raw * num) \div den IN IF scaled >= raw THEN raw ELSE scaled

ExitAmount(in, row, p) ==
  IF row.target = 0 THEN p.raw
  ELSE ScaleAmount(p.raw, -row.delta * TotalUsd(in), Bps * Usd(Group(in, row.opp)))

\* Positions without an exit shape, and amounts that round to zero, are passed over.
ExitsOf(in, row) ==
  LET leaving == Filter(Group(in, row.opp), LAMBDA p :
                   p.exits > 0 /\ ExitAmount(in, row, p) > 0)
  IN  [i \in DOMAIN leaving |->
         [Intent("exit", row.opp, leaving[i].asset, ExitAmount(in, row, leaving[i]), TRUE)
            EXCEPT !.position = leaving[i].id, !.protocol = leaving[i].protocol]]

Exits(in) ==
  LET rows == Overweight(in) IN Flatten([i \in DOMAIN rows |-> ExitsOf(in, rows[i])])

\* Bug: every row is given its part rounded up.
ShareRoundedUp(in, i) ==
  LET rows == Underweight(in)
      gap == SumOver(rows, LAMBDA row : row.delta)
  IN  (in.idle * rows[i].delta + gap - 1) \div gap

\* Idle ALGO in proportion to the gaps; the last row takes what is left.
Share(in, i) ==
  LET rows == Underweight(in)
      gap == SumOver(rows, LAMBDA row : row.delta)
      part(j) == (in.idle * rows[j].delta) \div gap
  IN  IF i < Len(rows) THEN part(i)
      ELSE in.idle - Total([j \in 1..(Len(rows) - 1) |-> part(j)])

EntersByGap(in) ==
  LET rows == Underweight(in)
      funded == in.idle > 0 /\ SumOver(rows, LAMBDA row : row.delta) > 0
      enter(i) == Intent("enter", rows[i].opp, Algo, IF funded THEN Share(in, i) ELSE 0, funded)
  IN  IF funded THEN Filter([i \in DOMAIN rows |-> enter(i)], LAMBDA e : e.amount > 0)
      ELSE IF Exits(in) = <<>> THEN <<>>
      ELSE [i \in DOMAIN rows |-> enter(i)]

Enters(in) ==
  IF in.targets # <<>> THEN EntersByGap(in)
  ELSE IF in.harvestIdle /\ in.idle > 0
       THEN <<Intent("enter", None, Algo, in.idle, TRUE)>>
       ELSE <<>>

\* computeRebalanceDeltas.
Deltas(in) == Claims(in) \o Exits(in) \o Enters(in)

\* validateRequest: targets, or idle ALGO to put to work; targets add up.
ValidBook(in) ==
  /\ in.harvestIdle \/ in.targets # <<>>
  /\ \A i, j \in DOMAIN in.targets : in.targets[i].opp = in.targets[j].opp => i = j
  /\ in.targets = <<>> \/ SumOver(in.targets, LAMBDA t : t.bps) = Bps

\* A valid book as the schema and the readers of positions and rewards give it; an
\* id is made of what a position is held in, and names one position.
Book(in) ==
  /\ ValidBook(in)
  /\ IsList(in.positions) /\ IsList(in.claims) /\ IsList(in.targets)
  /\ in.idle \in Nat /\ in.minDelta \in Nat
  /\ \A t \in Members(in.targets) : t.bps \in Nat /\ t.opp # None
  /\ \A i, j \in DOMAIN in.positions : in.positions[i].id = in.positions[j].id => i = j
  /\ \A p \in Members(in.positions) : p.raw \in Nat /\ p.usd \in Nat \cup {None}
==============================================================================
