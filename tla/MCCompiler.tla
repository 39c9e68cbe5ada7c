------------------------------ MODULE MCCompiler ------------------------------
(***************************************************************************)
(* Weights in tenths, six markets of two protocols, plans of two amounts   *)
(* under two caps, and books of up to three markets.                       *)
(***************************************************************************)
EXTENDS Compiler

CONSTANTS P, Q, U, V, setupKey, enterKey, borrowKey

shape(key, kind, required, needs, field) ==
  [key |-> key, kind |-> kind, borrow |-> key = borrowKey, required |-> required,
   needs |-> needs, known |-> key # borrowKey, field |-> field, named |-> field = "amount"]
enterShape(assets) == shape(enterKey, "enter", assets, {}, "amount")

market(opp, protocol, assets, chain) ==
  [opp |-> opp, protocol |-> protocol, assetIds |-> assets, chain |-> chain,
   rejected |-> FALSE, canEnter |-> TRUE, checkable |-> TRUE, curable |-> TRUE]

\* An escrow before the deposit; the asset behind a swap; a borrow whose inputs are
\* not known; two assets; a gate that no swap opens; a gate that is not checkable.
mA == market("a", P, {Algo}, <<shape(setupKey, "setup", {Algo}, {}, "none"),
                               shape(enterKey, "enter", {Algo}, {setupKey}, "amount")>>)
mU == [market("u", P, {U}, <<enterShape({U})>>) EXCEPT !.canEnter = FALSE]
mB == [market("b", Q, {Algo}, <<enterShape({Algo}), shape(borrowKey, "enter", {}, {}, "amount")>>)
         EXCEPT !.checkable = FALSE]
mW == market("w", Q, {U, V}, <<shape(enterKey, "enter", {U, V}, {}, "other")>>)
mC == [market("c", Q, {U}, <<enterShape({U})>>) EXCEPT !.canEnter = FALSE, !.curable = FALSE]
mX == [market("x", P, {U}, <<enterShape({U})>>) EXCEPT !.canEnter = FALSE, !.checkable = FALSE]

NoBook == [positions |-> <<>>, claims |-> <<>>, targets |-> <<>>, idle |-> 0,
           harvestIdle |-> FALSE, includeClaims |-> FALSE, minDelta |-> 2]

plan(asset, amount, cap, noNewBorrows, markets) ==
  [kind |-> "plan", asset |-> asset, amount |-> amount, book |-> NoBook, markets |-> markets,
   cap |-> cap, maxAllocations |-> 3, noNewBorrows |-> noNewBorrows, slippage |-> 1]

Plans ==
  {plan(Algo, 19, cap, b, m) : cap \in {5, 10}, b \in BOOLEAN,
     m \in {<<mA, mU, mB>>, <<mU, mA, mB, mC>>, <<mB, mX, mW, mA>>}}
    \cup {[plan(U, 7, 4, TRUE, <<mW, mU, mX, mA>>) EXCEPT !.slippage = 10]}
    \cup {[plan(Algo, 19, 5, TRUE, <<mA, mU, mB>>) EXCEPT !.maxAllocations = 1]}

-----------------------------------------------------------------------------
position(id, opp, usd, raw) ==
  [id |-> id, opp |-> opp, protocol |-> P, asset |-> Algo, usd |-> usd, raw |-> raw,
   book |-> TRUE, exits |-> 1]
claim(key) == [key |-> key, protocol |-> P, worth |-> TRUE, quoted |-> TRUE]
weigh(opp, bps) == [opp |-> opp, bps |-> bps]

rebalance(book, cap) ==
  [kind |-> "rebalance", asset |-> Algo, amount |-> 0, book |-> book, markets |-> <<mA, mU, mB>>,
   cap |-> cap, maxAllocations |-> 2, noNewBorrows |-> TRUE, slippage |-> 1]

Books ==
  LET positions == {
        <<position("p1", "a", 7, 9), position("p2", "a", 3, 4), position("p3", "u", 4, 5)>>,
        <<position("p1", "a", 1, 1), position("p2", "u", None, 6), position("p3", "z", 13, 6)>>,
        <<position("p1", "b", 9, 9), position("p2", "z", 1, 4)>>,
        <<position("p1", "u", 3, 7), position("p2", "z", 3, 7), position("p3", "b", 5, 7)>>,
        <<[position("p1", "z", 5, 5) EXCEPT !.exits = 0], position("p2", "z", None, 3),
          [position("p3", "b", 1, 2) EXCEPT !.book = FALSE]>>}
      targets == {<<weigh("a", 0), weigh("u", 5), weigh("b", 5)>>,
                  <<weigh("z", 0), weigh("a", 3), weigh("u", 7)>>,
                  <<weigh("a", 4), weigh("b", 3), weigh("u", 3), weigh("z", 0)>>}
      claims == {<<>>, <<claim("r"), [claim("s") EXCEPT !.quoted = FALSE], claim("r")>>}
  IN  {[NoBook EXCEPT !.positions = ps, !.targets = t, !.claims = c, !.idle = i,
                      !.includeClaims = TRUE] :
         ps \in positions, t \in targets, c \in claims, i \in {0, 11}}
Harvest == [NoBook EXCEPT !.idle = 11, !.harvestIdle = TRUE, !.claims = <<claim("r")>>,
                          !.includeClaims = TRUE]

Rebalances ==
  {rebalance(b, cap) : b \in {b \in Books \cup {Harvest} : ValidBook(b)}, cap \in {6, 10}}

MCRequests == Plans \cup Rebalances
==============================================================================
