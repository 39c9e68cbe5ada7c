------------------------------- MODULE Lists -------------------------------
(***************************************************************************)
(* Array helpers of the services, over sequences: what filter keeps, what  *)
(* a sum by reduce or a loop adds up to, what flat strings together.  They *)
(* are recursive functions, so that the proof modules can reason about     *)
(* them.                                                                   *)
(***************************************************************************)
EXTENDS Integers, Sequences

\* The members of a sequence.
Members(s) == {s[n] : n \in DOMAIN s}

IsList(s) == s \in Seq(Members(s))

\* The elements of s that are in T, in their order.
Keep(s, T) ==
  LET kept[n \in 0..Len(s)] ==
        IF n = 0 THEN <<>>
        ELSE IF s[n] \in T THEN Append(kept[n - 1], s[n]) ELSE kept[n - 1]
  IN  kept[Len(s)]

\* Array.filter.
Filter(s, P(_)) == Keep(s, {e \in Members(s) : P(e)})

\* The sum of a sequence of numbers.
Total(s) ==
  LET sum[n \in 0..Len(s)] == IF n = 0 THEN 0 ELSE sum[n - 1] + s[n]
  IN  sum[Len(s)]

SumOver(s, f(_)) == Total([n \in DOMAIN s |-> f(s[n])])

\* Sequences one after the other.
Flatten(ss) ==
  LET joined[n \in 0..Len(ss)] == IF n = 0 THEN <<>> ELSE joined[n - 1] \o ss[n]
  IN  joined[Len(ss)]
============================================================================
