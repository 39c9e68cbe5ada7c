------------------------------ MODULE ListProofs ------------------------------
(***************************************************************************)
(* Lemmas about the helpers of Lists, and the induction on the naturals    *)
(* they rest on: well-founded induction with a set in place of a formula.  *)
(***************************************************************************)
EXTENDS Lists, WellFoundedInduction, TLAPS

(***************************************************************************)
(* Induction.                                                              *)
(***************************************************************************)
LEMMA Least ==
  ASSUME NEW T, T \subseteq Nat, T # {}
  PROVE  \E n \in T : \A m \in T : n <= m
<1>1. IsWellFoundedOn(OpToRel(<, Nat), Nat) BY NatLessThanWellFounded
<1>2. PICK n \in T : \A m \in T : ~(<<m, n>> \in OpToRel(<, Nat)) BY <1>1, WFMin
<1>3. \A m \in T : ~(m < n) BY <1>2 DEF OpToRel
<1> QED BY <1>3

LEMMA Induction ==
  ASSUME NEW T, 0 \in T, \A n \in Nat : n \in T => n + 1 \in T
  PROVE  Nat \subseteq T
<1> SUFFICES ASSUME Nat \ T # {} PROVE FALSE OBVIOUS
<1>1. PICK n \in Nat \ T : \A m \in Nat \ T : n <= m BY Least
<1>2. n # 0 /\ n - 1 \in Nat BY <1>1
<1>3. n - 1 \in T BY <1>1, <1>2
<1> QED BY <1>1, <1>2, <1>3

\* The recursive function of Keep exists.
LEMMA KeepExists ==
  ASSUME NEW S, NEW s \in Seq(S), NEW T
  PROVE  \E kept : kept = [n \in 0..Len(s) |->
           IF n = 0 THEN <<>>
           ELSE IF s[n] \in T THEN Append(kept[n - 1], s[n]) ELSE kept[n - 1]]
<1> DEFINE Rule(f, n) == IF n = 0 THEN <<>>
             ELSE IF s[n] \in T THEN Append(f[n - 1], s[n]) ELSE f[n - 1]
           Ok(f, m) == f = [n \in 0..m |-> Rule(f, n)]
           N == {m \in Nat : m > Len(s) \/ \E f : Ok(f, m)}
<1>1. Len(s) \in Nat OBVIOUS
<1>2. 0 \in N
  <2> DEFINE f == [n \in 0..0 |-> <<>>]
  <2>1. Ok(f, 0) OBVIOUS
  <2> QED BY <2>1
<1>3. ASSUME NEW n \in Nat, n \in N PROVE n + 1 \in N
  <2>1. CASE n + 1 > Len(s) BY <2>1
  <2>2. CASE n + 1 <= Len(s)
    <3>1. PICK f : Ok(f, n) BY <1>1, <1>3, <2>2
    <3> DEFINE g == [m \in 0..(n + 1) |-> IF m = n + 1 THEN Rule(f, n + 1) ELSE f[m]]
    <3>2. \A m \in 0..(n + 1) : Rule(g, m) = Rule(f, m) OBVIOUS
    <3>3. \A m \in 0..n : f[m] = Rule(f, m) BY <3>1
    <3>4. \A m \in 0..(n + 1) : g[m] = Rule(g, m)
      <4> SUFFICES ASSUME NEW m \in 0..(n + 1) PROVE g[m] = Rule(f, m) BY <3>2
      <4>1. m = n + 1 \/ m \in 0..n OBVIOUS
      <4> HIDE DEF Rule
      <4> QED BY <3>3, <4>1
    <3> HIDE DEF Rule
    <3>5. Ok(g, n + 1) BY <3>4
    <3>6. \E h : Ok(h, n + 1) BY <3>5
    <3> QED BY <3>6
  <2> QED BY <1>1, <2>1, <2>2
<1>4. Len(s) \in N
  <2> HIDE DEF N
  <2> QED BY <1>1, <1>2, <1>3, Induction
<1> QED BY <1>4

\* Keep returns the elements of s that are in T.
LEMMA KeepKeeps ==
  ASSUME NEW S, NEW s \in Seq(S), NEW T
  PROVE  Keep(s, T) \in Seq(S) /\ Members(Keep(s, T)) = Members(s) \cap T
<1> DEFINE Law(f) == f = [n \in 0..Len(s) |->
             IF n = 0 THEN <<>>
             ELSE IF s[n] \in T THEN Append(f[n - 1], s[n]) ELSE f[n - 1]]
           kept == CHOOSE f : Law(f)
           Done(n) == kept[n] \in Seq(S) /\ Members(kept[n]) = {s[m] : m \in 1..n} \cap T
           N == {n \in Nat : n > Len(s) \/ Done(n)}
<1>1. Keep(s, T) = kept[Len(s)] BY DEF Keep
<1>2. Law(kept)
  <2>1. \E f : Law(f) BY KeepExists
  <2> HIDE DEF Law
  <2> QED BY <2>1
<1> HIDE DEF kept
<1>3. Len(s) \in Nat /\ DOMAIN s = 1..Len(s) OBVIOUS
<1>4. 0 \in N
  <2>1. kept[0] = <<>> BY <1>2, <1>3
  <2>2. <<>> \in Seq(S) /\ Members(<<>>) = {} BY DEF Members
  <2>3. {s[m] : m \in 1..0} = {} OBVIOUS
  <2> QED BY <2>1, <2>2, <2>3
<1>5. ASSUME NEW n \in Nat, n \in N PROVE n + 1 \in N
  <2>1. CASE n + 1 > Len(s) BY <2>1
  <2>2. CASE n + 1 <= Len(s)
    <3>1. Done(n) BY <1>3, <1>5, <2>2
    <3>2. kept[n + 1] = IF s[n + 1] \in T THEN Append(kept[n], s[n + 1]) ELSE kept[n]
      <4>1. n + 1 \in 0..Len(s) /\ n + 1 # 0 /\ (n + 1) - 1 = n BY <1>3, <2>2
      <4> QED BY <1>2, <4>1
    <3>3. {s[m] : m \in 1..(n + 1)} = {s[m] : m \in 1..n} \cup {s[n + 1]}
      <4>1. \A m \in 1..(n + 1) : m \in 1..n \/ m = n + 1 OBVIOUS
      <4>2. \A m \in 1..n : m \in 1..(n + 1) OBVIOUS
      <4>3. n + 1 \in 1..(n + 1) OBVIOUS
      <4> QED BY <4>1, <4>2, <4>3
    <3>4. s[n + 1] \in S BY <1>3, <2>2
    <3>5. CASE s[n + 1] \in T
      <4>1. kept[n + 1] = Append(kept[n], s[n + 1]) BY <3>2, <3>5
      <4>2. kept[n + 1] \in Seq(S) BY <3>1, <3>4, <4>1
      <4>3. Members(kept[n + 1]) = Members(kept[n]) \cup {s[n + 1]}
        <5> DEFINE k == kept[n]
                   e == s[n + 1]
        <5>1. k \in Seq(S) BY <3>1
        <5> HIDE DEF k, e
        <5>2. /\ DOMAIN Append(k, e) = 1..(Len(k) + 1) /\ DOMAIN k = 1..Len(k) /\ Len(k) \in Nat
              /\ \A m \in 1..Len(k) : Append(k, e)[m] = k[m]
              /\ Append(k, e)[Len(k) + 1] = e
          BY <5>1
        <5>3. \A m \in 1..(Len(k) + 1) : m \in 1..Len(k) \/ m = Len(k) + 1 BY <5>2
        <5>4. Len(k) + 1 \in 1..(Len(k) + 1) /\ \A m \in 1..Len(k) : m \in 1..(Len(k) + 1)
          BY <5>2
        <5>5. Members(Append(k, e)) = Members(k) \cup {e}
          BY <5>2, <5>3, <5>4 DEF Members
        <5> QED BY <4>1, <5>5 DEF k, e
      <4>4. Members(kept[n + 1]) = {s[m] : m \in 1..(n + 1)} \cap T
        BY <3>1, <3>3, <3>5, <4>3
      <4> QED BY <4>2, <4>4
    <3>6. CASE s[n + 1] \notin T BY <3>1, <3>2, <3>3, <3>6
    <3> QED BY <3>5, <3>6
  <2> QED BY <1>3, <2>1, <2>2
<1>6. Len(s) \in N
  <2> HIDE DEF N
  <2> QED BY <1>3, <1>4, <1>5, Induction
<1>7. Done(Len(s)) BY <1>3, <1>6
<1> QED BY <1>1, <1>3, <1>7 DEF Members

-----------------------------------------------------------------------------
\* A function defined by recursion on 0..N exists.
Recursive(f, N, V, base, step) ==
  f \in [0..N -> V] /\ f[0] = base /\ \A n \in 1..N : f[n] = step[n][f[n - 1]]

LEMMA Recursion ==
  ASSUME NEW N \in Nat, NEW V, NEW base \in V, NEW step \in [1..N -> [V -> V]]
  PROVE  \E f : Recursive(f, N, V, base, step)
<1> DEFINE Ok(f, m) == Recursive(f, m, V, base, step)
           M == {m \in Nat : m > N \/ \E f : Ok(f, m)}
<1>1. 0 \in M
  <2> DEFINE f == [n \in 0..0 |-> base]
  <2>1. Ok(f, 0) BY DEF Recursive
  <2> QED BY <2>1
<1>2. ASSUME NEW m \in Nat, m \in M PROVE m + 1 \in M
  <2>1. CASE m + 1 > N BY <2>1
  <2>2. CASE m + 1 <= N
    <3>1. PICK f : Ok(f, m) BY <1>2, <2>2
    <3> USE DEF Recursive
    <3> DEFINE g == [n \in 0..(m + 1) |-> IF n = m + 1 THEN step[m + 1][f[m]] ELSE f[n]]
    <3>2. m + 1 \in 1..N /\ f[m] \in V BY <2>2, <3>1
    <3>3. step[m + 1][f[m]] \in V BY <3>2
    <3>4. g \in [0..(m + 1) -> V]
      <4>1. \A n \in 0..(m + 1) : n = m + 1 \/ n \in 0..m OBVIOUS
      <4> QED BY <3>1, <3>3, <4>1
    <3>5. g[0] = base BY <3>1
    <3>6. ASSUME NEW n \in 1..(m + 1) PROVE g[n] = step[n][g[n - 1]]
      <4>1. CASE n = m + 1 BY <4>1
      <4>2. CASE n # m + 1
        <5>1. n \in 1..m /\ n \in 0..(m + 1) /\ n - 1 \in 0..(m + 1) /\ n - 1 # m + 1 BY <4>2
        <5> QED BY <3>1, <4>2, <5>1
      <4> QED BY <4>1, <4>2
    <3>7. Ok(g, m + 1) BY <3>4, <3>5, <3>6
    <3> HIDE DEF g, Ok
    <3> QED BY <3>7
  <2> QED BY <2>1, <2>2
<1>3. N \in M
  <2> HIDE DEF M
  <2> QED BY <1>1, <1>2, Induction
<1> QED BY <1>3

-----------------------------------------------------------------------------
(***************************************************************************)
(* Sequences of anything: a sequence of its own members.                   *)
(***************************************************************************)
LEMMA ListOf ==
  ASSUME NEW S, NEW s \in Seq(S)
  PROVE  IsList(s) /\ Members(s) \subseteq S
<1>1. Len(s) \in Nat /\ DOMAIN s = 1..Len(s) /\ s = [n \in 1..Len(s) |-> s[n]] OBVIOUS
<1>2. \A n \in 1..Len(s) : s[n] \in S /\ s[n] \in Members(s) BY <1>1 DEF Members
<1>3. s \in Seq(Members(s)) BY <1>1, <1>2
<1> QED BY <1>1, <1>2, <1>3 DEF IsList, Members

LEMMA ListFacts ==
  ASSUME NEW s, IsList(s)
  PROVE  /\ Len(s) \in Nat /\ DOMAIN s = 1..Len(s) /\ s = [n \in 1..Len(s) |-> s[n]]
         /\ \A n \in 1..Len(s) : s[n] \in Members(s)
BY DEF IsList, Members

LEMMA ListIs ==
  ASSUME NEW n \in Nat, NEW s, s = [m \in 1..n |-> s[m]]
  PROVE  IsList(s) /\ Len(s) = n
<1>1. DOMAIN s = 1..n BY Zenon
<1>2. \A m \in 1..n : s[m] \in Members(s) BY <1>1 DEF Members
<1>3. s \in Seq(Members(s)) BY <1>2
<1>4. Len(s) = n BY <1>1, <1>3
<1> QED BY <1>3, <1>4 DEF IsList

LEMMA NoList == IsList(<<>>) /\ Members(<<>>) = {}
BY DEF IsList, Members

\* What Append does.
LEMMA Appended ==
  ASSUME NEW s, IsList(s), NEW x
  PROVE  /\ IsList(Append(s, x)) /\ Members(Append(s, x)) = Members(s) \cup {x}
         /\ Len(Append(s, x)) = Len(s) + 1 /\ Append(s, x)[Len(s) + 1] = x
         /\ \A n \in 1..Len(s) : Append(s, x)[n] = s[n]
         /\ DOMAIN Append(s, x) = 1..(Len(s) + 1)
<1> DEFINE S == Members(s) \cup {x}
           t == Append(s, x)
<1>1. Len(s) \in Nat /\ DOMAIN s = 1..Len(s) /\ \A n \in 1..Len(s) : s[n] \in Members(s)
  BY ListFacts
<1>2. s \in Seq(S) /\ x \in S
  <2>1. s = [n \in 1..Len(s) |-> s[n]] BY ListFacts
  <2>2. \A n \in 1..Len(s) : s[n] \in S BY <1>1
  <2> HIDE DEF S
  <2>3. s \in Seq(S) BY <1>1, <2>1, <2>2
  <2> QED BY <2>3 DEF S
<1> HIDE DEF S
<1>3. /\ t \in Seq(S) /\ Len(t) = Len(s) + 1 /\ t[Len(s) + 1] = x
      /\ \A n \in 1..Len(s) : t[n] = s[n]
      /\ DOMAIN t = 1..(Len(s) + 1)
  BY <1>1, <1>2
<1> HIDE DEF t
<1>4. Members(t) = Members(s) \cup {x}
  <2>1. \A n \in 1..(Len(s) + 1) : n \in 1..Len(s) \/ n = Len(s) + 1 BY <1>1
  <2>2. Len(s) + 1 \in 1..(Len(s) + 1) /\ \A n \in 1..Len(s) : n \in 1..(Len(s) + 1) BY <1>1
  <2> QED BY <1>1, <1>3, <2>1, <2>2 DEF Members
<1>5. IsList(t) BY <1>3, ListOf
<1> QED BY <1>3, <1>4, <1>5 DEF t

LEMMA OneMember ==
  ASSUME NEW x
  PROVE  IsList(<<x>>) /\ Members(<<x>>) = {x} /\ Len(<<x>>) = 1 /\ <<x>>[1] = x
BY DEF IsList, Members

\* What Tail leaves.
LEMMA Tailed ==
  ASSUME NEW s, IsList(s), s # <<>>
  PROVE  /\ IsList(Tail(s)) /\ Members(Tail(s)) \subseteq Members(s)
         /\ Len(Tail(s)) = Len(s) - 1 /\ \A n \in 1..(Len(s) - 1) : Tail(s)[n] = s[n + 1]
         /\ Head(s) = s[1] /\ Head(s) \in Members(s) /\ Len(s) >= 1
<1>1. s \in Seq(Members(s)) BY DEF IsList
<1>2. Tail(s) \in Seq(Members(s)) /\ Len(Tail(s)) = Len(s) - 1 /\ Head(s) = s[1]
      /\ Len(s) \in Nat /\ Len(s) >= 1
  BY <1>1
<1>3. \A n \in 1..(Len(s) - 1) : Tail(s)[n] = s[n + 1] BY <1>1, <1>2
<1>4. Head(s) \in Members(s) BY <1>1, <1>2
<1> QED BY <1>2, <1>3, <1>4, ListOf

-----------------------------------------------------------------------------
(***************************************************************************)
(* Sums.                                                                   *)
(***************************************************************************)
Sums(sum, s) ==
  sum \in [0..Len(s) -> Int] /\ sum[0] = 0
  /\ \A n \in 1..Len(s) : sum[n] = sum[n - 1] + s[n]

\* Total is the last of the partial sums.
LEMMA PartialSums ==
  ASSUME NEW s \in Seq(Int)
  PROVE  \E sum : Sums(sum, s) /\ Total(s) = sum[Len(s)]
<1> DEFINE Law(f) == f = [n \in 0..Len(s) |-> IF n = 0 THEN 0 ELSE f[n - 1] + s[n]]
           sum == CHOOSE f : Law(f)
<1>1. Len(s) \in Nat /\ \A n \in 1..Len(s) : s[n] \in Int OBVIOUS
<1>2. \E f : Law(f)
  <2> DEFINE step == [n \in 1..Len(s) |-> [v \in Int |-> v + s[n]]]
  <2>1. step \in [1..Len(s) -> [Int -> Int]] BY <1>1
  <2> HIDE DEF step
  <2>2. PICK f \in [0..Len(s) -> Int] :
          f[0] = 0 /\ \A n \in 1..Len(s) : f[n] = step[n][f[n - 1]]
    <3>1. Len(s) \in Nat /\ 0 \in Int BY <1>1
    <3>2. \E f : Recursive(f, Len(s), Int, 0, step) BY <2>1, <3>1, Recursion
    <3> QED BY <3>2 DEF Recursive
  <2>3. ASSUME NEW n \in 1..Len(s) PROVE f[n] = f[n - 1] + s[n]
    <3>1. n - 1 \in 0..Len(s) BY <1>1
    <3>2. f[n - 1] \in Int BY <2>2, <3>1
    <3>3. step[n][f[n - 1]] = f[n - 1] + s[n] BY <3>2 DEF step
    <3> QED BY <2>2, <3>3
  <2>4. \A n \in 0..Len(s) : f[n] = IF n = 0 THEN 0 ELSE f[n - 1] + s[n]
    BY <1>1, <2>2, <2>3
  <2>5. f = [n \in 0..Len(s) |-> IF n = 0 THEN 0 ELSE f[n - 1] + s[n]] BY <2>2, <2>4
  <2> QED BY <2>5
<1>3. Law(sum)
  <2> HIDE DEF Law
  <2> QED BY <1>2
<1>4. Total(s) = sum[Len(s)] BY DEF Total
<1> HIDE DEF sum
<1>5. sum[0] = 0 /\ \A n \in 1..Len(s) : sum[n] = sum[n - 1] + s[n] BY <1>1, <1>3
<1>6. ASSUME NEW n \in 0..Len(s) PROVE sum[n] \in Int
  <2> DEFINE M == {m \in Nat : m > Len(s) \/ sum[m] \in Int}
  <2>1. 0 \in M BY <1>5
  <2>2. ASSUME NEW m \in Nat, m \in M PROVE m + 1 \in M BY <1>1, <1>5, <2>2
  <2> HIDE DEF M
  <2>3. Nat \subseteq M BY <2>1, <2>2, Induction
  <2>4. n \in Nat /\ n <= Len(s) BY <1>1
  <2>5. n \in M BY <2>3, <2>4
  <2> QED BY <1>1, <2>4, <2>5 DEF M
<1>7. sum \in [0..Len(s) -> Int] BY <1>3, <1>6
<1>8. Sums(sum, s) BY <1>5, <1>7 DEF Sums
<1> QED BY <1>4, <1>8

LEMMA TotalInt == \A s \in Seq(Int) : Total(s) \in Int
BY PartialSums DEF Sums

LEMMA PartialSumsAre ==
  ASSUME NEW s \in Seq(Int), NEW sum, Sums(sum, s)
  PROVE  Total(s) = sum[Len(s)]
<1>1. PICK f : Sums(f, s) /\ Total(s) = f[Len(s)] BY PartialSums
<1> DEFINE M == {m \in Nat : m > Len(s) \/ f[m] = sum[m]}
<1>2. Len(s) \in Nat OBVIOUS
<1>3. 0 \in M BY <1>1 DEF Sums
<1>4. ASSUME NEW m \in Nat, m \in M PROVE m + 1 \in M
  <2>1. CASE m + 1 > Len(s) BY <2>1
  <2>2. CASE m + 1 <= Len(s)
    <3>1. m + 1 \in 1..Len(s) /\ (m + 1) - 1 = m BY <1>2, <2>2
    <3>2. f[m + 1] = f[m] + s[m + 1] /\ sum[m + 1] = sum[m] + s[m + 1]
      BY <1>1, <3>1 DEF Sums
    <3>3. f[m] = sum[m] BY <1>2, <1>4, <2>2
    <3> QED BY <3>2, <3>3
  <2> QED BY <1>2, <2>1, <2>2
<1>5. Len(s) \in M
  <2> HIDE DEF M
  <2> QED BY <1>2, <1>3, <1>4, Induction
<1> QED BY <1>1, <1>2, <1>5

LEMMA TotalNone == Total(<<>>) = 0
<1>1. <<>> \in Seq(Int) /\ Len(<<>>) = 0 OBVIOUS
<1> QED BY <1>1, PartialSums DEF Sums

\* Sums that follow bounds of their terms.
LEMMA TotalBound ==
  ASSUME NEW s \in Seq(Int), NEW t \in Seq(Int), Len(s) = Len(t),
         NEW j \in Int, NEW k \in Int, NEW c \in Int,
         \A n \in 1..Len(s) : j * s[n] <= k * t[n] + c
  PROVE  j * Total(s) <= k * Total(t) + c * Len(s)
<1>1. PICK f : Sums(f, s) /\ Total(s) = f[Len(s)] BY PartialSums
<1>2. PICK g : Sums(g, t) /\ Total(t) = g[Len(s)] BY PartialSums
<1> DEFINE M == {m \in Nat : m > Len(s) \/ j * f[m] <= k * g[m] + c * m}
<1>3. Len(s) \in Nat OBVIOUS
<1>4. 0 \in M BY <1>1, <1>2 DEF Sums
<1>5. ASSUME NEW m \in Nat, m \in M PROVE m + 1 \in M
  <2>1. CASE m + 1 > Len(s) BY <2>1
  <2>2. CASE m + 1 <= Len(s)
    <3>1. m + 1 \in 1..Len(s) /\ m \in 0..Len(s) BY <1>3, <2>2
    <3>2. f[m + 1] = f[m] + s[m + 1] /\ g[m + 1] = g[m] + t[m + 1]
      BY <1>1, <1>2, <3>1 DEF Sums
    <3> DEFINE a == f[m]
               b == g[m]
               x == s[m + 1]
               y == t[m + 1]
    <3>a. a \in Int /\ b \in Int BY <1>1, <1>2, <3>1 DEF Sums
    <3>b. x \in Int /\ y \in Int BY <3>1
    <3>3. a \in Int /\ b \in Int /\ x \in Int /\ y \in Int BY <3>a, <3>b
    <3>4. j * a <= k * b + c * m BY <1>3, <1>5, <3>1
    <3>5. j * x <= k * y + c BY <3>1
    <3> HIDE DEF M, a, b, x, y
    <3>6. j * (a + x) <= k * (b + y) + c * (m + 1)
      <4>1. j * (a + x) = j * a + j * x /\ j * a \in Int /\ j * x \in Int BY <3>3
      <4>2. k * (b + y) = k * b + k * y /\ k * b \in Int /\ k * y \in Int BY <3>3
      <4>3. c * (m + 1) = c * m + c /\ c * m \in Int OBVIOUS
      <4> QED BY <3>4, <3>5, <4>1, <4>2, <4>3
    <3>7. f[m + 1] = a + x /\ g[m + 1] = b + y BY <3>2 DEF a, b, x, y
    <3>8. j * f[m + 1] <= k * g[m + 1] + c * (m + 1) BY <3>6, <3>7
    <3> QED BY <3>8 DEF M
  <2> QED BY <1>3, <2>1, <2>2
<1>6. Len(s) \in M
  <2> HIDE DEF M
  <2> QED BY <1>3, <1>4, <1>5, Induction
<1> QED BY <1>1, <1>2, <1>3, <1>6

LEMMA TotalPositive ==
  ASSUME NEW s \in Seq(Int), \A n \in 1..Len(s) : s[n] >= 0
  PROVE  Total(s) >= 0
<1>1. PICK j \in Int, k \in Int : j = 0 /\ k = 1 OBVIOUS
<1>2. \A n \in 1..Len(s) : s[n] \in Int OBVIOUS
<1>3. \A n \in 1..Len(s) : j * s[n] <= k * s[n] + j BY <1>1, <1>2
<1>4. j * Total(s) <= k * Total(s) + j * Len(s) BY <1>3, TotalBound
<1>5. Total(s) \in Int /\ Len(s) \in Int BY TotalInt
<1> QED BY <1>1, <1>4, <1>5

\* The sum of a sequence with one more term.
LEMMA TotalLonger ==
  ASSUME NEW s \in Seq(Int), NEW t \in Seq(Int), Len(t) = Len(s) + 1,
         \A n \in 1..Len(s) : t[n] = s[n]
  PROVE  Total(t) = Total(s) + t[Len(t)]
<1>1. PICK f : Sums(f, s) /\ Total(s) = f[Len(s)] BY PartialSums
<1> DEFINE g == [n \in 0..Len(t) |-> IF n <= Len(s) THEN f[n] ELSE f[Len(s)] + t[n]]
<1>2. Len(s) \in Nat /\ Len(t) \in 1..Len(t) /\ t[Len(t)] \in Int OBVIOUS
<1>3. \A n \in 0..Len(s) : f[n] \in Int BY <1>1 DEF Sums
<1>4. g \in [0..Len(t) -> Int] BY <1>2, <1>3
<1>5. g[0] = 0 BY <1>1, <1>2 DEF Sums
<1>6. ASSUME NEW n \in 1..Len(t) PROVE g[n] = g[n - 1] + t[n]
  <2>1. CASE n <= Len(s)
    <3>1. n \in 1..Len(s) /\ n - 1 \in 0..Len(t) /\ n - 1 <= Len(s) BY <1>2, <2>1
    <3>2. f[n] = f[n - 1] + s[n] BY <1>1, <3>1 DEF Sums
    <3> QED BY <2>1, <3>1, <3>2
  <2>2. CASE n = Len(s) + 1 BY <1>2, <2>2
  <2> QED BY <1>2, <2>1, <2>2
<1>7. Sums(g, t) BY <1>4, <1>5, <1>6 DEF Sums
<1>8. g[Len(t)] = f[Len(s)] + t[Len(t)] BY <1>2
<1> HIDE DEF g
<1> QED BY <1>1, <1>7, <1>8, PartialSumsAre

\* u is s followed by t.
Joined(u, s, t) ==
  /\ Len(u) = Len(s) + Len(t)
  /\ \A n \in 1..Len(s) : u[n] = s[n]
  /\ \A n \in 1..Len(t) : u[Len(s) + n] = t[n]

\* The sum of two sequences one after the other.
LEMMA TotalJoined ==
  ASSUME NEW s \in Seq(Int), NEW t \in Seq(Int), NEW u \in Seq(Int), Joined(u, s, t)
  PROVE  Total(u) = Total(s) + Total(t)
<1>1. PICK f : Sums(f, s) /\ Total(s) = f[Len(s)] BY PartialSums
<1>2. PICK h : Sums(h, t) /\ Total(t) = h[Len(t)] BY PartialSums
<1> DEFINE g == [n \in 0..Len(u) |->
             IF n <= Len(s) THEN f[n] ELSE f[Len(s)] + h[n - Len(s)]]
<1>3. Len(s) \in Nat /\ Len(t) \in Nat /\ Len(u) = Len(s) + Len(t)
  BY DEF Joined
<1>a. \A n \in 0..Len(u) : n <= Len(s) => g[n] = f[n] OBVIOUS
<1>b. \A n \in 0..Len(u) : n > Len(s) => g[n] = f[Len(s)] + h[n - Len(s)]
  BY <1>3
<1>c. g = [n \in 0..Len(u) |-> g[n]] OBVIOUS
<1> HIDE DEF g
<1>4. (\A n \in 0..Len(s) : f[n] \in Int) /\ f[0] = 0 BY <1>1 DEF Sums
<1>5. (\A n \in 0..Len(t) : h[n] \in Int) /\ h[0] = 0 BY <1>2 DEF Sums
<1>6. ASSUME NEW n \in 0..Len(u) PROVE g[n] \in Int
  <2>1. CASE n <= Len(s)
    <3>1. n \in 0..Len(s) BY <1>3, <2>1
    <3>2. g[n] = f[n] BY <1>a, <2>1
    <3> QED BY <1>4, <3>1, <3>2
  <2>2. CASE n > Len(s)
    <3>1. n - Len(s) \in 0..Len(t) /\ Len(s) \in 0..Len(s) BY <1>3, <2>2
    <3>2. h[n - Len(s)] \in Int /\ f[Len(s)] \in Int BY <1>4, <1>5, <3>1
    <3>3. g[n] = f[Len(s)] + h[n - Len(s)] BY <1>b, <2>2
    <3> QED BY <3>2, <3>3
  <2> QED BY <1>3, <2>1, <2>2
<1>7. g[0] = 0 BY <1>3, <1>4, <1>a
<1>8. ASSUME NEW n \in 1..Len(u) PROVE g[n] = g[n - 1] + u[n]
  <2>1. CASE n <= Len(s)
    <3>1. n \in 1..Len(s) /\ n - 1 \in 0..Len(u) /\ n - 1 <= Len(s) BY <1>3, <2>1
    <3>2. f[n] = f[n - 1] + s[n] BY <1>1, <3>1 DEF Sums
    <3>3. u[n] = s[n] BY <3>1 DEF Joined
    <3>4. n \in 0..Len(u) BY <1>3
    <3>5. g[n] = f[n] BY <1>a, <2>1, <3>4
    <3>6. g[n - 1] = f[n - 1] BY <1>a, <3>1
    <3> QED BY <3>2, <3>3, <3>5, <3>6
  <2>2. CASE n > Len(s)
    <3> DEFINE m == n - Len(s)
    <3>0. n \in Int /\ n >= 1 /\ n <= Len(s) + Len(t) BY <1>3
    <3>1. m \in 1..Len(t) /\ n = Len(s) + m /\ m - 1 \in 0..Len(t)
          /\ n - 1 \in 0..Len(u) /\ Len(s) \in 0..Len(s)
      BY <1>3, <2>2, <3>0
    <3>2. h[m] = h[m - 1] + t[m] BY <1>2, <3>1 DEF Sums
    <3>3. u[n] = t[m] BY <3>1 DEF Joined
    <3>4. g[n] = f[Len(s)] + h[m] BY <1>b, <2>2
    <3>5. g[n - 1] = f[Len(s)] + h[m - 1]
      <4>1. CASE n - 1 <= Len(s)
        <5>1. n - 1 = Len(s) /\ m - 1 = 0 BY <1>3, <2>2, <3>0, <4>1
        <5>2. g[n - 1] = f[Len(s)] BY <1>a, <3>1, <4>1, <5>1
        <5>3. h[m - 1] = 0 BY <1>5, <5>1
        <5>4. f[Len(s)] \in Int BY <1>4, <3>1
        <5> HIDE DEF m
        <5> QED BY <5>2, <5>3, <5>4
      <4>2. CASE n - 1 > Len(s)
        <5>1. (n - 1) - Len(s) = m - 1 BY <1>3, <3>0
        <5>2. g[n - 1] = f[Len(s)] + h[(n - 1) - Len(s)] BY <1>b, <3>1, <4>2
        <5> QED BY <5>1, <5>2
      <4> QED BY <1>3, <3>0, <4>1, <4>2
    <3>6. f[Len(s)] \in Int /\ h[m - 1] \in Int BY <1>4, <1>5, <3>1
    <3>7. t[m] \in Int BY <3>1
    <3> HIDE DEF m
    <3> QED BY <3>2, <3>3, <3>4, <3>5, <3>6, <3>7
  <2> QED BY <1>3, <2>1, <2>2
<1>9. Sums(g, u)
  <2>1. g \in [0..Len(u) -> Int] BY <1>6, <1>c
  <2> QED BY <1>7, <1>8, <2>1 DEF Sums
<1>10. g[Len(u)] = f[Len(s)] + h[Len(t)]
  <2>1. CASE Len(t) = 0 BY <1>3, <1>4, <1>5, <1>a, <2>1
  <2>2. CASE Len(t) > 0
    <3>1. Len(u) > Len(s) /\ Len(u) - Len(s) = Len(t) /\ Len(u) \in 0..Len(u) BY <1>3, <2>2
    <3> QED BY <1>b, <3>1
  <2> QED BY <1>3, <2>1, <2>2
<1> QED BY <1>1, <1>2, <1>9, <1>10, PartialSumsAre

-----------------------------------------------------------------------------
(***************************************************************************)
(* More sums.                                                              *)
(***************************************************************************)
\* The sum of sums.
LEMMA TotalPlus ==
  ASSUME NEW s \in Seq(Int), NEW t \in Seq(Int), NEW u \in Seq(Int),
         Len(s) = Len(u), Len(t) = Len(u), \A n \in 1..Len(u) : u[n] = s[n] + t[n]
  PROVE  Total(u) = Total(s) + Total(t)
<1>1. PICK f : Sums(f, s) /\ Total(s) = f[Len(u)] BY PartialSums
<1>2. PICK h : Sums(h, t) /\ Total(t) = h[Len(u)] BY PartialSums
<1> DEFINE g == [n \in 0..Len(u) |-> f[n] + h[n]]
<1>3. Len(u) \in Nat OBVIOUS
<1>4. \A n \in 0..Len(u) : f[n] \in Int /\ h[n] \in Int BY <1>1, <1>2 DEF Sums
<1>5. Sums(g, u)
  <2>1. g \in [0..Len(u) -> Int] BY <1>4
  <2>2. g[0] = 0 BY <1>1, <1>2, <1>3 DEF Sums
  <2>3. ASSUME NEW n \in 1..Len(u) PROVE g[n] = g[n - 1] + u[n]
    <3>1. n \in 0..Len(u) /\ n - 1 \in 0..Len(u) BY <1>3
    <3> DEFINE a == f[n - 1]
               b == h[n - 1]
               x == s[n]
               y == t[n]
    <3>2. f[n] = a + x /\ h[n] = b + y BY <1>1, <1>2 DEF Sums
    <3>3. x \in Int /\ y \in Int BY <1>3
    <3>4. u[n] = x + y BY <1>3
    <3>5. g[n] = f[n] + h[n] /\ g[n - 1] = a + b BY <3>1
    <3>6. a \in Int /\ b \in Int BY <1>4, <3>1
    <3> HIDE DEF g, a, b, x, y
    <3> QED BY <3>2, <3>3, <3>4, <3>5, <3>6
  <2> HIDE DEF g
  <2> QED BY <2>1, <2>2, <2>3 DEF Sums
<1>6. g[Len(u)] = f[Len(u)] + h[Len(u)] BY <1>3
<1> HIDE DEF g
<1> QED BY <1>1, <1>2, <1>5, <1>6, PartialSumsAre

\* k times each, and one with the other: so are the totals.
LEMMA TotalScaled ==
  ASSUME NEW s \in Seq(Int), NEW k \in Int
  PROVE  \E t \in Seq(Int) : /\ Len(t) = Len(s) /\ \A n \in 1..Len(s) : t[n] = k * s[n]
                             /\ Total(t) = k * Total(s)
<1> DEFINE t == [n \in 1..Len(s) |-> k * s[n]]
<1>1. Len(s) \in Nat /\ \A n \in 1..Len(s) : s[n] \in Int OBVIOUS
<1>2. \A x \in Int : k * x \in Int OBVIOUS
<1>3. t \in Seq(Int) /\ Len(t) = Len(s) BY <1>1, <1>2
<1>4. \A n \in 1..Len(s) : t[n] = k * s[n] OBVIOUS
<1> HIDE DEF t
<1>5. Total(s) \in Int /\ Total(t) \in Int BY <1>3, TotalInt
<1>6. PICK j \in Int, z \in Int : j = 1 /\ z = 0 OBVIOUS
<1>7. j * Total(t) <= k * Total(s) + z * Len(t)
  <2>1. \A n \in 1..Len(t) : j * t[n] <= k * s[n] + z
    <3> SUFFICES ASSUME NEW n \in 1..Len(t) PROVE j * t[n] <= k * s[n] + z OBVIOUS
    <3>1. t[n] = k * s[n] /\ t[n] \in Int BY <1>3, <1>4
    <3> QED BY <1>6, <3>1
  <2> QED BY <1>3, <2>1, TotalBound
<1>8. k * Total(s) <= j * Total(t) + z * Len(s)
  <2>1. \A n \in 1..Len(s) : k * s[n] <= j * t[n] + z
    <3> SUFFICES ASSUME NEW n \in 1..Len(s) PROVE k * s[n] <= j * t[n] + z OBVIOUS
    <3>1. t[n] = k * s[n] /\ t[n] \in Int BY <1>3, <1>4
    <3> QED BY <1>6, <3>1
  <2> QED BY <1>3, <2>1, TotalBound
<1>9. Total(t) = k * Total(s)
  <2>1. k * Total(s) \in Int BY <1>2, <1>5
  <2> QED BY <1>1, <1>3, <1>5, <1>6, <1>7, <1>8, <2>1
<1> QED BY <1>3, <1>4, <1>9

LEMMA TotalSummed ==
  ASSUME NEW s \in Seq(Int), NEW t \in Seq(Int), Len(t) = Len(s)
  PROVE  \E u \in Seq(Int) : /\ Len(u) = Len(s) /\ \A n \in 1..Len(s) : u[n] = s[n] + t[n]
                             /\ Total(u) = Total(s) + Total(t)
<1> DEFINE u == [n \in 1..Len(s) |-> s[n] + t[n]]
<1>1. Len(s) \in Nat /\ \A n \in 1..Len(s) : s[n] \in Int /\ t[n] \in Int OBVIOUS
<1>2. u \in Seq(Int) /\ Len(u) = Len(s) BY <1>1
<1>3. \A n \in 1..Len(s) : u[n] = s[n] + t[n] OBVIOUS
<1> HIDE DEF u
<1>4. \A n \in 1..Len(u) : u[n] = s[n] + t[n] BY <1>2, <1>3
<1>5. Total(u) = Total(s) + Total(t) BY <1>2, <1>4, TotalPlus
<1> QED BY <1>2, <1>3, <1>5

\* The sum of a sequence with one term that is not zero.
LEMMA TotalSpike ==
  ASSUME NEW s \in Seq(Int), NEW k \in 1..Len(s),
         \A n \in 1..Len(s) : n # k => s[n] = 0
  PROVE  Total(s) = s[k]
<1> DEFINE g == [n \in 0..Len(s) |-> IF n < k THEN 0 ELSE s[k]]
<1>1. Len(s) \in Nat /\ s[k] \in Int OBVIOUS
<1>2. g \in [0..Len(s) -> Int] /\ g[0] = 0 BY <1>1
<1>3. ASSUME NEW n \in 1..Len(s) PROVE g[n] = g[n - 1] + s[n]
  <2>1. n \in 0..Len(s) /\ n - 1 \in 0..Len(s) /\ k \in Int BY <1>1
  <2>2. CASE n < k BY <1>1, <2>1, <2>2
  <2>3. CASE n = k BY <1>1, <2>1, <2>3
  <2>4. CASE n > k BY <1>1, <2>1, <2>4
  <2> QED BY <1>1, <2>2, <2>3, <2>4
<1>4. g[Len(s)] = s[k] BY <1>1
<1> HIDE DEF g
<1>5. Sums(g, s) BY <1>2, <1>3 DEF Sums
<1> QED BY <1>4, <1>5, PartialSumsAre

\* A sequence of numbers has a greatest one.
LEMMA Greatest ==
  ASSUME NEW N \in Nat \ {0}, NEW f \in [1..N -> Int]
  PROVE  \E n \in 1..N : \A m \in 1..N : f[m] <= f[n]
<1> DEFINE M == {k \in Nat : k + 1 > N \/ \E n \in 1..(k + 1) : \A m \in 1..(k + 1) : f[m] <= f[n]}
<1>1. 0 \in M
  <2>1. 1 \in 1..N /\ f[1] \in Int OBVIOUS
  <2>2. \A m \in 1..1 : f[m] <= f[1] BY <2>1
  <2> QED BY <2>2
<1>2. ASSUME NEW k \in Nat, k \in M PROVE k + 1 \in M
  <2>1. CASE k + 2 > N BY <2>1
  <2>2. CASE k + 2 <= N
    <3>1. PICK n \in 1..(k + 1) : \A m \in 1..(k + 1) : f[m] <= f[n] BY <1>2, <2>2
    <3>2. \A m \in 1..(k + 2) : f[m] \in Int /\ (m \in 1..(k + 1) \/ m = k + 2) BY <2>2
    <3>3. n \in 1..(k + 2) /\ k + 2 \in 1..(k + 2) OBVIOUS
    <3>4. CASE f[k + 2] <= f[n] BY <3>1, <3>2, <3>3, <3>4
    <3>5. CASE f[n] <= f[k + 2] BY <3>1, <3>2, <3>3, <3>5
    <3> QED BY <3>2, <3>3, <3>4, <3>5
  <2> QED BY <2>1, <2>2
<1>3. N - 1 \in M
  <2>1. N - 1 \in Nat OBVIOUS
  <2> HIDE DEF M
  <2> QED BY <1>1, <1>2, <2>1, Induction
<1> QED BY <1>3

-----------------------------------------------------------------------------
(***************************************************************************)
(* What \o, Keep and Flatten make.                                         *)
(***************************************************************************)
LEMMA Concatenated ==
  ASSUME NEW s, IsList(s), NEW t, IsList(t)
  PROVE  /\ IsList(s \o t) /\ Members(s \o t) = Members(s) \cup Members(t)
         /\ Joined(s \o t, s, t)
<1> DEFINE S == Members(s) \cup Members(t)
           u == s \o t
<1>1. Len(s) \in Nat /\ Len(t) \in Nat /\ DOMAIN s = 1..Len(s) /\ DOMAIN t = 1..Len(t)
  BY ListFacts
<1>2. /\ \A n \in 1..Len(s) : s[n] \in S
      /\ \A n \in 1..Len(t) : t[n] \in S
      /\ s = [n \in 1..Len(s) |-> s[n]] /\ t = [n \in 1..Len(t) |-> t[n]]
  BY ListFacts
<1> HIDE DEF S
<1>3. s \in Seq(S) /\ t \in Seq(S) BY <1>1, <1>2
<1>4. /\ u \in Seq(S) /\ Len(u) = Len(s) + Len(t)
      /\ \A n \in 1..Len(s) : u[n] = s[n]
      /\ \A n \in 1..Len(t) : u[Len(s) + n] = t[n]
      /\ DOMAIN u = 1..(Len(s) + Len(t))
  BY <1>1, <1>3
<1> HIDE DEF u
<1>5. Members(u) = Members(s) \cup Members(t)
  <2>1. ASSUME NEW n \in 1..(Len(s) + Len(t)) PROVE u[n] \in Members(s) \cup Members(t)
    <3>1. CASE n <= Len(s)
      <4>1. n \in 1..Len(s) BY <1>1, <3>1
      <4> QED BY <1>1, <1>4, <4>1 DEF Members
    <3>2. CASE n > Len(s)
      <4>1. n - Len(s) \in 1..Len(t) /\ Len(s) + (n - Len(s)) = n BY <1>1, <3>2
      <4> QED BY <1>1, <1>4, <4>1 DEF Members
    <3> QED BY <1>1, <3>1, <3>2
  <2>2. ASSUME NEW n \in 1..Len(s) PROVE s[n] \in Members(u)
    <3>1. n \in 1..(Len(s) + Len(t)) BY <1>1
    <3> QED BY <1>4, <3>1 DEF Members
  <2>3. ASSUME NEW n \in 1..Len(t) PROVE t[n] \in Members(u)
    <3>1. Len(s) + n \in 1..(Len(s) + Len(t)) BY <1>1
    <3> QED BY <1>4, <3>1 DEF Members
  <2> QED BY <1>1, <1>4, <2>1, <2>2, <2>3 DEF Members
<1>6. IsList(u) /\ Joined(u, s, t) BY <1>4, ListOf DEF Joined
<1> QED BY <1>5, <1>6 DEF u

LEMMA Kept ==
  ASSUME NEW s, IsList(s), NEW T
  PROVE  IsList(Keep(s, T)) /\ Members(Keep(s, T)) = Members(s) \cap T
<1>1. s \in Seq(Members(s)) BY DEF IsList
<1>2. Keep(s, T) \in Seq(Members(s)) /\ Members(Keep(s, T)) = Members(s) \cap T
  BY <1>1, KeepKeeps
<1> QED BY <1>2, ListOf

\* The steps of Keep.
Keeping(kept, s, T) ==
  /\ kept[0] = <<>> /\ Keep(s, T) = kept[Len(s)]
  /\ \A n \in 1..Len(s) :
       kept[n] = IF s[n] \in T THEN Append(kept[n - 1], s[n]) ELSE kept[n - 1]

LEMMA KeepSteps ==
  ASSUME NEW s, IsList(s), NEW T
  PROVE  \E kept : Keeping(kept, s, T)
<1> DEFINE Law(f) == f = [n \in 0..Len(s) |->
             IF n = 0 THEN <<>>
             ELSE IF s[n] \in T THEN Append(f[n - 1], s[n]) ELSE f[n - 1]]
           kept == CHOOSE f : Law(f)
<1>1. Keep(s, T) = kept[Len(s)] BY DEF Keep
<1>2. s \in Seq(Members(s)) BY DEF IsList
<1>3. Law(kept)
  <2>1. \E f : Law(f) BY <1>2, KeepExists
  <2> HIDE DEF Law
  <2> QED BY <2>1
<1> HIDE DEF kept
<1>4. Len(s) \in Nat BY ListFacts
<1>5. kept[0] = <<>> BY <1>3, <1>4
<1>6. ASSUME NEW n \in 1..Len(s)
      PROVE  kept[n] = IF s[n] \in T THEN Append(kept[n - 1], s[n]) ELSE kept[n - 1]
  <2>1. n \in 0..Len(s) /\ n # 0 BY <1>4
  <2> QED BY <1>3, <2>1
<1> QED BY <1>1, <1>5, <1>6 DEF Keeping

\* The sum over what is kept is a sum with zeros for the rest.
Mapped(s, g) == [n \in DOMAIN s |-> g[s[n]]]
MappedIf(s, T, g) == [n \in DOMAIN s |-> IF s[n] \in T THEN g[s[n]] ELSE 0]

LEMMA MappedInt ==
  ASSUME NEW s, IsList(s), NEW g, \A x \in Members(s) : g[x] \in Int, NEW T
  PROVE  /\ Mapped(s, g) \in Seq(Int) /\ Len(Mapped(s, g)) = Len(s)
         /\ MappedIf(s, T, g) \in Seq(Int) /\ Len(MappedIf(s, T, g)) = Len(s)
<1>1. Len(s) \in Nat /\ DOMAIN s = 1..Len(s) /\ \A n \in 1..Len(s) : s[n] \in Members(s)
  BY ListFacts
<1>2. \A n \in 1..Len(s) : g[s[n]] \in Int BY <1>1
<1>3. [n \in 1..Len(s) |-> g[s[n]]] \in Seq(Int) /\ Len([n \in 1..Len(s) |-> g[s[n]]]) = Len(s)
  BY <1>1, <1>2
<1>4. [n \in 1..Len(s) |-> IF s[n] \in T THEN g[s[n]] ELSE 0] \in Seq(Int)
      /\ Len([n \in 1..Len(s) |-> IF s[n] \in T THEN g[s[n]] ELSE 0]) = Len(s)
  BY <1>1, <1>2
<1> QED BY <1>1, <1>3, <1>4 DEF Mapped, MappedIf

LEMMA MappedAppend ==
  ASSUME NEW s, IsList(s), NEW x, NEW g, g[x] \in Int, \A y \in Members(s) : g[y] \in Int
  PROVE  Total(Mapped(Append(s, x), g)) = Total(Mapped(s, g)) + g[x]
<1> DEFINE t == Append(s, x)
           a == Mapped(s, g)
           b == Mapped(t, g)
<1>1. /\ IsList(t) /\ Members(t) = Members(s) \cup {x} /\ Len(t) = Len(s) + 1
      /\ t[Len(s) + 1] = x /\ \A n \in 1..Len(s) : t[n] = s[n]
      /\ DOMAIN t = 1..(Len(s) + 1) /\ DOMAIN s = 1..Len(s) /\ Len(s) \in Nat
  BY Appended, ListFacts
<1> HIDE DEF t
<1>2. a \in Seq(Int) /\ Len(a) = Len(s) BY MappedInt
<1>3. b \in Seq(Int) /\ Len(b) = Len(s) + 1 BY <1>1, MappedInt
<1>4. \A n \in 1..Len(s) : b[n] = a[n] BY <1>1 DEF Mapped
<1>5. b[Len(s) + 1] = g[x] BY <1>1 DEF Mapped
<1> HIDE DEF a, b
<1>6. Total(b) = Total(a) + b[Len(b)] BY <1>2, <1>3, <1>4, TotalLonger
<1> QED BY <1>3, <1>5, <1>6 DEF a, b, t

LEMMA KeptTotal ==
  ASSUME NEW s, IsList(s), NEW T, NEW g, \A x \in Members(s) : g[x] \in Int
  PROVE  Total(Mapped(Keep(s, T), g)) = Total(MappedIf(s, T, g))
<1> DEFINE u == MappedIf(s, T, g)
<1>1. PICK kept : Keeping(kept, s, T) BY KeepSteps
<1>2. u \in Seq(Int) /\ Len(u) = Len(s) BY MappedInt
<1>3. Len(s) \in Nat /\ DOMAIN s = 1..Len(s) /\ \A n \in 1..Len(s) : s[n] \in Members(s)
  BY ListFacts
<1>4. \A n \in 1..Len(s) : u[n] = IF s[n] \in T THEN g[s[n]] ELSE 0 BY <1>3 DEF MappedIf
<1> HIDE DEF u
<1>5. PICK sum : Sums(sum, u) /\ Total(u) = sum[Len(s)] BY <1>2, PartialSums
<1> DEFINE Done(n) == /\ IsList(kept[n]) /\ Members(kept[n]) \subseteq Members(s)
                      /\ Total(Mapped(kept[n], g)) = sum[n]
           N == {n \in Nat : n > Len(s) \/ Done(n)}
<1>6. 0 \in N
  <2>1. kept[0] = <<>> /\ sum[0] = 0 BY <1>1, <1>5 DEF Keeping, Sums
  <2>2. Mapped(<<>>, g) = <<>> BY DEF Mapped
  <2> QED BY <2>1, <2>2, NoList, TotalNone
<1>7. ASSUME NEW n \in Nat, n \in N PROVE n + 1 \in N
  <2>1. CASE n + 1 > Len(s) BY <2>1
  <2>2. CASE n + 1 <= Len(s)
    <3>1. n + 1 \in 1..Len(s) /\ (n + 1) - 1 = n /\ n \in 0..Len(s) BY <1>3, <2>2
    <3>2. Done(n) BY <1>3, <1>7, <3>1
    <3>3. kept[n + 1] = IF s[n + 1] \in T THEN Append(kept[n], s[n + 1]) ELSE kept[n]
      BY <1>1, <3>1 DEF Keeping
    <3>4. sum[n + 1] = sum[n] + u[n + 1] /\ sum[n] \in Int BY <1>2, <1>5, <3>1 DEF Sums
    <3>5. s[n + 1] \in Members(s) /\ g[s[n + 1]] \in Int BY <1>3, <3>1
    <3>6. CASE s[n + 1] \in T
      <4>1. kept[n + 1] = Append(kept[n], s[n + 1]) BY <3>3, <3>6
      <4>2. \A y \in Members(kept[n]) : g[y] \in Int BY <3>2
      <4>3. Total(Mapped(kept[n + 1], g)) = Total(Mapped(kept[n], g)) + g[s[n + 1]]
        BY <3>2, <3>5, <4>1, <4>2, MappedAppend
      <4>4. IsList(kept[n + 1]) /\ Members(kept[n + 1]) = Members(kept[n]) \cup {s[n + 1]}
        BY <3>2, <4>1, Appended
      <4>5. u[n + 1] = g[s[n + 1]] BY <1>4, <3>1, <3>6
      <4> QED BY <3>2, <3>4, <3>5, <4>3, <4>4, <4>5
    <3>7. CASE s[n + 1] \notin T
      <4>1. kept[n + 1] = kept[n] /\ u[n + 1] = 0 BY <1>4, <3>1, <3>3, <3>7
      <4> QED BY <3>2, <3>4, <4>1
    <3> QED BY <3>6, <3>7
  <2> QED BY <1>3, <2>1, <2>2
<1>8. Len(s) \in N
  <2> HIDE DEF N
  <2> QED BY <1>3, <1>6, <1>7, Induction
<1>9. Done(Len(s)) BY <1>3, <1>8
<1> QED BY <1>1, <1>5, <1>9 DEF Keeping, u

\* The steps of Flatten.
Joining(joined, ss) ==
  /\ joined[0] = <<>> /\ Flatten(ss) = joined[Len(ss)]
  /\ \A n \in 1..Len(ss) : joined[n] = joined[n - 1] \o ss[n]

LEMMA FlattenSteps ==
  ASSUME NEW ss, IsList(ss), \A s \in Members(ss) : IsList(s)
  PROVE  \E joined : Joining(joined, ss)
<1> DEFINE V == Seq(UNION {Members(s) : s \in Members(ss)})
           Law(f) == f = [n \in 0..Len(ss) |-> IF n = 0 THEN <<>> ELSE f[n - 1] \o ss[n]]
           joined == CHOOSE f : Law(f)
<1>1. Len(ss) \in Nat /\ DOMAIN ss = 1..Len(ss) /\ \A n \in 1..Len(ss) : ss[n] \in Members(ss)
  BY ListFacts
<1>2. \E f : Law(f)
  <2> DEFINE step == [n \in 1..Len(ss) |-> [v \in V |-> v \o ss[n]]]
  <2>1. step \in [1..Len(ss) -> [V -> V]]
    <3>1. ASSUME NEW n \in 1..Len(ss) PROVE ss[n] \in V
      <4> DEFINE t == ss[n]
      <4>1. t \in Members(ss) /\ IsList(t) BY <1>1
      <4>2. Members(t) \subseteq UNION {Members(s) : s \in Members(ss)} BY <4>1
      <4> HIDE DEF t
      <4>3. /\ Len(t) \in Nat /\ t = [m \in 1..Len(t) |-> t[m]]
            /\ \A m \in 1..Len(t) : t[m] \in Members(t)
        BY <4>1, ListFacts
      <4>4. t \in V BY <4>2, <4>3
      <4> QED BY <4>4 DEF t
    <3>2. ASSUME NEW n \in 1..Len(ss), NEW v \in V PROVE v \o ss[n] \in V
      <4>1. ss[n] \in V BY <3>1
      <4> QED BY <4>1
    <3> HIDE DEF V
    <3> QED BY <3>2
  <2>2. <<>> \in V OBVIOUS
  <2> HIDE DEF step, V
  <2>3. PICK f : Recursive(f, Len(ss), V, <<>>, step) BY <1>1, <2>1, <2>2, Recursion
  <2>4. ASSUME NEW n \in 0..Len(ss) PROVE f[n] = IF n = 0 THEN <<>> ELSE f[n - 1] \o ss[n]
    <3>1. CASE n = 0 BY <2>3, <3>1 DEF Recursive
    <3>2. CASE n # 0
      <4>1. n \in 1..Len(ss) /\ n - 1 \in 0..Len(ss) BY <1>1, <3>2
      <4>2. f[n - 1] \in V /\ f[n] = step[n][f[n - 1]] BY <2>3, <4>1 DEF Recursive
      <4> QED BY <3>2, <4>1, <4>2 DEF step
    <3> QED BY <3>1, <3>2
  <2>5. f \in [0..Len(ss) -> V] BY <2>3 DEF Recursive
  <2>6. Law(f) BY <2>4, <2>5
  <2> QED BY <2>6
<1>3. Law(joined)
  <2> HIDE DEF Law
  <2> QED BY <1>2
<1>4. Flatten(ss) = joined[Len(ss)] BY DEF Flatten
<1> HIDE DEF joined
<1>5. joined[0] = <<>> /\ \A n \in 1..Len(ss) : joined[n] = joined[n - 1] \o ss[n]
  <2>1. joined[0] = <<>> BY <1>1, <1>3
  <2>2. ASSUME NEW n \in 1..Len(ss) PROVE joined[n] = joined[n - 1] \o ss[n]
    <3>1. n \in 0..Len(ss) /\ n # 0 BY <1>1
    <3> QED BY <1>3, <3>1
  <2> QED BY <2>1, <2>2
<1> QED BY <1>4, <1>5 DEF Joining

\* Flatten returns the members of the sequences.
LEMMA Flattened ==
  ASSUME NEW ss, IsList(ss), \A s \in Members(ss) : IsList(s)
  PROVE  /\ IsList(Flatten(ss))
         /\ Members(Flatten(ss)) = UNION {Members(s) : s \in Members(ss)}
<1>1. Len(ss) \in Nat /\ DOMAIN ss = 1..Len(ss) /\ \A n \in 1..Len(ss) : ss[n] \in Members(ss)
  BY ListFacts
<1>4. PICK joined : Joining(joined, ss) BY FlattenSteps
<1>5. joined[0] = <<>> /\ \A n \in 1..Len(ss) : joined[n] = joined[n - 1] \o ss[n]
  BY <1>4 DEF Joining
<1> DEFINE Done(n) == /\ IsList(joined[n])
                      /\ Members(joined[n]) = UNION {Members(ss[m]) : m \in 1..n}
           N == {n \in Nat : n > Len(ss) \/ Done(n)}
<1>6. 0 \in N BY <1>5, NoList
<1>7. ASSUME NEW n \in Nat, n \in N PROVE n + 1 \in N
  <2>1. CASE n + 1 > Len(ss) BY <2>1
  <2>2. CASE n + 1 <= Len(ss)
    <3>1. n + 1 \in 1..Len(ss) /\ (n + 1) - 1 = n BY <1>1, <2>2
    <3>2. Done(n) BY <1>1, <1>7, <2>2
    <3>3. joined[n + 1] = joined[n] \o ss[n + 1] BY <1>5, <3>1
    <3>4. IsList(ss[n + 1]) BY <1>1, <3>1
    <3>5. IsList(joined[n + 1])
          /\ Members(joined[n + 1]) = Members(joined[n]) \cup Members(ss[n + 1])
      BY <3>2, <3>3, <3>4, Concatenated
    <3>6. UNION {Members(ss[m]) : m \in 1..(n + 1)}
            = (UNION {Members(ss[m]) : m \in 1..n}) \cup Members(ss[n + 1])
      <4>1. \A m \in 1..(n + 1) : m \in 1..n \/ m = n + 1 OBVIOUS
      <4>2. n + 1 \in 1..(n + 1) /\ \A m \in 1..n : m \in 1..(n + 1) OBVIOUS
      <4> QED BY <4>1, <4>2
    <3> QED BY <3>2, <3>5, <3>6
  <2> QED BY <1>1, <2>1, <2>2
<1>8. Len(ss) \in N
  <2> HIDE DEF N
  <2> QED BY <1>1, <1>6, <1>7, Induction
<1>9. Done(Len(ss)) BY <1>1, <1>8
<1>10. UNION {Members(ss[m]) : m \in 1..Len(ss)} = UNION {Members(s) : s \in Members(ss)}
  BY <1>1 DEF Members
<1> QED BY <1>4, <1>9, <1>10 DEF Joining

-----------------------------------------------------------------------------
(***************************************************************************)
(* Sums over lists.                                                        *)
(***************************************************************************)
LEMMA TotalZero ==
  ASSUME NEW s \in Seq(Int), \A n \in 1..Len(s) : s[n] = 0
  PROVE  Total(s) = 0
<1> DEFINE g == [n \in 0..Len(s) |-> 0]
<1>1. Len(s) \in Nat OBVIOUS
<1>2. g \in [0..Len(s) -> Int] /\ g[0] = 0 /\ g[Len(s)] = 0 BY <1>1
<1>3. \A n \in 1..Len(s) : g[n] = g[n - 1] + s[n] BY <1>1
<1> HIDE DEF g
<1>4. Sums(g, s) BY <1>2, <1>3 DEF Sums
<1> QED BY <1>2, <1>4, PartialSumsAre

LEMMA MappedTail ==
  ASSUME NEW s, IsList(s), s # <<>>, NEW g, \A x \in Members(s) : g[x] \in Int
  PROVE  Total(Mapped(s, g)) = g[Head(s)] + Total(Mapped(Tail(s), g))
<1> DEFINE t == Tail(s)
           a == <<g[Head(s)]>>
           b == Mapped(t, g)
           u == Mapped(s, g)
<1>1. /\ Len(s) \in Nat /\ DOMAIN s = 1..Len(s) /\ Len(s) >= 1 /\ Head(s) = s[1]
      /\ IsList(t) /\ Len(t) = Len(s) - 1 /\ \A n \in 1..(Len(s) - 1) : t[n] = s[n + 1]
      /\ Members(t) \subseteq Members(s) /\ Head(s) \in Members(s)
  BY Tailed, ListFacts
<1>2. DOMAIN t = 1..(Len(s) - 1) BY <1>1, ListFacts
<1> HIDE DEF t
<1>3. a \in Seq(Int) /\ Len(a) = 1 /\ a[1] = g[Head(s)]
  <2>1. g[Head(s)] \in Int BY <1>1
  <2> QED BY <2>1
<1>4. b \in Seq(Int) /\ Len(b) = Len(s) - 1 BY <1>1, MappedInt
<1>5. u \in Seq(Int) /\ Len(u) = Len(s) BY MappedInt
<1>6. u[1] = a[1] BY <1>1, <1>3 DEF Mapped
<1>7. \A n \in 1..(Len(s) - 1) : u[1 + n] = b[n]
  <2> SUFFICES ASSUME NEW n \in 1..(Len(s) - 1) PROVE u[1 + n] = b[n] OBVIOUS
  <2>1. 1 + n \in 1..Len(s) /\ n + 1 = 1 + n BY <1>1
  <2> QED BY <1>1, <1>2, <2>1 DEF Mapped
<1> HIDE DEF a, b, u
<1>8. Joined(u, a, b) BY <1>1, <1>3, <1>4, <1>5, <1>6, <1>7 DEF Joined
<1>9. Total(u) = Total(a) + Total(b) BY <1>3, <1>4, <1>5, <1>8, TotalJoined
<1>10. Total(a) = a[1]
  <2>1. 1 \in 1..Len(a) /\ \A n \in 1..Len(a) : n # 1 => a[n] = 0 BY <1>3
  <2> QED BY <1>3, <2>1, TotalSpike
<1> QED BY <1>3, <1>9, <1>10 DEF b, u, t

LEMMA MappedJoined ==
  ASSUME NEW s, IsList(s), NEW t, IsList(t), NEW g,
         \A x \in Members(s) \cup Members(t) : g[x] \in Int
  PROVE  Total(Mapped(s \o t, g)) = Total(Mapped(s, g)) + Total(Mapped(t, g))
<1> DEFINE v == s \o t
           a == Mapped(s, g)
           b == Mapped(t, g)
           u == Mapped(v, g)
<1>1. /\ Len(s) \in Nat /\ DOMAIN s = 1..Len(s) /\ Len(t) \in Nat /\ DOMAIN t = 1..Len(t)
  BY ListFacts
<1>2. IsList(v) /\ Members(v) = Members(s) \cup Members(t) /\ Joined(v, s, t)
  BY Concatenated
<1> HIDE DEF v
<1>3. Len(v) = Len(s) + Len(t) /\ DOMAIN v = 1..(Len(s) + Len(t))
  BY <1>2, ListFacts DEF Joined
<1>4. a \in Seq(Int) /\ Len(a) = Len(s) BY MappedInt
<1>5. b \in Seq(Int) /\ Len(b) = Len(t) BY MappedInt
<1>6. u \in Seq(Int) /\ Len(u) = Len(s) + Len(t) BY <1>2, <1>3, MappedInt
<1>7. ASSUME NEW n \in 1..Len(s) PROVE u[n] = a[n]
  <2>1. n \in DOMAIN v BY <1>1, <1>3
  <2>2. v[n] = s[n] BY <1>2 DEF Joined
  <2> QED BY <1>1, <2>1, <2>2 DEF Mapped
<1>8. ASSUME NEW n \in 1..Len(t) PROVE u[Len(s) + n] = b[n]
  <2>1. Len(s) + n \in DOMAIN v BY <1>1, <1>3
  <2>2. v[Len(s) + n] = t[n] BY <1>2 DEF Joined
  <2> QED BY <1>1, <2>1, <2>2 DEF Mapped
<1> HIDE DEF a, b, u
<1>9. Joined(u, a, b) BY <1>4, <1>5, <1>6, <1>7, <1>8 DEF Joined
<1> QED BY <1>4, <1>5, <1>6, <1>9, TotalJoined DEF a, b, u, v

\* A function over the places of a list is a list.
LEMMA MadeOf ==
  ASSUME NEW s, IsList(s), NEW f, f = [n \in DOMAIN s |-> f[n]]
  PROVE  IsList(f) /\ Len(f) = Len(s) /\ DOMAIN f = DOMAIN s
<1>1. Len(s) \in Nat /\ DOMAIN s = 1..Len(s) BY ListFacts
<1>2. f = [n \in 1..Len(s) |-> f[n]] BY <1>1
<1>3. DOMAIN f = 1..Len(s) BY <1>2, Zenon
<1> QED BY <1>1, <1>2, <1>3, ListIs

\* Keep keeps all of what it could keep.
LEMMA KeptWhole ==
  ASSUME NEW s, IsList(s), NEW T, Members(s) \subseteq T
  PROVE  Keep(s, T) = s
<1>1. PICK kept : Keeping(kept, s, T) BY KeepSteps
<1> DEFINE Same(t, n) == IsList(t) /\ Len(t) = n /\ \A m \in 1..n : t[m] = s[m]
           M == {n \in Nat : n > Len(s) \/ Same(kept[n], n)}
<1>2. Len(s) \in Nat /\ \A n \in 1..Len(s) : s[n] \in T BY ListFacts
<1>3. 0 \in M BY <1>1, NoList DEF Keeping
<1>4. ASSUME NEW n \in Nat, n \in M PROVE n + 1 \in M
  <2>1. CASE n + 1 > Len(s) BY <2>1
  <2>2. CASE n + 1 <= Len(s)
    <3>1. n + 1 \in 1..Len(s) /\ (n + 1) - 1 = n BY <1>2, <2>2
    <3>2. PICK t, u : t = kept[n] /\ u = kept[n + 1] OBVIOUS
    <3>3. Same(t, n) BY <1>2, <1>4, <2>2, <3>2
    <3>4. u = Append(t, s[n + 1]) BY <1>1, <1>2, <3>1, <3>2 DEF Keeping
    <3>5. IsList(u) /\ Len(u) = n + 1 /\ u[n + 1] = s[n + 1] /\ \A m \in 1..n : u[m] = t[m]
      BY <3>3, <3>4, Appended
    <3>6. Same(u, n + 1) BY <3>3, <3>5
    <3> QED BY <3>2, <3>6
  <2> QED BY <1>2, <2>1, <2>2
<1>5. Len(s) \in M
  <2> HIDE DEF M
  <2> QED BY <1>2, <1>3, <1>4, Induction
<1>6. PICK t : t = Keep(s, T) /\ Same(t, Len(s)) BY <1>1, <1>2, <1>5 DEF Keeping
<1>7. t = [n \in 1..Len(s) |-> t[n]] /\ s = [n \in 1..Len(s) |-> s[n]] BY <1>6, ListFacts
<1>8. t = s BY <1>6, <1>7
<1> QED BY <1>6, <1>8
-----------------------------------------------------------------------------
(***************************************************************************)
(* Lists whose elements differ in a key.                                   *)
(***************************************************************************)
Apart(s, key) == \A i, j \in DOMAIN s : key[s[i]] = key[s[j]] => i = j

\* Each element that Keep keeps has a place of its own among all.
Places(m, t, s) ==
  /\ \A i \in DOMAIN t : m[i] \in DOMAIN s /\ t[i] = s[m[i]]
  /\ \A i, j \in DOMAIN t : m[i] = m[j] => i = j

LEMMA KeptPlaces ==
  ASSUME NEW s, IsList(s), NEW T
  PROVE  \E m : Places(m, Keep(s, T), s)
<1>1. PICK kept : Keeping(kept, s, T) BY KeepSteps
<1> DEFINE Found(t, n) ==
             /\ IsList(t)
             /\ \E m : /\ \A i \in 1..Len(t) : m[i] \in 1..n /\ t[i] = s[m[i]]
                       /\ \A i, j \in 1..Len(t) : m[i] = m[j] => i = j
           M == {n \in Nat : n > Len(s) \/ Found(kept[n], n)}
<1>2. Len(s) \in Nat /\ DOMAIN s = 1..Len(s) BY ListFacts
<1>3. 0 \in M
  <2>1. IsList(kept[0]) /\ Len(kept[0]) = 0 BY <1>1, NoList DEF Keeping
  <2> QED BY <2>1
<1>4. ASSUME NEW n \in Nat, n \in M PROVE n + 1 \in M
  <2>1. CASE n + 1 > Len(s) BY <2>1
  <2>2. CASE n + 1 <= Len(s)
    <3>1. n + 1 \in 1..Len(s) /\ (n + 1) - 1 = n BY <1>2, <2>2
    <3>2. PICK t, u : t = kept[n] /\ u = kept[n + 1] OBVIOUS
    <3>3. Found(t, n) BY <1>2, <1>4, <2>2, <3>2
    <3>4. Len(t) \in Nat BY <3>3, ListFacts
    <3>5. PICK m : /\ \A i \in 1..Len(t) : m[i] \in 1..n /\ t[i] = s[m[i]]
                   /\ \A i, j \in 1..Len(t) : m[i] = m[j] => i = j
      BY <3>3
    <3>6. CASE s[n + 1] \notin T
      <4>1. u = t BY <1>1, <3>1, <3>2, <3>6 DEF Keeping
      <4>2. \A i \in 1..Len(t) : m[i] \in 1..(n + 1) BY <3>5
      <4>3. Found(u, n + 1) BY <3>3, <3>5, <4>1, <4>2
      <4> QED BY <3>2, <4>3
    <3>7. CASE s[n + 1] \in T
      <4> DEFINE w == [i \in 1..(Len(t) + 1) |-> IF i = Len(t) + 1 THEN n + 1 ELSE m[i]]
      <4>1. u = Append(t, s[n + 1]) BY <1>1, <3>1, <3>2, <3>7 DEF Keeping
      <4>2. /\ IsList(u) /\ Len(u) = Len(t) + 1 /\ u[Len(t) + 1] = s[n + 1]
            /\ \A i \in 1..Len(t) : u[i] = t[i]
        BY <3>3, <4>1, Appended
      <4>3. \A i \in 1..Len(u) : i = Len(t) + 1 \/ i \in 1..Len(t) BY <3>4, <4>2
      <4>4. w[Len(t) + 1] = n + 1 /\ \A i \in 1..Len(t) : w[i] = m[i] BY <3>4
      <4> HIDE DEF w
      <4>5. ASSUME NEW i \in 1..Len(u) PROVE w[i] \in 1..(n + 1) /\ u[i] = s[w[i]]
        <5>1. CASE i = Len(t) + 1 BY <4>2, <4>4, <5>1
        <5>2. CASE i \in 1..Len(t)
          <6>1. m[i] \in 1..n BY <3>5, <5>2
          <6>2. m[i] \in 1..(n + 1) BY <6>1
          <6> QED BY <3>5, <4>2, <4>4, <5>2, <6>2
        <5> QED BY <4>3, <5>1, <5>2
      <4>6. ASSUME NEW i \in 1..Len(u), NEW j \in 1..Len(u), w[i] = w[j] PROVE i = j
        <5>1. CASE i \in 1..Len(t) /\ j \in 1..Len(t) BY <3>5, <4>4, <4>6, <5>1
        <5>2. CASE i = Len(t) + 1 /\ j \in 1..Len(t)
          <6>1. m[j] \in 1..n /\ n + 1 = m[j] BY <3>5, <4>4, <4>6, <5>2
          <6> QED BY <6>1
        <5>3. CASE j = Len(t) + 1 /\ i \in 1..Len(t)
          <6>1. m[i] \in 1..n /\ n + 1 = m[i] BY <3>5, <4>4, <4>6, <5>3
          <6> QED BY <6>1
        <5> QED BY <4>3, <5>1, <5>2, <5>3
      <4>7. Found(u, n + 1) BY <4>2, <4>5, <4>6
      <4> QED BY <3>2, <4>7
    <3> QED BY <3>6, <3>7
  <2> QED BY <1>2, <2>1, <2>2
<1>5. Len(s) \in M
  <2> HIDE DEF M
  <2> QED BY <1>2, <1>3, <1>4, Induction
<1>6. PICK t : t = Keep(s, T) /\ Found(t, Len(s))
  <2>1. Found(kept[Len(s)], Len(s)) BY <1>2, <1>5
  <2>2. kept[Len(s)] = Keep(s, T) BY <1>1 DEF Keeping
  <2> HIDE DEF Found
  <2> QED BY <2>1, <2>2
<1>7. DOMAIN t = 1..Len(t) BY <1>6, ListFacts
<1>8. PICK m : /\ \A i \in 1..Len(t) : m[i] \in 1..Len(s) /\ t[i] = s[m[i]]
               /\ \A i, j \in 1..Len(t) : m[i] = m[j] => i = j
  BY <1>6
<1>9. Places(m, t, s) BY <1>2, <1>7, <1>8 DEF Places
<1> QED BY <1>6, <1>9

LEMMA JoinedApart ==
  ASSUME NEW s, IsList(s), NEW t, IsList(t), NEW key, Apart(s, key), Apart(t, key),
         \A x \in Members(s), y \in Members(t) : key[x] # key[y]
  PROVE  Apart(s \o t, key)
<1>1. PICK u : u = s \o t /\ IsList(u) /\ Joined(u, s, t) BY Concatenated
<1>2. /\ Len(s) \in Nat /\ Len(t) \in Nat /\ DOMAIN s = 1..Len(s) /\ DOMAIN t = 1..Len(t)
      /\ DOMAIN u = 1..(Len(s) + Len(t))
      /\ \A n \in 1..Len(s) : s[n] \in Members(s)
      /\ \A n \in 1..Len(t) : t[n] \in Members(t)
  BY <1>1, ListFacts DEF Joined
<1>3. ASSUME NEW n \in DOMAIN u
      PROVE  \/ n \in 1..Len(s) /\ u[n] = s[n]
             \/ \E k \in 1..Len(t) : n = Len(s) + k /\ u[n] = t[k]
  <2>1. CASE n <= Len(s) BY <1>1, <1>2, <2>1 DEF Joined
  <2>2. CASE n > Len(s)
    <3>1. n - Len(s) \in 1..Len(t) /\ n = Len(s) + (n - Len(s)) BY <1>2, <2>2
    <3> QED BY <1>1, <3>1 DEF Joined
  <2> QED BY <1>2, <2>1, <2>2
<1>4. ASSUME NEW i \in DOMAIN u, NEW j \in DOMAIN u, key[u[i]] = key[u[j]] PROVE i = j
  <2>1. CASE i \in 1..Len(s) /\ u[i] = s[i] /\ j \in 1..Len(s) /\ u[j] = s[j]
    BY <1>2, <1>4, <2>1 DEF Apart
  <2>2. ASSUME NEW k \in 1..Len(t), i = Len(s) + k, u[i] = t[k],
               NEW m \in 1..Len(t), j = Len(s) + m, u[j] = t[m]
        PROVE  i = j
    BY <1>2, <1>4, <2>2 DEF Apart
  <2>3. ASSUME NEW a \in 1..Len(s), NEW b \in 1..Len(t),
               (u[i] = s[a] /\ u[j] = t[b]) \/ (u[j] = s[a] /\ u[i] = t[b])
        PROVE  FALSE
    BY <1>2, <1>4, <2>3
  <2> QED BY <1>3, <2>1, <2>2, <2>3
<1> QED BY <1>1, <1>4 DEF Apart

LEMMA FlattenedApart ==
  ASSUME NEW ss, IsList(ss), \A s \in Members(ss) : IsList(s), NEW key,
         \A n \in DOMAIN ss : Apart(ss[n], key),
         \A n, m \in DOMAIN ss : \A x \in Members(ss[n]), y \in Members(ss[m]) :
           key[x] = key[y] => n = m
  PROVE  Apart(Flatten(ss), key)
<1>1. Len(ss) \in Nat /\ DOMAIN ss = 1..Len(ss) /\ \A n \in 1..Len(ss) : IsList(ss[n])
  <2>1. \A n \in 1..Len(ss) : ss[n] \in Members(ss) BY ListFacts
  <2> QED BY <2>1, ListFacts
<1>2. PICK joined : Joining(joined, ss) BY FlattenSteps
<1> DEFINE Done(n) ==
             /\ IsList(joined[n]) /\ Apart(joined[n], key)
             /\ \A x \in Members(joined[n]) : \E m \in 1..n : x \in Members(ss[m])
           N == {n \in Nat : n > Len(ss) \/ Done(n)}
<1>3. 0 \in N
  <2>1. joined[0] = <<>> BY <1>2 DEF Joining
  <2>2. Apart(<<>>, key) BY DEF Apart
  <2> QED BY <2>1, <2>2, NoList
<1>4. ASSUME NEW n \in Nat, n \in N PROVE n + 1 \in N
  <2>1. CASE n + 1 > Len(ss) BY <2>1
  <2>2. CASE n + 1 <= Len(ss)
    <3>1. n + 1 \in 1..Len(ss) /\ (n + 1) - 1 = n BY <1>1, <2>2
    <3>2. Done(n) BY <1>1, <1>4, <2>2
    <3>3. PICK s, t, u : s = joined[n] /\ t = ss[n + 1] /\ u = joined[n + 1] OBVIOUS
    <3>4. u = s \o t BY <1>2, <3>1, <3>3 DEF Joining
    <3>5. IsList(s) /\ Apart(s, key) /\ IsList(t) /\ Apart(t, key) BY <1>1, <3>1, <3>2, <3>3
    <3>6. ASSUME NEW x \in Members(s), NEW y \in Members(t) PROVE key[x] # key[y]
      <4>1. PICK m \in 1..n : x \in Members(ss[m]) BY <3>2, <3>3
      <4>2. m \in DOMAIN ss /\ n + 1 \in DOMAIN ss /\ m # n + 1 BY <1>1, <3>1
      <4> QED BY <3>3, <4>1, <4>2
    <3>7. Apart(u, key) BY <3>4, <3>5, <3>6, JoinedApart
    <3>8. IsList(u) /\ Members(u) = Members(s) \cup Members(t) BY <3>4, <3>5, Concatenated
    <3>9. ASSUME NEW x \in Members(u) PROVE \E m \in 1..(n + 1) : x \in Members(ss[m])
      <4>1. CASE x \in Members(s)
        <5>1. PICK m \in 1..n : x \in Members(ss[m]) BY <3>2, <3>3, <4>1
        <5>2. m \in 1..(n + 1) OBVIOUS
        <5> QED BY <5>1, <5>2
      <4>2. CASE x \in Members(t)
        <5>1. n + 1 \in 1..(n + 1) OBVIOUS
        <5> QED BY <3>3, <4>2, <5>1
      <4> QED BY <3>8, <4>1, <4>2
    <3>10. Done(n + 1) BY <3>3, <3>7, <3>8, <3>9
    <3> QED BY <3>10
  <2> QED BY <1>1, <2>1, <2>2
<1>5. Len(ss) \in N
  <2> HIDE DEF N
  <2> QED BY <1>1, <1>3, <1>4, Induction
<1>6. Done(Len(ss)) BY <1>1, <1>5
<1> QED BY <1>2, <1>6 DEF Joining

\* All members of a list but its head are in its tail.
LEMMA TailMembers ==
  ASSUME NEW s, IsList(s), s # <<>>
  PROVE  Members(s) = {Head(s)} \cup Members(Tail(s))
<1> DEFINE t == Tail(s)
<1>1. /\ IsList(t) /\ Members(t) \subseteq Members(s) /\ Len(t) = Len(s) - 1
      /\ \A n \in 1..(Len(s) - 1) : t[n] = s[n + 1]
      /\ Head(s) = s[1] /\ Head(s) \in Members(s) /\ Len(s) >= 1
  BY Tailed
<1> HIDE DEF t
<1>2. Len(s) \in Nat /\ DOMAIN s = 1..Len(s) BY ListFacts
<1>3. DOMAIN t = 1..Len(t) BY <1>1, ListFacts
<1>4. ASSUME NEW n \in 1..Len(s) PROVE s[n] \in {Head(s)} \cup Members(t)
  <2>1. CASE n = 1 BY <1>1, <2>1
  <2>2. CASE n # 1
    <3>1. n - 1 \in 1..(Len(s) - 1) /\ (n - 1) + 1 = n BY <1>2, <2>2
    <3>2. t[n - 1] = s[n] /\ n - 1 \in DOMAIN t BY <1>1, <1>3, <3>1
    <3> QED BY <3>2 DEF Members
  <2> QED BY <2>1, <2>2
<1>5. \A x \in Members(s) : x \in {Head(s)} \cup Members(t) BY <1>2, <1>4 DEF Members
<1> QED BY <1>1, <1>5 DEF t
================================================================================
