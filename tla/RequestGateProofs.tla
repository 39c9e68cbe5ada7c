--------------------------- MODULE RequestGateProofs ---------------------------
(***************************************************************************)
(* Theorems about RequestGate, for any set of requests, any budget, delay  *)
(* and number of retries, and a clock without bound.                       *)
(***************************************************************************)
EXTENDS RequestGate, SequenceTheorems, FiniteSetTheorems, TLAPS

(***************************************************************************)
(* The inductive invariant.                                                *)
(***************************************************************************)
Running == {r \in Requests : state[r] = "running"}

\* The count can be trusted: every request in the queue waits there once, so
\* starting one always adds one to the requests in flight.
QueueHoldsWaiting ==
  /\ \A i \in 1..Len(queue) : state[queue[i]] = "queued"
  /\ \A i, j \in 1..Len(queue) : i # j => queue[i] # queue[j]

\* nextStartAt keeps the distance from the last start.
NextStartKept ==
  startTimes # <<>> => startTimes[Len(startTimes)] + DelayMs <= nextStartAt

IInv ==
  /\ TypeOK
  /\ IsFiniteSet(Running)
  /\ WithinBudget
  /\ QueueHoldsWaiting
  /\ StartedInOrder
  /\ NextStartKept
  /\ StartsSpaced
  /\ NeverStalled

USE DEF States

LEMMA InitIInv == Init => IInv
<1> SUFFICES ASSUME Init PROVE IInv OBVIOUS
<1> USE DEF Init
<1>1. Running = {} BY DEF Running
<1>2. IsFiniteSet(Running) /\ Cardinality(Running) = 0 BY <1>1, FS_EmptySet
<1>3. TypeOK
  <2>1. 0 \in 0..MaxRetries BY GateAssumption
  <2>2. <<>> \in Seq(Requests) /\ <<>> \in Seq(Nat) BY EmptySeq
  <2> QED BY <2>1, <2>2 DEF TypeOK
<1>4. WithinBudget BY <1>2, GateAssumption DEF WithinBudget, Running
<1>5. StartedInOrder BY ConcatEmptySeq, EmptySeq DEF StartedInOrder
<1>6. QueueHoldsWaiting /\ NextStartKept /\ StartsSpaced /\ NeverStalled
  BY GateAssumption DEF QueueHoldsWaiting, NextStartKept, StartsSpaced, NeverStalled
<1> QED BY <1>2, <1>3, <1>4, <1>5, <1>6 DEF IInv

\* The steps as the lemmas below take them apart.
LEMMA StepCases ==
  ASSUME [Next]_vars
  PROVE  \/ \E r \in Requests : Enqueue(r)
         \/ \E r \in Requests, outcome \in {"resolved", "rejected"} : Settle(r, outcome)
         \/ \E r \in Requests : RateLimited(r)
         \/ DrainStarts
         \/ DrainStops \/ DrainWaits \/ WakeUp
         \/ Tick \/ UNCHANGED vars
BY DEF Next, Run, Retry, Succeed, Fail

\* A request in flight accounts for one of the count.
LEMMA InFlightIsCounted ==
  ASSUME IInv, NEW r \in Requests, state[r] = "running"
  PROVE  /\ active \in Nat \ {0} /\ active - 1 \in Nat
         /\ IsFiniteSet(Running \ {r}) /\ Cardinality(Running \ {r}) = active - 1
<1>1. r \in Running BY DEF Running
<1>2. IsFiniteSet(Running) /\ active = Cardinality(Running)
  BY DEF IInv, WithinBudget, Running
<1>3. IsFiniteSet(Running \ {r}) /\ Cardinality(Running \ {r}) = active - 1
  BY <1>1, <1>2, FS_RemoveElement
<1>4. Cardinality(Running \ {r}) \in Nat BY <1>3, FS_CardinalityType
<1>5. active \in Nat BY DEF IInv, TypeOK
<1> QED BY <1>3, <1>4, <1>5

\* The head of the queue is a request that is not in flight.
LEMMA HeadWaits ==
  ASSUME IInv, queue # <<>>
  PROVE  /\ Head(queue) \in Requests /\ Tail(queue) \in Seq(Requests)
         /\ Len(queue) \in Nat \ {0} /\ Len(Tail(queue)) = Len(queue) - 1
         /\ \A i \in 1..Len(Tail(queue)) : Tail(queue)[i] = queue[i + 1]
         /\ Head(queue) = queue[1] /\ state[Head(queue)] = "queued"
<1>1. queue \in Seq(Requests) BY DEF IInv, TypeOK
<1>2. /\ Head(queue) \in Requests /\ Tail(queue) \in Seq(Requests)
      /\ Len(Tail(queue)) = Len(queue) - 1
      /\ \A i \in 1..Len(Tail(queue)) : Tail(queue)[i] = queue[i + 1]
  BY <1>1, HeadTailProperties
<1>3. Len(queue) \in Nat \ {0} BY <1>1, EmptySeq
<1>4. Head(queue) = queue[1] BY <1>1, <1>3
<1>5. state[queue[1]] = "queued" BY <1>3 DEF IInv, QueueHoldsWaiting
<1> QED BY <1>2, <1>3, <1>4, <1>5

(***************************************************************************)
(* One lemma per conjunct.                                                 *)
(***************************************************************************)
LEMMA TypeKept ==
  ASSUME IInv, [Next]_vars
  PROVE  TypeOK'
<1> USE GateAssumption DEF TypeOK
<1>0. TypeOK BY DEF IInv
<1>1. ASSUME NEW r \in Requests, Enqueue(r) PROVE TypeOK'
  <2>1. Append(queue, r) \in Seq(Requests) /\ Append(calls, r) \in Seq(Requests)
    BY <1>0, AppendProperties
  <2> QED BY <1>0, <1>1, <2>1 DEF Enqueue
<1>2. ASSUME NEW r \in Requests, NEW outcome \in {"resolved", "rejected"}, Settle(r, outcome)
      PROVE TypeOK'
  BY <1>0, <1>2, InFlightIsCounted DEF Settle, Release, history
<1>3. ASSUME NEW r \in Requests, RateLimited(r) PROVE TypeOK'
  <2>1. active' \in Nat BY <1>3, InFlightIsCounted DEF RateLimited, Release
  <2>2. attempt' \in [Requests -> 0..MaxRetries] BY <1>0, <1>3 DEF RateLimited
  <2>3. DOMAIN retryAt' = Requests BY <1>0, <1>3 DEF RateLimited
  <2> QED BY <1>0, <1>3, <2>1, <2>2, <2>3 DEF RateLimited, Release, history
<1>4. CASE DrainStarts
  <2>1. Head(queue) \in Requests /\ Tail(queue) \in Seq(Requests)
    BY <1>4, HeadWaits DEF DrainStarts, Room
  <2>2. Append(started, Head(queue)) \in Seq(Requests) /\ Append(startTimes, now) \in Seq(Nat)
    BY <1>0, <2>1, AppendProperties
  <2> QED BY <1>0, <1>4, <2>1, <2>2 DEF DrainStarts, NextStart
<1>5. CASE DrainStops \/ DrainWaits \/ WakeUp
  BY <1>0, <1>5 DEF DrainStops, DrainWaits, WakeUp, history
<1>6. CASE Tick \/ UNCHANGED vars
  BY <1>0, <1>6 DEF Tick, vars, gate, history
<1> QED BY <1>1, <1>2, <1>3, <1>4, <1>5, <1>6, StepCases

LEMMA BudgetKept ==
  ASSUME IInv, [Next]_vars
  PROVE  IsFiniteSet(Running)' /\ WithinBudget'
<1>0. /\ TypeOK /\ IsFiniteSet(Running) /\ active = Cardinality(Running)
      /\ active \in Nat /\ active <= Concurrency /\ Concurrency \in Nat
  BY GateAssumption DEF IInv, WithinBudget, Running, TypeOK
<1>1. ASSUME Running' = Running, active' = active
      PROVE IsFiniteSet(Running)' /\ WithinBudget'
  BY <1>0, <1>1 DEF WithinBudget, Running
<1>2. ASSUME NEW r \in Requests, Enqueue(r), state[r] # "running"
      PROVE Running' = Running /\ active' = active
  BY <1>0, <1>2 DEF Enqueue, Running, TypeOK
<1>3. ASSUME NEW r \in Requests, Run(r) \/ Retry(r) PROVE Running' = Running /\ active' = active
  BY <1>2, <1>3 DEF Run, Retry
<1>4. ASSUME NEW r \in Requests, state[r] = "running", active' = active - 1,
             NEW after \in {"resolved", "rejected", "sleeping"},
             state' = [state EXCEPT ![r] = after]
      PROVE IsFiniteSet(Running)' /\ WithinBudget'
  <2>1. Running' = Running \ {r} BY <1>0, <1>4 DEF Running, TypeOK
  <2> QED BY <1>0, <1>4, <2>1, InFlightIsCounted DEF WithinBudget, Running
<1>5. CASE DrainStarts
  <2>1. Head(queue) \in Requests /\ state[Head(queue)] = "queued"
    BY <1>5, HeadWaits DEF DrainStarts, Room
  <2>2. Running' = Running \cup {Head(queue)} /\ Head(queue) \notin Running
    BY <1>0, <1>5, <2>1 DEF DrainStarts, Running, TypeOK
  <2>3. IsFiniteSet(Running') /\ Cardinality(Running') = active + 1
    BY <1>0, <2>2, FS_AddElement
  <2> QED BY <1>0, <1>5, <2>3 DEF DrainStarts, Room, WithinBudget, Running
<1>6. CASE DrainStops \/ DrainWaits \/ WakeUp \/ Tick \/ UNCHANGED vars
  BY <1>1, <1>6 DEF DrainStops, DrainWaits, WakeUp, Tick, vars, gate, history, Running
<1>7. CASE \E r \in Requests : Succeed(r) \/ Fail(r) \/ RateLimited(r)
  BY <1>4, <1>7 DEF Succeed, Fail, Settle, RateLimited, Release
<1> QED BY <1>1, <1>3, <1>5, <1>6, <1>7 DEF Next

LEMMA QueueKept ==
  ASSUME IInv, [Next]_vars
  PROVE  QueueHoldsWaiting'
<1>0. TypeOK /\ QueueHoldsWaiting /\ queue \in Seq(Requests) BY DEF IInv, TypeOK
<1>1. ASSUME NEW r \in Requests, Enqueue(r), state[r] # "queued" PROVE QueueHoldsWaiting'
  <2>1. /\ Len(queue') = Len(queue) + 1 /\ Len(queue) \in Nat
        /\ \A i \in 1..Len(queue) : queue'[i] = queue[i]
        /\ queue'[Len(queue) + 1] = r
    BY <1>0, <1>1, AppendProperties, LenProperties DEF Enqueue
  <2>2. \A i \in 1..Len(queue) : queue[i] \in Requests /\ queue[i] # r
    BY <1>0, <1>1, LenProperties DEF QueueHoldsWaiting
  <2>3. \A s \in Requests : state'[s] = IF s = r THEN "queued" ELSE state[s]
    BY <1>0, <1>1 DEF Enqueue, TypeOK
  <2>4. \A i \in 1..Len(queue)' : i \in 1..Len(queue) \/ i = Len(queue) + 1
    BY <2>1
  <2> QED BY <1>0, <2>1, <2>2, <2>3, <2>4 DEF QueueHoldsWaiting
<1>2. ASSUME NEW r \in Requests, state[r] = "running", queue' = queue, NEW after,
             state' = [state EXCEPT ![r] = after]
      PROVE QueueHoldsWaiting'
  <2>1. \A i \in 1..Len(queue) : queue[i] \in Requests /\ queue[i] # r
    BY <1>0, <1>2, LenProperties DEF QueueHoldsWaiting
  <2> QED BY <1>0, <1>2, <2>1 DEF QueueHoldsWaiting, TypeOK
<1>3. CASE DrainStarts
  <2>1. /\ Head(queue) = queue[1] /\ Head(queue) \in Requests
        /\ Len(queue) \in Nat \ {0} /\ Len(queue') = Len(queue) - 1
        /\ \A i \in 1..Len(queue') : queue'[i] = queue[i + 1]
    BY <1>3, HeadWaits DEF DrainStarts, Room
  <2>2. \A i \in 1..Len(queue') : i + 1 \in 1..Len(queue) /\ i + 1 # 1 BY <2>1
  <2>3. \A i \in 1..Len(queue) : queue[i] \in Requests BY <1>0, LenProperties
  <2>4. \A i \in 1..Len(queue') : queue'[i] \in Requests /\ queue'[i] # Head(queue)
    BY <1>0, <2>1, <2>2, <2>3 DEF QueueHoldsWaiting
  <2>5. \A s \in Requests \ {Head(queue)} : state'[s] = state[s]
    BY <1>0, <1>3 DEF DrainStarts, TypeOK
  <2>6. \A i \in 1..Len(queue') : state'[queue'[i]] = "queued"
    BY <1>0, <2>1, <2>2, <2>4, <2>5 DEF QueueHoldsWaiting
  <2>7. ASSUME NEW i \in 1..Len(queue'), NEW j \in 1..Len(queue'), i # j
        PROVE queue'[i] # queue'[j]
    BY <1>0, <2>1, <2>2, <2>7 DEF QueueHoldsWaiting
  <2> QED BY <2>6, <2>7 DEF QueueHoldsWaiting
<1>4. CASE DrainStops \/ DrainWaits \/ WakeUp \/ Tick \/ UNCHANGED vars
  BY <1>0, <1>4 DEF DrainStops, DrainWaits, WakeUp, Tick, vars, gate, history, QueueHoldsWaiting
<1>5. CASE \E r \in Requests : Run(r) \/ Retry(r)
  BY <1>1, <1>5 DEF Run, Retry
<1>6. CASE \E r \in Requests : Succeed(r) \/ Fail(r) \/ RateLimited(r)
  BY <1>2, <1>6 DEF Succeed, Fail, Settle, RateLimited, Release
<1> QED BY <1>3, <1>4, <1>5, <1>6 DEF Next

LEMMA OrderKept ==
  ASSUME IInv, [Next]_vars
  PROVE  StartedInOrder'
<1>0. /\ calls = started \o queue
      /\ started \in Seq(Requests) /\ queue \in Seq(Requests) /\ calls \in Seq(Requests)
  BY DEF IInv, TypeOK, StartedInOrder
<1>1. ASSUME NEW r \in Requests, Enqueue(r) PROVE StartedInOrder'
  <2>1. <<r>> \in Seq(Requests) OBVIOUS
  <2>2. Append(calls, r) = (started \o queue) \o <<r>> BY <1>0, AppendIsConcat
  <2>3. @ = started \o (queue \o <<r>>) BY <1>0, <2>1, ConcatAssociative
  <2>4. @ = started \o Append(queue, r) BY <1>0, AppendIsConcat
  <2> QED BY <1>1, <2>2, <2>3, <2>4 DEF Enqueue, StartedInOrder
<1>2. CASE DrainStarts
  <2> DEFINE h == Head(queue)
  <2>1. h \in Requests /\ Tail(queue) \in Seq(Requests) /\ <<h>> \in Seq(Requests)
    BY <1>2, HeadWaits DEF DrainStarts, Room
  <2>2. queue = <<h>> \o Tail(queue)
    <3>1. <<h>> \o Tail(queue) \in Seq(Requests) /\ Len(<<h>> \o Tail(queue)) = Len(queue)
      BY <1>2, <2>1, HeadWaits, ConcatProperties DEF DrainStarts, Room
    <3>2. \A i \in 1..Len(queue) : (<<h>> \o Tail(queue))[i] = queue[i]
      BY <1>2, <2>1, HeadWaits, ConcatProperties DEF DrainStarts, Room
    <3> QED BY <1>0, <3>1, <3>2, SeqEqual
  <2>3. calls = started \o (<<h>> \o Tail(queue)) BY <1>0, <2>2
  <2>4. @ = (started \o <<h>>) \o Tail(queue) BY <1>0, <2>1, ConcatAssociative
  <2>5. @ = Append(started, h) \o Tail(queue) BY <1>0, <2>1, AppendIsConcat
  <2> QED BY <1>2, <2>3, <2>4, <2>5 DEF DrainStarts, StartedInOrder
<1>3. CASE \E r \in Requests, outcome \in {"resolved", "rejected"} : Settle(r, outcome)
  BY <1>0, <1>3 DEF Settle, history, StartedInOrder
<1>4. CASE \E r \in Requests : RateLimited(r)
  BY <1>0, <1>4 DEF RateLimited, history, StartedInOrder
<1>5. CASE DrainStops \/ DrainWaits \/ WakeUp \/ Tick \/ UNCHANGED vars
  BY <1>0, <1>5 DEF DrainStops, DrainWaits, WakeUp, Tick, vars, gate, history, StartedInOrder
<1> QED BY <1>1, <1>2, <1>3, <1>4, <1>5, StepCases

LEMMA SpacingKept ==
  ASSUME IInv, [Next]_vars
  PROVE  NextStartKept' /\ StartsSpaced'
<1>0. /\ NextStartKept /\ StartsSpaced /\ startTimes \in Seq(Nat)
      /\ now \in Nat /\ nextStartAt \in Nat /\ DelayMs \in Nat
  BY GateAssumption DEF IInv, TypeOK
<1>1. ASSUME UNCHANGED <<startTimes, nextStartAt>> PROVE NextStartKept' /\ StartsSpaced'
  BY <1>0, <1>1 DEF NextStartKept, StartsSpaced
<1>2. CASE DrainStarts
  <2> DEFINE n == Len(startTimes)
  <2>1. /\ n \in Nat /\ Len(startTimes') = n + 1
        /\ \A i \in 1..n : startTimes'[i] = startTimes[i] /\ startTimes[i] \in Nat
        /\ startTimes'[n + 1] = now
        /\ n # 0 => startTimes # <<>>
    BY <1>0, <1>2, AppendProperties, LenProperties, EmptySeq DEF DrainStarts
  <2>2. nextStartAt' = now + DelayMs /\ nextStartAt <= now
    BY <1>2 DEF DrainStarts, NextStart
  <2>3. NextStartKept' BY <1>0, <2>1, <2>2 DEF NextStartKept
  <2>4. ASSUME NEW i \in 1..n PROVE startTimes'[i] + DelayMs <= startTimes'[i + 1]
    <3>1. CASE i = n
      BY <1>0, <2>1, <2>2, <3>1 DEF NextStartKept
    <3>2. CASE i # n
      <4>1. i \in 1..n - 1 /\ i + 1 \in 1..n BY <2>1, <3>2
      <4> QED BY <1>0, <2>1, <4>1 DEF StartsSpaced
    <3> QED BY <3>1, <3>2
  <2> QED BY <2>1, <2>3, <2>4 DEF StartsSpaced
<1>3. CASE \E r \in Requests : Enqueue(r)
  BY <1>1, <1>3 DEF Enqueue
<1>4. CASE \E r \in Requests, outcome \in {"resolved", "rejected"} : Settle(r, outcome)
  BY <1>1, <1>4 DEF Settle, history
<1>5. CASE \E r \in Requests : RateLimited(r)
  BY <1>1, <1>5 DEF RateLimited, history
<1>6. CASE DrainStops \/ DrainWaits \/ WakeUp \/ Tick \/ UNCHANGED vars
  BY <1>1, <1>6 DEF DrainStops, DrainWaits, WakeUp, Tick, vars, gate, history
<1> QED BY <1>2, <1>3, <1>4, <1>5, <1>6, StepCases

LEMMA StallKept ==
  ASSUME IInv, [Next]_vars
  PROVE  NeverStalled'
<1>0. /\ TypeOK /\ NeverStalled /\ nextStartAt \in Nat /\ now \in Nat /\ DelayMs \in Nat
      /\ wakeUp \in Nat \cup {NoTimer} /\ active \in Nat /\ Concurrency \in Nat
  BY GateAssumption DEF IInv, TypeOK
<1>1. ASSUME draining', UNCHANGED <<wakeUp, nextStartAt>> PROVE NeverStalled'
  BY <1>0, <1>1 DEF NeverStalled
<1>2. CASE \E r \in Requests : Enqueue(r)
  BY <1>1, <1>2 DEF Enqueue
<1>3. CASE \E r \in Requests, outcome \in {"resolved", "rejected"} : Settle(r, outcome)
  BY <1>1, <1>3 DEF Settle, Release
<1>4. CASE \E r \in Requests : RateLimited(r)
  BY <1>1, <1>4 DEF RateLimited, Release
<1>5. CASE DrainStarts
  BY <1>0, <1>5 DEF DrainStarts, NextStart, NeverStalled
<1>6. CASE DrainStops
  BY <1>0, <1>6 DEF DrainStops, Room, NeverStalled
<1>7. CASE DrainWaits
  BY <1>0, <1>7, GateAssumption DEF DrainWaits, NeverStalled
<1>8. CASE WakeUp
  BY <1>0, <1>8 DEF WakeUp, NeverStalled
<1>9. CASE Tick \/ UNCHANGED vars
  BY <1>0, <1>9 DEF Tick, vars, gate, NeverStalled
<1> QED BY <1>2, <1>3, <1>4, <1>5, <1>6, <1>7, <1>8, <1>9, StepCases

LEMMA Invariance == Spec => []IInv
<1>1. ASSUME IInv, [Next]_vars PROVE IInv'
  BY <1>1, TypeKept, BudgetKept, QueueKept, OrderKept, SpacingKept, StallKept DEF IInv
<1> QED BY InitIInv, <1>1, PTL DEF Spec

(***************************************************************************)
(* The theorems.                                                           *)
(***************************************************************************)
\* Type correctness, which needs the count: active never falls below zero.
THEOREM TypeCorrect == Spec => []TypeOK
BY Invariance, PTL DEF IInv

\* Never more requests in flight than the concurrency, and the count is exact.
THEOREM StaysWithinBudget == Spec => []WithinBudget
BY Invariance, PTL DEF IInv

\* No two requests start closer than the delay.
THEOREM SpacesStarts == Spec => []StartsSpaced
BY Invariance, PTL DEF IInv

\* Requests start in the order of the calls, none lost or started twice.
THEOREM StartsInOrder == Spec => []StartedInOrder
BY Invariance, PTL DEF IInv

\* No wake-up is lost: what waits, waits for a place or for a timer in time.
THEOREM NeverStalls == Spec => []NeverStalled
BY Invariance, PTL DEF IInv
==============================================================================
