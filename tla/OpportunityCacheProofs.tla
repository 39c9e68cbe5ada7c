------------------------ MODULE OpportunityCacheProofs ------------------------
(***************************************************************************)
(* Theorems about OpportunityCache, for any requests, any time to live and *)
(* any failing commands.                                                   *)
(***************************************************************************)
EXTENDS OpportunityCache, TLAPS

(***************************************************************************)
(* The inductive invariant.                                                *)
(***************************************************************************)
\* Whatever is stored or about to be was returned by a fetch.
OnlyFetched ==
  /\ entry # None => [data |-> entry.data, cachedAt |-> entry.cachedAt] \in fetched
  /\ \A r \in Requests : toWrite[r] # None => toWrite[r] \in fetched /\ phase[r] = "done"

\* No value is from the future, and a request knows only what had been answered.
Past ==
  /\ latest <= now
  /\ entry # None => entry.data <= now
  /\ \A r \in Requests :
       /\ value[r] <= now /\ newest[r] <= latest
       /\ toWrite[r] # None => toWrite[r].data <= now

\* While nothing disturbs: one fetch at a time, nothing to hit until it is written,
\* and neither the entry nor what replaces it is older than any answer.
NewestKept ==
  ~disturbed =>
    /\ \A q, r \in Fetching : q = r
    /\ Fetching # {} => entry = None
    /\ entry # None => entry.data >= latest
    /\ \A r \in Requests :
         /\ toWrite[r] # None => toWrite[r].data >= latest
         /\ phase[r] = "read" => value[r] >= latest

IInv == TypeOK /\ OnlyFetched /\ Past /\ NewestKept

LEMMA InitIInv == Init => IInv
<1> SUFFICES ASSUME Init PROVE IInv OBVIOUS
<1> USE CacheAssumption DEF Init
<1>1. disturbed \in BOOLEAN OBVIOUS
<1>2. TypeOK BY <1>1 DEF TypeOK, Answered, Envelope, NotAsked
<1>3. OnlyFetched /\ Past BY DEF OnlyFetched, Past
<1>4. Fetching = {} BY DEF Fetching
<1>5. NewestKept BY <1>4 DEF NewestKept
<1> QED BY <1>2, <1>3, <1>5 DEF IInv

StepOf(r) ==
  \/ Ask(r) \/ Hit(r) \/ Miss(r) \/ Drop(r)
  \/ Observe(r) \/ FetchFails(r) \/ FetchReturns(r) \/ Write(r)

\* Types.
LEMMA TypeKept ==
  ASSUME IInv, NEW r \in Requests, StepOf(r)
  PROVE  TypeOK'
<1> USE CacheAssumption DEF TypeOK, IInv, Envelope, Answered
<1>1. CASE Ask(r) BY <1>1 DEF Ask, Move
<1>2. CASE Hit(r) BY <1>2 DEF Hit, Move, Return, NotAsked
<1>3. CASE Miss(r)
  <2>1. disturbed' \in BOOLEAN BY <1>3 DEF Miss
  <2>2. failures' \in Nat BY <1>3 DEF Miss, RedisFails
  <2> QED BY <1>3, <2>1, <2>2 DEF Miss, Move
<1>4. CASE Drop(r)
  <2>1. disturbed' \in BOOLEAN BY <1>4 DEF Drop
  <2>2. failures' \in Nat /\ entry' \in {entry, None} BY <1>4 DEF Drop, RedisFails
  <2> QED BY <1>4, <2>1, <2>2 DEF Drop, Move
<1>5. CASE Observe(r) BY <1>5 DEF Observe, Move
<1>6. CASE FetchFails(r) BY <1>6 DEF FetchFails, Move, Return, NotAsked
<1>7. CASE FetchReturns(r) BY <1>7 DEF FetchReturns, Move, Return, NotAsked
<1>8. CASE Write(r) BY <1>8 DEF Write, RedisFails
<1> QED BY <1>1, <1>2, <1>3, <1>4, <1>5, <1>6, <1>7, <1>8 DEF StepOf

LEMMA OnlyFetchedKept ==
  ASSUME IInv, NEW r \in Requests, StepOf(r)
  PROVE  OnlyFetched'
<1> USE DEF TypeOK, IInv, OnlyFetched, Envelope
<1>1. CASE Ask(r) BY <1>1 DEF Ask, Move
<1>2. CASE Hit(r) BY <1>2 DEF Hit, Move, Return
<1>3. CASE Miss(r) BY <1>3 DEF Miss, Move
<1>4. CASE Drop(r)
  <2>1. entry' \in {entry, None} BY <1>4 DEF Drop
  <2> QED BY <1>4, <2>1 DEF Drop, Move
<1>5. CASE Observe(r) BY <1>5 DEF Observe, Move
<1>6. CASE FetchFails(r) BY <1>6 DEF FetchFails, Move, Return
<1>7. CASE FetchReturns(r) BY <1>7 DEF FetchReturns, Move, Return
<1>8. CASE Write(r) BY <1>8 DEF Write
<1> QED BY <1>1, <1>2, <1>3, <1>4, <1>5, <1>6, <1>7, <1>8 DEF StepOf

\* The newest answer is at most that of the stored entry or of the clock.
LEMMA PastKept ==
  ASSUME IInv, NEW r \in Requests, StepOf(r)
  PROVE  Past'
<1> USE DEF TypeOK, IInv, Past, Envelope
<1>1. CASE Ask(r) BY <1>1 DEF Ask, Move
<1>2. CASE Hit(r) BY <1>2 DEF Hit, Move, Return
<1>3. CASE Miss(r) BY <1>3 DEF Miss, Move
<1>4. CASE Drop(r)
  <2>1. entry' \in {entry, None} BY <1>4 DEF Drop
  <2> QED BY <1>4, <2>1 DEF Drop, Move
<1>5. CASE Observe(r) BY <1>5 DEF Observe, Move
<1>6. CASE FetchFails(r) BY <1>6 DEF FetchFails, Move, Return
<1>7. CASE FetchReturns(r) BY <1>7 DEF FetchReturns, Move, Return
<1>8. CASE Write(r) BY <1>8 DEF Write
<1> QED BY <1>1, <1>2, <1>3, <1>4, <1>5, <1>6, <1>7, <1>8 DEF StepOf

LEMMA NewestStaysKept ==
  ASSUME IInv, NEW r \in Requests, StepOf(r)
  PROVE  NewestKept'
<1> SUFFICES ASSUME ~disturbed' PROVE NewestKept' BY DEF NewestKept
<1> USE DEF TypeOK, IInv, Envelope, Past, OnlyFetched
<1>1. CASE Ask(r)
  <2>1. ~disturbed /\ Fetching' = Fetching BY <1>1 DEF Ask, Move, Fetching
  <2> QED BY <1>1, <2>1 DEF Ask, Move, NewestKept
<1>2. CASE Hit(r)
  <2>1. ~disturbed /\ Fetching' = Fetching /\ entry # None
    BY <1>2 DEF Hit, Move, Return, Fetching
  <2>2. Fetching = {} BY <2>1 DEF NewestKept
  <2>3. \A q \in Requests : toWrite'[q] = None /\ phase'[q] # "read"
    BY <1>2, <2>2 DEF Hit, Move, Fetching
  <2> QED BY <1>2, <2>1, <2>2, <2>3 DEF Hit, Move, Return, NewestKept
<1>3. CASE Miss(r)
  <2>1. ~disturbed /\ Fetching = {} /\ entry = None BY <1>3 DEF Miss, RedisFails
  <2>2. Fetching' = {r} BY <1>3, <2>1 DEF Miss, Move, Fetching
  <2> QED BY <1>3, <2>1, <2>2 DEF Miss, Move, NewestKept
<1>4. CASE Drop(r)
  <2>1. ~disturbed /\ Fetching = {} /\ entry' = None BY <1>4 DEF Drop, RedisFails
  <2>2. Fetching' = {r} BY <1>4, <2>1 DEF Drop, Move, Fetching
  <2> QED BY <1>4, <2>1, <2>2 DEF Drop, Move, NewestKept
<1>5. CASE Observe(r)
  <2>1. ~disturbed /\ Fetching' = Fetching BY <1>5 DEF Observe, Move, Fetching
  <2> QED BY <1>5, <2>1 DEF Observe, Move, NewestKept
<1>6. CASE FetchFails(r)
  <2>1. ~disturbed /\ Fetching' \subseteq Fetching /\ latest' = latest
    BY <1>6 DEF FetchFails, Move, Return, Fetching
  <2> QED BY <1>6, <2>1 DEF FetchFails, Move, Return, NewestKept
<1>7. CASE FetchReturns(r)
  <2>1. ~disturbed /\ Fetching' \subseteq Fetching /\ r \in Fetching
    BY <1>7 DEF FetchReturns, Move, Return, Fetching
  <2>2. entry' = None /\ \A q \in Fetching : q = r
    BY <1>7, <2>1 DEF FetchReturns, Return, NewestKept
  <2>3. latest' = value[r]
    <3> DEFINE envelope == [data |-> value[r], cachedAt |-> now]
    <3>1. envelope # None /\ envelope.data = value[r] BY CacheAssumption
    <3>2. latest <= value[r] BY <1>7, <2>1 DEF FetchReturns, Move, NewestKept
    <3>3. latest' = IF envelope # None /\ envelope.data > latest THEN envelope.data ELSE latest
      BY <1>7 DEF FetchReturns, Return
    <3>4. value[r] \in Nat /\ latest \in Nat OBVIOUS
    <3> HIDE DEF envelope, TypeOK, IInv, Past, OnlyFetched
    <3>5. CASE value[r] > latest BY <3>1, <3>3, <3>5
    <3>6. CASE ~(value[r] > latest)
      <4>1. latest' = latest BY <3>1, <3>3, <3>6
      <4> QED BY <3>2, <3>4, <3>6, <4>1
    <3> QED BY <3>5, <3>6
  <2>4. \A q \in Requests : toWrite'[q] # None => toWrite'[q].data >= latest'
    BY <1>7, <2>2, <2>3 DEF FetchReturns, Fetching
  <2>5. \A q \in Requests : phase'[q] # "read"
    BY <1>7, <2>2 DEF FetchReturns, Move, Fetching
  <2> QED BY <2>1, <2>2, <2>4, <2>5 DEF NewestKept
<1>8. CASE Write(r)
  <2>1. ~disturbed /\ r \in Fetching /\ phase[r] = "done"
    BY <1>8 DEF Write, Fetching
  <2>2. Fetching' = {}
    BY <1>8, <2>1 DEF Write, Fetching, NewestKept
  <2>3. entry' # None => entry'.data >= latest
    BY <1>8, <2>1 DEF Write, NewestKept
  <2>4. \A q \in Requests : toWrite'[q] = None /\ phase'[q] # "read"
    BY <2>2 DEF Fetching
  <2>5. latest' = latest BY <1>8 DEF Write
  <2> QED BY <2>2, <2>3, <2>4, <2>5 DEF NewestKept
<1> QED BY <1>1, <1>2, <1>3, <1>4, <1>5, <1>6, <1>7, <1>8 DEF StepOf

LEMMA TickKeeps == IInv /\ Tick => IInv'
<1> SUFFICES ASSUME IInv, Tick PROVE IInv' OBVIOUS
<1> USE DEF Tick, IInv
<1>1. TypeOK' BY DEF TypeOK, Answered, Envelope
<1>2. OnlyFetched' BY DEF OnlyFetched
<1>3. Past' BY DEF Past, TypeOK, Envelope
<1>4. Fetching' = Fetching BY DEF Fetching
<1>5. NewestKept' BY <1>4 DEF NewestKept
<1> QED BY <1>1, <1>2, <1>3, <1>5

LEMMA StepKeeps == IInv /\ [Next]_vars => IInv'
<1> SUFFICES ASSUME IInv, [Next]_vars PROVE IInv' OBVIOUS
<1>1. ASSUME NEW r \in Requests, StepOf(r) PROVE IInv'
  BY <1>1, TypeKept, OnlyFetchedKept, PastKept, NewestStaysKept DEF IInv
<1>2. CASE UNCHANGED vars
  BY <1>2 DEF vars, IInv, TypeOK, Answered, OnlyFetched, Past, NewestKept, Fetching
<1> QED BY <1>1, <1>2, TickKeeps DEF Next, StepOf

LEMMA Invariant == Spec => []IInv
<1> QED BY InitIInv, StepKeeps, PTL DEF Spec

(***************************************************************************)
(* The theorems.                                                           *)
(***************************************************************************)
\* Every reachable state is well typed.
THEOREM TypeCorrect == Spec => []TypeOK
<1>1. IInv => TypeOK BY DEF IInv
<1> QED BY <1>1, Invariant, PTL

\* Only a hit or a fetch that returns gives an answer.
LEMMA WhoAnswers ==
  ASSUME TypeOK, [Next]_vars, NEW r \in Requests, Answers(r)
  PROVE  Hit(r) \/ FetchReturns(r)
<1>1. phase[r] # "done" /\ phase'[r] = "done" BY DEF Answers
<1>2. ASSUME NEW q \in Requests,
             Ask(q) \/ Miss(q) \/ Drop(q) \/ Observe(q) \/ FetchFails(q) \/ Write(q)
      PROVE  FALSE
  BY <1>1, <1>2 DEF TypeOK, Ask, Miss, Drop, Observe, FetchFails, Write, Move
<1>3. ASSUME NEW q \in Requests, Hit(q) \/ FetchReturns(q) PROVE q = r
  BY <1>1, <1>3 DEF TypeOK, Hit, FetchReturns, Move
<1>4. ~Tick /\ ~UNCHANGED vars BY <1>1 DEF Tick, vars
<1> QED BY <1>2, <1>3, <1>4 DEF Next

\* An answer, from the cache or not, carries the time at which a fetch returned that
\* very value.
THEOREM AgesAreHonest == Spec => CacheAgeIsHonest
<1>1. ASSUME IInv, [Next]_vars, NEW r \in Requests, Answers(r)
      PROVE  answer'[r] \in fetched'
  <2>1. CASE Hit(r)
    BY <1>1, <2>1 DEF Hit, Return, IInv, TypeOK, OnlyFetched
  <2>2. CASE FetchReturns(r)
    BY <1>1, <2>2 DEF FetchReturns, Return, IInv, TypeOK
  <2> QED BY <1>1, <2>1, <2>2, WhoAnswers DEF IInv
<1>2. IInv /\ [Next]_vars => [\A r \in Requests : Answers(r) => answer'[r] \in fetched']_vars
  BY <1>1
<1> QED BY <1>2, Invariant, PTL DEF Spec, CacheAgeIsHonest

\* Unless fetches overlap or a command fails, nobody who asks after an answer was given
\* gets an older value.
THEOREM NobodyReadsBack == Spec => ReadsDoNotGoBack
<1>1. ASSUME IInv, [Next]_vars, NEW r \in Requests, Answers(r), ~disturbed
      PROVE  answer'[r].data >= newest[r]
  <2> USE <1>1 DEF IInv, TypeOK, Past, NewestKept, Envelope
  <2>1. newest[r] <= latest /\ newest[r] \in Nat /\ latest \in Nat OBVIOUS
  <2>2. CASE Hit(r)
    BY <2>1, <2>2 DEF Hit, Return
  <2>3. CASE FetchReturns(r)
    BY <2>1, <2>3 DEF FetchReturns, Return, Move
  <2> QED BY <2>2, <2>3, WhoAnswers
<1>2. IInv /\ [Next]_vars
        => [\A r \in Requests : Answers(r) /\ ~disturbed => answer'[r].data >= newest[r]]_vars
  BY <1>1
<1> QED BY <1>2, Invariant, PTL DEF Spec, ReadsDoNotGoBack
==============================================================================
