----------------------- MODULE OpportunityHistoryProofs -----------------------
(***************************************************************************)
(* Theorems about OpportunityHistory, for any readers, hours and retention *)
(* and any failing commands.                                               *)
(***************************************************************************)
EXTENDS OpportunityHistory, TLAPS

(***************************************************************************)
(* The inductive invariant.                                                *)
(***************************************************************************)
Recording == {"count", "add", "trim", "expire", "read", "save"}

\* The clock is read after the rows came in.
ReadInTime ==
  \A s \in Snapshots :
    /\ snap[s].step \in Recording => snap[s].apy <= snap[s].at
    /\ snap[s].step = "rows" => snap[s].apy <= now

Current(p) == p.bucket >= now - Retention + 1

\* A point that is kept is in a series that outlives it.
KeptLongEnough ==
  \A p \in kept :
    p \in series /\ Current(p) /\ p.bucket <= now /\ p.bucket + KeyTtl <= seriesTtl

IInv == TypeOK /\ ReadInTime /\ NoForesight /\ KeptLongEnough

USE DEF SnapSteps, Recording, Stability

\* An hour contains the times of its bucket.
LEMMA BucketHolds ==
  ASSUME NEW t \in Nat
  PROVE  Bucket(t) \in Nat /\ Bucket(t) <= t /\ t < Bucket(t) + Hour
<1> DEFINE q == t \div Hour
           r == t % Hour
<1>1. Hour \in Nat \ {0} BY HistoryAssumption
<1>2. q \in Nat /\ r \in 0..(Hour - 1) /\ t = Hour * q + r BY <1>1
<1> HIDE DEF q, r
<1>3. Hour * q \in Nat BY <1>1, <1>2
<1> QED BY <1>1, <1>2, <1>3 DEF Bucket, q

LEMMA InitIInv == Init => IInv
<1> SUFFICES ASSUME Init PROVE IInv OBVIOUS
<1> USE DEF Init, NoSnap
<1>1. overlap \in BOOLEAN /\ torn \in BOOLEAN OBVIOUS
<1>2. TypeOK BY <1>1 DEF TypeOK
<1> QED BY <1>2 DEF IInv, ReadInTime, NoForesight, KeptLongEnough

(***************************************************************************)
(* Reading the opportunities.                                              *)
(***************************************************************************)
SnapsTyped ==
  /\ snap \in [Snapshots -> [step : SnapSteps, at : Nat, apy : Nat, points : SUBSET Points]]
  /\ \A s \in Snapshots : snap[s].at <= now
  /\ ReadInTime

\* Only snapshots move.
LEMMA OnlyMoves ==
  ASSUME IInv, SnapsTyped', UNCHANGED <<now, series, seriesTtl, kept, stability>>,
         failures' \in Nat, overlap' \in BOOLEAN, torn' \in BOOLEAN
  PROVE  IInv'
<1>1. TypeOK' BY DEF IInv, TypeOK, SnapsTyped
<1> QED BY <1>1 DEF IInv, NoForesight, KeptLongEnough, Current, SnapsTyped

\* One snapshot is replaced by another.
LEMMA SnapMoves ==
  ASSUME IInv, NEW s \in Snapshots, NEW r, now' = now, snap' = [snap EXCEPT ![s] = r],
         r \in [step : SnapSteps, at : Nat, apy : Nat, points : SUBSET Points],
         r.at <= now,
         r.step \in Recording => r.apy <= r.at,
         r.step = "rows" => r.apy <= now
  PROVE  SnapsTyped'
BY DEF IInv, TypeOK, ReadInTime, SnapsTyped

LEMMA DoneKeeps ==
  ASSUME IInv, NEW s \in Snapshots, now' = now, snap' = [snap EXCEPT ![s] = Done]
  PROVE  SnapsTyped'
<1>1. /\ Done \in [step : SnapSteps, at : Nat, apy : Nat, points : SUBSET Points]
      /\ Done.at = 0 /\ Done.step = "done" /\ now \in Nat
  BY DEF Done, NoSnap, IInv, TypeOK
<1>2. Done.at <= now /\ Done.step \notin Recording /\ Done.step # "rows" BY <1>1
<1> QED BY <1>1, <1>2, SnapMoves

LEMMA ReadsKeep ==
  ASSUME IInv, NEW r \in Requests, Ask(r) \/ Serve(r) \/ ServeNothing(r) \/ JobRecords
  PROVE  IInv'
<1>1. /\ UNCHANGED <<now, series, seriesTtl, stability, failures, overlap, torn, kept>>
      /\ r \in Snapshots /\ Job \in Snapshots
      /\ failures' \in Nat /\ overlap' \in BOOLEAN /\ torn' \in BOOLEAN /\ now \in Nat
  BY DEF Ask, Serve, ServeNothing, JobRecords, Snapshots, IInv, TypeOK
<1> SUFFICES SnapsTyped' BY <1>1, OnlyMoves
<1>2. CASE Ask(r)
  <2> DEFINE q == [snap[r] EXCEPT !.step = "asked", !.at = now]
  <2>1. /\ q \in [step : SnapSteps, at : Nat, apy : Nat, points : SUBSET Points]
        /\ q.at = now /\ q.step = "asked" /\ snap' = [snap EXCEPT ![r] = q]
    BY <1>1, <1>2 DEF Ask, IInv, TypeOK
  <2>2. q.at <= now /\ q.step \notin Recording /\ q.step # "rows" BY <1>1, <2>1
  <2> HIDE DEF q
  <2> QED BY <1>1, <2>1, <2>2, SnapMoves
<1>3. CASE Serve(r)
  <2>1. PICK observed \in 0..now : snap' = Rows(r, now, observed) BY <1>3 DEF Serve
  <2>2. observed \in Nat /\ observed <= now BY <1>1, <2>1
  <2> DEFINE q == [NoSnap EXCEPT !.step = "count", !.at = now, !.apy = observed]
             j == [NoSnap EXCEPT !.step = "rows", !.apy = observed]
  <2>3. snap' = [x \in Snapshots |-> IF x = r THEN q
                   ELSE IF x = Job /\ r = JobRequest THEN j ELSE snap[x]]
    BY <2>1 DEF Rows
  <2>4. /\ {q, j} \subseteq [step : SnapSteps, at : Nat, apy : Nat, points : SUBSET Points]
        /\ q.at = now /\ q.apy <= q.at /\ q.step = "count"
        /\ j.at = 0 /\ j.apy <= now /\ j.step = "rows"
    <3>1. /\ q \in [step : SnapSteps, at : Nat, apy : Nat, points : SUBSET Points]
          /\ q.at = now /\ q.apy = observed /\ q.step = "count"
      BY <1>1, <2>2 DEF NoSnap
    <3>2. /\ j \in [step : SnapSteps, at : Nat, apy : Nat, points : SUBSET Points]
          /\ j.at = 0 /\ j.apy = observed /\ j.step = "rows"
      BY <1>1, <2>2 DEF NoSnap
    <3> HIDE DEF q, j
    <3> QED BY <2>2, <3>1, <3>2
  <2> HIDE DEF q, j
  <2>5. snap' \in [Snapshots -> [step : SnapSteps, at : Nat, apy : Nat, points : SUBSET Points]]
    BY <2>3, <2>4 DEF IInv, TypeOK
  <2>6. \A x \in Snapshots : snap'[x] \in {q, j, snap[x]} BY <2>3
  <2>7. ASSUME NEW x \in Snapshots
        PROVE  /\ snap'[x].at <= now'
               /\ snap'[x].step \in Recording => snap'[x].apy <= snap'[x].at
               /\ snap'[x].step = "rows" => snap'[x].apy <= now'
    <3>1. CASE snap'[x] = q BY <1>1, <2>4, <3>1
    <3>2. CASE snap'[x] = j BY <1>1, <2>4, <3>2
    <3>3. CASE snap'[x] = snap[x] BY <1>1, <3>3 DEF IInv, TypeOK, ReadInTime
    <3> QED BY <2>6, <3>1, <3>2, <3>3
  <2> QED BY <2>5, <2>7 DEF SnapsTyped, ReadInTime
<1>4. CASE ServeNothing(r) BY <1>1, <1>4, DoneKeeps DEF ServeNothing
<1>5. CASE JobRecords
  <2> DEFINE q == [snap[Job] EXCEPT !.step = "count", !.at = now]
  <2>1. /\ q \in [step : SnapSteps, at : Nat, apy : Nat, points : SUBSET Points]
        /\ q.at = now /\ q.step = "count" /\ snap' = [snap EXCEPT ![Job] = q]
        /\ q.apy <= now
    BY <1>1, <1>5 DEF JobRecords, IInv, TypeOK, ReadInTime
  <2>2. q.at <= now /\ q.apy <= q.at /\ q.step # "rows" BY <1>1, <2>1
  <2> HIDE DEF q
  <2> QED BY <1>1, <2>1, <2>2, SnapMoves
<1> QED BY <1>2, <1>3, <1>4, <1>5

(***************************************************************************)
(* The commands of a snapshot.                                             *)
(***************************************************************************)
LEMMA GotoKeeps ==
  ASSUME IInv, NEW s \in Snapshots, snap[s].step \in Recording,
         NEW step \in Recording \cup {"done"}, Goto(s, step), now' = now
  PROVE  SnapsTyped'
<1>1. CASE step = "done" BY <1>1, DoneKeeps DEF Goto
<1>2. CASE step # "done"
  <2> DEFINE q == [snap[s] EXCEPT !.step = step]
  <2>1. /\ q \in [step : SnapSteps, at : Nat, apy : Nat, points : SUBSET Points]
        /\ q.at <= now /\ q.step \in Recording /\ q.apy <= q.at
        /\ snap' = [snap EXCEPT ![s] = q]
    BY <1>2 DEF Goto, IInv, TypeOK, ReadInTime
  <2> HIDE DEF q
  <2> QED BY <2>1, SnapMoves
<1> QED BY <1>1, <1>2

\* What a snapshot would file.
LEMMA PointIsGenuine ==
  ASSUME IInv, NEW s \in Snapshots, snap[s].step \in Recording
  PROVE  /\ PointOf(s) \in Points /\ PointOf(s).bucket <= now
         /\ PointOf(s).apy < PointOf(s).bucket + Hour
<1>1. snap[s].at \in Nat /\ snap[s].apy \in Nat /\ snap[s].at <= now
      /\ snap[s].apy <= snap[s].at /\ now \in Nat
  BY DEF IInv, TypeOK, ReadInTime
<1>2. Hour \in Nat BY HistoryAssumption
<1> QED BY <1>1, <1>2, BucketHolds DEF PointOf, Points

\* A snapshot that goes on: what it changes of the series is all there is to show.
LEMMA StepsKeep ==
  ASSUME IInv, SnapsTyped', now' = now, failures' \in Nat, overlap' \in BOOLEAN, torn' \in BOOLEAN,
         series' \subseteq Points, kept' \subseteq Points, seriesTtl' \in Nat,
         stability' \in Stability \cup {None},
         NoForesight', KeptLongEnough'
  PROVE  IInv'
<1>1. TypeOK' BY DEF IInv, TypeOK, SnapsTyped
<1> QED BY <1>1 DEF IInv, SnapsTyped

LEMMA SnapshotKeeps ==
  ASSUME IInv, NEW s \in Snapshots, Snapshot(s)
  PROVE  IInv'
<1>0. /\ now' = now /\ failures' \in Nat /\ now \in Nat
      /\ overlap \in BOOLEAN /\ torn \in BOOLEAN
      /\ series \subseteq Points /\ kept \subseteq Points /\ seriesTtl \in Nat
      /\ stability \in Stability \cup {None}
  BY DEF Snapshot, SnapshotFails, IInv, TypeOK
<1>t. /\ Hour \in Nat \ {0} /\ Retention \in Nat /\ KeyTtl \in Nat
  BY HistoryAssumption
<1>p. \A p \in Points : p.bucket \in Nat /\ p.apy \in Nat BY DEF Points
<1>1. CASE SnapshotFails(s)
  <2>1. torn' \in BOOLEAN BY <1>1 DEF SnapshotFails
  <2>2. /\ snap' = [snap EXCEPT ![s] = Done]
        /\ UNCHANGED <<series, seriesTtl, stability, overlap, kept>>
    BY <1>1 DEF SnapshotFails
  <2> QED BY <1>0, <2>1, <2>2, DoneKeeps, OnlyMoves
<1>2. CASE Count(s)
  <2>1. PICK step \in {"done", "add"} : Goto(s, step) BY <1>2 DEF Count
  <2>2. overlap' \in BOOLEAN BY <1>2 DEF Count
  <2>3. /\ snap[s].step \in Recording /\ torn' \in BOOLEAN
        /\ UNCHANGED <<series, seriesTtl, stability, kept>>
    BY <1>0, <1>2 DEF Count, At
  <2> QED BY <1>0, <2>1, <2>2, <2>3, GotoKeeps, OnlyMoves
<1>3. CASE Add(s)
  <2>1. SnapsTyped' BY <1>0, <1>3, GotoKeeps DEF Add, At
  <2>2. series' = series \cup {PointOf(s)}
        /\ UNCHANGED <<seriesTtl, stability, overlap, torn, kept>>
    BY <1>3 DEF Add
  <2>3. /\ PointOf(s) \in Points /\ PointOf(s).apy < PointOf(s).bucket + Hour
    BY <1>3, PointIsGenuine DEF Add, At
  <2>4. NoForesight' BY <2>2, <2>3 DEF IInv, NoForesight
  <2>5. KeptLongEnough' BY <1>0, <2>2 DEF IInv, KeptLongEnough, Current
  <2> QED BY <1>0, <2>1, <2>2, <2>3, <2>4, <2>5, StepsKeep
<1>4. CASE Trim(s)
  <2>1. SnapsTyped' BY <1>0, <1>4, GotoKeeps DEF Trim, At
  <2>2. series' = From(series, snap[s].at - Retention + 1)
        /\ seriesTtl' = (IF series' = {} THEN 0 ELSE seriesTtl)
        /\ UNCHANGED <<stability, overlap, torn, kept>>
    BY <1>4 DEF Trim
  <2>3. series' \subseteq series BY <2>2 DEF From
  <2>4. NoForesight' BY <2>3 DEF IInv, NoForesight
  <2>5. \A p \in kept : p \in series'
    <3>1. snap[s].at \in Nat /\ snap[s].at <= now BY DEF IInv, TypeOK
    <3> QED BY <1>0, <1>t, <1>p, <2>2, <3>1 DEF From, IInv, KeptLongEnough, Current
  <2>6. KeptLongEnough' BY <1>0, <2>2, <2>5 DEF IInv, KeptLongEnough, Current
  <2> QED BY <1>0, <2>1, <2>2, <2>3, <2>4, <2>6, StepsKeep
<1>5. CASE Expire(s)
  <2>1. SnapsTyped' BY <1>0, <1>5, GotoKeeps DEF Expire, At
  <2>2. seriesTtl' = (IF series = {} THEN 0 ELSE now + KeyTtl)
        /\ kept' = kept \cup From(series \cap {PointOf(s)}, now - Retention + 1)
        /\ UNCHANGED <<series, stability, overlap, torn>>
    BY <1>5 DEF Expire
  <2>3. PointOf(s).bucket <= now BY <1>5, PointIsGenuine DEF Expire, At
  <2>4. kept' \subseteq Points BY <1>0, <2>2 DEF From
  <2>5. \A p \in kept' : p \in series /\ p.bucket <= now /\ p.bucket >= now - Retention + 1
    BY <1>0, <2>2, <2>3 DEF IInv, KeptLongEnough, Current, From
  <2>6. KeptLongEnough'
    <3>1. ASSUME NEW p \in kept' PROVE p \in series' /\ p.bucket + KeyTtl <= seriesTtl'
      <4>1. p \in series /\ p.bucket \in Nat /\ p.bucket <= now BY <1>p, <2>4, <2>5
      <4>2. seriesTtl' = now + KeyTtl BY <2>2, <4>1
      <4> QED BY <1>0, <1>t, <2>2, <4>1, <4>2
    <3> QED BY <1>0, <2>5, <3>1 DEF KeptLongEnough, Current
  <2>7. NoForesight' BY <2>2 DEF IInv, NoForesight
  <2>8. seriesTtl' \in Nat BY <1>0, <1>t, <2>2
  <2> QED BY <1>0, <2>1, <2>2, <2>4, <2>6, <2>7, <2>8, StepsKeep
<1>6. CASE Read(s)
  <2> DEFINE q == [snap[s] EXCEPT !.step = "save",
                     !.points = {p \in From(series, snap[s].at - Retention) :
                                   p.bucket <= snap[s].at}]
  <2>1. snap' = [snap EXCEPT ![s] = q] /\ snap[s].step = "read"
        /\ UNCHANGED <<series, seriesTtl, stability, overlap, torn, kept>>
    BY <1>6 DEF Read, At, IInv, TypeOK
  <2>2. /\ q \in [step : SnapSteps, at : Nat, apy : Nat, points : SUBSET Points]
        /\ q.at <= now /\ q.step = "save" /\ q.apy <= q.at
    BY <1>0, <2>1 DEF IInv, TypeOK, ReadInTime, From
  <2> HIDE DEF q
  <2> QED BY <1>0, <2>1, <2>2, SnapMoves, OnlyMoves
<1>7. CASE Save(s)
  <2>1. SnapsTyped' BY <1>0, <1>7, DoneKeeps DEF Save
  <2>2. /\ stability' = [points |-> snap[s].points, evictAt |-> now + KeyTtl]
        /\ torn' \in BOOLEAN /\ UNCHANGED <<series, seriesTtl, overlap, kept>>
    BY <1>7 DEF Save
  <2>3. stability' \in Stability
    BY <1>0, <1>t, <2>2 DEF IInv, TypeOK
  <2>4. NoForesight' /\ KeptLongEnough' BY <1>0, <2>2 DEF IInv, NoForesight, KeptLongEnough, Current
  <2> QED BY <1>0, <2>1, <2>2, <2>3, <2>4, StepsKeep
<1> QED BY <1>1, <1>2, <1>3, <1>4, <1>5, <1>6, <1>7 DEF Snapshot

LEMMA TickKeeps == IInv /\ Tick => IInv'
<1> SUFFICES ASSUME IInv, Tick PROVE IInv' OBVIOUS
<1>t. /\ Retention \in Nat /\ KeyTtl \in Nat /\ Retention < KeyTtl
  BY HistoryAssumption
<1>p. \A p \in Points : p.bucket \in Nat BY DEF Points
<1>1. /\ now \in Nat /\ now' = now + 1 /\ seriesTtl \in Nat /\ kept \subseteq Points
      /\ UNCHANGED <<snap, failures, overlap, torn>>
      /\ kept' = From(kept, now' - Retention + 1)
  BY DEF Tick, IInv, TypeOK
<1>2. kept' \subseteq kept /\ series' \subseteq series /\ seriesTtl' \in Nat
  BY <1>1 DEF Tick, From
<1>3. stability' \in {stability, None} BY DEF Tick
<1>4. TypeOK' BY <1>1, <1>2, <1>3 DEF IInv, TypeOK
<1>5. ReadInTime' BY <1>1 DEF IInv, ReadInTime, TypeOK
<1>6. NoForesight' BY <1>2 DEF IInv, NoForesight
<1>7. KeptLongEnough'
  <2> SUFFICES ASSUME NEW p \in kept'
               PROVE  p \in series' /\ Current(p)' /\ p.bucket <= now' /\ p.bucket + KeyTtl <= seriesTtl'
    BY DEF KeptLongEnough, Current
  <2>1. p \in kept /\ p.bucket >= now' - Retention + 1 /\ p.bucket \in Nat
    BY <1>1, <1>2, <1>p DEF From
  <2>2. p \in series /\ p.bucket <= now /\ p.bucket + KeyTtl <= seriesTtl
    BY <2>1 DEF IInv, KeptLongEnough
  <2>3. seriesTtl > now' BY <1>1, <1>t, <2>1, <2>2
  <2>4. series' = series /\ seriesTtl' = seriesTtl BY <1>1, <2>3 DEF Tick
  <2> QED BY <1>1, <2>1, <2>2, <2>4 DEF Current
<1> QED BY <1>4, <1>5, <1>6, <1>7 DEF IInv

LEMMA StepKeeps == IInv /\ [Next]_vars => IInv'
<1> SUFFICES ASSUME IInv, [Next]_vars PROVE IInv' OBVIOUS
<1>1. ASSUME JobRecords PROVE IInv'
  <2>1. JobRequest \in Requests BY HistoryAssumption
  <2> QED BY <1>1, <2>1, ReadsKeep
<1>2. CASE UNCHANGED vars
  BY <1>2 DEF vars, IInv, TypeOK, ReadInTime, NoForesight, KeptLongEnough, Current
<1> QED BY <1>1, <1>2, ReadsKeep, SnapshotKeeps, TickKeeps DEF Next

LEMMA Invariant == Spec => []IInv
<1> QED BY InitIInv, StepKeeps, PTL DEF Spec

(***************************************************************************)
(* Snapshots one after the other.                                          *)
(***************************************************************************)
\* What a snapshot past its ZCOUNT may count on as long as it is alone.
Stage(s) ==
  LET step == snap[s].step IN
  /\ \A p \in series : /\ p.bucket <= Bucket(snap[s].at)
                       /\ step = "add" => p.bucket # Bucket(snap[s].at)
  /\ step \in {"expire", "read", "save"} =>
       \A p \in series : p.bucket > snap[s].at - Retention
  /\ step \in {"read", "save"} /\ series # {} => seriesTtl \in 1..(now + KeyTtl)
  /\ step = "save" /\ series # {} => snap[s].points = series

\* The cached stability is that of the series and outlives it.
Steady ==
  series # {} =>
    stability # None /\ stability.points = series /\ seriesTtl \in 1..stability.evictAt

Unchanged == ~torn /\ (\A s \in Writing : At(s, "add"))

Alone ==
  ~overlap =>
    /\ OnePointPerHour
    /\ \A s, t \in Writing : s = t
    /\ \A s \in Writing : Stage(s)
    /\ Unchanged => Steady

\* The job has nothing to record before its own read is answered.
JobWaits == snap[JobRequest].step \in {"none", "asked"} => snap[Job].step = "none"

USE DEF Writing, At

LEMMA AloneAtFirst == Init => Alone /\ JobWaits
<1> SUFFICES ASSUME Init PROVE Alone /\ JobWaits OBVIOUS
<1>1. JobRequest \in Snapshots /\ Job \in Snapshots BY HistoryAssumption DEF Snapshots
<1>2. Writing = {} /\ series = {} BY DEF Init, NoSnap
<1> QED BY <1>1, <1>2 DEF Init, NoSnap, Alone, JobWaits, OnePointPerHour, Steady

\* Nothing a snapshot past its ZCOUNT counts on is touched by those that are not.
LEMMA BystandersKeepAlone ==
  ASSUME Alone, UNCHANGED <<now, series, seriesTtl, stability, overlap, torn>>,
         Writing' = Writing, \A s \in Writing : snap'[s] = snap[s]
  PROVE  Alone'
BY DEF Alone, OnePointPerHour, Stage, Steady, Unchanged

LEMMA ReadsKeepAlone ==
  ASSUME IInv, Alone, JobWaits, NEW r \in Requests,
         Ask(r) \/ Serve(r) \/ ServeNothing(r) \/ JobRecords
  PROVE  Alone' /\ JobWaits'
<1>1. /\ UNCHANGED <<now, series, seriesTtl, stability, overlap, torn>>
      /\ r \in Snapshots /\ Job \in Snapshots /\ JobRequest \in Snapshots
      /\ Job # r /\ Job # JobRequest
      /\ snap \in [Snapshots -> [step : SnapSteps, at : Nat, apy : Nat, points : SUBSET Points]]
  BY HistoryAssumption DEF Ask, Serve, ServeNothing, JobRecords, Snapshots, IInv, TypeOK
<1>2. CASE Ask(r)
  <2>1. /\ snap[r].step = "none" /\ snap'[r].step = "asked"
        /\ \A s \in Snapshots \ {r} : snap'[s] = snap[s]
    BY <1>1, <1>2 DEF Ask
  <2> QED BY <1>1, <2>1, BystandersKeepAlone DEF JobWaits
<1>3. CASE Serve(r)
  <2>1. /\ snap[r].step = "asked" /\ snap'[r].step = "count"
        /\ r = JobRequest => snap'[Job].step = "rows"
        /\ \A s \in Snapshots \ {r} : (s = Job /\ r = JobRequest) \/ snap'[s] = snap[s]
    BY <1>1, <1>3 DEF Serve, Rows, NoSnap
  <2>2. r = JobRequest => snap[Job].step = "none" BY <2>1 DEF JobWaits
  <2> QED BY <1>1, <2>1, <2>2, BystandersKeepAlone DEF JobWaits
<1>4. CASE ServeNothing(r)
  <2>1. /\ snap[r].step = "asked" /\ snap'[r].step = "done"
        /\ \A s \in Snapshots \ {r} : snap'[s] = snap[s]
    BY <1>1, <1>4 DEF ServeNothing, Done, NoSnap
  <2> QED BY <1>1, <2>1, BystandersKeepAlone DEF JobWaits
<1>5. CASE JobRecords
  <2>1. /\ snap[Job].step = "rows" /\ snap'[Job].step = "count"
        /\ \A s \in Snapshots \ {Job} : snap'[s] = snap[s]
    BY <1>1, <1>5 DEF JobRecords
  <2> QED BY <1>1, <2>1, BystandersKeepAlone DEF JobWaits
<1> QED BY <1>2, <1>3, <1>4, <1>5

LEMMA SnapshotKeepsAlone ==
  ASSUME IInv, IInv', Alone, JobWaits, NEW s \in Snapshots, Snapshot(s)
  PROVE  Alone' /\ JobWaits'
<1>0. /\ now' = now /\ now \in Nat /\ seriesTtl \in Nat /\ seriesTtl' \in Nat
      /\ snap \in [Snapshots -> [step : SnapSteps, at : Nat, apy : Nat, points : SUBSET Points]]
      /\ snap' \in [Snapshots -> [step : SnapSteps, at : Nat, apy : Nat, points : SUBSET Points]]
      /\ snap[s].at \in Nat /\ snap[s].at <= now
      /\ Job \in Snapshots /\ JobRequest \in Snapshots
      /\ KeyTtl \in Nat /\ KeyTtl >= 1 /\ Retention \in Nat
      /\ series \subseteq Points /\ series' \subseteq Points
  BY HistoryAssumption DEF Snapshot, Snapshots, IInv, TypeOK
<1>p. \A p \in Points : p.bucket \in Nat BY DEF Points
<1>b. Bucket(snap[s].at) \in Nat /\ Bucket(snap[s].at) <= snap[s].at BY <1>0, BucketHolds
<1>j. JobWaits'
  <2>1. /\ snap[s].step \in Recording
        /\ \A t \in Snapshots \ {s} : snap'[t] = snap[t]
        /\ snap'[s].step \in Recording \cup {"done"}
    BY <1>0 DEF Snapshot, SnapshotFails, Count, Add, Trim, Expire, Read, Save, Goto, Done, NoSnap
  <2> QED BY <1>0, <2>1 DEF JobWaits
<1>1. CASE overlap' BY <1>1, <1>j DEF Alone
<1>2. CASE ~overlap'
  <2>1. ~overlap BY <1>2 DEF Snapshot, SnapshotFails, Count, Add, Trim, Expire, Read, Save
  <2>2. /\ OnePointPerHour /\ \A t, u \in Writing : t = u
        /\ s \in Writing => Stage(s)
        /\ Unchanged => Steady
    BY <2>1 DEF Alone
  <2>3. CASE SnapshotFails(s)
    <3>1. /\ UNCHANGED <<series, seriesTtl, stability, overlap>>
          /\ torn' = (torn \/ snap[s].step \notin {"count", "add"})
          /\ snap' = [snap EXCEPT ![s] = Done] /\ Done.step = "done"
      BY <2>3 DEF SnapshotFails, Done, NoSnap
    <3>2. snap'[s].step = "done" /\ \A t \in Snapshots \ {s} : snap'[t] = snap[t]
      BY <1>0, <3>1
    <3>3. Writing' = Writing \ {s} BY <3>2
    <3>4. \A t \in Writing' : Stage(t)'
      BY <1>0, <2>1, <3>1, <3>2, <3>3 DEF Alone, Stage
    <3>5. Unchanged' => Unchanged BY <3>1, <3>2, <3>3 DEF Unchanged
    <3> QED BY <1>j, <2>2, <3>1, <3>3, <3>4, <3>5 DEF Alone, OnePointPerHour, Steady
  <2>4. CASE Count(s)
    <3>1. UNCHANGED <<series, seriesTtl, stability, torn>> /\ snap[s].step = "count"
      BY <2>4 DEF Count
    <3>2. CASE \E p \in series : p.bucket = Bucket(snap[s].at)
      <4>1. snap'[s].step = "done" /\ \A t \in Snapshots \ {s} : snap'[t] = snap[t]
        BY <1>0, <2>4, <3>2 DEF Count, Goto, Done, NoSnap
      <4>2. Writing' = Writing /\ \A t \in Writing : snap'[t] = snap[t] BY <3>1, <4>1
      <4>3. overlap' = overlap BY <3>2, <2>4 DEF Count, IInv, TypeOK
      <4> QED BY <1>0, <1>j, <3>1, <4>2, <4>3, BystandersKeepAlone
    <3>3. CASE ~\E p \in series : p.bucket = Bucket(snap[s].at)
      <4>1. Writing = {} /\ \A p \in series : ~(p.bucket > Bucket(snap[s].at))
        BY <1>2, <2>4, <3>3 DEF Count, Interferes
      <4>2. /\ snap'[s].step = "add" /\ snap'[s].at = snap[s].at
            /\ \A t \in Snapshots \ {s} : snap'[t] = snap[t]
        BY <1>0, <2>4, <3>3 DEF Count, Goto
      <4>3. Writing' = {s} BY <4>1, <4>2
      <4>4. Stage(s)' BY <1>0, <1>p, <1>b, <3>1, <3>3, <4>1, <4>2 DEF Stage
      <4>5. Steady' \/ ~Unchanged'
        BY <2>2, <3>1, <4>1 DEF Unchanged, Steady
      <4> QED BY <1>j, <2>2, <3>1, <4>3, <4>4, <4>5 DEF Alone, OnePointPerHour
    <3> QED BY <3>2, <3>3
  <2>5. CASE Add(s)
    <3>1. /\ UNCHANGED <<seriesTtl, stability, torn>> /\ snap[s].step = "add"
          /\ series' = series \cup {PointOf(s)} /\ PointOf(s).bucket = Bucket(snap[s].at)
          /\ snap' = [snap EXCEPT ![s] = [@ EXCEPT !.step = "trim"]]
      BY <2>5 DEF Add, Goto, PointOf
    <3>2. /\ snap'[s].step = "trim" /\ snap'[s].at = snap[s].at
          /\ \A t \in Snapshots \ {s} : snap'[t] = snap[t]
      BY <1>0, <3>1
    <3>3. Writing = {s} /\ Writing' = {s} BY <2>2, <3>1, <3>2
    <3>4. Stage(s) BY <2>2, <3>3
    <3>5. Stage(s)' BY <1>0, <1>p, <1>b, <3>1, <3>2, <3>4 DEF Stage
    <3>6. OnePointPerHour' BY <2>2, <3>1, <3>4 DEF Stage, OnePointPerHour
    <3>7. ~Unchanged' BY <3>2, <3>3 DEF Unchanged
    <3> QED BY <1>j, <3>3, <3>5, <3>6, <3>7 DEF Alone
  <2>6. CASE Trim(s)
    <3>1. /\ UNCHANGED <<stability, torn>> /\ snap[s].step = "trim"
          /\ series' = From(series, snap[s].at - Retention + 1)
          /\ snap' = [snap EXCEPT ![s] = [@ EXCEPT !.step = "expire"]]
      BY <2>6 DEF Trim, Goto
    <3>2. /\ snap'[s].step = "expire" /\ snap'[s].at = snap[s].at
          /\ \A t \in Snapshots \ {s} : snap'[t] = snap[t]
      BY <1>0, <3>1
    <3>3. Writing = {s} /\ Writing' = {s} BY <2>2, <3>1, <3>2
    <3>4. \A p \in series' : p \in series /\ p.bucket > snap[s].at - Retention
      BY <1>0, <1>p, <3>1 DEF From
    <3>5. Stage(s)' BY <1>0, <2>2, <3>2, <3>3, <3>4 DEF Stage
    <3>6. ~Unchanged' BY <3>2, <3>3 DEF Unchanged
    <3> QED BY <1>j, <2>2, <3>3, <3>4, <3>5, <3>6 DEF Alone, OnePointPerHour
  <2>7. CASE Expire(s)
    <3>1. /\ UNCHANGED <<series, stability, torn>> /\ snap[s].step = "expire"
          /\ seriesTtl' = IF series = {} THEN 0 ELSE now + KeyTtl
          /\ snap' = [snap EXCEPT ![s] = [@ EXCEPT !.step = "read"]]
      BY <2>7 DEF Expire, Goto
    <3>2. /\ snap'[s].step = "read" /\ snap'[s].at = snap[s].at
          /\ \A t \in Snapshots \ {s} : snap'[t] = snap[t]
      BY <1>0, <3>1
    <3>3. Writing = {s} /\ Writing' = {s} BY <2>2, <3>1, <3>2
    <3>4. Stage(s) BY <2>2, <3>3
    <3>5. Stage(s)' BY <1>0, <3>1, <3>2, <3>4 DEF Stage
    <3>6. ~Unchanged' BY <3>2, <3>3 DEF Unchanged
    <3> QED BY <1>j, <2>2, <3>1, <3>3, <3>5, <3>6 DEF Alone, OnePointPerHour
  <2>8. CASE Read(s)
    <3> DEFINE q == [snap[s] EXCEPT !.step = "save",
                       !.points = {p \in From(series, snap[s].at - Retention) :
                                     p.bucket <= snap[s].at}]
    <3>1. /\ UNCHANGED <<series, seriesTtl, stability, torn>> /\ snap[s].step = "read"
          /\ snap' = [snap EXCEPT ![s] = q]
      BY <1>0, <2>8 DEF Read
    <3>2. /\ snap'[s].step = "save" /\ snap'[s].at = snap[s].at
          /\ snap'[s].points = {p \in From(series, snap[s].at - Retention) :
                                  p.bucket <= snap[s].at}
          /\ \A t \in Snapshots \ {s} : snap'[t] = snap[t]
      BY <1>0, <3>1
    <3> HIDE DEF q
    <3>3. Writing = {s} /\ Writing' = {s} BY <2>2, <3>1, <3>2
    <3>4. Stage(s) BY <2>2, <3>3
    <3>5. \A p \in series : p.bucket >= snap[s].at - Retention /\ p.bucket <= snap[s].at
      BY <1>0, <1>p, <1>b, <3>1, <3>4 DEF Stage
    <3>6. snap'[s].points = series BY <3>2, <3>5 DEF From
    <3>7. Stage(s)' BY <1>0, <3>1, <3>2, <3>4, <3>6 DEF Stage
    <3>8. ~Unchanged' BY <3>2, <3>3 DEF Unchanged
    <3> QED BY <1>j, <2>2, <3>1, <3>3, <3>7, <3>8 DEF Alone, OnePointPerHour
  <2>9. CASE Save(s)
    <3>1. /\ UNCHANGED <<series, seriesTtl>> /\ snap[s].step = "save"
          /\ stability' = [points |-> snap[s].points, evictAt |-> now + KeyTtl]
          /\ snap' = [snap EXCEPT ![s] = Done] /\ Done.step = "done"
      BY <2>9 DEF Save, Done, NoSnap
    <3>2. snap'[s].step = "done" /\ \A t \in Snapshots \ {s} : snap'[t] = snap[t]
      BY <1>0, <3>1
    <3>3. Writing = {s} /\ Writing' = {} BY <2>2, <3>1, <3>2
    <3>4. Stage(s) BY <2>2, <3>3
    <3>5. stability' # None BY <1>0, <3>1, HistoryAssumption
    <3>6. Steady' BY <1>0, <3>1, <3>4, <3>5 DEF Steady, Stage
    <3> QED BY <1>j, <2>2, <3>1, <3>3, <3>6 DEF Alone, OnePointPerHour
  <2> QED BY <2>3, <2>4, <2>5, <2>6, <2>7, <2>8, <2>9 DEF Snapshot
<1> QED BY <1>1, <1>2

LEMMA TickKeepsAlone == IInv /\ Alone /\ JobWaits /\ Tick => Alone' /\ JobWaits'
<1> SUFFICES ASSUME IInv, Alone, Tick, JobWaits, ~overlap PROVE Alone'
  BY DEF Alone, JobWaits, Tick
<1>1. /\ now \in Nat /\ now' = now + 1 /\ seriesTtl \in Nat /\ KeyTtl \in Nat
      /\ UNCHANGED <<snap, overlap, torn>> /\ Writing' = Writing
      /\ stability \in Stability \cup {None}
  BY HistoryAssumption DEF Tick, IInv, TypeOK
<1>2. \/ series' = {}
      \/ series' = series /\ seriesTtl' = seriesTtl /\ (seriesTtl = 0 \/ seriesTtl > now')
  BY <1>1 DEF Tick
<1>3. series' # {} /\ stability # None /\ seriesTtl \in 1..stability.evictAt
        => stability' = stability
  BY <1>1, <1>2 DEF Tick
<1>4. \A s \in Writing : Stage(s)' BY <1>1, <1>2 DEF Alone, Stage
<1>5. Unchanged => Steady' BY <1>2, <1>3 DEF Alone, Steady
<1>6. Unchanged' => Unchanged BY <1>1 DEF Unchanged
<1> QED BY <1>1, <1>2, <1>4, <1>5, <1>6 DEF Alone, OnePointPerHour

LEMMA StepKeepsAlone == IInv /\ IInv' /\ Alone /\ JobWaits /\ [Next]_vars => Alone' /\ JobWaits'
<1> SUFFICES ASSUME IInv, IInv', Alone, JobWaits, [Next]_vars PROVE Alone' /\ JobWaits' OBVIOUS
<1>1. ASSUME JobRecords PROVE Alone' /\ JobWaits'
  <2>1. JobRequest \in Requests BY HistoryAssumption
  <2> QED BY <1>1, <2>1, ReadsKeepAlone
<1>2. CASE UNCHANGED vars
  BY <1>2, BystandersKeepAlone DEF vars, JobWaits
<1> QED BY <1>1, <1>2, ReadsKeepAlone, SnapshotKeepsAlone, TickKeepsAlone DEF Next

LEMMA AloneInvariant == Spec => []Alone
<1> QED BY Invariant, AloneAtFirst, StepKeepsAlone, PTL DEF Spec

(***************************************************************************)
(* The theorems.                                                           *)
(***************************************************************************)
\* Every reachable state is well typed.
THEOREM TypeCorrect == Spec => []TypeOK
<1>1. IInv => TypeOK BY DEF IInv
<1> QED BY <1>1, Invariant, PTL

\* No point is filed under an hour before the venue reported it.
THEOREM NothingIsBackdated == Spec => []NoForesight
<1>1. IInv => NoForesight BY DEF IInv
<1> QED BY <1>1, Invariant, PTL

\* A point whose snapshot got to its EXPIRE stays for the whole retention, whatever
\* slow, late or failing snapshots come after it.
THEOREM RetainedPointsStay == Spec => []PointsAreKept
<1>1. IInv => PointsAreKept BY DEF IInv, KeptLongEnough, PointsAreKept
<1> QED BY <1>1, Invariant, PTL

\* An hour keeps the first value it was given, as long as no two snapshots are
\* past their ZCOUNT at one time and none is late for its hour.
THEOREM HoursKeepTheirPoint == Spec => []OnePointPerHourAlone
<1>1. Alone => OnePointPerHourAlone BY DEF Alone, OnePointPerHourAlone
<1> QED BY <1>1, AloneInvariant, PTL

\* The same of the cached stability: between snapshots it is that of the series,
\* and a whole snapshot makes up for those that failed halfway.
THEOREM StabilityFollows == Spec => []StabilityIsOfTheSeries
<1>1. Alone => StabilityIsOfTheSeries
  BY DEF Alone, Unchanged, Steady, StabilityIsOfTheSeries
<1> QED BY <1>1, AloneInvariant, PTL
==============================================================================
