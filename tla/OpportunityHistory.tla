-------------------------- MODULE OpportunityHistory --------------------------
(***************************************************************************)
(* The hourly series of an opportunity and its cached stability            *)
(* (services/opportunity-history.ts), fed by every read of the opportunity *)
(* cache and by the hourly job (jobs/opportunity-history-cron.ts).         *)
(*                                                                         *)
(* Each answer of aggregate-opportunities.ts, hit or miss, starts a        *)
(* snapshot that nobody awaits; the job's own read starts one like any     *)
(* other, and then the job records the same rows again.  One step is one   *)
(* Redis command of recordSnapshots.  Records of a batch have keys of      *)
(* their own and are written one after the other, so one opportunity is    *)
(* enough.  A yield is the tick at which the venue reported it, which a    *)
(* cached answer may have done any time before.  The stability is a        *)
(* function of the points; here it is the set of points itself.            *)
(***************************************************************************)
EXTENDS Integers

CONSTANTS
  Requests,     \* reads of the protocol's opportunities, over all instances
  JobRequest,   \* the one among them that the job makes
  Job,          \* the job's own snapshot
  None,         \* no cached stability
  Hour,         \* OPPORTUNITY_HISTORY_BUCKET_SECONDS
  Retention,    \* OPPORTUNITY_HISTORY_RETENTION_DAYS
  KeyTtl,       \* that and a day more: ttlSeconds of recordSnapshots
  MaxTime,      \* bound: last clock tick
  MaxFailures   \* bound: Redis commands that fail

Points == [bucket : Nat, apy : Nat]

\* What SETEX puts into the stability key.
Stability == [points : SUBSET Points, evictAt : Nat]

ASSUME HistoryAssumption ==
  /\ JobRequest \in Requests /\ Job \notin Requests /\ None \notin Stability
  /\ Hour \in Nat \ {0} /\ Retention \in Nat /\ KeyTtl \in Nat
  /\ Retention < KeyTtl

VARIABLES
  now,          \* the clock of the instances and of Redis
  series,       \* canix402:history:series:{id}: points, scored by their bucket
  seriesTtl,    \* deadline of that key's EXPIRE, 0 for none
  stability,    \* canix402:history:stability:{id} with the deadline of its EX, or None
  snap,         \* each snapshot, from the request it comes from on
  failures,     \* bounded counter
  overlap,      \* history: two snapshots were past their ZCOUNT at one time, or one
                \* added its point after one of a later hour had
  torn,         \* history: a snapshot failed after its ZADD, none was whole since
  kept          \* history: points whose snapshot got to its EXPIRE, by the retention

vars == <<now, series, seriesTtl, stability, snap, failures, overlap, torn, kept>>

Snapshots == Requests \cup {Job}

SnapSteps == {"none", "asked", "rows", "count", "add", "trim", "expire", "read", "save", "done"}
NoSnap == [step |-> "none", at |-> 0, apy |-> 0, points |-> {}]
Done == [NoSnap EXCEPT !.step = "done"]

TypeOK ==
  /\ now \in Nat /\ failures \in Nat
  /\ series \subseteq Points /\ kept \subseteq Points
  /\ seriesTtl \in Nat /\ overlap \in BOOLEAN /\ torn \in BOOLEAN
  /\ stability \in Stability \cup {None}
  /\ snap \in [Snapshots -> [step : SnapSteps, at : Nat, apy : Nat,
                             points : SUBSET Points]]
  /\ \A s \in Snapshots : snap[s].at <= now

Init ==
  /\ now = 0 /\ failures = 0
  /\ series = {} /\ seriesTtl = 0 /\ stability = None
  /\ snap = [s \in Snapshots |-> NoSnap]
  /\ overlap = FALSE /\ torn = FALSE /\ kept = {}

\* bucketTimestampMs: the start of the hour.
Bucket(t) == Hour * (t \div Hour)

From(points, t) == {p \in points : p.bucket >= t}

Ask(r) ==
  /\ snap[r].step = "none"
  /\ snap' = [snap EXCEPT ![r].step = "asked", ![r].at = now]
  /\ UNCHANGED <<now, series, seriesTtl, stability, failures, overlap, torn, kept>>

\* Rows came in for r: its snapshot begins with this clock reading, the job keeps
\* the rows it asked for.
Rows(r, at, apy) ==
  [s \in Snapshots |->
     IF s = r THEN [NoSnap EXCEPT !.step = "count", !.at = at, !.apy = apy]
     ELSE IF s = Job /\ r = JobRequest THEN [NoSnap EXCEPT !.step = "rows", !.apy = apy]
     ELSE snap[s]]

\* Bug: the rows are filed under the hour in which they were asked for.
ServeBackdated(r) ==
  /\ snap[r].step = "asked"
  /\ \E observed \in 0..now : snap' = Rows(r, snap[r].at, observed)
  /\ UNCHANGED <<now, series, seriesTtl, stability, failures, overlap, torn, kept>>

\* fetchOpportunitiesForProtocolResult: answered from the cache or by a fetch, the
\* rows are scheduled for a snapshot; recordOpportunitySnapshots reads the clock now.
Serve(r) ==
  /\ snap[r].step = "asked"
  /\ \E observed \in 0..now : snap' = Rows(r, now, observed)
  /\ UNCHANGED <<now, series, seriesTtl, stability, failures, overlap, torn, kept>>

\* The request fails: there is nothing to record.
ServeNothing(r) ==
  /\ snap[r].step = "asked"
  /\ snap' = [snap EXCEPT ![r] = Done]
  /\ UNCHANGED <<now, series, seriesTtl, stability, failures, overlap, torn, kept>>

\* runOpportunityHistoryJob: the rows it was given are recorded a second time, while
\* the first snapshot of them is under way or over.
JobRecords ==
  /\ snap[Job].step = "rows"
  /\ snap' = [snap EXCEPT ![Job].step = "count", ![Job].at = now]
  /\ UNCHANGED <<now, series, seriesTtl, stability, failures, overlap, torn, kept>>

PointOf(s) == [bucket |-> Bucket(snap[s].at), apy |-> snap[s].apy]

At(s, step) == snap[s].step = step
Goto(s, step) ==
  snap' = [snap EXCEPT ![s] = IF step = "done" THEN Done ELSE [@ EXCEPT !.step = step]]

\* Snapshots past their ZCOUNT.
Writing == {s \in Snapshots : snap[s].step \in {"add", "trim", "expire", "read", "save"}}

Interferes(s) ==
  Writing # {} \/ \E p \in series : p.bucket > Bucket(snap[s].at)

\* Bug: an hour counts as taken only if the same member is there (ZADD NX).
CountMember(s) ==
  /\ At(s, "count")
  /\ Goto(s, IF PointOf(s) \in series THEN "done" ELSE "add")
  /\ overlap' = (overlap \/ (PointOf(s) \notin series /\ Interferes(s)))
  /\ UNCHANGED <<series, seriesTtl, stability, torn, kept>>

\* ZCOUNT bucket bucket: an hour that has a point is left alone.
Count(s) ==
  LET taken == \E p \in series : p.bucket = Bucket(snap[s].at) IN
  /\ At(s, "count")
  /\ Goto(s, IF taken THEN "done" ELSE "add")
  /\ overlap' = (overlap \/ (~taken /\ Interferes(s)))
  /\ UNCHANGED <<series, seriesTtl, stability, torn, kept>>

\* ZADD: the same point twice is one member.
Add(s) ==
  /\ At(s, "add") /\ Goto(s, "trim")
  /\ series' = series \cup {PointOf(s)}
  /\ UNCHANGED <<seriesTtl, stability, overlap, torn, kept>>

\* ZREMRANGEBYSCORE 0 cutoff; a sorted set without members is no key.
Trim(s) ==
  /\ At(s, "trim") /\ Goto(s, "expire")
  /\ series' = From(series, snap[s].at - Retention + 1)
  /\ seriesTtl' = IF series' = {} THEN 0 ELSE seriesTtl
  /\ UNCHANGED <<stability, overlap, torn, kept>>

\* Bug: EXPIRE only sets a deadline where there is none (NX).
ExpireOnce(s) ==
  /\ At(s, "expire") /\ Goto(s, "read")
  /\ seriesTtl' = IF series # {} /\ seriesTtl = 0 THEN now + KeyTtl ELSE seriesTtl
  /\ kept' = kept \cup From(series \cap {PointOf(s)}, now - Retention + 1)
  /\ UNCHANGED <<series, stability, overlap, torn>>

\* EXPIRE counts from when Redis runs it.
Expire(s) ==
  /\ At(s, "expire") /\ Goto(s, "read")
  /\ seriesTtl' = IF series = {} THEN 0 ELSE now + KeyTtl
  /\ kept' = kept \cup From(series \cap {PointOf(s)}, now - Retention + 1)
  /\ UNCHANGED <<series, stability, overlap, torn>>

\* Bug: the hour that was just added is not counted.
ReadBefore(s) ==
  /\ At(s, "read")
  /\ snap' = [snap EXCEPT ![s].step = "save",
                ![s].points = {p \in From(series, snap[s].at - Retention) :
                                 p.bucket < Bucket(snap[s].at)}]
  /\ UNCHANGED <<series, seriesTtl, stability, overlap, torn, kept>>

\* ZRANGEBYSCORE cutoff now.
Read(s) ==
  /\ At(s, "read")
  /\ snap' = [snap EXCEPT ![s].step = "save",
                ![s].points = {p \in From(series, snap[s].at - Retention) :
                                 p.bucket <= snap[s].at}]
  /\ UNCHANGED <<series, seriesTtl, stability, overlap, torn, kept>>

\* SETEX of computeHistoryStability(points).
Save(s) ==
  /\ At(s, "save")
  /\ stability' = [points |-> snap[s].points, evictAt |-> now + KeyTtl]
  /\ snap' = [snap EXCEPT ![s] = Done]
  /\ torn' = FALSE
  /\ UNCHANGED <<series, seriesTtl, overlap, kept>>

\* The catch of recordSnapshots: the rest of the snapshot is skipped.
SnapshotFails(s) ==
  /\ At(s, "count") \/ s \in Writing
  /\ failures < MaxFailures /\ failures' = failures + 1
  /\ snap' = [snap EXCEPT ![s] = Done]
  /\ torn' = (torn \/ snap[s].step \notin {"count", "add"})
  /\ UNCHANGED <<series, seriesTtl, stability, overlap, kept>>

Snapshot(s) ==
  /\ \/ SnapshotFails(s)
     \/ UNCHANGED failures /\ (Count(s) \/ Add(s) \/ Trim(s) \/ Expire(s) \/ Read(s) \/ Save(s))
  /\ UNCHANGED now

\* Keys run out.
Tick ==
  LET evicted == seriesTtl # 0 /\ seriesTtl <= now' IN
  /\ now < MaxTime /\ now' = now + 1
  /\ series' = IF evicted THEN {} ELSE series
  /\ seriesTtl' = IF evicted THEN 0 ELSE seriesTtl
  /\ stability' = IF stability # None /\ stability.evictAt <= now' THEN None ELSE stability
  /\ kept' = From(kept, now' - Retention + 1)
  /\ UNCHANGED <<snap, failures, overlap, torn>>

Next ==
  \/ \E r \in Requests : Ask(r) \/ Serve(r) \/ ServeNothing(r)
  \/ JobRecords
  \/ \E s \in Snapshots : Snapshot(s)
  \/ Tick

Spec == Init /\ [][Next]_vars

-----------------------------------------------------------------------------
(***************************************************************************)
(* Properties.                                                             *)
(***************************************************************************)

\* A point is never filed under an hour before the venue reported it: reading the
\* clock after the rows came in, a fetch that crosses the hour does not backdate.
NoForesight == \A p \in series : p.apy < p.bucket + Hour

\* An hour keeps the first value it was given, as the comment above the ZCOUNT
\* says: no second point of another value.
OnePointPerHour ==
  \A p, q \in series : p.bucket = q.bucket => p = q

\* That holds as long as no two snapshots are between their ZCOUNT and their end
\* at the same time.
OnePointPerHourAlone == ~overlap => OnePointPerHour

\* A point whose snapshot got as far as its EXPIRE stays for the whole retention:
\* neither the cut-off of a slow snapshot nor a deadline set by one that failed
\* later, or before this one, takes it away.
PointsAreKept == kept \subseteq series

\* Between snapshots the cached stability is that of the series, failures
\* included: the first whole snapshot after one makes up for it.
StabilityIsOfTheSeries ==
  ~overlap /\ ~torn /\ Writing = {} /\ series # {} =>
    stability # None /\ stability.points = series
==============================================================================
