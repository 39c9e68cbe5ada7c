--------------------------- MODULE OpportunityCache ---------------------------
(***************************************************************************)
(* The read-through cache of one protocol's opportunities                  *)
(* (services/redis-cache.ts, getOrSetCacheJson).                           *)
(*                                                                         *)
(* A request looks the key up, or with refresh=true deletes it, and else   *)
(* fetches from the venue.  The answer is given before the fetched value   *)
(* is written: the write is not awaited and lands whenever Redis gets to   *)
(* it, if at all.  What a venue reports is the tick at which it was asked, *)
(* so that a value shows how old it is.                                    *)
(***************************************************************************)
EXTENDS Integers

CONSTANTS
  Requests,     \* requests and jobs that fetch this protocol, over all instances
  None,         \* no entry, answer or write
  Ttl,          \* OPPORTUNITIES_CACHE_TTL_SEC
  MaxTime,      \* bound: last clock tick
  MaxFailures   \* bound: Redis commands that fail

Envelope == [data : Nat, cachedAt : Nat]

ASSUME CacheAssumption == Ttl \in Nat \ {0} /\ None \notin Envelope

VARIABLES
  now,          \* the clock of the instances and of Redis
  entry,        \* canix402:opportunities:...:{protocol}, with the deadline of its EX
  phase,        \* where each request is
  asked,        \* when a request under way was made, and whether with refresh=true
  value,        \* what the venue reported to its fetch
  answer,       \* what it returned
  toWrite,      \* the envelope of its setCacheJson, while that is under way
  failures,     \* bounded counter
  fetched,      \* history: envelopes that fetches returned
  latest,       \* history: newest value answered so far
  newest,       \* history: that of when a request under way was made
  disturbed     \* history: two fetches overlapped, or a GET or DEL failed

vars == <<now, entry, phase, asked, value, answer, toWrite, failures, fetched,
               latest, newest, disturbed>>

Answered == {r \in Requests : answer[r] # None}

\* A fetch whose value is not in Redis yet.
Fetching == {r \in Requests : phase[r] \in {"fetch", "read"} \/ toWrite[r] # None}

TypeOK ==
  /\ now \in Nat /\ failures \in Nat /\ disturbed \in BOOLEAN
  /\ entry \in [data : Nat, cachedAt : Nat, evictAt : Nat] \cup {None}
  /\ phase \in [Requests -> {"idle", "look", "drop", "fetch", "read", "done", "failed"}]
  /\ asked \in [Requests -> [at : Nat, refresh : BOOLEAN]]
  /\ value \in [Requests -> Nat]
  /\ latest \in Nat /\ newest \in [Requests -> Nat]
  /\ answer \in [Requests -> Envelope \cup {None}]
  /\ toWrite \in [Requests -> Envelope \cup {None}]
  /\ fetched \subseteq Envelope
  /\ Answered = {r \in Requests : phase[r] = "done"}

NotAsked == [at |-> 0, refresh |-> FALSE]

\* An entry has just been written.
Init ==
  /\ now = 0 /\ failures = 0 /\ disturbed = FALSE
  /\ fetched = {[data |-> 0, cachedAt |-> 0]}
  /\ entry = [data |-> 0, cachedAt |-> 0, evictAt |-> Ttl]
  /\ phase = [r \in Requests |-> "idle"]
  /\ asked = [r \in Requests |-> NotAsked]
  /\ value = [r \in Requests |-> 0]
  /\ latest = 0 /\ newest = [r \in Requests |-> 0]
  /\ answer = [r \in Requests |-> None]
  /\ toWrite = [r \in Requests |-> None]

Move(r, from, to) == phase[r] = from /\ phase' = [phase EXCEPT ![r] = to]

\* A Redis command whose promise rejects, where the code catches it.
RedisFails == failures < MaxFailures /\ failures' = failures + 1

Ask(r) ==
  \E refresh \in BOOLEAN :
    /\ Move(r, "idle", IF refresh THEN "drop" ELSE "look")
    /\ asked' = [asked EXCEPT ![r] = [at |-> now, refresh |-> refresh]]
    /\ newest' = [newest EXCEPT ![r] = latest]
    /\ UNCHANGED <<now, entry, value, answer, toWrite, failures, fetched, latest,
                   disturbed>>

\* What is known of a request under way goes with its answer.
Return(r, envelope) ==
  /\ answer' = [answer EXCEPT ![r] = envelope]
  /\ latest' = IF envelope # None /\ envelope.data > latest THEN envelope.data ELSE latest
  /\ asked' = [asked EXCEPT ![r] = NotAsked]
  /\ newest' = [newest EXCEPT ![r] = 0]
  /\ value' = [value EXCEPT ![r] = 0]
  /\ UNCHANGED <<now, entry, failures, disturbed>>

\* Bug: a hit stamped with the time of the read.
RestampedHit(r) ==
  /\ entry # None /\ Move(r, "look", "done")
  /\ Return(r, [data |-> entry.data, cachedAt |-> now])
  /\ UNCHANGED <<toWrite, fetched>>

Hit(r) ==
  /\ entry # None /\ Move(r, "look", "done")
  /\ Return(r, [data |-> entry.data, cachedAt |-> entry.cachedAt])
  /\ UNCHANGED <<toWrite, fetched>>

\* No entry, or the GET failed, which getCacheJson answers like a miss.
Miss(r) ==
  /\ \/ /\ entry = None /\ UNCHANGED failures
        /\ disturbed' = (disturbed \/ Fetching # {})
     \/ RedisFails /\ disturbed' = TRUE
  /\ Move(r, "look", "fetch")
  /\ UNCHANGED <<now, entry, asked, value, answer, toWrite, fetched, latest, newest>>

\* Bug: a refresh that leaves the entry for the write to replace.
DropNothing(r) ==
  /\ Move(r, "drop", "fetch")
  /\ disturbed' = (disturbed \/ Fetching # {})
  /\ UNCHANGED <<now, entry, asked, value, answer, toWrite, failures, fetched, latest,
                 newest>>

\* refresh=true deletes the key first; a failing DEL is logged and passed over.
Drop(r) ==
  /\ Move(r, "drop", "fetch")
  /\ \/ /\ entry' = None /\ UNCHANGED failures
        /\ disturbed' = (disturbed \/ Fetching # {})
     \/ RedisFails /\ disturbed' = TRUE /\ UNCHANGED entry
  /\ UNCHANGED <<now, asked, value, answer, toWrite, fetched, latest, newest>>

\* The adapter's request reaches the venue.
Observe(r) ==
  /\ Move(r, "fetch", "read")
  /\ value' = [value EXCEPT ![r] = now]
  /\ UNCHANGED <<now, entry, asked, answer, toWrite, failures, fetched, latest, newest,
                 disturbed>>

\* fetchFn rejects and so does the request: nothing is written.
FetchFails(r) ==
  /\ Move(r, "fetch", "failed")
  /\ Return(r, None)
  /\ UNCHANGED <<toWrite, fetched>>

FetchReturns(r) ==
  LET envelope == [data |-> value[r], cachedAt |-> now] IN
  /\ Move(r, "read", "done")
  /\ Return(r, envelope)
  /\ toWrite' = [toWrite EXCEPT ![r] = envelope]
  /\ fetched' = fetched \cup {envelope}

\* SETEX runs, or fails and is only logged.
Write(r) ==
  /\ toWrite[r] # None
  /\ \/ /\ entry' = [data |-> toWrite[r].data, cachedAt |-> toWrite[r].cachedAt,
                     evictAt |-> now + Ttl]
        /\ UNCHANGED failures
     \/ RedisFails /\ UNCHANGED entry
  /\ toWrite' = [toWrite EXCEPT ![r] = None]
  /\ UNCHANGED <<now, phase, asked, value, answer, fetched, latest, newest, disturbed>>

Tick ==
  /\ now < MaxTime
  /\ now' = now + 1
  /\ entry' = IF entry # None /\ entry.evictAt <= now' THEN None ELSE entry
  /\ UNCHANGED <<phase, asked, value, answer, toWrite, failures, fetched, latest, newest,
                 disturbed>>

Next ==
  \/ \E r \in Requests :
       \/ Ask(r) \/ Hit(r) \/ Miss(r) \/ Drop(r)
       \/ Observe(r) \/ FetchFails(r) \/ FetchReturns(r) \/ Write(r)
  \/ Tick

Spec == Init /\ [][Next]_vars

-----------------------------------------------------------------------------
(***************************************************************************)
(* Properties.                                                             *)
(***************************************************************************)
Answers(r) == phase[r] # "done" /\ phase'[r] = "done"

\* An answer carries a value together with the time at which a fetch returned that
\* very value: the age in the response meta (cacheAgeMs) is not understated by
\* reading it from the cache.
CacheAgeIsHonest == [][\A r \in Requests : Answers(r) => answer'[r] \in fetched']_vars

\* As long as fetches do not overlap and no GET or DEL fails, nobody who asks after
\* an answer was given is answered with an older value, although the value just
\* answered may not have been written yet.
ReadsDoNotGoBack ==
  [][\A r \in Requests :
       Answers(r) /\ ~disturbed => answer'[r].data >= newest[r]]_vars
==============================================================================
