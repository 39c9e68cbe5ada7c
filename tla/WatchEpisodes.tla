---------------------------- MODULE WatchEpisodes ----------------------------
(***************************************************************************)
(* One watch retainer: the poll loop of services/watch-poll.ts, its        *)
(* webhooks, and a client that refreshes the watch or rotates its secret.  *)
(*                                                                         *)
(* A poll reads the stored record, loads a sample, evaluates it, posts     *)
(* what is due one webhook at a time, and saves the whole record.  refresh *)
(* and rotateSecret also load and save the whole record, with the poll's   *)
(* fields as they loaded them.  Only the two reads and the two writes are  *)
(* atomic.  Time to live, index and lock are in WatchStore.                *)
(***************************************************************************)
EXTENDS WatchEvaluate

CONSTANTS
  HasWebhook,     \* was the watch registered with a webhookUrl
  Samples,        \* samples the sources can return, [Signals -> values]
  Watchlists,     \* sets of signals that watches set thresholds for
  MaxFirings,     \* MAX_WATCH_FIRINGS
  MaxEpisodes,    \* bound: ids minted per signal
  MaxWrites,      \* bound: refreshes and rotations
  MaxCrashes      \* bound: polls cut short by a crash

ASSUME EpisodesAssumption ==
  /\ MaxFirings \in Nat \ {0}
  /\ \A s \in Samples, x \in Markets : s[x] = NoSample \/ s[x] \in Int

VARIABLES
  followed,       \* the signals the watch has thresholds for
  stored,         \* the record in the store: snapshot and firings
  poll,           \* the poll under way
  write,          \* the refresh or rotation under way
  minted,         \* ids mintEpisodeId returned, per signal
  writes, crashes,\* bounded counters
  breach,         \* history: was the last evaluated sample of a signal in breach
  crossings,      \* history: breaches begun so far, per signal
  origin,         \* history: <<key, crossing>> pairs fired
  posted,         \* history: keys posted to the webhook or put on the receipt
  accepted,       \* history: keys the webhook's owner answered 2xx
  redelivered,    \* history: keys it answered 2xx more than once
  undone          \* history: a refresh or rotation put back an older record

observed == <<breach, crossings, origin, posted, accepted, redelivered>>
episodeVars == <<followed, stored, poll, write, minted, writes, crashes, breach, crossings,
                 origin, posted, accepted, redelivered, undone>>

Statuses == {"pending", "failed", "delivered", "stored"}
EmptyRecord ==
  [snapshot |-> [sample |-> [x \in Signals |-> NoSample],
                 episode |-> [x \in EpisodeSignals |-> NoEpisode]],
   firings |-> <<>>]

\* A signal without a threshold is not looked at.
Seen(sample, watchlist) ==
  [x \in Signals |-> IF x \in watchlist THEN sample[x] ELSE NoSample]

Sightings == {EmptyRecord.snapshot.sample} \cup {Seen(s, w) : s \in Samples, w \in Watchlists}

Keys == {<<x, s[x], t[x]>> : x \in Markets, s \in Sightings, t \in Sightings}
          \cup (EpisodeSignals \X Nat \X {0})
Firing == [key : Keys, status : Statuses]
Snapshot == [sample : Sightings, episode : [EpisodeSignals -> Nat]]
WatchRecord == [snapshot : Snapshot, firings : Seq(Firing)]

EpisodeTypeOK ==
  /\ followed \in Watchlists
  /\ stored \in WatchRecord
  /\ poll \in [phase : {"idle", "sampling", "posting"}, record : WatchRecord,
               due : Seq(Firing)]
  /\ write \in [loaded : BOOLEAN, record : WatchRecord]
  /\ minted \in [EpisodeSignals -> Nat] /\ crossings \in [EpisodeSignals -> Nat]
  /\ writes \in Nat /\ crashes \in Nat
  /\ breach \in [EpisodeSignals -> BOOLEAN]
  /\ origin \subseteq Keys \X Nat
  /\ posted \subseteq Keys /\ accepted \subseteq posted /\ redelivered \subseteq accepted
  /\ undone \in BOOLEAN

IdlePoll == [phase |-> "idle", record |-> EmptyRecord, due |-> <<>>]
IdleWrite == [loaded |-> FALSE, record |-> EmptyRecord]

EpisodeInit ==
  /\ followed \in Watchlists
  /\ stored = EmptyRecord
  /\ poll = IdlePoll
  /\ write = IdleWrite
  /\ minted = [x \in EpisodeSignals |-> 0]
  /\ writes = 0 /\ crashes = 0
  /\ breach = [x \in EpisodeSignals |-> FALSE]
  /\ crossings = [x \in EpisodeSignals |-> 0]
  /\ origin = {} /\ posted = {} /\ accepted = {} /\ redelivered = {}
  /\ undone = FALSE

(***************************************************************************)
(* The poll.                                                               *)
(***************************************************************************)
\* listActive loads the record.
PollList ==
  /\ poll.phase = "idle"
  /\ poll' = [IdlePoll EXCEPT !.phase = "sampling", !.record = stored]
  /\ UNCHANGED <<followed, stored, write, minted, writes, crashes, observed, undone>>

Fresh == [x \in EpisodeSignals |-> minted[x] + 1]

\* A stored firing that is retried.
Unsent(firing) == firing.status \in {"pending", "failed"}


\* Every new firing, then the stored ones not sent, each key once.
Due(fired, firings) ==
  LET new == {fired[n].key : n \in DOMAIN fired} IN
  fired \o Keep(firings, {f \in Members(firings) : Unsent(f) /\ f.key \notin new})

\* History: the breaches a sample begins, the number of the crossing each signal
\* is in and whether it is in breach once the sample counts.
Begins(sample) == {x \in EpisodeSignals : InBreach(x, sample[x]) /\ ~breach[x]}

Crossing(sample) ==
  [x \in EpisodeSignals |-> crossings[x] + (IF x \in Begins(sample) THEN 1 ELSE 0)]

Breached(sample) ==
  [x \in EpisodeSignals |->
     IF sample[x] = NoSample THEN breach[x] ELSE InBreach(x, sample[x])]

\* The sample arrives and is evaluated.
PollEvaluate(sample) ==
  LET snapshot == poll.record.snapshot
      fired == Firings(snapshot, sample, Fresh)
      next == NextSnapshot(snapshot, sample, Fresh)
  IN
  /\ poll.phase = "sampling"
  /\ \A x \in EpisodeSignals : next.episode[x] <= MaxEpisodes
  /\ poll' = [phase |-> "posting",
              record |-> [poll.record EXCEPT !.snapshot = next],
              due |-> Due(fired, poll.record.firings)]
  /\ minted' = [x \in EpisodeSignals |->
                  IF next.episode[x] > minted[x] THEN minted[x] + 1 ELSE minted[x]]
  /\ origin' = origin \cup
       {<<f.key, Crossing(sample)[f.key[1]]>> :
          f \in {g \in Members(fired) : g.key[1] \in EpisodeSignals}}
  /\ UNCHANGED <<followed, stored, write, writes, crashes, breach, crossings, posted,
                 accepted, redelivered, undone>>

\* Bug: the receipt says delivered whatever the webhook answered.
WithFiringDelivered(firings, firing) ==
  LET all == Append(Keep(firings, {f \in Members(firings) : f.key # firing.key}),
                    [key |-> firing.key, status |-> "delivered"])
  IN  IF Len(all) > MaxFirings THEN Tail(all) ELSE all

\* withFiring: a firing replaces the one with its key, or joins the ring of the
\* last MaxFirings.
WithFiring(firings, firing) ==
  IF \E n \in DOMAIN firings : firings[n].key = firing.key
  THEN [n \in DOMAIN firings |->
          IF firings[n].key = firing.key THEN firing ELSE firings[n]]
  ELSE LET all == Append(firings, firing)
       IN  IF Len(all) > MaxFirings THEN Tail(all) ELSE all

\* The next webhook, if the watch has one, is answered 2xx or not; "failed"
\* covers an error status, a network error and the 5 s timeout.
PollPost(status) ==
  /\ poll.phase = "posting" /\ poll.due # <<>>
  /\ status \in IF HasWebhook THEN {"delivered", "failed"} ELSE {"stored"}
  /\ LET key == Head(poll.due).key IN
     /\ poll' = [poll EXCEPT
                   !.due = Tail(@),
                   !.record.firings = WithFiring(@, [key |-> key, status |-> status])]
     /\ posted' = posted \cup {key}
     /\ accepted' = IF status = "delivered" THEN accepted \cup {key} ELSE accepted
     /\ redelivered' = IF status = "delivered" /\ key \in accepted
                       THEN redelivered \cup {key} ELSE redelivered
  /\ UNCHANGED <<followed, stored, write, minted, writes, crashes, breach, crossings, origin,
                 undone>>

\* store.save overwrites the record; from here the sample counts.
PollSave ==
  LET sample == poll.record.snapshot.sample IN
  /\ poll.phase = "posting" /\ poll.due = <<>>
  /\ stored' = poll.record
  /\ poll' = IdlePoll
  /\ breach' = Breached(sample)
  /\ crossings' = Crossing(sample)
  /\ UNCHANGED <<followed, write, minted, writes, crashes, origin, posted, accepted, redelivered,
                 undone>>

\* The process running the poll dies; the next poll starts over.
Crash ==
  /\ poll.phase # "idle" /\ crashes < MaxCrashes
  /\ poll' = IdlePoll
  /\ crashes' = crashes + 1
  /\ UNCHANGED <<followed, stored, write, minted, writes, observed, undone>>

(***************************************************************************)
(* refresh and rotateSecret: load, then persist what was loaded with a new *)
(* expiry or secret.                                                       *)
(***************************************************************************)
WriteLoad ==
  /\ ~write.loaded /\ writes < MaxWrites
  /\ write' = [loaded |-> TRUE, record |-> stored]
  /\ writes' = writes + 1
  /\ UNCHANGED <<followed, stored, poll, minted, crashes, observed, undone>>

WritePersist ==
  /\ write.loaded
  /\ stored' = write.record
  /\ write' = IdleWrite
  /\ undone' = (undone \/ write.record # stored)
  /\ UNCHANGED <<followed, poll, minted, writes, crashes, observed>>

PollStep ==
  \/ PollList
  \/ \E sample \in {Seen(s, followed) : s \in Samples} : PollEvaluate(sample)
  \/ \E status \in Statuses : PollPost(status)
  \/ PollSave

EpisodeNext == PollStep \/ Crash \/ WriteLoad \/ WritePersist

EpisodeSpec == EpisodeInit /\ [][EpisodeNext]_episodeVars

\* The cron starts polls for ever and a poll finishes; a firing that is posted
\* again and again is answered 2xx at last.
FairSpec ==
  /\ EpisodeSpec
  /\ WF_episodeVars(PollStep)
  /\ \A x \in EpisodeSignals, n \in 1..MaxEpisodes :
       SF_episodeVars(poll.due # <<>> /\ Head(poll.due).key = <<x, n, 0>> /\ PollPost("delivered"))

(***************************************************************************)
(* Properties.  The first four say what polls keep as long as no refresh   *)
(* or rotation put back a record from before a poll.                       *)
(***************************************************************************)
\* "Fires only on crossings": the firings of one breach carry one key, however
\* many samples it lasts, however many are missing, however often it is retried,
\* as long as no poll was cut short before its save.
OneKeyPerCrossing ==
  crashes = 0 /\ ~undone =>
    \A p, q \in origin : (p[1][1] = q[1][1] /\ p[2] = q[2]) => p[1] = q[1]

\* "After recovery, a new episode mints a new key": two breaches with a recovery
\* seen between them never share one.
NewKeyAfterRecovery ==
  ~undone => \A p, q \in origin : p[1] = q[1] => p[2] = q[2]

\* "Fires only on crossings (including the first sample already in breach)":
\* every breach a poll saw and saved has fired, under its own key.
EveryCrossingFires ==
  \A x \in EpisodeSignals :
    ~undone /\ breach[x] => \E p \in origin : p[1][1] = x /\ p[2] = crossings[x]

\* Any drop of at least the threshold between two samples saved one after the
\* other has been posted.
EveryDropIsPosted ==
  [][~undone' => \A x \in Markets :
       LET before == stored.snapshot.sample[x]
           after == stored'.snapshot.sample[x]
       IN  (before # NoSample /\ after # NoSample /\ before - after >= Threshold[x])
             => <<x, before, after>> \in posted]_episodeVars

\* What the receipt says was delivered was, and no firing takes two of its places.
ReceiptTellsTheTruth ==
  LET firings == stored.firings IN
  /\ \A n \in DOMAIN firings : firings[n].status = "delivered" => firings[n].key \in accepted
  /\ \A m, n \in DOMAIN firings : m # n => firings[m].key # firings[n].key

KeysOf(record) == {f.key : f \in Members(record.firings)}
Failed(key) == [key |-> key, status |-> "failed"] \in Members(stored.firings)

\* A refresh or rotation is under way that loaded a record without the firing.
BeingUndone(key) == write.loaded /\ key \notin KeysOf(write.record)

\* A poll with a full receipt fires it once more, and behind it one that is not there.
Overtaken(key) ==
  /\ Len(poll.record.firings) = MaxFirings
  /\ \E m, n \in DOMAIN poll.due :
       /\ m < n /\ poll.due[m].key = key /\ poll.due[n].key \notin KeysOf(poll.record)
       /\ poll.due[m].status = "pending" /\ poll.due[n].status = "pending"

-----------------------------------------------------------------------------
(***************************************************************************)
(* Stated by docs/watch-retainers.md and not kept by the code.             *)
(***************************************************************************)
\* "While an episode remains in breach, the same idempotency key is not delivered
\* again": no key is answered 2xx twice.  A missing sample inside one does it.
DeliveredOnce == redelivered = {}

\* "Failed webhooks are retried on the next poll", the newest ones too: what was posted
\* in vain is on the receipt.  Retries of older ones push a new one off a full receipt.
FailedFiringsAreKept ==
  poll.phase = "idle" /\ crashes = 0 /\ ~undone => posted \ accepted \subseteq KeysOf(stored)
==============================================================================
