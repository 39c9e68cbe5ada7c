---------------------------- MODULE WatchEvaluate ----------------------------
(***************************************************************************)
(* services/watch-evaluate.ts: what one poll of a watch retainer fires.    *)
(*                                                                         *)
(* A watch follows signals.  A level is a number of the wallet (its lowest *)
(* health factor, its claimable USD), a venue is a Reti staking venue with *)
(* a capacity, a market is an opportunity with an APY.  A sample gives     *)
(* each signal a value, or NoSample when its source failed or did not list *)
(* it (loadWatchSnapshot turns every failing source into null or []).      *)
(* Levels and venues fire once per episode of breach; the episode's id is  *)
(* part of the firing's idempotency key.  Markets fire on a drop between   *)
(* consecutive samples and their key is the two APYs.                      *)
(***************************************************************************)
EXTENDS Lists

CONSTANTS
  BelowLevels,    \* levels in breach below their threshold (healthFactor)
  AboveLevels,    \* levels in breach at or above it (claimableUsd)
  Venues,         \* Reti opportunities
  Markets,        \* opportunities watched for APY drops
  SignalOrder,    \* the signals in the order evaluateWatchThresholds visits them
  Threshold,      \* of each level; for markets, the drop (apyDropBps)
  MinSlots,       \* retiCapacity.minStakerSlotsRemaining
  MinRoom,        \* retiCapacity.minAlgoRoomMicroAlgos
  NoSample        \* null, or a row that is not there

Levels == BelowLevels \cup AboveLevels
Signals == Levels \cup Venues \cup Markets
EpisodeSignals == Levels \cup Venues

ASSUME SignalsAssumption ==
  /\ EpisodeSignals \cap Markets = {}
  /\ SignalOrder \in Seq(Signals) /\ Members(SignalOrder) = Signals
  /\ \A x \in Markets : Threshold[x] \in Nat \ {0}

NoEpisode == 0

\* isRetiConstrained: closed to stake, or too few slots, or too little room; a
\* null slot count or room is not held against the venue.
IsRetiConstrained(capacity) ==
  \/ ~capacity.acceptingStake
  \/ capacity.slots # NoSample /\ capacity.slots < MinSlots
  \/ capacity.room # NoSample /\ capacity.room < MinRoom

\* Is a value of an episode signal in breach?
InBreach(x, value) ==
  /\ value # NoSample
  /\ CASE x \in BelowLevels -> value < Threshold[x]
       [] x \in AboveLevels -> value >= Threshold[x]
       [] x \in Venues -> IsRetiConstrained(value)

\* Bug: no firing without a previous sample, the first one included.
EpisodeFiresFromKnown(x, previous, current, episode) ==
  InBreach(x, current) /\ previous # NoSample /\ ~InBreach(x, previous)

\* Does an episode signal fire?  evaluateLevelCrossing stays silent when the
\* previous sample was in breach too and the episode has its id; the Reti loop
\* only looks at the previous capacity.
EpisodeFires(x, previous, current, episode) ==
  /\ InBreach(x, current)
  /\ ~(/\ InBreach(x, previous)
       /\ x \in Levels => episode # NoEpisode)

\* Bug: a recovery that keeps the id of the episode it ends.
EpisodeKeptAfterRecovery(x, previous, current, episode, fresh) ==
  IF InBreach(x, current) /\ episode = NoEpisode THEN fresh ELSE episode

\* Bug: a firing always gets a new id, even inside an episode.
EpisodeAlwaysFresh(x, previous, current, episode, fresh) ==
  CASE current = NoSample -> episode
    [] ~InBreach(x, current) -> NoEpisode
    [] OTHER -> IF EpisodeFires(x, previous, current, episode) THEN fresh ELSE episode

\* The signal's episode after the sample: kept over a missing sample, ended by
\* one out of breach, begun with a fresh id by a firing that has none.
EpisodeAfter(x, previous, current, episode, fresh) ==
  CASE current = NoSample -> episode
    [] current # NoSample /\ ~InBreach(x, current) -> NoEpisode
    [] InBreach(x, current) ->
         IF EpisodeFires(x, previous, current, episode) /\ episode = NoEpisode
         THEN fresh ELSE episode

\* Bug: a drop of exactly the threshold does not count.
DropFiresAbove(x, previous, current) ==
  previous # NoSample /\ current # NoSample /\ previous - current > Threshold[x]

\* An APY that fell by the threshold or more since the previous sample.
DropFires(x, previous, current) ==
  previous # NoSample /\ current # NoSample /\ previous - current >= Threshold[x]

Fires(x, previous, current, episode) ==
  IF x \in Markets THEN DropFires(x, previous, current)
  ELSE EpisodeFires(x, previous, current, episode)

\* The idempotency key: the episode's id, or the two APYs of a drop.
KeyOf(x, previous, current, episode) ==
  IF x \in Markets THEN <<x, previous, current>> ELSE <<x, episode, 0>>

(***************************************************************************)
(* evaluateWatchThresholds.  A snapshot has the last sample and the        *)
(* episode ids; fresh[x] is the id a new episode of x would get.           *)
(***************************************************************************)
NextSnapshot(snapshot, sample, fresh) ==
  [sample |-> sample,
   episode |-> [x \in EpisodeSignals |->
                  EpisodeAfter(x, snapshot.sample[x], sample[x],
                               snapshot.episode[x], fresh[x])]]

FiringSignals(snapshot, sample) ==
  {x \in Signals :
     Fires(x, snapshot.sample[x], sample[x],
           IF x \in Markets THEN NoEpisode ELSE snapshot.episode[x])}

\* The firings of a sample, in evaluation order, all still to be delivered.
Firings(snapshot, sample, fresh) ==
  LET fired == FiringSignals(snapshot, sample)
      next == NextSnapshot(snapshot, sample, fresh)
      order == Keep(SignalOrder, fired)
  IN  [n \in 1..Len(order) |->
         [key |-> KeyOf(order[n], snapshot.sample[order[n]], sample[order[n]],
                        IF order[n] \in Markets THEN NoEpisode
                        ELSE next.episode[order[n]]),
          status |-> "pending"]]
==============================================================================
