--------------------------- MODULE MCWatchEpisodes ---------------------------
(***************************************************************************)
(* Model-checking instances of WatchEpisodes: one level of each direction, *)
(* one venue, one market, and the sample sets that exercise them.          *)
(***************************************************************************)
EXTENDS WatchEpisodes

\* The lowest values on each side of a threshold.
LevelValues == {0, 1}

Capacity(accepting, slots, room) ==
  [acceptingStake |-> accepting, slots |-> slots, room |-> room]

\* Open with unknown slots, full of stakers, without room, and closed.
Capacities ==
  {Capacity(TRUE, NoSample, 1), Capacity(TRUE, 0, 1), Capacity(TRUE, 1, 0),
   Capacity(FALSE, 1, 1)}

Sample(health, claimable, capacity, apy) ==
  [x \in Signals |->
     CASE x = "healthFactor" -> health [] x = "claimableUsd" -> claimable
       [] x = "venue" -> capacity [] x = "market" -> apy]

\* What the watchlists below can see: any source may fail or not list its row.
MCSamples ==
  {Sample(h, NoSample, NoSample, a) :
     h \in LevelValues \cup {NoSample}, a \in {0, 2, NoSample}}
  \cup {Sample(NoSample, NoSample, NoSample, 1)}
  \cup {Sample(NoSample, c, NoSample, NoSample) : c \in LevelValues}
  \cup {Sample(NoSample, NoSample, v, NoSample) : v \in Capacities}

MCThreshold ==
  [x \in Levels \cup Markets |-> IF x \in Markets THEN 2 ELSE 1]

Health == {"healthFactor"}
Claimable == {"claimableUsd"}
Venue == {"venue"}
Market == {"market"}

\* The order of evaluateWatchThresholds.
AllSignals == <<"healthFactor", "claimableUsd", "market", "venue">>

\* A level besides a market, a level of the other direction, a venue.
EveryWatchlist == {Health \cup Market, Claimable, Venue}

\* A level and a market: one poll fires both, and the market fills the receipt.
HealthOrder == <<"healthFactor", "market">>
HealthWatch == {Health \cup Market}

\* Recovered, missing, and in breach along with an APY drop.
RetrySamples ==
  {Sample(1, NoSample, NoSample, 2), Sample(NoSample, NoSample, NoSample, 2),
   Sample(0, NoSample, NoSample, 0)}
==============================================================================
