------------------------------ MODULE RedisTime ------------------------------
(***************************************************************************)
(* Two clocks: the services count milliseconds, here ticks, and give Redis *)
(* times to live in whole seconds (EX).  A key whose EX has run out is     *)
(* gone for every command.                                                 *)
(***************************************************************************)
EXTENDS Integers

CONSTANTS
  TicksPerSecond, \* clock ticks in a Redis second
  NoRecord        \* what GET returns for a key that is not there

ASSUME TicksAssumption == TicksPerSecond \in Nat \ {0}

\* Bug: a partial second dropped instead of granted.
FloorSeconds(span) == TicksPerSecond * (span \div TicksPerSecond)

\* Math.ceil of a span of ticks to whole seconds, back in ticks.
CeilSeconds(span) ==
  TicksPerSecond * ((span + TicksPerSecond - 1) \div TicksPerSecond)

\* The keys of a database left at time t.
Unevicted(db, t) ==
  [k \in DOMAIN db |->
     IF db[k] # NoRecord /\ db[k].evictAt <= t THEN NoRecord ELSE db[k]]
==============================================================================
