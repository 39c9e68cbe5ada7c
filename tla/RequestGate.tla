------------------------------ MODULE RequestGate ------------------------------
(***************************************************************************)
(* The shared budget of Algod requests (services/request-throttle.ts):     *)
(* createRequestGate bounds how many requests are in flight and spaces     *)
(* their starts, withAlgodRequestGate sends every request of an SDK        *)
(* through it and, with retryRateLimited, sends it again after a 429.      *)
(*                                                                         *)
(* The process has one thread: drain runs to its end before another call,  *)
(* answer or timer is handled, but the clock it reads may move between two *)
(* of its turns.  A turn of drain is a step here, and draining keeps the   *)
(* other handlers out until it returns.                                    *)
(***************************************************************************)
EXTENDS Integers, Sequences, FiniteSets

CONSTANTS
  Requests,       \* requests made through the gate
  Concurrency,    \* concurrency, at least 1
  DelayMs,        \* delayMs, between two starts
  MaxRetries,     \* ALGOD_429_MAX_RETRIES
  BaseDelayMs,    \* ALGOD_429_RETRY_BASE_MS
  NoTimer,        \* wakeUp is undefined
  MaxTime         \* bound: last clock tick without a timer

ASSUME GateAssumption ==
  /\ Concurrency \in Nat \ {0}
  /\ DelayMs \in Nat /\ MaxRetries \in Nat /\ BaseDelayMs \in Nat
  /\ NoTimer \notin Nat

VARIABLES
  now,            \* Date.now()
  queue,          \* requests waiting to start
  active,         \* requests counted as in flight
  nextStartAt,    \* earliest time of the next start
  wakeUp,         \* deadline of the timer, or NoTimer
  draining,       \* drain is on the stack
  state,          \* where each request is
  attempt,        \* attempt of retryRateLimited
  retryAt,        \* end of its sleep
  calls,          \* history: calls of run, in order
  started,        \* history: requests started, in order
  startTimes      \* history: and when

gate == <<queue, active, nextStartAt, wakeUp, draining>>
history == <<calls, started, startTimes>>
vars == <<now, queue, active, nextStartAt, wakeUp, draining, state, attempt,
          retryAt, calls, started, startTimes>>

States == {"new", "queued", "running", "sleeping", "resolved", "rejected"}

TypeOK ==
  /\ now \in Nat /\ nextStartAt \in Nat /\ active \in Nat
  /\ queue \in Seq(Requests) /\ calls \in Seq(Requests) /\ started \in Seq(Requests)
  /\ startTimes \in Seq(Nat)
  /\ wakeUp \in Nat \cup {NoTimer}
  /\ draining \in BOOLEAN
  /\ state \in [Requests -> States]
  /\ attempt \in [Requests -> 0..MaxRetries]
  /\ DOMAIN retryAt = Requests

Init ==
  /\ now = 0 /\ nextStartAt = 0
  /\ queue = <<>> /\ active = 0 /\ wakeUp = NoTimer /\ draining = FALSE
  /\ state = [r \in Requests |-> "new"]
  /\ attempt = [r \in Requests |-> 0]
  /\ retryAt = [r \in Requests |-> 0]
  /\ calls = <<>> /\ started = <<>> /\ startTimes = <<>>

(***************************************************************************)
(* run: queue the request and drain.                                       *)
(***************************************************************************)
Enqueue(r) ==
  /\ ~draining /\ draining' = TRUE
  /\ queue' = Append(queue, r)
  /\ calls' = Append(calls, r)
  /\ state' = [state EXCEPT ![r] = "queued"]
  /\ UNCHANGED <<now, active, nextStartAt, wakeUp, attempt, retryAt, started, startTimes>>

Run(r) == state[r] = "new" /\ Enqueue(r)

\* retryRateLimited wakes up from its sleep and calls the gate again.
Retry(r) == state[r] = "sleeping" /\ retryAt[r] <= now /\ Enqueue(r)

(***************************************************************************)
(* drain, one turn at a time.                                              *)
(***************************************************************************)
Room == active < Concurrency /\ queue # <<>>

DrainStops ==
  /\ draining /\ ~Room
  /\ draining' = FALSE
  /\ UNCHANGED <<now, queue, active, nextStartAt, wakeUp, state, attempt, retryAt, history>>

\* Too early for the next start: see that a timer is set.
DrainWaits ==
  /\ draining /\ Room /\ nextStartAt > now
  /\ wakeUp' = IF wakeUp = NoTimer THEN nextStartAt ELSE wakeUp
  /\ draining' = FALSE
  /\ UNCHANGED <<now, queue, active, nextStartAt, state, attempt, retryAt, history>>

\* Bug: the starts keep to a grid, a late one lets the next come early.
NextStartOnGrid(startAt) == nextStartAt + DelayMs

NextStart(startAt) == startAt + DelayMs

\* Bug: queue.pop() for queue.shift().
DrainStartsNewest ==
  /\ draining /\ Room /\ nextStartAt <= now
  /\ queue' = SubSeq(queue, 1, Len(queue) - 1)
  /\ active' = active + 1
  /\ nextStartAt' = NextStart(now)
  /\ state' = [state EXCEPT ![queue[Len(queue)]] = "running"]
  /\ started' = Append(started, queue[Len(queue)])
  /\ startTimes' = Append(startTimes, now)
  /\ UNCHANGED <<now, wakeUp, draining, attempt, retryAt, calls>>

DrainStarts ==
  /\ draining /\ Room /\ nextStartAt <= now
  /\ queue' = Tail(queue)
  /\ active' = active + 1
  /\ nextStartAt' = NextStart(now)
  /\ state' = [state EXCEPT ![Head(queue)] = "running"]
  /\ started' = Append(started, Head(queue))
  /\ startTimes' = Append(startTimes, now)
  /\ UNCHANGED <<now, wakeUp, draining, attempt, retryAt, calls>>

\* The timer: wakeUp = undefined; drain().
WakeUp ==
  /\ ~draining /\ wakeUp # NoTimer /\ wakeUp <= now
  /\ wakeUp' = NoTimer
  /\ draining' = TRUE
  /\ UNCHANGED <<now, queue, active, nextStartAt, state, attempt, retryAt, history>>

(***************************************************************************)
(* A request settles: active -= 1; drain().                                *)
(***************************************************************************)
\* Bug: a request that fails does not give its place back.
ReleaseOnSuccess(r, outcome) ==
  /\ ~draining /\ state[r] = "running"
  /\ draining' = TRUE
  /\ active' = IF outcome = "resolved" THEN active - 1 ELSE active

\* Bug: the next request is left to wait for another call or timer.
ReleaseWithoutDrain(r, outcome) ==
  /\ ~draining /\ state[r] = "running"
  /\ draining' = FALSE
  /\ active' = active - 1

Release(r, outcome) ==
  /\ ~draining /\ state[r] = "running"
  /\ draining' = TRUE
  /\ active' = active - 1

Settle(r, outcome) ==
  /\ Release(r, outcome)
  /\ state' = [state EXCEPT ![r] = outcome]
  /\ UNCHANGED <<now, queue, nextStartAt, wakeUp, attempt, retryAt, history>>

Succeed(r) == Settle(r, "resolved")

\* An error that is no 429, or a 429 after the last retry.
Fail(r) == Settle(r, "rejected")

\* Bug: one retry too many.
RateLimitedOnceMore(r) ==
  /\ attempt[r] <= MaxRetries
  /\ Release(r, "sleeping")
  /\ state' = [state EXCEPT ![r] = "sleeping"]
  /\ retryAt' = [retryAt EXCEPT ![r] = now + BaseDelayMs * 2 ^ attempt[r]]
  /\ attempt' = [attempt EXCEPT ![r] = @ + 1]
  /\ UNCHANGED <<now, queue, nextStartAt, wakeUp, history>>

\* A 429 with retries left: sleep baseDelayMs * 2 ** attempt.
RateLimited(r) ==
  /\ attempt[r] < MaxRetries
  /\ Release(r, "sleeping")
  /\ state' = [state EXCEPT ![r] = "sleeping"]
  /\ retryAt' = [retryAt EXCEPT ![r] = now + BaseDelayMs * 2 ^ attempt[r]]
  /\ attempt' = [attempt EXCEPT ![r] = @ + 1]
  /\ UNCHANGED <<now, queue, nextStartAt, wakeUp, history>>

\* The clock goes on by itself up to MaxTime, then only towards a timer.
Tick ==
  /\ \/ now < MaxTime
     \/ wakeUp # NoTimer /\ now < wakeUp
     \/ \E r \in Requests : state[r] = "sleeping" /\ now < retryAt[r]
  /\ now' = now + 1
  /\ UNCHANGED <<gate, state, attempt, retryAt, history>>

Next ==
  \/ \E r \in Requests :
       Run(r) \/ Retry(r) \/ Succeed(r) \/ Fail(r) \/ RateLimited(r)
  \/ DrainStops \/ DrainWaits \/ DrainStarts
  \/ WakeUp
  \/ Tick

Spec == Init /\ [][Next]_vars

\* The event loop runs what is due, Algod answers, time goes on.
FairSpec ==
  /\ Spec
  /\ WF_vars(DrainStops \/ DrainWaits \/ DrainStarts)
  /\ WF_vars(WakeUp) /\ WF_vars(Tick)
  /\ \A r \in Requests :
       WF_vars(Retry(r)) /\ WF_vars(Succeed(r) \/ Fail(r) \/ RateLimited(r))

(***************************************************************************)
(* Properties.                                                             *)
(***************************************************************************)
\* The count the gate keeps is the number of requests in flight, and that is
\* within the budget, whatever settles, fails or is retried meanwhile.
WithinBudget ==
  active = Cardinality({r \in Requests : state[r] = "running"}) /\ active <= Concurrency

\* "a minimum delay between task starts": however late timers run and however
\* often drain is called, no two requests start closer than the delay.
StartsSpaced ==
  \A i \in 1..Len(startTimes) - 1 : startTimes[i] + DelayMs <= startTimes[i + 1]

\* Requests start in the order run was called; none overtakes, is lost or is
\* started twice for one call.
StartedInOrder == calls = started \o queue

\* No wake-up is lost: while a request waits, the gate is full or a timer set,
\* and the timer is not set for later than the next start is due.
NeverStalled ==
  /\ ~draining /\ queue # <<>> => active >= Concurrency \/ wakeUp # NoTimer
  /\ wakeUp # NoTimer => wakeUp <= nextStartAt

\* Every request made through the gate is answered in the end.
EveryRequestSettles ==
  \A r \in Requests : state[r] = "queued" ~> state[r] \in {"resolved", "rejected"}
==============================================================================
