------------------------------ MODULE FeeHarvest ------------------------------
(***************************************************************************)
(* What leaves the pay-to wallet: the weekly job of every instance under a *)
(* lock in Redis (jobs/fee-harvest-cron.ts), the same harvest run by hand  *)
(* (cli/harvest-fees.ts) and the sweep to any address (cli/sweep-usdc.ts), *)
(* neither of which takes the lock.                                        *)
(*                                                                         *)
(* A harvest reads the balance, rounds it down to whole USDC and sends it  *)
(* 30/30/40 in one atomic group; the balance may be another by the time    *)
(* the group is on chain.  A dry run, or any check that throws before the  *)
(* balance is read, is a run that fails.  The chain is external: it pools  *)
(* a group, and later commits it whole or drops it.  What a run hears of   *)
(* that (waitForConfirmation) only goes into its log.                      *)
(***************************************************************************)
EXTENDS Integers

CONSTANTS
  Instances,    \* API processes, each with the job
  Clis,         \* runs of harvest-fees
  Sweeps,       \* runs of sweep-usdc
  Unit,         \* micro-USDC of a whole USDC
  LockTtl,      \* FEE_HARVEST_LOCK_TTL_SEC in ticks
  Week,         \* ticks between two Wednesdays
  Amounts,     \* amounts clients pay
  MaxPayments,  \* bound: payments
  MaxFailures   \* bound: crashes, refused calls of Redis or Algod, dropped groups

ASSUME HarvestAssumption ==
  /\ Unit \in Nat \ {0} /\ Amounts \subseteq Nat
  /\ LockTtl \in Nat \ {0} /\ Week \in Nat /\ LockTtl < Week

VARIABLES
  hour,         \* ticks since Wednesday 00:00 UTC
  begun,        \* runs that began, the job's since Wednesday
  lock,         \* ticks canix402:fee-harvest:lock has left, 0 if there is none
  wallet,       \* the pay-to wallet
  received,     \* of the three recipients
  step,         \* where each run is
  amount,       \* what it is about to send, from the balance it read
  pooled,       \* what its group moves while that is in the pool, 0 if none is
  payments, failures,   \* bounded counters
  groups        \* history: harvests on chain

chain == <<wallet, received, groups>>
harvestVars == <<hour, begun, lock, chain, step, amount, pooled, payments, failures>>

Runs == Instances \cup Clis \cup Sweeps
Recipients == {"30a", "30b", "40"}

HarvestTypeOK ==
  /\ hour \in 0..(Week - 1) /\ begun \subseteq Runs /\ lock \in 0..LockTtl
  /\ wallet \in Nat /\ received \in [Recipients -> Nat]
  /\ step \in [Runs -> {"idle", "lock", "read", "send"}]
  /\ amount \in [Runs -> Nat] /\ pooled \in [Runs -> Nat]
  /\ payments \in Nat /\ failures \in Nat /\ groups \in Nat

HarvestInit ==
  /\ hour = 0 /\ begun = {} /\ lock = 0
  /\ wallet = 0 /\ received = [c \in Recipients |-> 0]
  /\ step = [r \in Runs |-> "idle"] /\ amount = [r \in Runs |-> 0]
  /\ pooled = [r \in Runs |-> 0]
  /\ payments = 0 /\ failures = 0 /\ groups = 0

\* floorToWholeUsdcMicro.
WholeUsdc(balance) == balance \div Unit

\* splitFeeHarvestWholeUsdc: the last recipient absorbs what rounding leaves.
Split(whole) ==
  LET a == (whole * 30) \div 100
  IN  [c \in Recipients |-> Unit * (IF c = "40" THEN whole - a - a ELSE a)]

Goto(r, to) == step' = [step EXCEPT ![r] = to]
AnotherFailure == failures < MaxFailures /\ failures' = failures + 1

Pay ==
  /\ payments < MaxPayments /\ payments' = payments + 1
  /\ \E p \in Amounts : wallet' = wallet + p
  /\ UNCHANGED <<hour, begun, lock, received, step, amount, pooled, failures, groups>>

\* Bug: the lock is set without EX.
NeverExpired(ttl) == ttl

\* The key runs out after its EX.
Expired(ttl) == IF ttl = 0 THEN 0 ELSE ttl - 1

Tick ==
  /\ hour' = (hour + 1) % Week
  /\ begun' = IF hour' = 0 THEN begun \ Instances ELSE begun
  /\ lock' = Expired(lock)
  /\ UNCHANGED <<chain, step, amount, pooled, payments, failures>>

-----------------------------------------------------------------------------
(***************************************************************************)
(* A run.  A group of an earlier week is on chain or invalid by now.       *)
(***************************************************************************)
Begin(r, to) ==
  /\ r \notin begun /\ step[r] = "idle" /\ pooled[r] = 0
  /\ begun' = begun \cup {r} /\ Goto(r, to)
  /\ UNCHANGED <<hour, lock, chain, amount, pooled, payments, failures>>

Fire(i) == hour = 0 /\ Begin(i, "lock")
RunByHand(r) == Begin(r, "read")

\* SET NX EX; a job without the lock is over.
TakeLock(i) ==
  /\ step[i] = "lock"
  /\ \/ /\ lock = 0 /\ lock' = LockTtl /\ Goto(i, "read") /\ UNCHANGED failures
     \/ lock # 0 /\ Goto(i, "idle") /\ UNCHANGED <<lock, failures>>
     \/ AnotherFailure /\ Goto(i, "idle") /\ UNCHANGED lock
  /\ UNCHANGED <<hour, begun, chain, amount, pooled, payments>>

ReadBalance(r) ==
  /\ step[r] = "read"
  /\ amount' = [amount EXCEPT ![r] = Unit * WholeUsdc(wallet)]
  /\ Goto(r, IF amount'[r] = 0 THEN "idle" ELSE "send")
  /\ UNCHANGED <<hour, begun, lock, chain, pooled, payments, failures>>

Left(r) == Goto(r, "idle") /\ amount' = [amount EXCEPT ![r] = 0]

\* Algod takes the group if the wallet has the money, whether it says so or not.
SendGroup(r) ==
  /\ step[r] = "send" /\ amount[r] <= wallet
  /\ pooled' = [pooled EXCEPT ![r] = amount[r]]
  /\ Left(r)
  /\ UNCHANGED <<hour, begun, lock, chain, payments, failures>>

\* Anything thrown up to then, the death of the process included.
Fails(r) ==
  /\ \/ step[r] \in {"read", "send"} /\ AnotherFailure
     \/ step[r] = "send" /\ amount[r] > wallet /\ UNCHANGED failures
  /\ Left(r)
  /\ UNCHANGED <<hour, begun, lock, chain, pooled, payments>>

-----------------------------------------------------------------------------
\* Bug: no group, each transfer is paid while there is money.
CommitApart(r) ==
  LET share == Split(pooled[r] \div Unit)
      due == [c \in Recipients |-> IF c = "30a" THEN share[c]
                                   ELSE IF c = "30b" THEN 2 * share[c] ELSE pooled[r]]
      paid == [c \in Recipients |-> IF due[c] <= wallet THEN share[c] ELSE 0]
  IN  /\ pooled[r] > 0
      /\ pooled' = [pooled EXCEPT ![r] = 0]
      /\ wallet' = wallet - paid["30a"] - paid["30b"] - paid["40"]
      /\ received' = [c \in Recipients |-> received[c] + paid[c]]
      /\ groups' = groups + 1
      /\ UNCHANGED <<hour, begun, lock, step, amount, payments, failures>>

\* assignGroupID: all transfers of a harvest, or none.
CommitHarvest(r) ==
  LET share == Split(pooled[r] \div Unit)
  IN  /\ pooled[r] > 0 /\ pooled[r] <= wallet
      /\ pooled' = [pooled EXCEPT ![r] = 0]
      /\ wallet' = wallet - pooled[r]
      /\ received' = [c \in Recipients |-> received[c] + share[c]]
      /\ groups' = groups + 1
      /\ UNCHANGED <<hour, begun, lock, step, amount, payments, failures>>

CommitSweep(r) ==
  /\ pooled[r] > 0 /\ pooled[r] <= wallet
  /\ pooled' = [pooled EXCEPT ![r] = 0]
  /\ wallet' = wallet - pooled[r]
  /\ UNCHANGED <<hour, begun, lock, received, step, amount, payments, failures, groups>>

Commit(r) == IF r \in Sweeps THEN CommitSweep(r) ELSE CommitHarvest(r)

\* The money is gone, or the group was never proposed while it was valid.
Drop(r) ==
  /\ pooled[r] > 0
  /\ \/ pooled[r] > wallet /\ UNCHANGED failures
     \/ pooled[r] <= wallet /\ AnotherFailure
  /\ pooled' = [pooled EXCEPT ![r] = 0]
  /\ UNCHANGED <<hour, begun, lock, chain, step, amount, payments>>

Steps(r) == TakeLock(r) \/ ReadBalance(r) \/ SendGroup(r) \/ Fails(r)

HarvestNext ==
  \/ Pay \/ Tick
  \/ \E i \in Instances : Fire(i)
  \/ \E r \in Clis \cup Sweeps : RunByHand(r)
  \/ \E r \in Runs : Steps(r) \/ Commit(r) \/ Drop(r)

HarvestSpec == HarvestInit /\ [][HarvestNext]_harvestVars

\* The week goes on, Redis and Algod answer each call in some way, and of many
\* Wednesdays an instance is there on one.
FairHarvestSpec ==
  /\ HarvestSpec /\ WF_harvestVars(Tick)
  /\ \A i \in Instances : SF_harvestVars(Fire(i))
  /\ \A r \in Runs : WF_harvestVars(Steps(r)) /\ WF_harvestVars(Commit(r) \/ Drop(r))

-----------------------------------------------------------------------------
\* However harvests, sweeps and payments cross, and whichever of them read a balance
\* that was another when its group came on chain: all harvests together are shared
\* 30/30/40, the first two alike and short of their 30% by less than a whole USDC for
\* each harvest, the last one never short.
FairShares ==
  LET total == received["30a"] + received["30b"] + received["40"]
  IN  /\ received["30a"] = received["30b"]
      /\ 10 * received["30a"] <= 3 * total
      /\ 3 * total <= 10 * received["30a"] + 10 * Unit * groups

\* Whole USDC do not stay in the wallet: neither a job that died or was refused while
\* it held the lock, which nobody gives back, nor a sweep that took the money it had
\* read, keeps the next week's job from harvesting.
FeesAreDistributed == wallet >= Unit ~> wallet < Unit
==============================================================================
