------------------------------ MODULE WatchStore ------------------------------
(***************************************************************************)
(* Watch retainers in Redis (services/watch-store.ts) and the polls that   *)
(* walk them (services/watch-poll.ts, jobs/watch-cron.ts).                 *)
(*                                                                         *)
(* A watch is a key with a time to live and an entry in an index set.      *)
(* Unlike a session, it is changed by loading the record, building a new   *)
(* one in the process and writing the whole record back; each of these is  *)
(* a Redis command of its own, and so are the updates of the index.  One   *)
(* step of this module is one command.  What a poll does to a record's     *)
(* snapshot and firings is in WatchEpisodes; here a record is its expiry   *)
(* and its secret.                                                         *)
(***************************************************************************)
EXTENDS RedisTime, FiniteSets

CONSTANTS
  Watches,        \* watch ids mintWatchId can return
  Clients,        \* API requests under way, over all instances
  Pollers,        \* runs of the poll job under way, over all instances
  TtlSeconds,     \* X402_WATCH_TTL_SECONDS
  LockSeconds,    \* lock time of a poll, max(60, X402_WATCH_POLL_SECONDS)
  NoWatch,        \* a process that is at no watch
  MaxTime,        \* bound: last clock tick
  MaxOps,         \* bound: operations begun
  MaxActive,      \* bound: operations under way at the same time
  MaxErrors       \* bound: commands that fail

Processes == Clients \cup Pollers
Ops == {"idle", "create", "refresh", "rotate", "get", "poll"}
Steps == {"none", "get", "srem", "del", "set", "sadd", "lock", "smembers", "next"}

Record == [expiresAt : Nat, secret : Nat, evictAt : Nat]

ASSUME WatchAssumption ==
  /\ TtlSeconds \in Nat \ {0} /\ LockSeconds \in Nat \ {0}
  /\ NoWatch \notin Watches /\ NoRecord \notin Record
  /\ Clients \cap Pollers = {}

VARIABLES
  now,            \* the clock of the instances and of Redis
  key,            \* canix402:watch:{id}, with the deadline of its EX
  index,          \* canix402:watch:index
  lock,           \* time at which canix402:watch:lock expires
  proc,           \* what each process is doing
  made,           \* watch ids drawn
  secrets,        \* webhook secrets minted so far; a secret is its number
  ops, errors,    \* bounded counters
  apart,          \* history: operations so far followed one another, none failed
  paidUntil,      \* history: expiry on the last receipt of create or refresh
  granted,        \* history: latest expiry a create or refresh asked for
  shown           \* history: the secret last shown to the watch's owner

history == <<paidUntil, granted, shown>>
vars == <<now, key, index, lock, proc, made, secrets, ops, errors, apart, paidUntil,
          granted, shown>>

Process ==
  [op : Ops, step : Steps, watch : Watches \cup {NoWatch}, nowMs : Nat,
   record : Record \cup {NoRecord},     \* loaded, or about to be written
   secret : Nat,                        \* presented to rotate, or 0
   rotate : BOOLEAN,                    \* refresh with rotateSecret
   todo : SUBSET Watches,               \* ids of the index left to load
   active : SUBSET [watch : Watches, record : Record],
   lockUntil : Nat]                     \* lock this poll acquired, or 0

Idle ==
  [op |-> "idle", step |-> "none", watch |-> NoWatch, nowMs |-> 0,
   record |-> NoRecord, secret |-> 0, rotate |-> FALSE, todo |-> {},
   active |-> {}, lockUntil |-> 0]

TypeOK ==
  /\ now \in Nat /\ lock \in Nat
  /\ key \in [Watches -> Record \cup {NoRecord}]
  /\ index \subseteq made /\ made \subseteq Watches
  /\ proc \in [Processes -> Process]
  /\ \A p \in Processes :
       proc[p].watch = NoWatch <=> proc[p].step \in {"none", "lock", "smembers", "next"}
  /\ secrets \in Nat /\ ops \in Nat /\ errors \in Nat /\ apart \in BOOLEAN
  /\ paidUntil \in [Watches -> Nat] /\ granted \in [Watches -> Nat]
  /\ shown \in [Watches -> 0..secrets]

Init ==
  /\ now = 0
  /\ key = [w \in Watches |-> NoRecord]
  /\ index = {} /\ made = {}
  /\ lock = 0
  /\ proc = [p \in Processes |-> Idle]
  /\ secrets = 0 /\ ops = 0 /\ errors = 0 /\ apart = TRUE
  /\ paidUntil = [w \in Watches |-> 0]
  /\ granted = [w \in Watches |-> 0]
  /\ shown = [w \in Watches |-> 0]

(***************************************************************************)
(* Beginning an operation.                                                 *)
(***************************************************************************)
TtlTicks == TtlSeconds * TicksPerSecond

Busy == {p \in Processes : proc[p].op # "idle"}

Begin(p, process) ==
  /\ proc[p].op = "idle"
  /\ ops < MaxOps /\ Cardinality(Busy) < MaxActive
  /\ ops' = ops + 1 /\ apart' = (apart /\ Busy = {})
  /\ proc' = [proc EXCEPT ![p] = process]

\* A receipt has told the owner of these watches.
Known == {w \in Watches : shown[w] # 0}

\* create: newWatchRecord mints the id and the secret before the first command.
BeginCreate(p) ==
  \E w \in Watches \ made :
    /\ Begin(p, [Idle EXCEPT !.op = "create", !.step = "set", !.watch = w,
                             !.nowMs = now,
                             !.record = [expiresAt |-> now + TtlTicks,
                                         secret |-> secrets + 1, evictAt |-> 0]])
    /\ made' = made \cup {w}
    /\ secrets' = secrets + 1
    /\ granted' = [granted EXCEPT ![w] = now + TtlTicks]
    /\ UNCHANGED <<now, key, index, lock, errors, paidUntil, shown>>

BeginOn(p, w, process) ==
  /\ Begin(p, [process EXCEPT !.step = "get", !.watch = w, !.nowMs = now])
  /\ UNCHANGED <<now, key, index, lock, made, secrets, errors, history>>

BeginGet(p) == \E w \in Known : BeginOn(p, w, [Idle EXCEPT !.op = "get"])

BeginRefresh(p) ==
  \E w \in Known, r \in BOOLEAN :
    BeginOn(p, w, [Idle EXCEPT !.op = "refresh", !.rotate = r])

\* The owner presents the secret it was last shown, or an older one.
BeginRotate(p) ==
  \E w \in Known : \E s \in 1..shown[w] :
    BeginOn(p, w, [Idle EXCEPT !.op = "rotate", !.secret = s])

BeginPoll(p) ==
  /\ Begin(p, [Idle EXCEPT !.op = "poll", !.step = "lock"])
  /\ UNCHANGED <<now, key, index, lock, made, secrets, errors, history>>

(***************************************************************************)
(* Steps of a process.                                                     *)
(***************************************************************************)
At(p, step) == proc[p].op # "idle" /\ proc[p].step = step

Become(p, process) == proc' = [proc EXCEPT ![p] = process]

Goto(p, step) == Become(p, [proc[p] EXCEPT !.step = step])

\* What a finished watch leaves to do: a poll goes on, a request is answered.
AfterWatch(p) ==
  IF proc[p].op = "poll"
  THEN [proc[p] EXCEPT !.step = "next", !.watch = NoWatch, !.record = NoRecord]
  ELSE Idle

Now(p) == proc[p].nowMs
Key(p) == key[proc[p].watch]

\* loadRecord, GET: nothing there.
LoadMissing(p) ==
  /\ At(p, "get") /\ Key(p) = NoRecord
  /\ Goto(p, "srem")
  /\ UNCHANGED <<now, key, index, lock, made, secrets, ops, errors, apart, history>>

\* loadRecord, GET: a record past its expiry is deleted.
LoadExpired(p) ==
  /\ At(p, "get") /\ Key(p) # NoRecord /\ Key(p).expiresAt <= Now(p)
  /\ Goto(p, "del")
  /\ UNCHANGED <<now, key, index, lock, made, secrets, ops, errors, apart, history>>

\* Bug: refresh and rotateSecret share the code that moves the expiry.
ChangedWithExpiry(p, fresh) ==
  [Key(p) EXCEPT !.expiresAt = Now(p) + TtlTicks, !.secret = fresh]

\* The record refresh and rotateSecret write back.
Changed(p, fresh) ==
  IF proc[p].op = "rotate" THEN [Key(p) EXCEPT !.secret = fresh]
  ELSE [Key(p) EXCEPT !.expiresAt = Now(p) + TtlTicks,
                      !.secret = IF proc[p].rotate THEN fresh ELSE @]

\* loadRecord, GET: a live record.  get answers, a poll puts it on its list,
\* refresh and a rotate with the right secret go on to write.
LoadLive(p) ==
  /\ At(p, "get") /\ Key(p) # NoRecord /\ Key(p).expiresAt > Now(p)
  /\ LET mints == proc[p].op = "rotate" \/ proc[p].rotate
         refused == proc[p].op = "rotate" /\ proc[p].secret # Key(p).secret IN
     \/ /\ proc[p].op = "get" \/ refused
        /\ Become(p, Idle)
        /\ UNCHANGED <<secrets, granted>>
     \/ /\ proc[p].op = "poll"
        /\ Become(p, [AfterWatch(p) EXCEPT
                        !.active = @ \cup {[watch |-> proc[p].watch, record |-> Key(p)]}])
        /\ UNCHANGED <<secrets, granted>>
     \/ /\ proc[p].op \in {"refresh", "rotate"} /\ ~refused
        /\ Become(p, [proc[p] EXCEPT !.step = "set", !.record = Changed(p, secrets + 1)])
        /\ secrets' = IF mints THEN secrets + 1 ELSE secrets
        /\ granted' = IF proc[p].op = "refresh" /\ Now(p) + TtlTicks > granted[proc[p].watch]
                      THEN [granted EXCEPT ![proc[p].watch] = Now(p) + TtlTicks]
                      ELSE granted
  /\ UNCHANGED <<now, key, index, lock, made, ops, errors, apart, paidUntil, shown>>

\* loadRecord, DEL.
Delete(p) ==
  /\ At(p, "del")
  /\ key' = [key EXCEPT ![proc[p].watch] = NoRecord]
  /\ Goto(p, "srem")
  /\ UNCHANGED <<now, index, lock, made, secrets, ops, errors, apart, history>>

\* loadRecord, SREM: the answer is "invalid" or "expired".
Unindex(p) ==
  /\ At(p, "srem")
  /\ index' = index \ {proc[p].watch}
  /\ Become(p, AfterWatch(p))
  /\ UNCHANGED <<now, key, lock, made, secrets, ops, errors, apart, history>>

\* Bug: SET with KEEPTTL where there is a record.
WriteKeepingTtl(p) ==
  /\ At(p, "set")
  /\ key' = [key EXCEPT ![proc[p].watch] =
               [proc[p].record EXCEPT
                  !.evictAt = IF Key(p) # NoRecord THEN Key(p).evictAt
                              ELSE now + CeilSeconds(proc[p].record.expiresAt - Now(p))]]
  /\ Goto(p, "sadd")
  /\ UNCHANGED <<now, index, lock, made, secrets, ops, errors, apart, history>>

\* create and persist, SET with the time the record has left.  persist's own
\* test of the expiry is never met: the record was live when it was loaded, at
\* the same clock reading.
Write(p) ==
  /\ At(p, "set")
  /\ key' = [key EXCEPT ![proc[p].watch] =
               [proc[p].record EXCEPT
                  !.evictAt = now + CeilSeconds(proc[p].record.expiresAt - Now(p))]]
  /\ Goto(p, "sadd")
  /\ UNCHANGED <<now, index, lock, made, secrets, ops, errors, apart, history>>

\* What a create, a refresh and a rotateSecret tell the owner when they are done.
Receipt(p) ==
  LET w == proc[p].watch IN
  /\ paidUntil' = IF proc[p].op \in {"create", "refresh"}
                  THEN [paidUntil EXCEPT ![w] = proc[p].record.expiresAt] ELSE paidUntil
  /\ shown' = IF proc[p].op \in {"create", "rotate"} \/ proc[p].rotate
              THEN [shown EXCEPT ![w] = proc[p].record.secret] ELSE shown
  /\ UNCHANGED granted

\* create and persist, SADD; then the request is answered with a receipt.
Index(p) ==
  /\ At(p, "sadd")
  /\ index' = index \cup {proc[p].watch}
  /\ Receipt(p)
  /\ Become(p, AfterWatch(p))
  /\ UNCHANGED <<now, key, lock, made, secrets, ops, errors, apart>>

\* A command is refused by Redis, with nothing done: the request is answered
\* "unavailable"; a poll skips the watch, polls nothing, or polls without lock.
CommandFails(p) ==
  /\ proc[p].op # "idle" /\ proc[p].step # "next" /\ errors < MaxErrors
  /\ errors' = errors + 1 /\ apart' = FALSE
  /\ Become(p, CASE proc[p].step = "lock" ->
                      [proc[p] EXCEPT !.step = "smembers", !.nowMs = now]
                 [] proc[p].step = "smembers" -> Idle
                 [] OTHER -> AfterWatch(p))
  /\ UNCHANGED <<now, key, index, lock, made, secrets, ops, history>>

(***************************************************************************)
(* The poll.                                                               *)
(***************************************************************************)
\* Bug: SET without NX: the lock is taken whoever holds it.
LockFreeAlways == TRUE

\* SET key NX EX: free when nobody's lock is alive.
LockFree == lock <= now

\* tryAcquireRedisLock; runWatchPoll then reads its clock.  The lock is never
\* released, it runs out.
PollLock(p) ==
  /\ At(p, "lock") /\ LockFree
  /\ lock' = now + LockSeconds * TicksPerSecond
  /\ Become(p, [proc[p] EXCEPT !.step = "smembers", !.nowMs = now, !.lockUntil = lock'])
  /\ UNCHANGED <<now, key, index, made, secrets, ops, errors, apart, history>>

PollSkipped(p) ==
  /\ At(p, "lock") /\ ~LockFree
  /\ Become(p, Idle)
  /\ UNCHANGED <<now, key, index, lock, made, secrets, ops, errors, apart, history>>

\* listActive, SMEMBERS.
PollMembers(p) ==
  /\ At(p, "smembers")
  /\ Become(p, [proc[p] EXCEPT !.step = "next", !.todo = index])
  /\ UNCHANGED <<now, key, index, lock, made, secrets, ops, errors, apart, history>>

\* listActive loads the next id.
PollLoads(p) ==
  /\ At(p, "next")
  /\ \E w \in proc[p].todo :
       Become(p, [proc[p] EXCEPT !.step = "get", !.watch = w, !.todo = @ \ {w}])
  /\ UNCHANGED <<now, key, index, lock, made, secrets, ops, errors, apart, history>>

\* All are loaded: the next watch is sampled, evaluated and its webhooks are
\* posted; save writes back the record that was loaded.
PollWorks(p) ==
  /\ At(p, "next") /\ proc[p].todo = {}
  /\ \E a \in proc[p].active :
       Become(p, [proc[p] EXCEPT !.step = "set", !.watch = a.watch,
                                 !.record = a.record, !.active = @ \ {a}])
  /\ UNCHANGED <<now, key, index, lock, made, secrets, ops, errors, apart, history>>

PollDone(p) ==
  /\ At(p, "next") /\ proc[p].todo = {} /\ proc[p].active = {}
  /\ Become(p, Idle)
  /\ UNCHANGED <<now, key, index, lock, made, secrets, ops, errors, apart, history>>

Tick ==
  /\ now < MaxTime
  /\ now' = now + 1
  /\ key' = Unevicted(key, now + 1)
  /\ UNCHANGED <<index, lock, proc, made, secrets, ops, errors, apart, history>>

Step(p) ==
  \/ LoadMissing(p) \/ LoadExpired(p) \/ LoadLive(p) \/ Delete(p) \/ Unindex(p)
  \/ Write(p) \/ Index(p)
  \/ PollLock(p) \/ PollSkipped(p) \/ PollMembers(p) \/ PollLoads(p)
  \/ PollWorks(p) \/ PollDone(p)

Next ==
  \/ \E p \in Clients :
       BeginCreate(p) \/ BeginGet(p) \/ BeginRefresh(p) \/ BeginRotate(p)
  \/ \E p \in Pollers : BeginPoll(p)
  \/ \E p \in Processes : Step(p) \/ CommandFails(p)
  \/ Tick

Spec == Init /\ [][Next]_vars

(***************************************************************************)
(* Properties.                                                             *)
(***************************************************************************)
Quiet == Busy = {}

\* A paid create or refresh is kept: when nothing is under way, a watch whose
\* receipt has not run out is stored with at least that expiry.
PaidExtensionKept ==
  \A w \in Watches :
    Quiet /\ now < paidUntil[w] =>
      key[w] # NoRecord /\ key[w].expiresAt >= paidUntil[w]

\* While operations follow one another and none fails, a watch that is paid for
\* is stored with its expiry, in the index that polls walk, and signs with the
\* secret its owner was last shown, whatever gets, refreshes, rotations, polls
\* and evictions came before.
PaidWatchIntact ==
  \A w \in Watches :
    apart /\ Quiet /\ now < paidUntil[w] =>
      /\ key[w] # NoRecord /\ key[w].expiresAt >= paidUntil[w]
      /\ key[w].secret = shown[w]
      /\ w \in index

\* No write, however stale the record it writes back, gives a watch more time
\* than some paid create or refresh asked for ("Does not extend TTL").
NoUnpaidTime ==
  \A w \in Watches : key[w] # NoRecord => key[w].expiresAt <= granted[w]

\* Redis does not evict a record before its expiry, whoever wrote it last.
EvictionNotEarly ==
  \A w \in Watches : key[w] # NoRecord => key[w].evictAt >= key[w].expiresAt

\* Two polls that took the lock are never both within its time.
LockIsExclusive ==
  \A p, q \in Pollers :
    (p # q /\ now < proc[p].lockUntil /\ now < proc[q].lockUntil) => FALSE

-----------------------------------------------------------------------------
(***************************************************************************)
(* Stated by comments and not kept by the code.                            *)
(***************************************************************************)
\* A poll whose lock is alive is alone at work: "Watch poll skipped: another
\* instance holds the lock" (watch-cron.ts), "callers must not proceed without a
\* lock when multi-instance safety is required" (redis-cache.ts).
OnePollAtATime ==
  \A p, q \in Pollers :
    (p # q /\ now < proc[p].lockUntil /\ proc[q].op = "poll") => proc[q].step = "lock"
==============================================================================
