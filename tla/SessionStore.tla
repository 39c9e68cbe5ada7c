----------------------------- MODULE SessionStore -----------------------------
(***************************************************************************)
(* Prepaid agent sessions kept in Redis by services/session-store.ts.      *)
(*                                                                         *)
(* Every API instance talks to Redis over one ioredis connection.  A store *)
(* operation reads the clock, sends a command, waits, and interprets the   *)
(* reply; the two Lua scripts run atomically on the server.  ioredis is    *)
(* configured to wait for Redis as long as it takes and resends a command  *)
(* whose reply a broken connection lost, so a script may run more than     *)
(* once for one call and may run long after its clock reading.             *)
(*                                                                         *)
(* One outstanding call per instance: two calls of one instance share an   *)
(* ordered connection and interleave less than two of different instances. *)
(***************************************************************************)
EXTENDS RedisTime

CONSTANTS
  Sessions,       \* session ids mintSessionId can return
  Instances,      \* API processes
  Budget,         \* N and M: units per bucket of a fresh grant
  TtlSeconds,     \* X402_SESSION_TTL_SECONDS
  NoSession,      \* a call that carries no session id
  MaxTime,        \* bound: last clock tick
  MaxCalls,       \* bound: calls made of the store
  MaxDrops        \* bound: connections lost

Buckets == {"research", "quotes"}
Ops == {"create", "refresh", "get", "consume"}
Replies == {"ok", "missing", "expired", "exhausted", "unavailable"}

Record == [expiresAt : Nat, remaining : [Buckets -> Nat], evictAt : Nat]

ASSUME SessionAssumption ==
  /\ Budget \in [Buckets -> Nat]
  /\ TtlSeconds \in Nat \ {0}
  /\ NoSession \notin Sessions
  /\ NoRecord \notin Record

VARIABLES
  now,            \* the clock the instances read, and Redis expires keys by
  db,             \* canix402:session:{id} keys, with the deadline of their EX
  call,           \* the outstanding store call of each instance
  link,           \* is the instance's connection to Redis up
  minted,         \* ids drawn by newSessionRecord
  known,          \* ids some receipt told a client
  calls, drops,   \* bounded counters
  granted, spent, \* history: units granted and taken, per session and bucket
  promised        \* history: expiry of the last grant of a session

history == <<granted, spent, promised>>
vars == <<now, db, call, link, minted, known, calls, drops, granted, spent,
          promised>>

(***************************************************************************)
(* Types.                                                                  *)
(***************************************************************************)
Ledger == [Sessions -> [Buckets -> Nat]]

Call == [op : Ops, session : Sessions \cup {NoSession}, bucket : Buckets,
         nowMs : Nat, phase : {"idle", "queued", "replied"}, reply : Replies,
         units : Nat]

TypeOK ==
  /\ now \in Nat
  /\ db \in [Sessions -> Record \cup {NoRecord}]
  /\ call \in [Instances -> Call]
  /\ link \in [Instances -> BOOLEAN]
  /\ minted \subseteq Sessions
  /\ known \subseteq minted
  /\ calls \in Nat /\ drops \in Nat
  /\ granted \in Ledger /\ spent \in Ledger
  /\ promised \in [Sessions -> Nat]

(***************************************************************************)
(* Records and their lifetimes.                                            *)
(***************************************************************************)
TtlTicks == TtlSeconds * TicksPerSecond

\* Bug: one more unit than the budget (an off-by-one in the reset).
GenerousRecord(nowMs) ==
  [expiresAt |-> nowMs + TtlTicks, evictAt |-> now + TtlTicks,
   remaining |-> [b \in Buckets |-> Budget[b] + 1]]

\* newSessionRecord and resetSessionBudgets give the same fresh budgets, and
\* both scripts write the key with an EX counted from the moment they run.
FreshRecord(nowMs) ==
  [expiresAt |-> nowMs + TtlTicks, remaining |-> Budget,
   evictAt |-> now + TtlTicks]

Present(s) == db[s] # NoRecord

Expired(s, nowMs) == Present(s) /\ db[s].expiresAt <= nowMs

Live(s, nowMs) == Present(s) /\ db[s].expiresAt > nowMs

IdleCall ==
  [op |-> "get", session |-> NoSession, bucket |-> "research", nowMs |-> 0,
   phase |-> "idle", reply |-> "ok", units |-> 0]

Init ==
  /\ now = 0
  /\ db = [s \in Sessions |-> NoRecord]
  /\ call = [i \in Instances |-> IdleCall]
  /\ link = [i \in Instances |-> TRUE]
  /\ minted = {} /\ known = {}
  /\ calls = 0 /\ drops = 0
  /\ granted = [s \in Sessions |-> [b \in Buckets |-> 0]]
  /\ spent = [s \in Sessions |-> [b \in Buckets |-> 0]]
  /\ promised = [s \in Sessions |-> 0]

(***************************************************************************)
(* Making a call: the route or the session gate reads the clock and hands  *)
(* the command to the client.                                              *)
(***************************************************************************)
Issue(i, op, s, b) ==
  /\ call[i].phase = "idle"
  /\ calls < MaxCalls
  /\ calls' = calls + 1
  /\ call' = [call EXCEPT ![i] =
                [op |-> op, session |-> s, bucket |-> b, nowMs |-> now,
                 phase |-> "queued", reply |-> "ok", units |-> 0]]
  /\ UNCHANGED <<now, db, link, known, drops, history>>

\* POST /sessions, and POST /sessions/refresh when it names no session.
StartCreate(i) ==
  \E s \in Sessions \ minted :
    /\ Issue(i, "create", s, "research")
    /\ minted' = minted \cup {s}

\* POST /sessions/refresh with a session in the body or the header.
StartRefresh(i) ==
  \E s \in known : Issue(i, "refresh", s, "research") /\ UNCHANGED minted

\* GET /sessions/:sessionId.
StartGet(i) ==
  \E s \in known : Issue(i, "get", s, "research") /\ UNCHANGED minted

\* The onRequest gate of a session-eligible route.
StartConsume(i) ==
  \E s \in known, b \in Buckets :
    Issue(i, "consume", s, b) /\ UNCHANGED minted

(***************************************************************************)
(* Redis runs the command.                                                 *)
(***************************************************************************)
Arrives(i, op) ==
  /\ call[i].phase = "queued" /\ call[i].op = op /\ link[i]
  /\ UNCHANGED <<now, link, minted, known, calls, drops>>

Replied(i, reply, units) ==
  call' = [call EXCEPT ![i].phase = "replied", ![i].reply = reply,
                       ![i].units = @ + units]

Write(s, record) == db' = [db EXCEPT ![s] = record]

\* A grant as the history sees it.
Granted(s, nowMs) ==
  /\ Write(s, FreshRecord(nowMs))
  /\ granted' = [granted EXCEPT ![s] = [b \in Buckets |-> @[b] + Budget[b]]]
  /\ promised' = [promised EXCEPT ![s] = nowMs + TtlTicks]
  /\ UNCHANGED spent

\* create: SET key record EX ttl.
RunCreate(i) ==
  /\ Arrives(i, "create")
  /\ Granted(call[i].session, call[i].nowMs)
  /\ Replied(i, "ok", 0)

\* get: GET key, and the record's own expiry decides between the answers.
RunGet(i) ==
  LET c == call[i] IN
  /\ Arrives(i, "get")
  /\ \/ ~Present(c.session) /\ Replied(i, "missing", 0)
     \/ Expired(c.session, c.nowMs) /\ Replied(i, "expired", 0)
     \/ Live(c.session, c.nowMs) /\ Replied(i, "ok", 0)
  /\ UNCHANGED <<db, history>>

\* Bug: a refresh that loads, resets and saves without looking for the record.
RunRefreshBlindly(i) ==
  /\ Arrives(i, "refresh")
  /\ Granted(call[i].session, call[i].nowMs)
  /\ Replied(i, "ok", 0)

\* REFRESH_LUA.
RunRefresh(i) ==
  LET c == call[i] IN
  /\ Arrives(i, "refresh")
  /\ \/ /\ ~Present(c.session)
        /\ Replied(i, "missing", 0)
        /\ UNCHANGED <<db, history>>
     \/ /\ Expired(c.session, c.nowMs)
        /\ Write(c.session, NoRecord)
        /\ Replied(i, "expired", 0)
        /\ UNCHANGED history
     \/ /\ Live(c.session, c.nowMs)
        /\ Granted(c.session, c.nowMs)
        /\ Replied(i, "ok", 0)

\* Bug: a consume that answers without taking the unit.
ChargedNothing(s, b, nowMs) ==
  [db[s] EXCEPT !.evictAt = now + CeilSeconds(db[s].expiresAt - nowMs)]

\* What CONSUME_LUA writes: one unit less, and an EX of the time left, counted
\* from the caller's clock reading and rounded up to a second.
Charged(s, b, nowMs) ==
  [db[s] EXCEPT !.remaining[b] = @ - 1,
                !.evictAt = now + CeilSeconds(db[s].expiresAt - nowMs)]

\* CONSUME_LUA.
RunConsume(i) ==
  LET c == call[i] IN
  /\ Arrives(i, "consume")
  /\ \/ /\ ~Present(c.session)
        /\ Replied(i, "missing", 0)
        /\ UNCHANGED <<db, history>>
     \/ /\ Expired(c.session, c.nowMs)
        /\ Write(c.session, NoRecord)
        /\ Replied(i, "expired", 0)
        /\ UNCHANGED history
     \/ /\ Live(c.session, c.nowMs)
        /\ db[c.session].remaining[c.bucket] = 0
        /\ Replied(i, "exhausted", 0)
        /\ UNCHANGED <<db, history>>
     \/ /\ Live(c.session, c.nowMs)
        /\ db[c.session].remaining[c.bucket] > 0
        /\ Write(c.session, Charged(c.session, c.bucket, c.nowMs))
        /\ spent' = [spent EXCEPT ![c.session][c.bucket] = @ + 1]
        /\ Replied(i, "ok", 1)
        /\ UNCHANGED <<granted, promised>>

\* Redis answers with an error (out of memory, read-only replica, loading):
\* nothing is written and the store's catch turns it into "unavailable".
ServerError(i) ==
  /\ call[i].phase = "queued" /\ link[i]
  /\ Replied(i, "unavailable", 0)
  /\ UNCHANGED <<now, db, link, minted, known, calls, drops, history>>

(***************************************************************************)
(* The reply reaches the store.                                            *)
(***************************************************************************)
Answered(i) ==
  /\ call[i].phase = "replied"
  /\ link[i]
  /\ UNCHANGED <<now, db, link, calls, drops, history>>

\* refresh falls through to create, with the clock reading it started with.
RefreshMints(i) ==
  /\ Answered(i)
  /\ call[i].op = "refresh"
  /\ call[i].reply \in {"missing", "expired"}
  /\ \E s \in Sessions \ minted :
       /\ minted' = minted \cup {s}
       /\ call' = [call EXCEPT ![i].op = "create", ![i].session = s,
                               ![i].phase = "queued", ![i].reply = "ok"]
  /\ UNCHANGED known

\* Every other reply ends the call; an "ok" of create or refresh is a receipt.
Answer(i) ==
  /\ Answered(i)
  /\ ~(call[i].op = "refresh" /\ call[i].reply \in {"missing", "expired"})
  /\ call' = [call EXCEPT ![i] = IdleCall]
  /\ known' = IF call[i].op = "create" /\ call[i].reply = "ok"
              THEN known \cup {call[i].session} ELSE known
  /\ UNCHANGED minted

(***************************************************************************)
(* The connection and the clock.                                           *)
(***************************************************************************)
\* Bug: a command whose reply was lost is neither resent nor failed.
DropForgets(i) ==
  /\ link[i] /\ drops < MaxDrops
  /\ link' = [link EXCEPT ![i] = FALSE]
  /\ drops' = drops + 1
  /\ call' = [call EXCEPT ![i].phase = IF @ = "replied" THEN "lost" ELSE @]
  /\ UNCHANGED <<now, db, minted, known, calls, history>>

\* The connection breaks; a command without a reply is queued to be resent.
Drop(i) ==
  /\ link[i] /\ drops < MaxDrops
  /\ link' = [link EXCEPT ![i] = FALSE]
  /\ drops' = drops + 1
  /\ call' = [call EXCEPT ![i].phase = IF @ = "replied" THEN "queued" ELSE @,
                          ![i].reply = "ok"]
  /\ UNCHANGED <<now, db, minted, known, calls, history>>

Reconnect(i) ==
  /\ ~link[i]
  /\ link' = [link EXCEPT ![i] = TRUE]
  /\ UNCHANGED <<now, db, call, minted, known, calls, drops, history>>

Tick ==
  /\ now < MaxTime
  /\ now' = now + 1
  /\ db' = Unevicted(db, now + 1)
  /\ UNCHANGED <<call, link, minted, known, calls, drops, history>>

Serve(i) ==
  \/ RunCreate(i) \/ RunGet(i) \/ RunRefresh(i) \/ RunConsume(i)
  \/ RefreshMints(i) \/ Answer(i)

Next ==
  \/ \E i \in Instances :
       \/ StartCreate(i) \/ StartRefresh(i) \/ StartGet(i) \/ StartConsume(i)
       \/ Serve(i)
       \/ ServerError(i)
       \/ Drop(i) \/ Reconnect(i)
  \/ Tick

Spec == Init /\ [][Next]_vars

\* ioredis keeps trying (retryStrategy never gives up) and resolves replies; a
\* Redis that answers is not assumed to come back after an outage.
ServingFairness == \A i \in Instances : WF_vars(Serve(i))

\* The environment's part: Redis becomes reachable again.
ReconnectFairness == \A i \in Instances : WF_vars(Reconnect(i))

FairSpec == Spec /\ ServingFairness /\ ReconnectFairness

(***************************************************************************)
(* Properties.                                                             *)
(***************************************************************************)
\* Credit a session can still spend.
Credit == [s \in Sessions |-> IF Present(s) THEN db[s].remaining
                              ELSE [b \in Buckets |-> 0]]

Promise == INSTANCE PrepaidCredit WITH credit <- Credit

\* The store keeps the promise of PrepaidCredit: whatever the interleaving of
\* creates, refreshes and consumes of several instances, the resends and the
\* evictions, credit changes only by a grant, one unit at a time, or by lapse.
KeepsPromise == Promise!Spec

\* The units spent and still held by a session never exceed what its grants
\* gave it (CONSUME_LUA and REFRESH_LUA under concurrent callers).
NoOverspend ==
  \A s \in Sessions, b \in Buckets : spent[s][b] + Credit[s][b] <= granted[s][b]

\* Until the expiry of its last grant a session stays in Redis: no EX written by
\* create, refresh or consume is too short, and no script deletes it early.
PaidWindowHonoured ==
  \A s \in Sessions : now < promised[s] => Present(s)

\* A session a client holds and that is gone stays gone: neither a late consume
\* nor a late refresh brings the id back with a budget.
NoResurrection ==
  [][\A s \in known : ~Present(s) => ~Present(s)']_vars

\* Once Redis is reachable again every call is answered, those that a broken
\* connection interrupted included.
EveryCallAnswered ==
  \A i \in Instances : call[i].phase = "queued" ~> call[i].phase = "idle"

-----------------------------------------------------------------------------
(***************************************************************************)
(* Stated by docs/agent-sessions.md and not kept by the code.              *)
(***************************************************************************)
OutageSpec == Spec /\ ServingFairness

\* A call made while Redis is unreachable is answered, with or without Redis
\* ("Redis/store unavailable: SESSION_UNAVAILABLE").
OutageAnswered ==
  \A i \in Instances :
    (call[i].phase = "queued" /\ ~link[i]) ~> call[i].phase = "idle"

\* One call takes at most one unit from its bucket ("consume one unit from the
\* matching bucket").
OneUnitPerCall == \A i \in Instances : call[i].units <= 1
==============================================================================
