------------------------------ MODULE WatchProofs ------------------------------
(***************************************************************************)
(* Theorems about the two models of watch retainers: WatchStore, for any   *)
(* watches, requests and polls, any number of operations under way at once *)
(* and any failing commands; and WatchEpisodes, for any signals,           *)
(* thresholds and samples, any webhooks and any crashes, refreshes and     *)
(* rotations.  The two share no state.                                     *)
(***************************************************************************)
EXTENDS WatchStore, WatchEpisodes, ListProofs, TLAPS

\* Rounding a span up to whole Redis seconds never shortens it.
LEMMA CeilCovers ==
  ASSUME NEW span \in Int
  PROVE  /\ CeilSeconds(span) \in Int /\ CeilSeconds(span) >= span
         /\ span \in Nat => CeilSeconds(span) \in Nat
<1> DEFINE T == TicksPerSecond
           q == (span + T - 1) \div T
           r == (span + T - 1) % T
<1>1. T \in Nat \ {0} BY TicksAssumption
<1>2. span + T - 1 \in Int BY <1>1
<1>3. q \in Int /\ r \in 0..(T - 1) /\ span + T - 1 = T * q + r
  BY <1>1, <1>2
<1> HIDE DEF q, r
<1>4. T * q \in Int /\ T * q >= span
  BY <1>1, <1>3
<1>5. QED BY <1>4 DEF CeilSeconds, q

(***************************************************************************)
(* The inductive invariant.                                                *)
(***************************************************************************)
\* A record of watch w, loaded or stored, whenever it was: g and s are the expiries
\* granted and the secrets minted since.
Genuine(record, w, g, s) ==
  /\ record \in Record /\ w \in Watches
  /\ record.expiresAt <= g[w]
  /\ record.secret <= s

\* What a process holds: m are the ids drawn, t is the time and l the lock.
Sound(r, m, g, s, t, l) ==
  /\ r \in Process
  /\ r.watch = NoWatch <=> r.step \in {"none", "lock", "smembers", "next"}
  /\ r.watch # NoWatch => r.watch \in m
  /\ r.todo \subseteq m
  /\ r.nowMs <= t /\ r.lockUntil <= l
  /\ r.step \in {"set", "sadd"} => Genuine(r.record, r.watch, g, s)
  /\ \A a \in r.active : a.watch \in m /\ Genuine(a.record, a.watch, g, s)

Processing ==
  /\ proc \in [Processes -> Process]
  /\ \A p \in Processes : Sound(proc[p], made, granted, secrets, now, lock)

Stored ==
  \A w \in Watches : key[w] # NoRecord =>
    /\ Genuine(key[w], w, granted, secrets)
    /\ key[w].evictAt >= key[w].expiresAt

Exclusive == \A p, q \in Processes :
  p # q => proc[p].lockUntil <= now \/ proc[q].lockUntil <= now

IInv ==
  /\ TypeOK
  /\ Processing
  /\ Stored
  /\ Exclusive
  /\ \A w \in Watches \ made : granted[w] = 0 /\ shown[w] = 0

\* Time, lock, ids, secrets and grants only grow.
Later ==
  /\ now' \in Nat /\ lock' \in Nat /\ secrets' \in Nat /\ ops' \in Nat /\ errors' \in Nat
  /\ apart' \in BOOLEAN
  /\ now <= now' /\ lock <= lock' /\ secrets <= secrets'
  /\ made \subseteq made' /\ made' \subseteq Watches
  /\ granted' \in [Watches -> Nat]
  /\ \A w \in Watches : granted[w] <= granted'[w]
  /\ \A w \in Watches \ made' : granted'[w] = 0 /\ shown'[w] = 0

USE DEF Ops, Steps

(***************************************************************************)
(* What is held stays sound while the rest grows.                          *)
(***************************************************************************)
LEMMA StaysGenuine ==
  ASSUME NEW record, NEW w, TypeOK, Later, Genuine(record, w, granted, secrets)
  PROVE  Genuine(record, w, granted', secrets')
BY DEF Genuine, Later, TypeOK, Record

LEMMA StaysSound ==
  ASSUME NEW r, TypeOK, Later, Sound(r, made, granted, secrets, now, lock)
  PROVE  Sound(r, made', granted', secrets', now', lock')
<1>1. r.step \in {"set", "sadd"} => Genuine(r.record, r.watch, granted', secrets')
  BY StaysGenuine DEF Sound
<1>2. \A a \in r.active : a.watch \in made' /\ Genuine(a.record, a.watch, granted', secrets')
  BY StaysGenuine DEF Sound, Later
<1>3. r \in Process /\ r.nowMs \in Nat /\ r.lockUntil \in Nat BY DEF Sound, Process
<1> QED BY <1>1, <1>2, <1>3 DEF Sound, Later, TypeOK

\* One process moves, and takes no lock.
LEMMA ProcessMoves ==
  ASSUME IInv, Later, NEW p \in Processes, NEW r,
         proc' = [proc EXCEPT ![p] = r],
         Sound(r, made', granted', secrets', now', lock')
  PROVE  /\ Processing'
         /\ \A q \in Processes :
              proc'[q].watch = NoWatch <=> proc'[q].step \in {"none", "lock", "smembers", "next"}
         /\ r.lockUntil \in {0, proc[p].lockUntil} => Exclusive'
<1>1. \A q \in Processes : Sound(proc'[q], made', granted', secrets', now', lock')
  <2> TAKE q \in Processes
  <2>1. CASE q = p BY <2>1 DEF IInv, TypeOK
  <2>2. CASE q # p
    <3>1. proc'[q] = proc[q] BY <2>2 DEF IInv, TypeOK
    <3>2. Sound(proc[q], made', granted', secrets', now', lock')
      BY StaysSound DEF IInv, Processing
    <3> QED BY <3>1, <3>2
  <2> QED BY <2>1, <2>2
<1>2. r \in Process BY DEF Sound
<1>3. proc' \in [Processes -> Process] BY <1>2 DEF IInv, TypeOK
<1>4. ASSUME r.lockUntil \in {0, proc[p].lockUntil} PROVE Exclusive'
  <2>1. \A q \in Processes : proc[q].lockUntil \in Nat BY DEF IInv, TypeOK, Process
  <2>2. \A q \in Processes : proc'[q].lockUntil \in {0, proc[q].lockUntil}
    BY <1>4 DEF IInv, TypeOK
  <2> QED BY <2>1, <2>2 DEF IInv, TypeOK, Exclusive, Later
<1> QED BY <1>1, <1>3, <1>4 DEF Processing, Sound

LEMMA IdleIsSound ==
  ASSUME NEW m, NEW g, NEW s, NEW t \in Nat, NEW l \in Nat
  PROVE  Sound(Idle, m, g, s, t, l)
BY DEF Sound, Idle, Process

\* The types that do not depend on who moved.
LEMMA TypeKept ==
  ASSUME IInv, Later, Processing',
         \A q \in Processes :
           proc'[q].watch = NoWatch <=> proc'[q].step \in {"none", "lock", "smembers", "next"},
         key' \in [Watches -> Record \cup {NoRecord}],
         index' \subseteq made',
         paidUntil' \in [Watches -> Nat], shown' \in [Watches -> 0..secrets']
  PROVE  TypeOK'
BY DEF TypeOK, Later, Processing

\* A step that only moves one process, and adds nothing to the index.
LEMMA OnlyMoves ==
  ASSUME IInv, NEW p \in Processes, NEW r,
         proc' = [proc EXCEPT ![p] = r],
         Sound(r, made, granted, secrets, now, lock),
         r.lockUntil \in {0, proc[p].lockUntil},
         index' \subseteq index, ops' \in Nat, errors' \in Nat, apart' \in BOOLEAN,
         UNCHANGED <<now, key, lock, made, secrets, history>>
  PROVE  IInv'
<1>1. Later BY DEF IInv, TypeOK, Later, history
<1>2. Sound(r, made', granted', secrets', now', lock') BY DEF history
<1>3. Processing' /\ Exclusive' /\ TypeOK'
  <2>1. shown' \in [Watches -> 0..secrets'] /\ paidUntil' \in [Watches -> Nat]
    BY DEF IInv, TypeOK, history
  <2>2. key' \in [Watches -> Record \cup {NoRecord}] /\ index' \subseteq made'
    BY DEF IInv, TypeOK
  <2> QED BY <1>1, <1>2, <2>1, <2>2, ProcessMoves, TypeKept
<1>4. Stored' BY DEF IInv, Stored, Genuine, history
<1> QED BY <1>1, <1>3, <1>4 DEF IInv, Later

LEMMA InitIInv == Init => IInv
<1> SUFFICES ASSUME Init PROVE IInv OBVIOUS
<1> USE DEF Init
<1>1. Idle \in Process BY DEF Idle, Process
<1>2. TypeOK BY <1>1 DEF TypeOK, Idle
<1>3. Processing BY <1>1, IdleIsSound DEF Processing
<1>4. Stored /\ Exclusive BY DEF Stored, Exclusive, Idle
<1> QED BY <1>2, <1>3, <1>4 DEF IInv

(***************************************************************************)
(* Beginning an operation.                                                 *)
(***************************************************************************)
LEMMA TtlTicksNat == TtlTicks \in Nat
<1>1. TtlSeconds \in Nat /\ TicksPerSecond \in Nat BY WatchAssumption, TicksAssumption
<1> QED BY <1>1 DEF TtlTicks

LEMMA BeginCreateKeeps ==
  ASSUME IInv, NEW p \in Processes, BeginCreate(p)
  PROVE  IInv'
<1>1. PICK w \in Watches \ made :
        /\ Begin(p, [Idle EXCEPT !.op = "create", !.step = "set", !.watch = w,
                             !.nowMs = now,
                             !.record = [expiresAt |-> now + TtlTicks,
                                         secret |-> secrets + 1, evictAt |-> 0]])
        /\ made' = made \cup {w}
        /\ secrets' = secrets + 1
        /\ granted' = [granted EXCEPT ![w] = now + TtlTicks]
        /\ UNCHANGED <<now, key, index, lock, errors, paidUntil, shown>>
  BY DEF BeginCreate
<1> DEFINE record == [expiresAt |-> now + TtlTicks, secret |-> secrets + 1, evictAt |-> 0]
           r == [Idle EXCEPT !.op = "create", !.step = "set", !.watch = w,
                             !.nowMs = now, !.record = record]
<1>2. TypeOK /\ granted[w] = 0 BY DEF IInv
<1>3. Later BY <1>1, <1>2, TtlTicksNat DEF IInv, TypeOK, Later, Begin
<1>4. Genuine(record, w, granted', secrets')
  BY <1>1, <1>2, TtlTicksNat DEF Genuine, Record, TypeOK
<1>5. Sound(r, made', granted', secrets', now', lock')
  <2>1. r \in Process BY <1>1, <1>2, <1>4 DEF Idle, Process, TypeOK, Genuine
  <2> QED BY <1>1, <1>2, <1>4, <2>1, WatchAssumption DEF Sound, Idle, TypeOK
<1>6. Processing' /\ Exclusive'
      /\ \A q \in Processes :
           proc'[q].watch = NoWatch <=> proc'[q].step \in {"none", "lock", "smembers", "next"}
  <2>1. r.lockUntil = 0 /\ proc' = [proc EXCEPT ![p] = r] BY <1>1 DEF Begin, Idle
  <2> HIDE DEF r
  <2> QED BY <1>3, <1>5, <2>1, ProcessMoves
<1>7. TypeOK'
  <2>1. shown' \in [Watches -> 0..secrets'] BY <1>1, <1>2 DEF TypeOK
  <2>2. key' \in [Watches -> Record \cup {NoRecord}] /\ index' \subseteq made'
        /\ paidUntil' \in [Watches -> Nat]
    BY <1>1, <1>2 DEF TypeOK
  <2> QED BY <1>3, <1>6, <2>1, <2>2, TypeKept
<1>8. Stored'
  <2> SUFFICES ASSUME NEW v \in Watches, key[v] # NoRecord
               PROVE  Genuine(key[v], v, granted', secrets') /\ key[v].evictAt >= key[v].expiresAt
    BY <1>1 DEF Stored
  <2> QED BY <1>2, <1>3, StaysGenuine DEF IInv, Stored
<1> QED BY <1>3, <1>6, <1>7, <1>8 DEF IInv, Later

LEMMA BeginOnKeeps ==
  ASSUME IInv, NEW p \in Processes, BeginGet(p) \/ BeginRefresh(p) \/ BeginRotate(p)
  PROVE  IInv'
<1>1. \A w \in Known : w \in made BY DEF Known, IInv
<1>2. ASSUME NEW w \in Known, NEW e \in Process,
             e.todo = {}, e.active = {}, e.lockUntil = 0, BeginOn(p, w, e)
      PROVE  IInv'
  <2> DEFINE r == [e EXCEPT !.step = "get", !.watch = w, !.nowMs = now]
  <2>1. proc' = [proc EXCEPT ![p] = r] BY <1>2 DEF BeginOn, Begin
  <2>2. now \in Nat /\ lock \in Nat /\ w \in made /\ w \in Watches
    BY <1>1 DEF IInv, TypeOK, Known
  <2>3. r \in Process BY <2>2 DEF Process
  <2>4. Sound(r, made, granted, secrets, now, lock) /\ r.lockUntil = 0
    BY <1>2, <2>2, <2>3, WatchAssumption DEF Sound, Process
  <2>5. /\ index' \subseteq index /\ errors' \in Nat /\ apart' \in BOOLEAN /\ ops' \in Nat
        /\ UNCHANGED <<now, key, lock, made, secrets, history>>
    BY <1>2 DEF BeginOn, Begin, IInv, TypeOK
  <2> HIDE DEF r
  <2> QED BY <2>1, <2>4, <2>5, OnlyMoves
<1>3. CASE BeginGet(p)
  <2>1. PICK w \in Known : BeginOn(p, w, [Idle EXCEPT !.op = "get"])
    BY <1>3 DEF BeginGet
  <2>2. [Idle EXCEPT !.op = "get"] \in Process BY DEF Idle, Process
  <2> QED BY <1>2, <2>1, <2>2 DEF Idle
<1>4. CASE BeginRefresh(p)
  <2>1. PICK w \in Known, b \in BOOLEAN :
          BeginOn(p, w, [Idle EXCEPT !.op = "refresh", !.rotate = b])
    BY <1>4 DEF BeginRefresh
  <2>2. [Idle EXCEPT !.op = "refresh", !.rotate = b] \in Process BY DEF Idle, Process
  <2> QED BY <1>2, <2>1, <2>2 DEF Idle
<1>5. CASE BeginRotate(p)
  <2>1. PICK w \in Known : \E s \in 1..shown[w] :
          BeginOn(p, w, [Idle EXCEPT !.op = "rotate", !.secret = s])
    BY <1>5 DEF BeginRotate
  <2>2. PICK s \in 1..shown[w] : BeginOn(p, w, [Idle EXCEPT !.op = "rotate", !.secret = s])
    BY <2>1
  <2>3. s \in Nat BY <2>2 DEF IInv, TypeOK, Known
  <2>4. [Idle EXCEPT !.op = "rotate", !.secret = s] \in Process
    BY <2>3 DEF Idle, Process
  <2> QED BY <1>2, <2>2, <2>4 DEF Idle
<1> QED BY <1>3, <1>4, <1>5

LEMMA BeginPollKeeps ==
  ASSUME IInv, NEW p \in Processes, BeginPoll(p)
  PROVE  IInv'
<1> DEFINE r == [Idle EXCEPT !.op = "poll", !.step = "lock"]
<1>1. proc' = [proc EXCEPT ![p] = r] BY DEF BeginPoll, Begin
<1>2. Sound(r, made, granted, secrets, now, lock) /\ r.lockUntil = 0
  <2>1. now \in Nat /\ lock \in Nat BY DEF IInv, TypeOK
  <2>2. r \in Process BY <2>1 DEF Idle, Process
  <2> QED BY <2>1, <2>2 DEF Sound, Idle
<1>3. /\ index' \subseteq index /\ errors' \in Nat /\ apart' \in BOOLEAN
      /\ UNCHANGED <<now, key, lock, made, secrets, history>> /\ ops' \in Nat
  BY DEF BeginPoll, Begin, IInv, TypeOK
<1> HIDE DEF r
<1> QED BY <1>1, <1>2, <1>3, OnlyMoves

(***************************************************************************)
(* Steps of a process that change nothing but the process and the index.   *)
(***************************************************************************)
\* What is known of a process that takes a step.
LEMMA MoverKnown ==
  ASSUME IInv, NEW p \in Processes
  PROVE  /\ proc[p] \in Process /\ Sound(proc[p], made, granted, secrets, now, lock)
         /\ now \in Nat /\ lock \in Nat /\ errors \in Nat /\ ops \in Nat /\ secrets \in Nat
         /\ apart \in BOOLEAN
BY DEF IInv, TypeOK, Processing

\* A process that finishes a watch, is sent to another step, or is done.
LEMMA AfterWatchSound ==
  ASSUME IInv, NEW p \in Processes
  PROVE  /\ Sound(AfterWatch(p), made, granted, secrets, now, lock)
         /\ AfterWatch(p).lockUntil \in {0, proc[p].lockUntil}
<1>1. CASE proc[p].op = "poll"
  <2> DEFINE r == [proc[p] EXCEPT !.step = "next", !.watch = NoWatch, !.record = NoRecord]
  <2>1. r \in Process BY MoverKnown DEF Process
  <2>2. Sound(r, made, granted, secrets, now, lock) /\ r.lockUntil = proc[p].lockUntil
    BY <2>1, MoverKnown DEF Sound, Process
  <2> QED BY <1>1, <2>2 DEF AfterWatch
<1>2. CASE proc[p].op # "poll"
  BY <1>2, MoverKnown, IdleIsSound DEF AfterWatch, Idle
<1> QED BY <1>1, <1>2

LEMMA GotoSound ==
  ASSUME IInv, NEW p \in Processes, proc[p].step \in {"get", "del"},
         NEW step \in {"del", "srem"}
  PROVE  LET r == [proc[p] EXCEPT !.step = step]
         IN  /\ Sound(r, made, granted, secrets, now, lock)
             /\ r.lockUntil = proc[p].lockUntil
<1> DEFINE r == [proc[p] EXCEPT !.step = step]
<1>1. r \in Process BY MoverKnown DEF Process
<1> QED BY <1>1, MoverKnown DEF Sound, Process

LEMMA LoadKeeps ==
  ASSUME IInv, NEW p \in Processes, LoadMissing(p) \/ LoadExpired(p) \/ Unindex(p)
  PROVE  IInv'
<1>1. CASE LoadMissing(p)
  BY <1>1, GotoSound, OnlyMoves, MoverKnown DEF LoadMissing, Goto, Become, At, history
<1>2. CASE LoadExpired(p)
  BY <1>2, GotoSound, OnlyMoves, MoverKnown DEF LoadExpired, Goto, Become, At, history
<1>3. CASE Unindex(p)
  <2>1. index' \subseteq index /\ proc' = [proc EXCEPT ![p] = AfterWatch(p)]
    BY <1>3 DEF Unindex, Become
  <2> QED BY <1>3, <2>1, AfterWatchSound, OnlyMoves, MoverKnown DEF Unindex
<1> QED BY <1>1, <1>2, <1>3

LEMMA CommandFailsKeeps ==
  ASSUME IInv, NEW p \in Processes, CommandFails(p)
  PROVE  IInv'
<1> DEFINE r == CASE proc[p].step = "lock" -> [proc[p] EXCEPT !.step = "smembers", !.nowMs = now]
                  [] proc[p].step = "smembers" -> Idle
                  [] OTHER -> AfterWatch(p)
<1>1. /\ Sound(r, made, granted, secrets, now, lock)
      /\ r.lockUntil \in {0, proc[p].lockUntil}
  <2>1. CASE proc[p].step = "lock"
    <3> DEFINE q == [proc[p] EXCEPT !.step = "smembers", !.nowMs = now]
    <3>1. q \in Process BY MoverKnown DEF Process
    <3>2. Sound(q, made, granted, secrets, now, lock) /\ q.lockUntil = proc[p].lockUntil
      BY <2>1, <3>1, MoverKnown DEF Sound, Process
    <3> QED BY <2>1, <3>2
  <2>2. CASE proc[p].step = "smembers"
    <3>1. r = Idle BY <2>2
    <3> HIDE DEF r
    <3> QED BY <3>1, MoverKnown, IdleIsSound DEF Idle
  <2>3. CASE proc[p].step \notin {"lock", "smembers"}
    <3>1. r = AfterWatch(p) BY <2>3
    <3> HIDE DEF r
    <3> QED BY <3>1, AfterWatchSound
  <2> QED BY <2>1, <2>2, <2>3
<1>2. proc' = [proc EXCEPT ![p] = r] BY DEF CommandFails, Become
<1>3. /\ index' \subseteq index /\ ops' \in Nat /\ errors' \in Nat /\ apart' \in BOOLEAN
      /\ UNCHANGED <<now, key, lock, made, secrets, history>>
  <2>1. errors' = errors + 1 /\ apart' = FALSE BY DEF CommandFails
  <2>2. UNCHANGED <<now, key, index, lock, made, secrets, ops, history>> BY DEF CommandFails
  <2>3. apart' \in BOOLEAN BY <2>1
  <2>4. errors' \in Nat /\ ops' \in Nat BY <2>1, <2>2, MoverKnown
  <2>5. index' \subseteq index BY <2>2
  <2> QED BY <2>2, <2>3, <2>4, <2>5
<1> HIDE DEF r
<1> QED BY <1>1, <1>2, <1>3, OnlyMoves

LEMMA DeleteKeeps ==
  ASSUME IInv, NEW p \in Processes, Delete(p)
  PROVE  IInv'
<1> DEFINE r == [proc[p] EXCEPT !.step = "srem"]
           w == proc[p].watch
<1>1. /\ Sound(r, made, granted, secrets, now, lock) /\ r.lockUntil = proc[p].lockUntil
      /\ proc' = [proc EXCEPT ![p] = r]
      /\ key' = [key EXCEPT ![w] = NoRecord]
      /\ UNCHANGED <<now, index, lock, made, secrets, ops, errors, apart, history>>
  BY GotoSound DEF Delete, At, Goto, Become
<1>2. Later BY <1>1, MoverKnown DEF Later, history, IInv, TypeOK
<1>3. Sound(r, made', granted', secrets', now', lock')
  BY <1>1 DEF history
<1> HIDE DEF r
<1>4. Processing' /\ Exclusive'
      /\ \A q \in Processes :
           proc'[q].watch = NoWatch <=> proc'[q].step \in {"none", "lock", "smembers", "next"}
  BY <1>1, <1>2, <1>3, ProcessMoves
<1>5. key' \in [Watches -> Record \cup {NoRecord}] BY <1>1 DEF IInv, TypeOK
<1>6. TypeOK'
  <2>1. shown' \in [Watches -> 0..secrets'] /\ paidUntil' \in [Watches -> Nat]
        /\ index' \subseteq made'
    BY <1>1 DEF IInv, TypeOK, history
  <2> QED BY <1>2, <1>4, <1>5, <2>1, TypeKept
<1>7. Stored' BY <1>1 DEF IInv, Stored, Genuine, TypeOK, history
<1> QED BY <1>2, <1>4, <1>6, <1>7 DEF IInv, Later

LEMMA PollMovesKeep ==
  ASSUME IInv, NEW p \in Processes,
         PollSkipped(p) \/ PollMembers(p) \/ PollLoads(p) \/ PollWorks(p) \/ PollDone(p)
  PROVE  IInv'
<1>1. ASSUME NEW r, proc' = [proc EXCEPT ![p] = r],
             Sound(r, made, granted, secrets, now, lock),
             r.lockUntil \in {0, proc[p].lockUntil},
             UNCHANGED <<now, key, index, lock, made, secrets, ops, errors, apart, history>>
      PROVE  IInv'
  BY <1>1, MoverKnown, OnlyMoves
<1> USE MoverKnown DEF Become, At
<1>2. CASE PollSkipped(p) \/ PollDone(p)
  BY <1>1, <1>2, IdleIsSound DEF PollSkipped, PollDone, Idle
<1>3. CASE PollMembers(p)
  <2> DEFINE r == [proc[p] EXCEPT !.step = "next", !.todo = index]
  <2>1. index \subseteq made /\ made \subseteq Watches BY DEF IInv, TypeOK
  <2>2. r \in Process BY <2>1 DEF Process
  <2>3. Sound(r, made, granted, secrets, now, lock) /\ r.lockUntil = proc[p].lockUntil
    BY <1>3, <2>1, <2>2 DEF PollMembers, Sound, Process
  <2>4. /\ proc' = [proc EXCEPT ![p] = r]
        /\ UNCHANGED <<now, key, index, lock, made, secrets, ops, errors, apart, history>>
    BY <1>3 DEF PollMembers
  <2> HIDE DEF r
  <2> QED BY <1>1, <2>3, <2>4
<1>4. CASE PollLoads(p)
  <2>1. PICK w \in proc[p].todo :
          proc' = [proc EXCEPT ![p] =
            [proc[p] EXCEPT !.step = "get", !.watch = w, !.todo = @ \ {w}]]
    BY <1>4 DEF PollLoads
  <2> DEFINE r == [proc[p] EXCEPT !.step = "get", !.watch = w, !.todo = @ \ {w}]
  <2>2. w \in made /\ w \in Watches BY DEF Sound, Process
  <2>3. r \in Process BY <2>2 DEF Process
  <2>4. Sound(r, made, granted, secrets, now, lock) /\ r.lockUntil = proc[p].lockUntil
    BY <2>2, <2>3, WatchAssumption DEF Sound, Process
  <2>5. UNCHANGED <<now, key, index, lock, made, secrets, ops, errors, apart, history>>
    BY <1>4 DEF PollLoads
  <2> HIDE DEF r
  <2> QED BY <1>1, <2>1, <2>4, <2>5 DEF r
<1>5. CASE PollWorks(p)
  <2>1. PICK a \in proc[p].active :
          proc' = [proc EXCEPT ![p] =
            [proc[p] EXCEPT !.step = "set", !.watch = a.watch,
                            !.record = a.record, !.active = @ \ {a}]]
    BY <1>5 DEF PollWorks
  <2> DEFINE r == [proc[p] EXCEPT !.step = "set", !.watch = a.watch,
                                  !.record = a.record, !.active = @ \ {a}]
  <2>2. a.watch \in made /\ Genuine(a.record, a.watch, granted, secrets)
    BY DEF Sound
  <2>3. r \in Process BY <2>2 DEF Process, Genuine
  <2>4. Sound(r, made, granted, secrets, now, lock) /\ r.lockUntil = proc[p].lockUntil
    BY <2>2, <2>3, WatchAssumption DEF Sound, Process, Genuine
  <2>5. UNCHANGED <<now, key, index, lock, made, secrets, ops, errors, apart, history>>
    BY <1>5 DEF PollWorks
  <2> HIDE DEF r
  <2> QED BY <1>1, <2>1, <2>4, <2>5 DEF r
<1> QED BY <1>2, <1>3, <1>4, <1>5

(***************************************************************************)
(* Steps that load, write and answer.                                      *)
(***************************************************************************)
\* A live record is loaded: nothing is minted or granted by a get, a refused rotate
\* or a poll.
LEMMA LoadLiveKeeps ==
  ASSUME IInv, NEW p \in Processes, LoadLive(p)
  PROVE  IInv'
<1> DEFINE w == proc[p].watch
<1>1. /\ w \in made /\ w \in Watches /\ key[w] # NoRecord
      /\ Genuine(key[w], w, granted, secrets)
  BY MoverKnown DEF LoadLive, At, Key, Sound, Process, IInv, Stored
<1>2. UNCHANGED <<now, key, index, lock, made, ops, errors, apart, paidUntil, shown>>
  BY DEF LoadLive
<1>3. ASSUME Become(p, Idle), UNCHANGED <<secrets, granted>>
      PROVE  IInv'
  BY <1>2, <1>3, MoverKnown, IdleIsSound, OnlyMoves DEF Become, Idle, history
<1>4. ASSUME proc[p].op = "poll", UNCHANGED <<secrets, granted>>,
             Become(p, [AfterWatch(p) EXCEPT
                          !.active = @ \cup {[watch |-> w, record |-> key[w]]}])
      PROVE  IInv'
  <2> DEFINE after == AfterWatch(p)
             r == [after EXCEPT !.active = @ \cup {[watch |-> w, record |-> key[w]]}]
  <2>1. Sound(after, made, granted, secrets, now, lock)
        /\ after.lockUntil \in {0, proc[p].lockUntil}
    BY AfterWatchSound
  <2> HIDE DEF after
  <2>2. r \in Process BY <1>1, <2>1 DEF Sound, Process, Genuine
  <2>3. Sound(r, made, granted, secrets, now, lock) /\ r.lockUntil \in {0, proc[p].lockUntil}
    BY <1>1, <2>1, <2>2 DEF Sound, Process
  <2>4. proc' = [proc EXCEPT ![p] = r] BY <1>4 DEF Become, after
  <2> HIDE DEF r
  <2> QED BY <1>2, <1>4, <2>3, <2>4, MoverKnown, OnlyMoves DEF history
<1>5. ASSUME proc[p].op \in {"refresh", "rotate"},
             Become(p, [proc[p] EXCEPT !.step = "set", !.record = Changed(p, secrets + 1)]),
             secrets' = IF proc[p].op = "rotate" \/ proc[p].rotate THEN secrets + 1 ELSE secrets,
             granted' = IF proc[p].op = "refresh" /\ Now(p) + TtlTicks > granted[w]
                        THEN [granted EXCEPT ![w] = Now(p) + TtlTicks] ELSE granted
      PROVE  IInv'
  <2> DEFINE record == Changed(p, secrets + 1)
             r == [proc[p] EXCEPT !.step = "set", !.record = record]
  <2>1. proc[p].nowMs \in Nat /\ proc[p].rotate \in BOOLEAN /\ TtlTicks \in Nat
    BY MoverKnown, TtlTicksNat DEF Process
  <2>2. granted \in [Watches -> Nat] BY DEF IInv, TypeOK
  <2>3. granted' \in [Watches -> Nat] /\ \A v \in Watches : granted[v] <= granted'[v]
    BY <1>1, <1>5, <2>1, <2>2 DEF Now
  <2>4. \A v \in Watches \ made : granted'[v] = granted[v] BY <1>1, <1>5, <2>2
  <2>5. secrets' \in Nat /\ secrets <= secrets' BY <1>5, MoverKnown
  <2>6. Later
    BY <1>2, <2>3, <2>4, <2>5, MoverKnown DEF Later, IInv, TypeOK
  <2>7. Genuine(record, w, granted', secrets')
    <3>1. record \in Record
      <4> DEFINE k == key[w]
                 s == IF proc[p].rotate THEN secrets + 1 ELSE k.secret
      <4>1. k \in Record /\ s \in Nat /\ secrets + 1 \in Nat /\ Now(p) + TtlTicks \in Nat
        BY <1>1, <2>1, MoverKnown DEF Genuine, Record, Now
      <4>2. record = IF proc[p].op = "rotate" THEN [k EXCEPT !.secret = secrets + 1]
                     ELSE [k EXCEPT !.expiresAt = Now(p) + TtlTicks, !.secret = s]
        BY <4>1 DEF Changed, Key, Record
      <4> HIDE DEF k, s, record
      <4> QED BY <4>1, <4>2 DEF Record
    <3>2. CASE proc[p].op = "rotate"
      BY <1>1, <1>5, <2>2, <2>3, <2>5, <3>1, <3>2, MoverKnown
         DEF Genuine, Changed, Key, Record
    <3>3. CASE proc[p].op = "refresh"
      <4>1. record.expiresAt = Now(p) + TtlTicks /\ record.expiresAt \in Nat
            /\ record.secret = IF proc[p].rotate THEN secrets + 1 ELSE key[w].secret
        BY <1>1, <2>1, <3>3 DEF Genuine, Changed, Key, Record, Now
      <4>2. record.expiresAt <= granted'[w]
        BY <1>1, <1>5, <2>2, <3>3, <4>1
      <4>3. record.secret <= secrets'
        BY <1>1, <1>5, <3>3, <4>1, MoverKnown DEF Genuine, Record
      <4> HIDE DEF record
      <4> QED BY <1>1, <3>1, <4>2, <4>3 DEF Genuine
    <3> QED BY <1>5, <3>2, <3>3
  <2>8. Sound(r, made', granted', secrets', now', lock') /\ r.lockUntil = proc[p].lockUntil
    <3> HIDE DEF record
    <3>1. r \in Process BY <2>7, MoverKnown DEF Process, Genuine
    <3>2. proc[p].step = "get" BY DEF LoadLive, At
    <3>3. Sound(proc[p], made', granted', secrets', now', lock')
      BY <2>6, MoverKnown, StaysSound DEF IInv
    <3> QED BY <1>1, <2>7, <3>1, <3>2, <3>3, WatchAssumption DEF Sound, Process
  <2>9. proc' = [proc EXCEPT ![p] = r] BY <1>5 DEF Become
  <2> HIDE DEF r, record
  <2>10. Processing' /\ Exclusive'
         /\ \A q \in Processes :
              proc'[q].watch = NoWatch <=> proc'[q].step \in {"none", "lock", "smembers", "next"}
    BY <2>6, <2>8, <2>9, ProcessMoves
  <2>11. TypeOK'
    <3>1. shown' \in [Watches -> 0..secrets']
      BY <1>2, <2>5, MoverKnown DEF IInv, TypeOK
    <3>2. key' \in [Watches -> Record \cup {NoRecord}] /\ index' \subseteq made'
          /\ paidUntil' \in [Watches -> Nat]
      BY <1>2 DEF IInv, TypeOK
    <3> QED BY <2>6, <2>10, <3>1, <3>2, TypeKept
  <2>12. Stored'
    <3> SUFFICES ASSUME NEW v \in Watches, key[v] # NoRecord
                 PROVE  Genuine(key[v], v, granted', secrets')
                        /\ key[v].evictAt >= key[v].expiresAt
      BY <1>2 DEF Stored
    <3> QED BY <2>6, StaysGenuine DEF IInv, Stored
  <2> QED BY <2>6, <2>10, <2>11, <2>12 DEF IInv, Later
<1> QED BY <1>3, <1>4, <1>5 DEF LoadLive, Key

LEMMA WriteKeeps ==
  ASSUME IInv, NEW p \in Processes, Write(p)
  PROVE  IInv'
<1> DEFINE w == proc[p].watch
           old == proc[p].record
           record == [old EXCEPT !.evictAt = now + CeilSeconds(old.expiresAt - Now(p))]
           r == [proc[p] EXCEPT !.step = "sadd"]
<1>1. /\ proc[p].step = "set" /\ w \in made /\ w \in Watches
      /\ Genuine(old, w, granted, secrets)
      /\ proc[p].nowMs \in Nat /\ proc[p].nowMs <= now
  BY MoverKnown DEF Write, At, Sound, Process, Genuine
<1>2. key' = [key EXCEPT ![w] = record] /\ proc' = [proc EXCEPT ![p] = r]
      /\ UNCHANGED <<now, index, lock, made, secrets, ops, errors, apart, history>>
  BY DEF Write, Goto, Become
<1>3. Genuine(record, w, granted, secrets) /\ record.evictAt >= record.expiresAt
  <2> DEFINE end == now + CeilSeconds(old.expiresAt - Now(p))
  <2>1. end \in Nat /\ end >= old.expiresAt
    BY <1>1, MoverKnown, CeilCovers DEF Genuine, Record, Now
  <2> HIDE DEF end
  <2>2. record = [old EXCEPT !.evictAt = end] BY DEF end
  <2> QED BY <1>1, <2>1, <2>2 DEF Genuine, Record
<1> HIDE DEF record
<1>4. Later BY <1>2, MoverKnown DEF Later, history, IInv, TypeOK
<1>5. Sound(r, made', granted', secrets', now', lock') /\ r.lockUntil = proc[p].lockUntil
  <2>1. r \in Process BY MoverKnown DEF Process
  <2>2. Sound(r, made, granted, secrets, now, lock)
    BY <1>1, <2>1, MoverKnown, WatchAssumption DEF Sound, Process
  <2> QED BY <1>2, <2>1, <2>2, MoverKnown DEF history, Process
<1> HIDE DEF r
<1>6. Processing' /\ Exclusive'
      /\ \A q \in Processes :
           proc'[q].watch = NoWatch <=> proc'[q].step \in {"none", "lock", "smembers", "next"}
  BY <1>2, <1>4, <1>5, ProcessMoves
<1>7. TypeOK'
  <2>1. key' \in [Watches -> Record \cup {NoRecord}]
    BY <1>1, <1>2, <1>3 DEF Genuine, IInv, TypeOK
  <2>2. shown' \in [Watches -> 0..secrets'] /\ paidUntil' \in [Watches -> Nat]
        /\ index' \subseteq made'
    BY <1>2 DEF IInv, TypeOK, history
  <2> QED BY <1>4, <1>6, <2>1, <2>2, TypeKept
<1>8. Stored'
  BY <1>1, <1>2, <1>3 DEF IInv, TypeOK, Stored, Genuine, history
<1> QED BY <1>4, <1>6, <1>7, <1>8 DEF IInv, Later

LEMMA IndexKeeps ==
  ASSUME IInv, NEW p \in Processes, Index(p)
  PROVE  IInv'
<1> DEFINE w == proc[p].watch
           r == AfterWatch(p)
<1>1. /\ proc[p].step = "sadd" /\ w \in made /\ w \in Watches
      /\ Genuine(proc[p].record, w, granted, secrets)
  BY MoverKnown DEF Index, At, Sound, Process, Genuine
<1>2. /\ index' = index \cup {w} /\ proc' = [proc EXCEPT ![p] = r]
      /\ UNCHANGED <<now, key, lock, made, secrets, ops, errors, apart, granted>>
  BY DEF Index, Become, Receipt
<1>3. /\ shown' \in [Watches -> 0..secrets'] /\ paidUntil' \in [Watches -> Nat]
      /\ \A v \in Watches \ made : shown'[v] = shown[v]
  <2>1. proc[p].record.expiresAt \in Nat /\ proc[p].record.secret \in 0..secrets
    BY <1>1 DEF Genuine, Record
  <2> QED BY <1>1, <1>2, <2>1 DEF Index, Receipt, IInv, TypeOK
<1>4. Later BY <1>2, <1>3, MoverKnown DEF Later, IInv, TypeOK
<1>5. Sound(r, made', granted', secrets', now', lock') /\ r.lockUntil \in {0, proc[p].lockUntil}
  BY <1>2, AfterWatchSound
<1> HIDE DEF r
<1>6. Processing' /\ Exclusive'
      /\ \A q \in Processes :
           proc'[q].watch = NoWatch <=> proc'[q].step \in {"none", "lock", "smembers", "next"}
  BY <1>2, <1>4, <1>5, ProcessMoves
<1>7. TypeOK'
  <2>1. key' \in [Watches -> Record \cup {NoRecord}] /\ index' \subseteq made'
    BY <1>1, <1>2 DEF IInv, TypeOK
  <2> QED BY <1>3, <1>4, <1>6, <2>1, TypeKept
<1>8. Stored' BY <1>2 DEF IInv, Stored, Genuine
<1> QED BY <1>4, <1>6, <1>7, <1>8 DEF IInv, Later

\* The lock is taken when the last one has run out, so no other poll is within its own.
LEMMA PollLockKeeps ==
  ASSUME IInv, NEW p \in Processes, PollLock(p)
  PROVE  IInv'
<1> DEFINE until == now + LockSeconds * TicksPerSecond
           r == [proc[p] EXCEPT !.step = "smembers", !.nowMs = now, !.lockUntil = until]
<1>1. until \in Nat /\ until >= now
  <2>1. LockSeconds \in Nat /\ TicksPerSecond \in Nat BY WatchAssumption, TicksAssumption
  <2>2. LockSeconds * TicksPerSecond \in Nat BY <2>1
  <2> QED BY <2>2, MoverKnown
<1>2. /\ lock' = until /\ proc' = [proc EXCEPT ![p] = r] /\ lock <= now
      /\ UNCHANGED <<now, key, index, made, secrets, ops, errors, apart, history>>
      /\ proc[p].step = "lock"
  BY DEF PollLock, Become, LockFree, At
<1> HIDE DEF until
<1>3. Later BY <1>1, <1>2, MoverKnown DEF Later, history, IInv, TypeOK
<1>4. Sound(r, made', granted', secrets', now', lock')
  <2>1. r \in Process BY <1>1, MoverKnown DEF Process
  <2>2. Sound(proc[p], made', granted', secrets', now', lock')
    BY <1>3, MoverKnown, StaysSound DEF IInv
  <2>3. /\ r.step = "smembers" /\ r.nowMs = now /\ r.lockUntil = until
        /\ r.watch = proc[p].watch /\ r.todo = proc[p].todo /\ r.active = proc[p].active
    BY MoverKnown DEF Process
  <2>4. r.watch = NoWatch BY <1>2, <2>2, <2>3 DEF Sound
  <2>5. now <= now' /\ until <= lock' BY <1>1, <1>2, MoverKnown
  <2> HIDE DEF r
  <2> QED BY <2>1, <2>2, <2>3, <2>4, <2>5 DEF Sound
<1>5. r.lockUntil = until BY MoverKnown DEF Process
<1> HIDE DEF r
<1>6. Processing'
      /\ \A q \in Processes :
           proc'[q].watch = NoWatch <=> proc'[q].step \in {"none", "lock", "smembers", "next"}
  BY <1>2, <1>3, <1>4, ProcessMoves
<1>7. Exclusive'
  <2>1. \A q \in Processes \ {p} : proc'[q] = proc[q] /\ proc[q].lockUntil <= now
    <3> TAKE q \in Processes \ {p}
    <3>1. proc[q].lockUntil \in Nat /\ proc[q].lockUntil <= lock BY MoverKnown DEF Sound, Process
    <3> QED BY <1>2, <3>1, MoverKnown DEF IInv, TypeOK
  <2> QED BY <1>2, <2>1 DEF Exclusive
<1>8. TypeOK'
  <2>1. /\ key' \in [Watches -> Record \cup {NoRecord}] /\ index' \subseteq made'
        /\ shown' \in [Watches -> 0..secrets'] /\ paidUntil' \in [Watches -> Nat]
    BY <1>2 DEF IInv, TypeOK, history
  <2> QED BY <1>3, <1>6, <2>1, TypeKept
<1>9. Stored' BY <1>2 DEF IInv, Stored, Genuine, history
<1> QED BY <1>3, <1>6, <1>7, <1>8, <1>9 DEF IInv, Later

LEMMA TickKeeps ==
  ASSUME IInv, Tick
  PROVE  IInv'
<1> USE DEF history
<1>1. now \in Nat /\ now' = now + 1 BY DEF Tick, IInv, TypeOK
<1>2. UNCHANGED <<index, lock, proc, made, secrets, ops, errors, apart, history>>
  BY DEF Tick
<1>3. key' \in [Watches -> Record \cup {NoRecord}]
      /\ \A w \in Watches : key'[w] \in {key[w], NoRecord}
  BY DEF Tick, Unevicted, IInv, TypeOK
<1>4. Later BY <1>1, <1>2 DEF Later, IInv, TypeOK
<1>5. \A p \in Processes : Sound(proc[p], made', granted', secrets', now', lock')
  BY <1>4, StaysSound DEF IInv, Processing
<1>6. Processing' BY <1>2, <1>5 DEF Processing, IInv
<1>7. Exclusive'
  <2>1. \A p \in Processes : proc[p].lockUntil \in Nat BY DEF IInv, TypeOK, Process
  <2> QED BY <1>1, <1>2, <2>1 DEF Exclusive, IInv
<1>8. TypeOK' BY <1>2, <1>3, <1>4, <1>6, TypeKept DEF IInv, TypeOK
<1>9. Stored' BY <1>2, <1>3 DEF IInv, Stored, Genuine
<1> QED BY <1>2, <1>4, <1>6, <1>7, <1>8, <1>9 DEF IInv

(***************************************************************************)
(* The theorems.                                                           *)
(***************************************************************************)
LEMMA StepKeeps == IInv /\ [Next]_vars => IInv'
<1> SUFFICES ASSUME IInv, [Next]_vars PROVE IInv' OBVIOUS
<1>1. ASSUME NEW p \in Processes, Step(p) \/ CommandFails(p) PROVE IInv'
  BY <1>1, LoadKeeps, LoadLiveKeeps, DeleteKeeps, WriteKeeps, IndexKeeps, PollLockKeeps,
     PollMovesKeep, CommandFailsKeeps DEF Step
<1>2. ASSUME NEW p \in Clients,
             BeginCreate(p) \/ BeginGet(p) \/ BeginRefresh(p) \/ BeginRotate(p)
      PROVE  IInv'
  BY <1>2, BeginCreateKeeps, BeginOnKeeps DEF Processes
<1>3. ASSUME NEW p \in Pollers, BeginPoll(p) PROVE IInv'
  BY <1>3, BeginPollKeeps DEF Processes
<1>4. CASE UNCHANGED vars
  BY <1>4, MoverKnown DEF vars, IInv, TypeOK, Processing, Sound, Stored, Genuine, Exclusive
<1> QED BY <1>1, <1>2, <1>3, <1>4, TickKeeps DEF Next

LEMMA Invariant == Spec => []IInv
<1> QED BY InitIInv, StepKeeps, PTL DEF Spec

\* Every reachable state is well typed; among other things the index holds only ids
\* that were drawn, and owners are shown only secrets that were minted.
THEOREM TypeCorrect == Spec => []TypeOK
<1>1. IInv => TypeOK BY DEF IInv
<1> QED BY <1>1, Invariant, PTL

\* However stale the record a poll, a refresh or a rotation writes back, a watch never
\* outlives what some paid create or refresh asked for.
THEOREM NobodyExtendsUnpaid == Spec => []NoUnpaidTime
<1>1. IInv => NoUnpaidTime BY DEF IInv, Stored, Genuine, NoUnpaidTime
<1> QED BY <1>1, Invariant, PTL

\* The time to live given to Redis, rounded to seconds and counted from when the
\* command runs, never ends before the record's expiry.
THEOREM WatchesAreNotEvictedEarly == Spec => []EvictionNotEarly
<1>1. IInv => EvictionNotEarly BY DEF IInv, Stored, EvictionNotEarly
<1> QED BY <1>1, Invariant, PTL

\* Two polls that took the lock are never both within its time.
THEOREM LockNeverShared == Spec => []LockIsExclusive
<1>1. IInv => LockIsExclusive
  <2>1. ASSUME IInv PROVE \A p \in Processes : proc[p].lockUntil \in Nat /\ now \in Nat
    BY <2>1 DEF IInv, TypeOK, Process
  <2> QED BY <2>1 DEF IInv, Exclusive, LockIsExclusive, Processes
<1> QED BY <1>1, Invariant, PTL

(***************************************************************************)
(* While operations follow one another: what is stored, and what the one   *)
(* process at work has in its hands.  k are the keys, i the index, u the   *)
(* expiries paid for, s the secrets shown and t the time.                  *)
(***************************************************************************)
Same(a, b) == a.expiresAt = b.expiresAt /\ a.secret = b.secret

\* Watch w is stored as its owner was told.
AsTold(w, k, i, u, s, t) ==
  /\ k[w] # NoRecord => k[w].secret = s[w]
  /\ t < u[w] => k[w] # NoRecord /\ k[w].expiresAt >= u[w] /\ w \in i

\* A request that has written w, and not told its owner yet.
Telling(r, w) == r.op \notin {"idle", "poll"} /\ r.step = "sadd" /\ r.watch = w

\* The records a poll has loaded and not finished with.
Held(r) ==
  r.active \cup {a \in {[watch |-> r.watch, record |-> r.record]} : r.step \in {"set", "sadd"}}

\* They are what is stored, so writing them back changes nothing.
Loaded(r, k, s) ==
  /\ \A a \in Held(r) :
       /\ a.record.secret = s[a.watch]
       /\ k[a.watch] # NoRecord => Same(k[a.watch], a.record)
  /\ \A a, b \in Held(r) : a.watch = b.watch => Same(a.record, b.record)

\* What a create, a refresh or a rotation is about to write keeps the promises made.
Promised(r, u, s, t) ==
  /\ r.op \in {"create", "refresh", "rotate"}
  /\ r.op = "refresh" /\ ~r.rotate => r.record.secret = s[r.watch]
  /\ r.op = "rotate" /\ t < u[r.watch] => r.record.expiresAt >= u[r.watch]

Written(r, k, t) ==
  /\ k[r.watch] # NoRecord => Same(k[r.watch], r.record)
  /\ t < r.record.expiresAt => k[r.watch] # NoRecord

InHand(r, k, u, s, t) ==
  /\ r.rotate => r.op = "refresh"
  /\ r.step \in {"lock", "smembers", "next"} => r.op = "poll"
  /\ r.step \in {"del", "srem"} => t >= u[r.watch]
  /\ r.op = "poll" => Loaded(r, k, s)
  /\ r.op # "poll" /\ r.step \in {"set", "sadd"} => Promised(r, u, s, t)
  /\ r.op # "poll" /\ r.step = "sadd" => Written(r, k, t)

OneByOne(P, k, i, u, s, t) ==
  /\ \A p, q \in Processes : P[p].op # "idle" /\ P[q].op # "idle" => p = q
  /\ \A p \in Processes : P[p].op # "idle" => InHand(P[p], k, u, s, t)
  /\ \A w \in Watches :
       (\A p \in Processes : ~Telling(P[p], w)) => AsTold(w, k, i, u, s, t)

Intact == apart => OneByOne(proc, key, index, paidUntil, shown, now)

\* The process that moves is the only one at work.
LEMMA Mover ==
  ASSUME IInv, Intact, apart, NEW p \in Processes, proc[p].op # "idle"
  PROVE  /\ \A q \in Processes \ {p} : proc[q].op = "idle"
         /\ InHand(proc[p], key, paidUntil, shown, now)
         /\ \A w \in Watches : ~Telling(proc[p], w) => AsTold(w, key, index, paidUntil, shown, now)
BY DEF Intact, OneByOne, Telling

LEMMA StaysIntact ==
  ASSUME IInv, NEW p \in Processes, NEW r, proc' = [proc EXCEPT ![p] = r],
         apart' => /\ \A q \in Processes \ {p} : proc[q].op = "idle"
                   /\ r.op # "idle" => InHand(r, key', paidUntil', shown', now')
                   /\ \A w \in Watches :
                        ~Telling(r, w) => AsTold(w, key', index', paidUntil', shown', now')
  PROVE  Intact'
<1> SUFFICES ASSUME apart' PROVE OneByOne(proc', key', index', paidUntil', shown', now')
  BY DEF Intact
<1>1. proc'[p] = r /\ \A q \in Processes \ {p} : proc'[q] = proc[q]
  BY DEF IInv, TypeOK
<1>2. \A q \in Processes : proc'[q].op # "idle" => q = p BY <1>1
<1> QED BY <1>1, <1>2 DEF OneByOne

LEMMA InitIntact == Init => Intact
BY DEF Init, Intact, OneByOne, AsTold, Idle

\* An operation begins when nothing is under way, or it does not follow the last one.
LEMMA BeginIntact ==
  ASSUME IInv, Intact, NEW p \in Processes,
         BeginCreate(p) \/ BeginGet(p) \/ BeginRefresh(p) \/ BeginRotate(p) \/ BeginPoll(p)
  PROVE  Intact'
<1>1. ASSUME NEW r, Begin(p, r), r.step \in {"set", "get", "lock"}, r.active = {},
             r.rotate => r.op = "refresh",
             r.step = "set" => r.op = "create", r.step = "lock" => r.op = "poll",
             UNCHANGED <<now, key, index, paidUntil, shown>>
      PROVE  Intact'
  <2>1. proc' = [proc EXCEPT ![p] = r] BY <1>1 DEF Begin
  <2>2. ASSUME apart' PROVE apart /\ \A q \in Processes : proc[q].op = "idle"
    BY <1>1, <2>2 DEF Begin, Busy, IInv, TypeOK
  <2>3. ASSUME apart', NEW w \in Watches PROVE AsTold(w, key, index, paidUntil, shown, now)
    BY <2>2, <2>3 DEF Intact, OneByOne, Telling
  <2>4. InHand(r, key, paidUntil, shown, now)
    <3>1. Held(r) = {} \/ r.op # "poll" BY <1>1 DEF Held
    <3> QED BY <1>1, <3>1 DEF InHand, Loaded, Promised
  <2> QED BY <1>1, <2>1, <2>2, <2>3, <2>4, StaysIntact
<1>2. CASE BeginCreate(p) BY <1>1, <1>2 DEF BeginCreate, Idle
<1>3. CASE BeginGet(p) BY <1>1, <1>3 DEF BeginGet, BeginOn, Idle, history
<1>4. CASE BeginRefresh(p) BY <1>1, <1>4 DEF BeginRefresh, BeginOn, Idle, history
<1>5. CASE BeginRotate(p) BY <1>1, <1>5 DEF BeginRotate, BeginOn, Idle, history
<1>6. CASE BeginPoll(p) BY <1>1, <1>6 DEF BeginPoll, Idle, history
<1> QED BY <1>2, <1>3, <1>4, <1>5, <1>6

\* A process that puts down what it holds, or goes on with what it has, when the
\* records and promises stay.
LEMMA HandsStay ==
  ASSUME IInv, Intact, NEW p \in Processes, proc[p].op # "idle", NEW r,
         proc' = [proc EXCEPT ![p] = r], apart' = apart,
         UNCHANGED <<now, key, paidUntil, shown>>,
         apart => /\ r.op # "idle" => InHand(r, key, paidUntil, shown, now)
                  /\ \A w \in Watches : ~Telling(r, w) => AsTold(w, key, index', paidUntil, shown, now)
  PROVE  Intact'
BY Mover, StaysIntact

LEMMA IdleIntact ==
  ASSUME IInv, Intact, NEW p \in Processes, proc[p].op # "idle", proc[p].step # "sadd",
         proc' = [proc EXCEPT ![p] = Idle], apart' = apart,
         UNCHANGED <<now, key, index, paidUntil, shown>>
  PROVE  Intact'
BY HandsStay, Mover DEF Idle, Telling

\* What a poll keeps of its list is still what is stored.
LEMMA AfterWatchInHand ==
  ASSUME IInv, NEW p \in Processes, NEW k, NEW u, NEW s, NEW t,
         proc[p].rotate => proc[p].op = "refresh",
         proc[p].op = "poll" => Loaded(proc[p], k, s)
  PROVE  /\ AfterWatch(p).op # "idle" => InHand(AfterWatch(p), k, u, s, t)
         /\ \A w \in Watches : ~Telling(AfterWatch(p), w)
         /\ AfterWatch(p).op # "idle" => proc[p].op = "poll" /\ AfterWatch(p).step = "next"
                                        /\ AfterWatch(p).active = proc[p].active
<1>1. CASE proc[p].op = "poll"
  <2> DEFINE r == [proc[p] EXCEPT !.step = "next", !.watch = NoWatch, !.record = NoRecord]
  <2>1. r.op = "poll" /\ r.step = "next" /\ r.active = proc[p].active /\ r.rotate = proc[p].rotate
    BY <1>1, MoverKnown DEF Process
  <2>2. AfterWatch(p) = r BY <1>1 DEF AfterWatch
  <2> HIDE DEF r
  <2>3. Held(r) \subseteq Held(proc[p]) BY <2>1 DEF Held
  <2>4. Loaded(r, k, s) BY <1>1, <2>3 DEF Loaded
  <2> QED BY <1>1, <2>1, <2>2, <2>4 DEF InHand, Telling
<1>2. CASE proc[p].op # "poll" BY <1>2 DEF AfterWatch, Idle, Telling
<1> QED BY <1>1, <1>2

\* A watch that is not stored, or has expired, is not paid for.
LEMMA LoadIntact ==
  ASSUME IInv, Intact, NEW p \in Processes, LoadMissing(p) \/ LoadExpired(p)
  PROVE  Intact'
<1>1. /\ proc[p] \in Process /\ now \in Nat /\ proc[p].nowMs \in Nat /\ proc[p].nowMs <= now
      /\ proc[p].op # "idle" /\ proc[p].step = "get" /\ proc[p].watch \in Watches
      /\ paidUntil[proc[p].watch] \in Nat
      /\ key[proc[p].watch] # NoRecord => key[proc[p].watch].expiresAt \in Nat
  BY MoverKnown DEF LoadMissing, LoadExpired, At, Sound, IInv, TypeOK, Process, Record
<1>2. PICK step \in {"del", "srem"} : proc' = [proc EXCEPT ![p] = [proc[p] EXCEPT !.step = step]]
  BY DEF LoadMissing, LoadExpired, Goto, Become
<1>3. UNCHANGED <<now, key, index, apart, paidUntil, shown>>
  BY DEF LoadMissing, LoadExpired, history
<1> DEFINE r == [proc[p] EXCEPT !.step = step]
<1>4. r.step = step /\ r.op = proc[p].op /\ r.watch = proc[p].watch /\ r.active = proc[p].active
      /\ r.rotate = proc[p].rotate
  BY <1>1, <1>2 DEF Process
<1> HIDE DEF r
<1>5. ASSUME apart PROVE InHand(r, key, paidUntil, shown, now)
  <2>1. InHand(proc[p], key, paidUntil, shown, now)
        /\ AsTold(proc[p].watch, key, index, paidUntil, shown, now)
    BY <1>1, <1>5, Mover DEF Telling
  <2>2. now >= paidUntil[r.watch]
    <3>1. key[proc[p].watch] # NoRecord => key[proc[p].watch].expiresAt <= proc[p].nowMs
      BY DEF LoadMissing, LoadExpired, Key, Now
    <3> QED BY <1>1, <1>4, <2>1, <3>1 DEF AsTold
  <2>3. Held(r) = Held(proc[p]) BY <1>1, <1>4 DEF Held
  <2> QED BY <1>1, <1>4, <2>1, <2>2, <2>3 DEF InHand, Loaded
<1>6. \A w \in Watches : ~Telling(r, w) /\ ~Telling(proc[p], w) BY <1>1, <1>4 DEF Telling
<1> QED BY <1>1, <1>2, <1>3, <1>5, <1>6, HandsStay, Mover DEF r

LEMMA DeleteIntact ==
  ASSUME IInv, Intact, NEW p \in Processes, Delete(p)
  PROVE  Intact'
<1> DEFINE w == proc[p].watch
           r == [proc[p] EXCEPT !.step = "srem"]
<1>1. /\ proc[p] \in Process /\ proc[p].op # "idle" /\ proc[p].step = "del"
      /\ w \in Watches /\ now \in Nat /\ paidUntil[w] \in Nat
  BY MoverKnown DEF Delete, At, Sound, IInv, TypeOK, Process
<1>2. /\ key' = [key EXCEPT ![w] = NoRecord] /\ proc' = [proc EXCEPT ![p] = r]
      /\ UNCHANGED <<now, index, apart, paidUntil, shown>>
  BY DEF Delete, Goto, Become, history
<1>3. r.step = "srem" /\ r.op = proc[p].op /\ r.watch = w /\ r.active = proc[p].active
      /\ r.rotate = proc[p].rotate
  BY <1>1 DEF Process
<1> HIDE DEF r
<1>4. key'[w] = NoRecord /\ \A v \in Watches \ {w} : key'[v] = key[v]
  BY <1>1, <1>2 DEF IInv, TypeOK
<1>5. ASSUME apart
      PROVE  /\ InHand(r, key', paidUntil, shown, now)
             /\ \A v \in Watches : AsTold(v, key', index, paidUntil, shown, now)
  <2>1. InHand(proc[p], key, paidUntil, shown, now)
        /\ \A v \in Watches : AsTold(v, key, index, paidUntil, shown, now)
    BY <1>1, <1>5, Mover DEF Telling
  <2>2. Held(r) = Held(proc[p]) BY <1>1, <1>3 DEF Held
  <2>3. \A a \in Held(proc[p]) : proc[p].op = "poll" => a.watch \in Watches
    BY <1>1 DEF Held, Process
  <2>4. proc[p].op = "poll" => Loaded(r, key', shown)
    BY <1>4, <2>1, <2>2, <2>3 DEF InHand, Loaded
  <2>5. now >= paidUntil[w] BY <1>1, <2>1 DEF InHand
  <2> QED BY <1>1, <1>3, <1>4, <2>1, <2>4, <2>5 DEF InHand, AsTold
<1> QED BY <1>1, <1>2, <1>5, Mover, StaysIntact

LEMMA UnindexIntact ==
  ASSUME IInv, Intact, NEW p \in Processes, Unindex(p)
  PROVE  Intact'
<1> DEFINE w == proc[p].watch
<1>1. /\ proc[p] \in Process /\ proc[p].op # "idle" /\ proc[p].step = "srem"
      /\ w \in Watches /\ now \in Nat /\ paidUntil[w] \in Nat
  BY MoverKnown DEF Unindex, At, Sound, IInv, TypeOK, Process
<1>2. /\ index' = index \ {w} /\ proc' = [proc EXCEPT ![p] = AfterWatch(p)]
      /\ UNCHANGED <<now, key, apart, paidUntil, shown>>
  BY DEF Unindex, Become, history
<1>3. ASSUME apart
      PROVE  /\ AfterWatch(p).op # "idle" => InHand(AfterWatch(p), key, paidUntil, shown, now)
             /\ \A v \in Watches : AsTold(v, key, index', paidUntil, shown, now)
  <2>1. InHand(proc[p], key, paidUntil, shown, now)
        /\ \A v \in Watches : AsTold(v, key, index, paidUntil, shown, now)
    BY <1>1, <1>3, Mover DEF Telling
  <2>2. now >= paidUntil[w] BY <1>1, <2>1 DEF InHand
  <2>3. AfterWatch(p).op # "idle" => InHand(AfterWatch(p), key, paidUntil, shown, now)
    <3>1. proc[p].rotate => proc[p].op = "refresh" BY <2>1 DEF InHand
    <3>2. proc[p].op = "poll" => Loaded(proc[p], key, shown) BY <2>1 DEF InHand
    <3> QED BY <3>1, <3>2, AfterWatchInHand
  <2>4. \A v \in Watches : AsTold(v, key, index', paidUntil, shown, now)
    BY <1>1, <1>2, <2>1, <2>2 DEF AsTold
  <2> QED BY <2>3, <2>4
<1> QED BY <1>1, <1>2, <1>3, HandsStay

\* A poll lists the index, takes the lock, or goes on to the next watch.
LEMMA PollIntact ==
  ASSUME IInv, Intact, NEW p \in Processes,
         PollLock(p) \/ PollSkipped(p) \/ PollMembers(p) \/ PollLoads(p) \/ PollWorks(p)
           \/ PollDone(p)
  PROVE  Intact'
<1>1. /\ proc[p] \in Process /\ proc[p].op # "idle" /\ proc[p].step \in {"lock", "smembers", "next"}
      /\ UNCHANGED <<now, key, index, apart, paidUntil, shown>>
  BY MoverKnown
     DEF PollLock, PollSkipped, PollMembers, PollLoads, PollWorks, PollDone, At, history
<1>2. \A w \in Watches : ~Telling(proc[p], w) BY <1>1 DEF Telling
<1>3. ASSUME NEW r, proc' = [proc EXCEPT ![p] = r], r.op = proc[p].op, r.rotate = proc[p].rotate,
             r.step \in {"smembers", "next", "get", "set"}, Held(r) \subseteq Held(proc[p])
      PROVE  Intact'
  <2>1. ASSUME apart PROVE InHand(r, key, paidUntil, shown, now)
    <3>1. InHand(proc[p], key, paidUntil, shown, now) BY <1>1, <2>1, Mover
    <3>2. r.op = "poll" BY <1>1, <1>3, <3>1 DEF InHand
    <3> QED BY <1>3, <3>1, <3>2 DEF InHand, Loaded
  <2>2. \A w \in Watches : ~Telling(r, w) BY <1>3 DEF Telling
  <2> QED BY <1>1, <1>2, <1>3, <2>1, <2>2, HandsStay, Mover
<1>4. CASE PollSkipped(p) \/ PollDone(p)
  BY <1>1, <1>4, IdleIntact DEF PollSkipped, PollDone, Become
<1>5. CASE PollLock(p)
  <2> DEFINE r == [proc[p] EXCEPT !.step = "smembers", !.nowMs = now, !.lockUntil = lock']
  <2>1. proc' = [proc EXCEPT ![p] = r] BY <1>5 DEF PollLock, Become
  <2>2. r.op = proc[p].op /\ r.rotate = proc[p].rotate /\ r.step = "smembers"
        /\ r.active = proc[p].active
    BY <1>1 DEF Process
  <2> HIDE DEF r
  <2> QED BY <1>3, <2>1, <2>2 DEF Held
<1>6. CASE PollMembers(p)
  <2> DEFINE r == [proc[p] EXCEPT !.step = "next", !.todo = index]
  <2>1. proc' = [proc EXCEPT ![p] = r] BY <1>6 DEF PollMembers, Become
  <2>2. r.op = proc[p].op /\ r.rotate = proc[p].rotate /\ r.step = "next"
        /\ r.active = proc[p].active
    BY <1>1 DEF Process
  <2> HIDE DEF r
  <2> QED BY <1>3, <2>1, <2>2 DEF Held
<1>7. CASE PollLoads(p)
  <2>1. PICK w \in proc[p].todo :
          proc' = [proc EXCEPT ![p] =
            [proc[p] EXCEPT !.step = "get", !.watch = w, !.todo = @ \ {w}]]
    BY <1>7 DEF PollLoads, Become
  <2> DEFINE r == [proc[p] EXCEPT !.step = "get", !.watch = w, !.todo = @ \ {w}]
  <2>2. r.op = proc[p].op /\ r.rotate = proc[p].rotate /\ r.step = "get"
        /\ r.active = proc[p].active
    BY <1>1 DEF Process
  <2> HIDE DEF r
  <2> QED BY <1>3, <2>1, <2>2 DEF Held, r
<1>8. CASE PollWorks(p)
  <2>1. PICK a \in proc[p].active :
          proc' = [proc EXCEPT ![p] =
            [proc[p] EXCEPT !.step = "set", !.watch = a.watch,
                            !.record = a.record, !.active = @ \ {a}]]
    BY <1>8 DEF PollWorks, Become
  <2> DEFINE r == [proc[p] EXCEPT !.step = "set", !.watch = a.watch,
                                  !.record = a.record, !.active = @ \ {a}]
  <2>2. r.op = proc[p].op /\ r.rotate = proc[p].rotate /\ r.step = "set"
        /\ r.active = proc[p].active \ {a} /\ r.watch = a.watch /\ r.record = a.record
    BY <1>1 DEF Process
  <2>3. a = [watch |-> a.watch, record |-> a.record] BY <1>1, <2>1 DEF Process
  <2> HIDE DEF r
  <2>5. Held(r) \subseteq Held(proc[p]) BY <2>1, <2>2, <2>3 DEF Held
  <2> QED BY <1>3, <2>1, <2>2, <2>5 DEF r
<1> QED BY <1>4, <1>5, <1>6, <1>7, <1>8

\* What a process that loaded a live record knows.
LEMMA LiveKnown ==
  ASSUME IInv, Intact, NEW p \in Processes, LoadLive(p), apart
  PROVE  /\ InHand(proc[p], key, paidUntil, shown, now)
         /\ \A v \in Watches : AsTold(v, key, index, paidUntil, shown, now)
BY Mover DEF LoadLive, At, Telling

\* A poll puts what is stored on its list; a change keeps the expiry that is paid for
\* and, unless it mints one, the secret.
LEMMA LoadLiveIntact ==
  ASSUME IInv, Intact, NEW p \in Processes, LoadLive(p)
  PROVE  Intact'
<1> DEFINE w == proc[p].watch
<1>1. /\ proc[p] \in Process /\ proc[p].op # "idle" /\ proc[p].step = "get"
      /\ w \in Watches /\ key[w] # NoRecord /\ key[w] \in Record
      /\ now \in Nat /\ paidUntil[w] \in Nat
      /\ UNCHANGED <<now, key, index, apart, paidUntil, shown>>
  BY MoverKnown DEF LoadLive, At, Key, Sound, IInv, TypeOK, Process
<1>2. CASE Become(p, Idle) BY <1>1, <1>2, IdleIntact DEF Become
<1>3. ASSUME proc[p].op = "poll",
             Become(p, [AfterWatch(p) EXCEPT
                          !.active = @ \cup {[watch |-> w, record |-> key[w]]}])
      PROVE  Intact'
  <2> DEFINE new == [watch |-> w, record |-> key[w]]
             r == [AfterWatch(p) EXCEPT !.active = @ \cup {new}]
  <2>1. proc' = [proc EXCEPT ![p] = r] BY <1>3 DEF Become
  <2>2. /\ r.op = "poll" /\ r.step = "next" /\ r.active = proc[p].active \cup {new}
        /\ r.rotate = proc[p].rotate
    BY <1>1, <1>3 DEF AfterWatch, Process
  <2> HIDE DEF r
  <2>3. ASSUME apart PROVE Loaded(r, key, shown)
    <3>1. Loaded(proc[p], key, shown) /\ key[w].secret = shown[w]
      BY <1>1, <1>3, <2>3, LiveKnown DEF InHand, AsTold
    <3>2. Held(proc[p]) = proc[p].active /\ Held(r) = proc[p].active \cup {new}
      BY <1>1, <2>2 DEF Held
    <3>3. Same(key[w], new.record) /\ new.watch = w /\ new.record = key[w] BY DEF Same
    <3>4. \A a \in proc[p].active : a.watch = w => Same(a.record, key[w]) /\ Same(key[w], a.record)
      BY <1>1, <3>1, <3>2 DEF Loaded, Same
    <3> HIDE DEF new
    <3> QED BY <3>1, <3>2, <3>3, <3>4 DEF Loaded
  <2>4. \A v \in Watches : ~Telling(r, v) BY <2>2 DEF Telling
  <2>5. ASSUME apart PROVE InHand(r, key, paidUntil, shown, now)
    BY <1>3, <2>2, <2>3, <2>5, LiveKnown DEF InHand
  <2> QED BY <1>1, <2>1, <2>4, <2>5, HandsStay, LiveKnown
<1>4. ASSUME proc[p].op \in {"refresh", "rotate"},
             Become(p, [proc[p] EXCEPT !.step = "set", !.record = Changed(p, secrets + 1)])
      PROVE  Intact'
  <2> DEFINE record == Changed(p, secrets + 1)
             r == [proc[p] EXCEPT !.step = "set", !.record = record]
  <2>1. proc' = [proc EXCEPT ![p] = r] BY <1>4 DEF Become
  <2>2. r.op = proc[p].op /\ r.step = "set" /\ r.rotate = proc[p].rotate /\ r.watch = w
        /\ r.record = record
    BY <1>1 DEF Process
  <2>3. proc[p].op = "rotate" => record.expiresAt = key[w].expiresAt
    BY <1>1 DEF Changed, Key, Record
  <2>4. proc[p].op = "refresh" /\ ~proc[p].rotate => record.secret = key[w].secret
    BY <1>1 DEF Changed, Key, Record
  <2> HIDE DEF r, record
  <2>5. ASSUME apart PROVE InHand(r, key, paidUntil, shown, now)
    <3>1. Promised(r, paidUntil, shown, now)
      BY <1>1, <1>4, <2>2, <2>3, <2>4, <2>5, LiveKnown DEF Promised, AsTold
    <3> QED BY <1>4, <2>2, <2>5, <3>1, LiveKnown DEF InHand
  <2>6. \A v \in Watches : ~Telling(r, v) BY <2>2 DEF Telling
  <2> QED BY <1>1, <2>1, <2>5, <2>6, HandsStay, LiveKnown
<1> QED BY <1>2, <1>3, <1>4 DEF LoadLive, Key

LEMMA WriteIntact ==
  ASSUME IInv, Intact, NEW p \in Processes, Write(p)
  PROVE  Intact'
<1> DEFINE w == proc[p].watch
           old == proc[p].record
           record == [old EXCEPT !.evictAt = now + CeilSeconds(old.expiresAt - Now(p))]
           r == [proc[p] EXCEPT !.step = "sadd"]
<1>1. /\ proc[p] \in Process /\ proc[p].op # "idle" /\ proc[p].step = "set"
      /\ w \in Watches /\ old \in Record /\ now \in Nat /\ paidUntil[w] \in Nat
  BY MoverKnown DEF Write, At, Sound, Genuine, IInv, TypeOK, Process
<1>2. /\ key' = [key EXCEPT ![w] = record] /\ proc' = [proc EXCEPT ![p] = r]
      /\ UNCHANGED <<now, index, apart, paidUntil, shown>>
  BY DEF Write, Goto, Become, history
<1>3. record.expiresAt = old.expiresAt /\ record.secret = old.secret /\ record # NoRecord
  <2> DEFINE end == now + CeilSeconds(old.expiresAt - Now(p))
  <2>1. end \in Nat
    <3>1. old.expiresAt - Now(p) \in Int /\ old.expiresAt \in Nat /\ Now(p) \in Nat /\ Now(p) <= now
      BY <1>1, MoverKnown DEF Record, Process, Now, Sound
    <3> QED BY <1>1, <3>1, CeilCovers
  <2> HIDE DEF end
  <2>2. [old EXCEPT !.evictAt = end] \in Record BY <1>1, <2>1 DEF Record
  <2>3. record = [old EXCEPT !.evictAt = end] BY DEF end
  <2> QED BY <1>1, <2>2, <2>3, WatchAssumption DEF Record
<1> HIDE DEF record
<1>4. r.step = "sadd" /\ r.op = proc[p].op /\ r.watch = w /\ r.active = proc[p].active
      /\ r.rotate = proc[p].rotate /\ r.record = old
  BY <1>1 DEF Process
<1> HIDE DEF r
<1>5. key'[w] = record /\ \A v \in Watches \ {w} : key'[v] = key[v]
  BY <1>1, <1>2 DEF IInv, TypeOK
<1>6. ASSUME apart
      PROVE  /\ InHand(r, key', paidUntil, shown, now)
             /\ \A v \in Watches : ~Telling(r, v) => AsTold(v, key', index, paidUntil, shown, now)
  <2>1. InHand(proc[p], key, paidUntil, shown, now)
        /\ \A v \in Watches : AsTold(v, key, index, paidUntil, shown, now)
    BY <1>1, <1>6, Mover DEF Telling
  <2>2. CASE proc[p].op = "poll"
    <3>1. Held(r) = Held(proc[p]) BY <1>1, <1>4 DEF Held
    <3>2. [watch |-> w, record |-> old] \in Held(proc[p]) BY <1>1 DEF Held
    <3>3. /\ old.secret = shown[w]
          /\ key[w] # NoRecord => Same(key[w], old)
          /\ \A a \in Held(proc[p]) : a.watch = w => Same(old, a.record)
      BY <2>1, <2>2, <3>2 DEF InHand, Loaded
    <3>4. \A a \in Held(proc[p]) : a.watch \in Watches BY <1>1, <2>2 DEF Held, Process
    <3>5. Loaded(r, key', shown)
      BY <1>3, <1>5, <2>1, <2>2, <3>1, <3>3, <3>4 DEF InHand, Loaded, Same
    <3>6. InHand(r, key', paidUntil, shown, now) BY <1>4, <2>1, <2>2, <3>5 DEF InHand
    <3>7. \A v \in Watches : AsTold(v, key', index, paidUntil, shown, now)
      BY <1>1, <1>3, <1>5, <2>1, <3>3 DEF AsTold, Same
    <3> QED BY <3>6, <3>7
  <2>3. CASE proc[p].op # "poll"
    <3>1. Written(r, key', now) BY <1>3, <1>4, <1>5 DEF Written, Same
    <3>2. Promised(r, paidUntil, shown, now)
      BY <1>1, <1>4, <2>1, <2>3 DEF InHand, Promised
    <3>3. \A v \in Watches : ~Telling(r, v) => v # w BY <1>1, <1>4, <2>3 DEF Telling
    <3>4. \A v \in Watches : ~Telling(r, v) => AsTold(v, key', index, paidUntil, shown, now)
      BY <1>5, <2>1, <3>3 DEF AsTold
    <3> QED BY <1>4, <2>1, <2>3, <3>1, <3>2, <3>4 DEF InHand
  <2> QED BY <2>2, <2>3
<1> QED BY <1>1, <1>2, <1>6, Mover, StaysIntact

\* The owner is told what was written; from here on the promise is the receipt.
LEMMA IndexIntact ==
  ASSUME IInv, Intact, NEW p \in Processes, Index(p)
  PROVE  Intact'
<1> DEFINE w == proc[p].watch
           record == proc[p].record
<1>1. /\ proc[p] \in Process /\ proc[p].op # "idle" /\ proc[p].step = "sadd"
      /\ w \in Watches /\ record \in Record /\ now \in Nat
      /\ paidUntil \in [Watches -> Nat] /\ DOMAIN shown = Watches
      /\ key[w] # NoRecord => key[w].expiresAt \in Nat
  BY MoverKnown DEF Index, At, Sound, Genuine, IInv, TypeOK, Process, Record
<1>2. /\ index' = index \cup {w} /\ proc' = [proc EXCEPT ![p] = AfterWatch(p)]
      /\ UNCHANGED <<now, key, apart>> /\ Receipt(p)
  BY DEF Index, Become
<1>3. paidUntil' = IF proc[p].op \in {"create", "refresh"}
                   THEN [paidUntil EXCEPT ![w] = record.expiresAt] ELSE paidUntil
  BY <1>2 DEF Receipt
<1>4. shown' = IF proc[p].op \in {"create", "rotate"} \/ proc[p].rotate
               THEN [shown EXCEPT ![w] = record.secret] ELSE shown
  BY <1>2 DEF Receipt
<1>5. ASSUME apart
      PROVE  /\ AfterWatch(p).op # "idle" => InHand(AfterWatch(p), key, paidUntil', shown', now)
             /\ \A v \in Watches : AsTold(v, key, index', paidUntil', shown', now)
  <2>1. InHand(proc[p], key, paidUntil, shown, now)
        /\ \A v \in Watches : ~Telling(proc[p], v) => AsTold(v, key, index, paidUntil, shown, now)
    BY <1>1, <1>5, Mover
  <2>2. CASE proc[p].op = "poll"
    <3>1. ~proc[p].rotate /\ Loaded(proc[p], key, shown) BY <2>1, <2>2 DEF InHand
    <3>2. paidUntil' = paidUntil /\ shown' = shown BY <1>3, <1>4, <2>2, <3>1
    <3>3. AfterWatch(p).op # "idle" => InHand(AfterWatch(p), key, paidUntil, shown, now)
      BY <3>1, AfterWatchInHand
    <3>4. \A v \in Watches : AsTold(v, key, index', paidUntil', shown', now)
      BY <1>2, <2>1, <2>2, <3>2 DEF AsTold, Telling
    <3> QED BY <3>2, <3>3, <3>4
  <2>3. CASE proc[p].op # "poll"
    <3>1. AfterWatch(p).op = "idle" BY <2>3 DEF AfterWatch, Idle
    <3>2. Promised(proc[p], paidUntil, shown, now) /\ Written(proc[p], key, now)
      BY <1>1, <2>1, <2>3 DEF InHand
    <3>3. \A v \in Watches \ {w} : paidUntil'[v] = paidUntil[v] /\ shown'[v] = shown[v]
      BY <1>1, <1>3, <1>4
    <3>4. \A v \in Watches \ {w} : AsTold(v, key, index', paidUntil', shown', now)
      BY <1>2, <2>1, <3>3 DEF AsTold, Telling
    <3>5. shown'[w] = record.secret
      BY <1>1, <1>4, <3>2 DEF Promised
    <3>6. now < paidUntil'[w] => record.expiresAt >= paidUntil'[w] /\ now < record.expiresAt
      <4>1. record.expiresAt \in Nat BY <1>1 DEF Record
      <4>2. paidUntil'[w] \in Nat BY <1>1, <1>3, <4>1
      <4>3. CASE proc[p].op \in {"create", "refresh"} BY <1>1, <1>3, <4>1, <4>3
      <4>4. CASE proc[p].op = "rotate" BY <1>1, <1>3, <3>2, <4>1, <4>2, <4>4 DEF Promised
      <4> QED BY <3>2, <4>3, <4>4 DEF Promised
    <3>7. AsTold(w, key, index', paidUntil', shown', now)
      BY <1>2, <3>2, <3>5, <3>6 DEF AsTold, Written, Same
    <3> QED BY <3>1, <3>4, <3>7
  <2> QED BY <2>2, <2>3
<1> QED BY <1>1, <1>2, <1>5, Mover, StaysIntact

\* Redis evicts no record that is paid for, and the time paid for only runs out.
LEMMA TickIntact ==
  ASSUME IInv, Intact, Tick
  PROVE  Intact'
<1>1. /\ now \in Nat /\ now' = now + 1 /\ paidUntil \in [Watches -> Nat]
      /\ UNCHANGED <<index, proc, apart, paidUntil, shown>>
  BY DEF Tick, IInv, TypeOK, history
<1>2. ASSUME NEW v \in Watches
      PROVE  \/ key'[v] = key[v]
             \/ key[v] # NoRecord /\ key'[v] = NoRecord /\ key[v].expiresAt <= now + 1
  <2>1. DOMAIN key = Watches BY DEF IInv, TypeOK
  <2>2. key[v] # NoRecord => key[v].evictAt \in Nat /\ key[v].expiresAt \in Nat
                             /\ key[v].evictAt >= key[v].expiresAt
    BY DEF IInv, Stored, Genuine, Record
  <2> QED BY <1>1, <2>1, <2>2 DEF Tick, Unevicted
<1>3. \A v \in Watches : key[v] # NoRecord => key[v].expiresAt \in Nat
  BY DEF IInv, Stored, Genuine, Record
<1> SUFFICES ASSUME apart PROVE OneByOne(proc, key', index, paidUntil, shown, now + 1)
  BY <1>1 DEF Intact
<1>4. OneByOne(proc, key, index, paidUntil, shown, now) BY DEF Intact
<1>5. ASSUME NEW v \in Watches, AsTold(v, key, index, paidUntil, shown, now)
      PROVE  AsTold(v, key', index, paidUntil, shown, now + 1)
  <2>1. paidUntil[v] \in Nat BY <1>1
  <2> QED BY <1>1, <1>2, <1>3, <1>5, <2>1 DEF AsTold
<1>6. ASSUME NEW p \in Processes, proc[p].op # "idle"
      PROVE  InHand(proc[p], key', paidUntil, shown, now + 1)
  <2>1. InHand(proc[p], key, paidUntil, shown, now) /\ proc[p] \in Process
    BY <1>4, <1>6, MoverKnown DEF OneByOne
  <2>2. proc[p].step \in {"del", "srem", "set", "sadd"} => proc[p].watch \in Watches
    BY MoverKnown DEF Sound, Process
  <2>3. proc[p].step \in {"set", "sadd"} => proc[p].record \in Record
    BY MoverKnown DEF Sound, Genuine
  <2>4. proc[p].step \in {"del", "srem"} => now + 1 >= paidUntil[proc[p].watch]
    BY <1>1, <2>1, <2>2 DEF InHand
  <2>5. proc[p].op = "poll" => Loaded(proc[p], key', shown)
    <3>1. \A a \in Held(proc[p]) : a.watch \in Watches
      BY <2>1, <2>2 DEF Held, Process
    <3> QED BY <1>2, <2>1, <3>1 DEF InHand, Loaded
  <2>6. proc[p].op # "poll" /\ proc[p].step \in {"set", "sadd"}
          => Promised(proc[p], paidUntil, shown, now + 1)
    BY <1>1, <2>1, <2>2, <2>3 DEF InHand, Promised, Record
  <2>7. proc[p].op # "poll" /\ proc[p].step = "sadd" => Written(proc[p], key', now + 1)
    BY <1>1, <1>2, <1>3, <2>1, <2>2, <2>3 DEF InHand, Written, Same, Record
  <2> QED BY <2>1, <2>4, <2>5, <2>6, <2>7 DEF InHand
<1> QED BY <1>1, <1>4, <1>5, <1>6 DEF OneByOne

LEMMA StepIntact == IInv /\ Intact /\ [Next]_vars => Intact'
<1> SUFFICES ASSUME IInv, Intact, [Next]_vars PROVE Intact' OBVIOUS
<1>1. ASSUME NEW p \in Processes, Step(p) PROVE Intact'
  BY <1>1, LoadIntact, LoadLiveIntact, DeleteIntact, UnindexIntact, WriteIntact, IndexIntact,
     PollIntact DEF Step
<1>2. ASSUME NEW p \in Processes, CommandFails(p) PROVE Intact'
  BY <1>2 DEF CommandFails, Intact
<1>3. ASSUME NEW p \in Clients,
             BeginCreate(p) \/ BeginGet(p) \/ BeginRefresh(p) \/ BeginRotate(p)
      PROVE  Intact'
  BY <1>3, BeginIntact DEF Processes
<1>4. ASSUME NEW p \in Pollers, BeginPoll(p) PROVE Intact'
  BY <1>4, BeginIntact DEF Processes
<1>5. CASE UNCHANGED vars BY <1>5 DEF vars, Intact
<1> QED BY <1>1, <1>2, <1>3, <1>4, <1>5, TickIntact DEF Next

\* As long as operations follow one another and none fails, a watch whose receipt has
\* not run out is stored with at least that expiry, is in the index, and has the
\* secret its owner was last shown.
THEOREM PaidWatchesStay == Spec => []PaidWatchIntact
<1>1. IInv /\ Intact => PaidWatchIntact
  BY DEF Intact, OneByOne, AsTold, PaidWatchIntact, Quiet, Busy, Telling
<1> QED BY <1>1, Invariant, InitIntact, StepIntact, PTL DEF Spec

(***************************************************************************)
(* Episodes: the inductive invariant.                                      *)
(***************************************************************************)
\* A snapshot in step with what the polls saw: b are the breaches, c the crossings,
\* m the ids minted and o the keys fired.
InStep(snapshot, b, c, m, o) ==
  \A x \in EpisodeSignals :
    LET id == snapshot.episode[x] IN
    /\ id <= m[x]
    /\ b[x] <=> id # NoEpisode
    /\ b[x] => <<<<x, id, 0>>, c[x]>> \in o
    /\ snapshot.sample[x] # NoSample => (b[x] <=> InBreach(x, snapshot.sample[x]))

\* A drop since the stored sample is posted or waits to be.
DropsDue(before, after, due, done) ==
  \A x \in Markets :
    DropFires(x, before[x], after[x]) =>
      LET k == <<x, before[x], after[x]>> IN
      k \in done \/ \E n \in DOMAIN due : due[n].key = k

\* A key takes one place.
OneEach(firings) == \A m, n \in DOMAIN firings : m # n => firings[m].key # firings[n].key

\* Delivered means answered 2xx.
Truthful(firings, a) ==
  /\ \A n \in DOMAIN firings : firings[n].status = "delivered" => firings[n].key \in a
  /\ OneEach(firings)

OriginsKnown ==
  \A p \in origin :
    \E x \in EpisodeSignals : \E n \in 1..minted[x] : p[1] = <<x, n, 0>>

Posting == poll.phase = "posting"
Sampled == poll.record.snapshot.sample

\* No crossing is fired for before it is seen.
Numbered ==
  \A p \in origin :
    p[2] <= IF Posting THEN Crossing(Sampled)[p[1][1]] ELSE crossings[p[1][1]]

Together ==
  /\ OriginsKnown
  /\ InStep(stored.snapshot, breach, crossings, minted, origin)
  /\ poll.phase = "sampling" => poll.record = stored
  /\ Posting =>
       /\ InStep(poll.record.snapshot, Breached(Sampled), Crossing(Sampled), minted, origin)
       /\ DropsDue(stored.snapshot.sample, Sampled, poll.due, posted)
  /\ \A p, q \in origin : p[1] = q[1] => p[2] = q[2]
  /\ crashes = 0 =>
       /\ Numbered
       /\ \A p, q \in origin : (p[1][1] = q[1][1] /\ p[2] = q[2]) => p[1] = q[1]

EpisodeIInv ==
  /\ EpisodeTypeOK
  /\ Truthful(stored.firings, accepted)
  /\ Truthful(poll.record.firings, accepted)
  /\ Truthful(write.record.firings, accepted)
  /\ ~undone => Together

(***************************************************************************)
(* What evaluateWatchThresholds returns.                                   *)
(***************************************************************************)
LEMMA BreachIsSampled ==
  ASSUME NEW x, NEW value, InBreach(x, value) PROVE value # NoSample
BY DEF InBreach

\* An episode is kept, ended, begun with the fresh id, or goes on.
LEMMA EpisodeMoves ==
  ASSUME NEW x, NEW previous, NEW current, NEW episode, NEW fresh
  PROVE  LET after == EpisodeAfter(x, previous, current, episode, fresh)
             fires == EpisodeFires(x, previous, current, episode)
         IN  /\ current = NoSample => after = episode
             /\ current # NoSample /\ ~InBreach(x, current) => after = NoEpisode
             /\ InBreach(x, current) /\ fires /\ episode = NoEpisode => after = fresh
             /\ InBreach(x, current) /\ ~(fires /\ episode = NoEpisode) => after = episode
<1> HIDE DEF NoEpisode
<1> QED BY BreachIsSampled DEF EpisodeAfter

LEMMA EpisodeAfterIsId ==
  ASSUME NEW x, NEW previous, NEW current, NEW episode \in Nat, NEW fresh \in Nat
  PROVE  EpisodeAfter(x, previous, current, episode, fresh) \in {NoEpisode, episode, fresh}
BY EpisodeMoves

\* The sample is the next snapshot's, and its episodes are EpisodeAfter.
LEMMA NextSnapshotType ==
  ASSUME NEW snapshot \in Snapshot, NEW sample \in Sightings,
         NEW fresh \in [EpisodeSignals -> Nat]
  PROVE  LET next == NextSnapshot(snapshot, sample, fresh)
         IN  /\ next \in Snapshot
             /\ next.sample = sample
             /\ \A x \in EpisodeSignals :
                  next.episode[x] = EpisodeAfter(x, snapshot.sample[x], sample[x],
                                                 snapshot.episode[x], fresh[x])
<1>1. \A x \in EpisodeSignals :
        EpisodeAfter(x, snapshot.sample[x], sample[x], snapshot.episode[x], fresh[x]) \in Nat
  BY EpisodeAfterIsId DEF Snapshot, NoEpisode
<1> QED BY <1>1 DEF NextSnapshot, Snapshot

\* One pending firing for each signal that fires, under its key.
LEMMA FiringsAre ==
  ASSUME NEW snapshot \in Snapshot, NEW sample \in Sightings,
         NEW fresh \in [EpisodeSignals -> Nat]
  PROVE  LET next == NextSnapshot(snapshot, sample, fresh)
             keyFor(x) == KeyOf(x, snapshot.sample[x], sample[x],
                             IF x \in Markets THEN NoEpisode ELSE next.episode[x])
             fired == Firings(snapshot, sample, fresh)
         IN  /\ fired \in Seq(Firing)
             /\ Members(fired) =
                  {[key |-> keyFor(x), status |-> "pending"] : x \in FiringSignals(snapshot, sample)}
<1> DEFINE next == NextSnapshot(snapshot, sample, fresh)
           keyFor(x) == KeyOf(x, snapshot.sample[x], sample[x],
                           IF x \in Markets THEN NoEpisode ELSE next.episode[x])
           T == FiringSignals(snapshot, sample)
           order == Keep(SignalOrder, T)
           fired == Firings(snapshot, sample, fresh)
<1>1. order \in Seq(Signals) /\ Members(order) = T
  <2>1. T \subseteq Signals BY DEF FiringSignals
  <2> HIDE DEF T
  <2>2. SignalOrder \in Seq(Signals) /\ Members(SignalOrder) = Signals BY SignalsAssumption
  <2>3. order \in Seq(Signals) /\ Members(order) = Members(SignalOrder) \cap T
    BY <2>2, KeepKeeps
  <2> QED BY <2>1, <2>2, <2>3
<1>2. \A x \in Signals : keyFor(x) \in Keys
  <2> SUFFICES ASSUME NEW x \in Signals PROVE keyFor(x) \in Keys OBVIOUS
  <2>1. CASE x \in Markets BY <2>1 DEF KeyOf, Keys, Snapshot
  <2>2. CASE x \notin Markets
    <3>1. x \in EpisodeSignals BY <2>2 DEF Signals, EpisodeSignals
    <3>2. next.episode[x] \in Nat BY <3>1, NextSnapshotType DEF Snapshot
    <3> HIDE DEF next
    <3> QED BY <2>2, <3>1, <3>2 DEF KeyOf, Keys
  <2> QED BY <2>1, <2>2
<1>3. fired = [n \in 1..Len(order) |-> [key |-> keyFor(order[n]), status |-> "pending"]]
  BY DEF Firings
<1> HIDE DEF keyFor, order, fired, T
<1>4. \A n \in 1..Len(order) : order[n] \in Signals BY <1>1
<1>5. fired \in Seq(Firing)
  <2>1. \A n \in 1..Len(order) : [key |-> keyFor(order[n]), status |-> "pending"] \in Firing
    BY <1>2, <1>4 DEF Firing, Statuses
  <2>2. Len(order) \in Nat BY <1>1
  <2> QED BY <1>3, <2>1, <2>2
<1>6. Members(fired) = {[key |-> keyFor(x), status |-> "pending"] : x \in T}
  <2>1. DOMAIN fired = DOMAIN order BY <1>1, <1>3
  <2>2. \A n \in DOMAIN order : fired[n] = [key |-> keyFor(order[n]), status |-> "pending"]
    BY <1>1, <1>3
  <2>3. T = {order[n] : n \in DOMAIN order} BY <1>1 DEF Members
  <2> QED BY <2>1, <2>2, <2>3 DEF Members
<1> QED BY <1>5, <1>6 DEF keyFor, fired, T

\* Due lists every new firing.
LEMMA DueIs ==
  ASSUME NEW fired \in Seq(Firing), NEW firings \in Seq(Firing)
  PROVE  /\ Due(fired, firings) \in Seq(Firing)
         /\ Members(fired) \subseteq Members(Due(fired, firings))
<1> DEFINE rest == Keep(firings, {f \in Members(firings) :
                      Unsent(f) /\ f.key \notin {fired[n].key : n \in DOMAIN fired}})
<1>1. rest \in Seq(Firing) BY KeepKeeps
<1>2. Due(fired, firings) = fired \o rest BY DEF Due
<1> HIDE DEF rest
<1>3. fired \o rest \in Seq(Firing) /\ DOMAIN (fired \o rest) = 1..(Len(fired) + Len(rest))
      /\ \A n \in 1..Len(fired) : (fired \o rest)[n] = fired[n]
  BY <1>1
<1>4. Len(fired) \in Nat /\ Len(rest) \in Nat /\ DOMAIN fired = 1..Len(fired) BY <1>1
<1>5. \A n \in DOMAIN fired : n \in DOMAIN (fired \o rest) BY <1>3, <1>4
<1> QED BY <1>2, <1>3, <1>4, <1>5 DEF Members

\* The ring holds firings it held, and the new one, each once.
LEMMA WithFiringIs ==
  ASSUME NEW firings \in Seq(Firing), NEW f \in Firing
  PROVE  /\ WithFiring(firings, f) \in Seq(Firing)
         /\ Members(WithFiring(firings, f)) \subseteq Members(firings) \cup {f}
         /\ OneEach(firings) => OneEach(WithFiring(firings, f))
<1>1. DOMAIN firings = 1..Len(firings) /\ Len(firings) \in Nat
      /\ \A n \in DOMAIN firings : firings[n] \in Firing
  OBVIOUS
<1>2. CASE \E n \in DOMAIN firings : firings[n].key = f.key
  <2> DEFINE new == [n \in DOMAIN firings |-> IF firings[n].key = f.key THEN f ELSE firings[n]]
  <2>1. WithFiring(firings, f) = new BY <1>2 DEF WithFiring
  <2>2. new \in Seq(Firing) BY <1>1
  <2>3. Members(new) \subseteq Members(firings) \cup {f} BY DEF Members
  <2>4. \A n \in DOMAIN firings : new[n].key = firings[n].key OBVIOUS
  <2>5. DOMAIN new = DOMAIN firings OBVIOUS
  <2> HIDE DEF new
  <2>6. OneEach(firings) => OneEach(new) BY <2>4, <2>5 DEF OneEach
  <2> QED BY <2>1, <2>2, <2>3, <2>6
<1>3. CASE ~\E n \in DOMAIN firings : firings[n].key = f.key
  <2> DEFINE all == Append(firings, f)
  <2>1. WithFiring(firings, f) = IF Len(all) > MaxFirings THEN Tail(all) ELSE all
    BY <1>3 DEF WithFiring
  <2>2. all \in Seq(Firing) /\ Len(all) = Len(firings) + 1 OBVIOUS
  <2>3. /\ DOMAIN all = 1..(Len(firings) + 1) /\ all[Len(firings) + 1] = f
        /\ \A n \in 1..Len(firings) : all[n] = firings[n]
    OBVIOUS
  <2> HIDE DEF all
  <2>4. Members(all) \subseteq Members(firings) \cup {f}
    <3>1. \A n \in 1..(Len(firings) + 1) : n \in 1..Len(firings) \/ n = Len(firings) + 1
      BY <1>1
    <3> QED BY <1>1, <2>3, <3>1 DEF Members
  <2>6. OneEach(firings) => OneEach(all)
    <3>1. \A n \in 1..(Len(firings) + 1) : n \in 1..Len(firings) \/ n = Len(firings) + 1
      BY <1>1
    <3> QED BY <1>1, <1>3, <2>3, <3>1 DEF OneEach
  <2>5. /\ Tail(all) \in Seq(Firing) /\ Members(Tail(all)) \subseteq Members(all)
        /\ OneEach(all) => OneEach(Tail(all))
    <3>1. all # <<>> BY <1>1, <2>2
    <3>2. /\ Tail(all) \in Seq(Firing) /\ Len(Tail(all)) = Len(all) - 1
          /\ \A n \in 1..Len(Tail(all)) : Tail(all)[n] = all[n + 1]
      BY <2>2, <3>1
    <3>3. DOMAIN Tail(all) = 1..Len(Tail(all)) /\ Len(Tail(all)) \in Nat BY <3>2
    <3>4. \A n \in 1..Len(Tail(all)) : n + 1 \in DOMAIN all BY <2>2, <2>3, <3>2, <3>3
    <3>5. \A m, n \in 1..Len(Tail(all)) : m # n => m + 1 # n + 1 BY <3>3
    <3>6. OneEach(all) => OneEach(Tail(all)) BY <3>2, <3>3, <3>4, <3>5 DEF OneEach
    <3> QED BY <3>2, <3>3, <3>4, <3>6 DEF Members
  <2> QED BY <2>1, <2>2, <2>4, <2>5, <2>6
<1> QED BY <1>2, <1>3

(***************************************************************************)
(* The steps.                                                              *)
(***************************************************************************)
LEMMA EmptyIsRecord ==
  /\ EmptyRecord \in WatchRecord /\ Members(EmptyRecord.firings) = {}
  /\ OneEach(EmptyRecord.firings)
  /\ EmptyRecord.snapshot.sample = [x \in Signals |-> NoSample]
  /\ EmptyRecord.snapshot.episode = [x \in EpisodeSignals |-> NoEpisode]
<1>1. EmptyRecord.snapshot.sample \in Sightings BY DEF Sightings
<1>2. <<>> \in Seq(Firing) /\ Members(<<>>) = {} /\ OneEach(<<>>) BY DEF Members, OneEach
<1> QED BY <1>1, <1>2 DEF EmptyRecord, WatchRecord, Snapshot, NoEpisode

LEMMA TruthOfMembers ==
  ASSUME NEW firings, NEW a
  PROVE  Truthful(firings, a) <=>
           /\ \A f \in Members(firings) : f.status = "delivered" => f.key \in a
           /\ OneEach(firings)
BY DEF Truthful, Members

LEMMA EpisodeInitHolds == EpisodeInit => EpisodeIInv
<1> SUFFICES ASSUME EpisodeInit PROVE EpisodeIInv OBVIOUS
<1> USE DEF EpisodeInit
<1>1. EpisodeTypeOK
  <2>1. IdlePoll.due \in Seq(Firing) BY DEF IdlePoll
  <2> QED BY <2>1, EmptyIsRecord DEF EpisodeTypeOK, IdlePoll, IdleWrite
<1>2. Truthful(EmptyRecord.firings, accepted) BY EmptyIsRecord, TruthOfMembers
<1>3. poll.record = EmptyRecord /\ write.record = EmptyRecord /\ poll.phase = "idle"
  BY DEF IdlePoll, IdleWrite
<1>4. InStep(stored.snapshot, breach, crossings, minted, origin)
  <2> SUFFICES ASSUME NEW x \in EpisodeSignals
               PROVE  /\ stored.snapshot.episode[x] = NoEpisode /\ minted[x] = 0
                      /\ ~breach[x] /\ stored.snapshot.sample[x] = NoSample
    BY DEF InStep, NoEpisode
  <2> QED BY EmptyIsRecord DEF Signals, EpisodeSignals
<1>5. Together BY <1>3, <1>4 DEF OriginsKnown, Together, Numbered, Posting
<1> QED BY <1>1, <1>2, <1>3, <1>5 DEF EpisodeIInv

LEMMA PollListKeeps ==
  ASSUME EpisodeIInv, PollList
  PROVE  EpisodeIInv'
<1>1. /\ poll' = [IdlePoll EXCEPT !.phase = "sampling", !.record = stored]
      /\ UNCHANGED <<followed, stored, write, minted, writes, crashes, observed, undone>>
      /\ poll.phase = "idle"
  BY DEF PollList
<1>2. poll' = [phase |-> "sampling", record |-> stored, due |-> <<>>] BY <1>1 DEF IdlePoll
<1>3. EpisodeTypeOK'
  <2>1. poll' \in [phase : {"idle", "sampling", "posting"}, record : WatchRecord,
                   due : Seq(Firing)]
    <3>1. <<>> \in Seq(Firing) /\ stored \in WatchRecord BY DEF EpisodeIInv, EpisodeTypeOK
    <3> QED BY <1>2, <3>1
  <2> QED BY <1>1, <2>1 DEF EpisodeIInv, EpisodeTypeOK, observed
<1>4. /\ Truthful(stored.firings, accepted)' /\ Truthful(poll.record.firings, accepted)'
      /\ Truthful(write.record.firings, accepted)'
  BY <1>1, <1>2 DEF EpisodeIInv, observed
<1>6. ASSUME ~undone' PROVE Together'
  <2>1. Together /\ poll'.phase = "sampling" /\ poll'.record = stored BY <1>1, <1>2, <1>6 DEF EpisodeIInv
  <2>2. UNCHANGED <<stored, minted, crashes, breach, crossings, origin>> BY <1>1 DEF observed
  <2> QED BY <1>1, <2>1, <2>2 DEF Together, OriginsKnown, Posting, Numbered
<1> QED BY <1>3, <1>4, <1>6 DEF EpisodeIInv

LEMMA CrashKeeps ==
  ASSUME EpisodeIInv, Crash
  PROVE  EpisodeIInv'
<1>1. /\ poll' = IdlePoll /\ crashes' = crashes + 1
      /\ UNCHANGED <<followed, stored, write, minted, writes, observed, undone>>
  BY DEF Crash
<1>2. poll'.phase = "idle" /\ poll'.record = EmptyRecord /\ poll'.due = <<>> BY <1>1 DEF IdlePoll
<1>3. EpisodeTypeOK'
  <2>1. <<>> \in Seq(Firing) /\ IdlePoll \in [phase : {"idle", "sampling", "posting"},
                                               record : WatchRecord, due : Seq(Firing)]
    BY EmptyIsRecord DEF IdlePoll
  <2> QED BY <1>1, <2>1 DEF EpisodeIInv, EpisodeTypeOK, observed
<1>4. /\ Truthful(stored.firings, accepted)' /\ Truthful(poll.record.firings, accepted)'
      /\ Truthful(write.record.firings, accepted)'
  BY <1>1, <1>2, EmptyIsRecord, TruthOfMembers DEF EpisodeIInv, observed
<1>6. ASSUME ~undone' PROVE Together'
  <2>1. Together BY <1>1, <1>6 DEF EpisodeIInv
  <2>2. UNCHANGED <<stored, minted, breach, crossings, origin>> BY <1>1 DEF observed
  <2>3. crashes' # 0 BY <1>1 DEF EpisodeIInv, EpisodeTypeOK
  <2> QED BY <1>2, <2>1, <2>2, <2>3 DEF Together, OriginsKnown, Posting
<1> QED BY <1>3, <1>4, <1>6 DEF EpisodeIInv

LEMMA WriteKeepsEpisodes ==
  ASSUME EpisodeIInv, WriteLoad \/ WritePersist
  PROVE  EpisodeIInv'
<1>1. /\ UNCHANGED <<followed, poll, minted, crashes, observed>>
      /\ \/ undone' = undone /\ stored' = stored
         \/ undone' = (undone \/ write.record # stored) /\ stored' = write.record
      /\ write' = [loaded |-> TRUE, record |-> stored] \/ write' = IdleWrite
      /\ writes' \in Nat
  BY DEF WriteLoad, WritePersist, EpisodeIInv, EpisodeTypeOK
<1>2. EpisodeTypeOK'
  <2>1. stored' \in WatchRecord BY <1>1 DEF EpisodeIInv, EpisodeTypeOK
  <2>2. write' \in [loaded : BOOLEAN, record : WatchRecord]
    <3>1. stored \in WatchRecord /\ EmptyRecord \in WatchRecord
      BY EmptyIsRecord DEF EpisodeIInv, EpisodeTypeOK
    <3>2. [loaded |-> TRUE, record |-> stored] \in [loaded : BOOLEAN, record : WatchRecord]
      BY <3>1
    <3>3. IdleWrite \in [loaded : BOOLEAN, record : WatchRecord] BY <3>1 DEF IdleWrite
    <3> QED BY <1>1, <3>2, <3>3
  <2>3. undone' \in BOOLEAN BY <1>1 DEF EpisodeIInv, EpisodeTypeOK
  <2> QED BY <1>1, <2>1, <2>2, <2>3 DEF EpisodeIInv, EpisodeTypeOK, observed
<1>3. /\ Truthful(stored.firings, accepted)' /\ Truthful(poll.record.firings, accepted)'
      /\ Truthful(write.record.firings, accepted)'
  BY <1>1, EmptyIsRecord, TruthOfMembers DEF EpisodeIInv, observed, IdleWrite
<1>5. ASSUME ~undone' PROVE Together'
  <2>1. ~undone /\ stored' = stored
    <3>1. CASE undone' = undone /\ stored' = stored BY <1>5, <3>1
    <3>2. CASE undone' = (undone \/ write.record # stored) /\ stored' = write.record
      BY <1>5, <3>2
    <3> QED BY <1>1, <3>1, <3>2
  <2>2. Together BY <2>1 DEF EpisodeIInv
  <2>3. UNCHANGED <<minted, breach, crossings, origin, poll, crashes, posted>> BY <1>1 DEF observed
  <2>4. Posting' = Posting /\ Sampled' = Sampled BY <2>3 DEF Posting, Sampled
  <2>5. Breached(Sampled)' = Breached(Sampled) /\ Crossing(Sampled)' = Crossing(Sampled)
    BY <2>3, <2>4 DEF Breached, Crossing, Begins
  <2>6. Numbered' = Numbered BY <2>3, <2>4, <2>5 DEF Numbered
  <2> QED BY <2>1, <2>2, <2>3, <2>4, <2>5, <2>6 DEF Together, OriginsKnown
<1> QED BY <1>2, <1>3, <1>5 DEF EpisodeIInv

LEMMA InBreachIsBoolean ==
  ASSUME NEW x, NEW value PROVE InBreach(x, value) \in BOOLEAN
BY DEF InBreach

\* The crossings fired for by an evaluation.
NewOrigins(snapshot, sample) ==
  {<<<<x, NextSnapshot(snapshot, sample, Fresh).episode[x], 0>>, Crossing(sample)[x]>> :
     x \in FiringSignals(snapshot, sample) \cap EpisodeSignals}

\* What an evaluation starts from and does.
LEMMA Evaluates ==
  ASSUME EpisodeIInv, NEW sample \in {Seen(s, followed) : s \in Samples}, PollEvaluate(sample)
  PROVE  LET snapshot == poll.record.snapshot
             next == NextSnapshot(snapshot, sample, Fresh)
         IN  /\ sample \in Sightings /\ snapshot \in Snapshot /\ next \in Snapshot
             /\ next.sample = sample
             /\ poll.phase = "sampling" /\ poll'.phase = "posting"
             /\ poll'.record = [poll.record EXCEPT !.snapshot = next]
             /\ poll'.record \in WatchRecord /\ poll'.due \in Seq(Firing)
             /\ \A x \in FiringSignals(snapshot, sample) \cap Markets :
                  \E n \in DOMAIN poll'.due :
                    poll'.due[n].key = <<x, snapshot.sample[x], sample[x]>>
             /\ minted' \in [EpisodeSignals -> Nat]
             /\ \A x \in EpisodeSignals : minted[x] <= minted'[x]
             /\ \A x \in EpisodeSignals :
                  next.episode[x] \in {NoEpisode, snapshot.episode[x], minted[x] + 1}
                  /\ (next.episode[x] = minted[x] + 1 => minted'[x] = minted[x] + 1)
             /\ origin' = origin \cup NewOrigins(snapshot, sample)
<1> DEFINE snapshot == poll.record.snapshot
           next == NextSnapshot(snapshot, sample, Fresh)
           fired == Firings(snapshot, sample, Fresh)
<1>1. EpisodeTypeOK BY DEF EpisodeIInv
<1>2. sample \in Sightings BY <1>1 DEF EpisodeTypeOK, Sightings
<1>3. snapshot \in Snapshot /\ poll.record \in WatchRecord /\ poll.record.firings \in Seq(Firing)
  BY <1>1 DEF EpisodeTypeOK, WatchRecord
<1>4. Fresh \in [EpisodeSignals -> Nat] /\ \A x \in EpisodeSignals : Fresh[x] = minted[x] + 1
  BY <1>1 DEF EpisodeTypeOK, Fresh
<1>5. next \in Snapshot /\ next.sample = sample BY <1>2, <1>3, <1>4, NextSnapshotType
<1>6. \A x \in EpisodeSignals : next.episode[x] \in {NoEpisode, snapshot.episode[x], minted[x] + 1}
  <2> TAKE x \in EpisodeSignals
  <2>1. next.episode[x] = EpisodeAfter(x, snapshot.sample[x], sample[x], snapshot.episode[x], Fresh[x])
    BY <1>2, <1>3, <1>4, NextSnapshotType
  <2>2. snapshot.episode[x] \in Nat BY <1>3 DEF Snapshot
  <2> HIDE DEF next, snapshot
  <2> QED BY <1>4, <2>1, <2>2, EpisodeAfterIsId
<1>7. /\ fired \in Seq(Firing)
      /\ Members(fired) =
           {[key |-> KeyOf(x, snapshot.sample[x], sample[x],
                           IF x \in Markets THEN NoEpisode ELSE next.episode[x]),
             status |-> "pending"] : x \in FiringSignals(snapshot, sample)}
  BY <1>2, <1>3, <1>4, FiringsAre
<1>8. /\ poll.phase = "sampling"
      /\ poll' = [phase |-> "posting", record |-> [poll.record EXCEPT !.snapshot = next],
                  due |-> Due(fired, poll.record.firings)]
      /\ minted' = [x \in EpisodeSignals |->
                      IF next.episode[x] > minted[x] THEN minted[x] + 1 ELSE minted[x]]
      /\ origin' = origin \cup
           {<<f.key, Crossing(sample)[f.key[1]]>> :
              f \in {g \in Members(fired) : g.key[1] \in EpisodeSignals}}
  BY DEF PollEvaluate
<1> HIDE DEF snapshot, next, fired
<1>9. poll'.record \in WatchRecord BY <1>3, <1>5, <1>8 DEF WatchRecord
<1>10. poll'.due \in Seq(Firing) /\ Members(fired) \subseteq Members(poll'.due)
  BY <1>3, <1>7, <1>8, DueIs
<1>11. ASSUME NEW x \in FiringSignals(snapshot, sample) \cap Markets
       PROVE  \E n \in DOMAIN poll'.due : poll'.due[n].key = <<x, snapshot.sample[x], sample[x]>>
  <2> DEFINE f == [key |-> <<x, snapshot.sample[x], sample[x]>>, status |-> "pending"]
  <2>1. f \in Members(fired) BY <1>7, <1>11 DEF KeyOf
  <2>2. f \in Members(poll'.due) BY <1>10, <2>1
  <2> QED BY <2>2 DEF Members
<1>12. /\ minted' \in [EpisodeSignals -> Nat]
       /\ \A x \in EpisodeSignals : minted[x] <= minted'[x]
       /\ \A x \in EpisodeSignals : next.episode[x] = minted[x] + 1 => minted'[x] = minted[x] + 1
  BY <1>1, <1>8 DEF EpisodeTypeOK
<1>13. {<<f.key, Crossing(sample)[f.key[1]]>> :
          f \in {g \in Members(fired) : g.key[1] \in EpisodeSignals}}
         = NewOrigins(snapshot, sample)
  <2> DEFINE keyFor(x) == KeyOf(x, snapshot.sample[x], sample[x],
                             IF x \in Markets THEN NoEpisode ELSE next.episode[x])
             F == FiringSignals(snapshot, sample)
             G == {g \in Members(fired) : g.key[1] \in EpisodeSignals}
  <2>1. \A x : keyFor(x)[1] = x BY DEF KeyOf
  <2>2. \A x \in EpisodeSignals : keyFor(x) = <<x, next.episode[x], 0>>
    BY SignalsAssumption DEF KeyOf
  <2>3. Members(fired) = {[key |-> keyFor(x), status |-> "pending"] : x \in F} BY <1>7
  <2> HIDE DEF keyFor, F
  <2>4. G = {[key |-> keyFor(x), status |-> "pending"] : x \in F \cap EpisodeSignals}
    BY <2>1, <2>3
  <2> HIDE DEF G
  <2>5. {<<f.key, Crossing(sample)[f.key[1]]>> : f \in G}
          = {<<keyFor(x), Crossing(sample)[x]>> : x \in F \cap EpisodeSignals}
    <3>1. \A f \in G : \E x \in F \cap EpisodeSignals : f.key = keyFor(x) /\ f.key[1] = x
      BY <2>1, <2>4
    <3>2. \A x \in F \cap EpisodeSignals : \E f \in G : f.key = keyFor(x) /\ f.key[1] = x
      <4> TAKE x \in F \cap EpisodeSignals
      <4>1. [key |-> keyFor(x), status |-> "pending"] \in G BY <2>4
      <4> QED BY <2>1, <4>1
    <3> QED BY <3>1, <3>2
  <2>6. @ = {<<<<x, next.episode[x], 0>>, Crossing(sample)[x]>> : x \in F \cap EpisodeSignals}
    BY <2>2
  <2> QED BY <2>5, <2>6 DEF NewOrigins, F, next, G
<1> QED BY <1>2, <1>3, <1>5, <1>6, <1>8, <1>9, <1>10, <1>11, <1>12, <1>13 DEF snapshot, next

\* What one episode signal is like after an evaluation, when the stored snapshot was
\* in step.
LEMMA SignalEvaluated ==
  ASSUME EpisodeIInv, ~undone,
         NEW sample \in {Seen(s, followed) : s \in Samples}, PollEvaluate(sample),
         NEW x \in EpisodeSignals
  PROVE  LET snapshot == poll.record.snapshot
             id == NextSnapshot(snapshot, sample, Fresh).episode[x]
             new == <<<<x, id, 0>>, Crossing(sample)[x]>>
         IN  /\ id <= minted'[x]
             /\ Breached(sample)[x] <=> id # NoEpisode
             /\ Breached(sample)[x] => new \in origin'
             /\ sample[x] # NoSample => (Breached(sample)[x] <=> InBreach(x, sample[x]))
             /\ x \in FiringSignals(snapshot, sample) =>
                  \/ new \in origin /\ id # NoEpisode
                  \/ /\ id = minted[x] + 1 /\ id = minted'[x]
                     /\ Crossing(sample)[x] = crossings[x] + 1
<1> DEFINE snapshot == poll.record.snapshot
           next == NextSnapshot(snapshot, sample, Fresh)
           before == snapshot.sample[x]
           old == snapshot.episode[x]
           id == next.episode[x]
           new == <<<<x, id, 0>>, Crossing(sample)[x]>>
           fires == EpisodeFires(x, before, sample[x], old)
<1>1. /\ Together /\ EpisodeTypeOK /\ poll.record = stored
      /\ InStep(snapshot, breach, crossings, minted, origin)
  BY Evaluates DEF EpisodeIInv, Together
<1>2. /\ sample \in Sightings /\ snapshot \in Snapshot
      /\ minted[x] \in Nat /\ minted'[x] \in Nat /\ minted[x] <= minted'[x]
      /\ id = minted[x] + 1 => minted'[x] = minted[x] + 1
      /\ origin' = origin \cup NewOrigins(snapshot, sample)
  <2>1. minted[x] \in Nat BY <1>1 DEF EpisodeTypeOK
  <2> HIDE DEF next
  <2>2. /\ sample \in Sightings /\ snapshot \in Snapshot /\ minted' \in [EpisodeSignals -> Nat]
        /\ minted[x] <= minted'[x]
        /\ id = minted[x] + 1 => minted'[x] = minted[x] + 1
        /\ origin' = origin \cup NewOrigins(snapshot, sample)
    BY Evaluates DEF next
  <2> QED BY <2>1, <2>2
<1>3. id = EpisodeAfter(x, before, sample[x], old, minted[x] + 1)
  <2>1. Fresh \in [EpisodeSignals -> Nat] /\ Fresh[x] = minted[x] + 1
    BY <1>1 DEF EpisodeTypeOK, Fresh
  <2> QED BY <1>2, <2>1, NextSnapshotType
<1>4. /\ old \in Nat /\ old <= minted[x] /\ crossings[x] \in Nat
      /\ breach[x] <=> old # NoEpisode
      /\ breach[x] => <<<<x, old, 0>>, crossings[x]>> \in origin
      /\ before # NoSample => (breach[x] <=> InBreach(x, before))
  BY <1>1, <1>2 DEF InStep, Snapshot, EpisodeTypeOK
<1>5. /\ Breached(sample)[x] = IF sample[x] = NoSample THEN breach[x] ELSE InBreach(x, sample[x])
      /\ Crossing(sample)[x] = crossings[x] + (IF x \in Begins(sample) THEN 1 ELSE 0)
      /\ x \in Begins(sample) <=> InBreach(x, sample[x]) /\ ~breach[x]
  BY DEF Breached, Crossing, Begins
<1>6. x \in FiringSignals(snapshot, sample) <=> fires
  <2>1. x \in Signals /\ x \notin Markets BY SignalsAssumption DEF Signals, EpisodeSignals
  <2> QED BY <2>1 DEF FiringSignals, Fires
<1>7. x \in FiringSignals(snapshot, sample) => new \in origin' BY <1>2 DEF NewOrigins
<1>8. /\ fires => InBreach(x, sample[x])
      /\ InBreach(x, sample[x]) /\ ~fires => InBreach(x, before)
  BY DEF EpisodeFires
<1> HIDE DEF snapshot, before, old, fires, id, next
<1>9. CASE sample[x] = NoSample
  <2>1. ~InBreach(x, sample[x]) BY <1>9, BreachIsSampled
  <2>2. id = old /\ Crossing(sample)[x] = crossings[x] /\ ~fires
    BY <1>3, <1>4, <1>5, <1>8, <1>9, <2>1, EpisodeMoves
  <2>3. Breached(sample)[x] <=> breach[x] BY <1>5, <1>9
  <2> QED BY <1>2, <1>4, <1>6, <1>9, <2>2, <2>3 DEF id, next, snapshot
<1>10. CASE sample[x] # NoSample /\ ~InBreach(x, sample[x])
  <2>1. id = NoEpisode /\ ~fires BY <1>3, <1>8, <1>10, EpisodeMoves
  <2>2. ~Breached(sample)[x] BY <1>5, <1>10
  <2> QED BY <1>2, <1>6, <1>10, <2>1, <2>2 DEF id, next, snapshot, NoEpisode
<1>11. CASE InBreach(x, sample[x]) /\ old = NoEpisode
  <2>1. ~breach[x] BY <1>4, <1>11
  <2>2. ~InBreach(x, before) BY <1>4, <2>1, BreachIsSampled
  <2>3. fires /\ id = minted[x] + 1 BY <1>3, <1>8, <1>11, <2>2, EpisodeMoves DEF fires
  <2>4. Crossing(sample)[x] = crossings[x] + 1 BY <1>5, <1>11, <2>1
  <2>5. sample[x] # NoSample /\ Breached(sample)[x] BY <1>5, <1>11, BreachIsSampled
  <2>6. id # NoEpisode BY <1>2, <2>3 DEF NoEpisode
  <2> QED BY <1>2, <1>6, <1>7, <1>11, <2>3, <2>4, <2>5, <2>6 DEF id, next, snapshot
<1>12. CASE InBreach(x, sample[x]) /\ old # NoEpisode
  <2>1. breach[x] BY <1>4, <1>12
  <2>2. id = old BY <1>3, <1>12, EpisodeMoves
  <2>3. Crossing(sample)[x] = crossings[x] BY <1>4, <1>5, <2>1
  <2>4. sample[x] # NoSample /\ Breached(sample)[x] BY <1>5, <1>12, BreachIsSampled
  <2>5. new \in origin BY <1>4, <2>1, <2>2, <2>3
  <2> QED BY <1>2, <1>4, <1>12, <2>2, <2>4, <2>5 DEF id, next, snapshot
<1> QED BY <1>9, <1>10, <1>11, <1>12

LEMMA PollEvaluateKeeps ==
  ASSUME EpisodeIInv, NEW sample \in {Seen(s, followed) : s \in Samples}, PollEvaluate(sample)
  PROVE  EpisodeIInv'
<1> DEFINE snapshot == poll.record.snapshot
           next == NextSnapshot(snapshot, sample, Fresh)
           new(x) == <<<<x, next.episode[x], 0>>, Crossing(sample)[x]>>
           fired == FiringSignals(snapshot, sample) \cap EpisodeSignals
<1>1. /\ EpisodeTypeOK
      /\ UNCHANGED <<followed, stored, write, writes, crashes, breach, crossings, posted,
                     accepted, redelivered, undone>>
  BY DEF EpisodeIInv, PollEvaluate
<1>2. /\ snapshot \in Snapshot /\ next \in Snapshot /\ next.sample = sample
      /\ poll.phase = "sampling" /\ poll'.phase = "posting"
      /\ poll'.record = [poll.record EXCEPT !.snapshot = next]
      /\ poll'.record \in WatchRecord /\ poll'.due \in Seq(Firing)
      /\ minted' \in [EpisodeSignals -> Nat]
      /\ \A x \in EpisodeSignals : minted[x] <= minted'[x]
  BY Evaluates
<1>3. origin' = origin \cup {new(x) : x \in fired} BY Evaluates DEF NewOrigins
<1>4. \A x \in FiringSignals(snapshot, sample) \cap Markets :
        \E n \in DOMAIN poll'.due : poll'.due[n].key = <<x, snapshot.sample[x], sample[x]>>
  BY Evaluates
<1> HIDE DEF snapshot, next, fired
<1>5. Crossing(sample) \in [EpisodeSignals -> Nat]
  BY <1>1 DEF EpisodeTypeOK, Crossing
<1>6. EpisodeTypeOK'
  <2>1. poll' = [phase |-> "posting", record |-> poll'.record, due |-> poll'.due]
    BY DEF PollEvaluate
  <2>2. poll' \in [phase : {"idle", "sampling", "posting"}, record : WatchRecord,
                   due : Seq(Firing)]
    BY <1>2, <2>1
  <2>3. \A x \in fired : new(x) \in Keys \X Nat
    <3> TAKE x \in fired
    <3>1. x \in EpisodeSignals BY DEF fired
    <3>2. next.episode[x] \in Nat BY <1>2, <3>1 DEF Snapshot
    <3>3. <<x, next.episode[x], 0>> \in Keys BY <3>1, <3>2 DEF Keys
    <3> QED BY <1>5, <3>1, <3>3
  <2>4. origin' \subseteq Keys \X Nat
    <3> HIDE DEF new
    <3> QED BY <1>1, <1>3, <2>3 DEF EpisodeTypeOK
  <2> QED BY <1>1, <1>2, <2>2, <2>4 DEF EpisodeTypeOK
<1>7. poll'.record.firings = poll.record.firings /\ poll'.record.snapshot = next
  BY <1>1, <1>2 DEF EpisodeTypeOK, WatchRecord
<1>8. /\ Truthful(stored.firings, accepted)' /\ Truthful(poll.record.firings, accepted)'
      /\ Truthful(write.record.firings, accepted)'
  BY <1>1, <1>7 DEF EpisodeIInv
<1>9. ASSUME ~undone' PROVE Together'
  <2>1. ~undone /\ Together /\ poll.record = stored BY <1>1, <1>2, <1>9 DEF EpisodeIInv, Together
  <2>2. /\ Posting' /\ ~Posting /\ Sampled' = sample
        /\ Crossing(Sampled)' = Crossing(sample) /\ Breached(Sampled)' = Breached(sample)
    BY <1>1, <1>2, <1>7 DEF Posting, Sampled, Crossing, Begins, Breached
  <2>3. \A x \in EpisodeSignals :
          /\ next.episode[x] <= minted'[x]
          /\ Breached(sample)[x] <=> next.episode[x] # NoEpisode
          /\ Breached(sample)[x] => new(x) \in origin'
          /\ sample[x] # NoSample => (Breached(sample)[x] <=> InBreach(x, sample[x]))
    BY <2>1, SignalEvaluated DEF snapshot, next
  <2>4. \A x \in fired :
          \/ new(x) \in origin /\ next.episode[x] # NoEpisode
          \/ /\ next.episode[x] = minted[x] + 1 /\ next.episode[x] = minted'[x]
             /\ Crossing(sample)[x] = crossings[x] + 1
    BY <2>1, SignalEvaluated DEF snapshot, next, fired
  <2>5. InStep(poll.record.snapshot, Breached(Sampled), Crossing(Sampled), minted, origin)'
    BY <1>2, <1>7, <2>2, <2>3 DEF InStep
  <2>6. InStep(stored.snapshot, breach, crossings, minted, origin)'
    <3>1. \A x \in EpisodeSignals : stored.snapshot.episode[x] \in Nat /\ minted[x] \in Nat
                                    /\ minted'[x] \in Nat
      BY <1>1, <1>2 DEF EpisodeTypeOK, WatchRecord, Snapshot
    <3> HIDE DEF new
    <3> QED BY <1>1, <1>2, <1>3, <2>1, <3>1 DEF Together, InStep
  <2>7. DropsDue(stored.snapshot.sample, Sampled, poll.due, posted)'
    <3>1. \A x \in Markets : DropFires(x, snapshot.sample[x], sample[x])
                               => x \in FiringSignals(snapshot, sample)
      BY DEF FiringSignals, Fires, Signals
    <3> QED BY <1>1, <1>4, <2>1, <2>2, <3>1 DEF DropsDue, snapshot
  <2>8. \A p \in origin : /\ p[1][1] \in EpisodeSignals /\ p[1][2] \in 1..minted[p[1][1]]
                          /\ p[1] = <<p[1][1], p[1][2], 0>>
    BY <2>1 DEF Together, OriginsKnown
  <2>9. \A x \in fired : /\ new(x)[1] = <<x, next.episode[x], 0>> /\ new(x)[2] = Crossing(sample)[x]
                         /\ new(x)[1][1] = x /\ new(x)[1][2] = next.episode[x]
                         /\ x \in EpisodeSignals
    BY DEF fired
  <2>10. \A x \in EpisodeSignals : /\ minted[x] \in Nat /\ minted'[x] \in Nat
                                   /\ minted[x] <= minted'[x]
                                   /\ crossings[x] \in Nat /\ next.episode[x] \in Nat
                                   /\ Crossing(sample)[x] \in Nat
                                   /\ crossings[x] <= Crossing(sample)[x]
    BY <1>1, <1>2 DEF EpisodeTypeOK, Snapshot, Crossing
  <2>11. \A p \in origin : p[2] \in Nat BY <1>1 DEF EpisodeTypeOK
  <2> HIDE DEF new
  <2>12. OriginsKnown'
    <3> SUFFICES ASSUME NEW p \in origin'
                 PROVE  \E x \in EpisodeSignals : \E n \in 1..minted'[x] : p[1] = <<x, n, 0>>
      BY DEF OriginsKnown
    <3>1. CASE p \in origin
      <4>1. p[1][2] \in 1..minted'[p[1][1]] BY <2>8, <2>10, <3>1
      <4> QED BY <2>8, <3>1, <4>1
    <3>2. ASSUME NEW x \in fired, p = new(x)
          PROVE  \E y \in EpisodeSignals : \E n \in 1..minted'[y] : p[1] = <<y, n, 0>>
      <4>1. next.episode[x] \in 1..minted'[x]
        <5>1. CASE next.episode[x] # NoEpisode BY <2>3, <2>9, <2>10, <5>1 DEF NoEpisode
        <5>2. CASE next.episode[x] = minted[x] + 1 BY <2>3, <2>9, <2>10, <5>2
        <5> QED BY <2>4, <5>1, <5>2
      <4> QED BY <2>9, <3>2, <4>1
    <3> QED BY <1>3, <3>1, <3>2
  <2>13. ASSUME NEW x \in fired
         PROVE  \/ new(x) \in origin
                \/ \A p \in origin :
                     /\ p[1] # new(x)[1]
                     /\ crashes = 0 /\ p[1][1] = x => p[2] # new(x)[2]
    <3>1. CASE new(x) \in origin BY <3>1
    <3>2. CASE next.episode[x] = minted[x] + 1 /\ Crossing(sample)[x] = crossings[x] + 1
      <4> SUFFICES ASSUME NEW p \in origin
                   PROVE  p[1] # new(x)[1] /\ (crashes = 0 /\ p[1][1] = x => p[2] # new(x)[2])
        OBVIOUS
      <4>1. p[1] # new(x)[1]
        <5>1. ASSUME p[1] = new(x)[1] PROVE p[1][1] = x /\ p[1][2] = minted[x] + 1
          BY <2>9, <3>2, <5>1
        <5> QED BY <2>8, <2>9, <2>10, <5>1
      <4>2. ASSUME crashes = 0, p[1][1] = x PROVE p[2] # new(x)[2]
        <5>1. p[2] <= crossings[x] BY <2>1, <2>2, <4>2 DEF Together, Numbered
        <5> QED BY <2>9, <2>10, <2>11, <3>2, <5>1
      <4> QED BY <4>1, <4>2
    <3> QED BY <2>4, <3>1, <3>2
  <2>14. \A p, q \in origin : p[1] = q[1] => p[2] = q[2] BY <2>1 DEF Together
  <2>15. crashes = 0 => \A p, q \in origin : (p[1][1] = q[1][1] /\ p[2] = q[2]) => p[1] = q[1]
    BY <2>1 DEF Together
  <2>16. \A x \in fired : \A q \in origin' :
           /\ q[1] = new(x)[1] => q[2] = new(x)[2]
           /\ crashes = 0 /\ q[1][1] = x /\ q[2] = new(x)[2] => q[1] = new(x)[1]
    <3> SUFFICES ASSUME NEW x \in fired, NEW q \in origin'
                 PROVE  /\ q[1] = new(x)[1] => q[2] = new(x)[2]
                        /\ crashes = 0 /\ q[1][1] = x /\ q[2] = new(x)[2] => q[1] = new(x)[1]
      OBVIOUS
    <3>1. CASE q \in origin BY <2>9, <2>13, <2>14, <2>15, <3>1
    <3>2. ASSUME NEW y \in fired, q = new(y) PROVE q[1][1] = y
      BY <2>9, <3>2
    <3>3. \A y \in fired : q = new(y) /\ q[1] = new(x)[1] => y = x BY <2>9, <3>2
    <3> QED BY <1>3, <2>9, <3>1, <3>2, <3>3
  <2>17. \A p, q \in origin' : p[1] = q[1] => p[2] = q[2]
    BY <1>3, <2>14, <2>16
  <2>18. crashes' = 0 =>
           \A p, q \in origin' : (p[1][1] = q[1][1] /\ p[2] = q[2]) => p[1] = q[1]
    BY <1>1, <1>3, <2>9, <2>15, <2>16
  <2>19. crashes' = 0 => Numbered'
    <3> SUFFICES ASSUME crashes = 0, NEW p \in origin' PROVE p[2] <= Crossing(sample)[p[1][1]]
      BY <1>1, <2>2 DEF Numbered
    <3>1. CASE p \in origin
      <4>1. p[2] <= crossings[p[1][1]] BY <2>1, <2>2, <3>1 DEF Together, Numbered
      <4> QED BY <2>8, <2>10, <2>11, <3>1, <4>1
    <3>2. ASSUME NEW x \in fired, p = new(x) PROVE p[2] <= Crossing(sample)[p[1][1]]
      BY <2>9, <2>10, <3>2
    <3> QED BY <1>3, <3>1, <3>2
  <2> QED BY <1>2, <2>2, <2>5, <2>6, <2>7, <2>12, <2>17, <2>18, <2>19 DEF Together
<1> QED BY <1>6, <1>8, <1>9 DEF EpisodeIInv

LEMMA PollPostKeeps ==
  ASSUME EpisodeIInv, NEW status \in Statuses, PollPost(status)
  PROVE  EpisodeIInv'
<1> DEFINE sent == Head(poll.due).key
           f == [key |-> sent, status |-> status]
           firings == WithFiring(poll.record.firings, f)
<1>1. /\ EpisodeTypeOK /\ poll.phase = "posting" /\ poll.due # <<>> /\ poll.due \in Seq(Firing)
      /\ poll.record \in WatchRecord /\ poll.record.firings \in Seq(Firing)
  BY DEF EpisodeIInv, PollPost, EpisodeTypeOK, WatchRecord
<1>2. /\ poll' = [poll EXCEPT !.due = Tail(@),
                             !.record.firings = WithFiring(@, [key |-> sent, status |-> status])]
      /\ posted' = posted \cup {sent}
      /\ accepted' = IF status = "delivered" THEN accepted \cup {sent} ELSE accepted
      /\ redelivered' = IF status = "delivered" /\ sent \in accepted
                        THEN redelivered \cup {sent} ELSE redelivered
      /\ UNCHANGED <<followed, stored, write, minted, writes, crashes, breach, crossings, origin,
                     undone>>
  BY DEF PollPost
<1>3. Len(poll.due) \in Nat \ {0} /\ Head(poll.due) \in Firing /\ Head(poll.due) = poll.due[1]
  BY <1>1
<1>4. sent \in Keys /\ f \in Firing BY <1>3 DEF Firing
<1> HIDE DEF sent
<1>5. /\ poll'.phase = "posting" /\ poll'.due = Tail(poll.due)
      /\ poll'.record.snapshot = poll.record.snapshot /\ poll'.record.firings = firings
      /\ poll' \in [phase : {"idle", "sampling", "posting"}, record : WatchRecord,
                    due : Seq(Firing)]
  <2>1. firings \in Seq(Firing) BY <1>1, <1>4, WithFiringIs
  <2> HIDE DEF firings
  <2>2. Tail(poll.due) \in Seq(Firing) BY <1>1
  <2>3. poll' = [phase |-> "posting", due |-> Tail(poll.due),
                 record |-> [snapshot |-> poll.record.snapshot, firings |-> firings]]
    BY <1>1, <1>2 DEF EpisodeTypeOK, WatchRecord, firings
  <2> QED BY <1>1, <2>1, <2>2, <2>3 DEF WatchRecord
<1>6. accepted \subseteq accepted' /\ (status = "delivered" => sent \in accepted') BY <1>2
<1>7. EpisodeTypeOK' BY <1>1, <1>2, <1>4, <1>5 DEF EpisodeTypeOK
<1>8. Truthful(firings, accepted')
  <2>1. Members(firings) \subseteq Members(poll.record.firings) \cup {f}
    BY <1>1, <1>4, WithFiringIs
  <2>4. OneEach(firings) BY <1>1, <1>4, WithFiringIs, TruthOfMembers DEF EpisodeIInv
  <2>2. f.status = "delivered" => f.key \in accepted' BY <1>6
  <2>3. \A g \in Members(poll.record.firings) : g.status = "delivered" => g.key \in accepted'
    BY <1>6, TruthOfMembers DEF EpisodeIInv
  <2> HIDE DEF firings, f
  <2> QED BY <2>1, <2>2, <2>3, <2>4, TruthOfMembers
<1>9. /\ Truthful(stored.firings, accepted)' /\ Truthful(poll.record.firings, accepted)'
      /\ Truthful(write.record.firings, accepted)'
  BY <1>2, <1>5, <1>6, <1>8 DEF EpisodeIInv, Truthful
<1>10. ASSUME ~undone' PROVE Together'
  <2>1. Together BY <1>2, <1>10 DEF EpisodeIInv
  <2>2. Posting /\ Posting' /\ Sampled' = Sampled BY <1>1, <1>5 DEF Posting, Sampled
  <2>3. Breached(Sampled)' = Breached(Sampled) /\ Crossing(Sampled)' = Crossing(Sampled)
    BY <1>2, <2>2 DEF Breached, Crossing, Begins
  <2>4. DropsDue(stored.snapshot.sample, Sampled, poll.due, posted)'
    <3>1. DropsDue(stored.snapshot.sample, Sampled, poll.due, posted)
      BY <2>1, <2>2 DEF Together
    <3>2. ASSUME NEW n \in DOMAIN poll.due
          PROVE  poll.due[n].key = sent \/ \E m \in DOMAIN poll'.due : poll'.due[m] = poll.due[n]
      <4>1. CASE n = 1 BY <1>3, <4>1 DEF sent
      <4>2. CASE n # 1
        <5>1. n - 1 \in DOMAIN Tail(poll.due) /\ Tail(poll.due)[n - 1] = poll.due[n]
          BY <1>1, <1>3, <4>2
        <5> QED BY <1>5, <5>1
      <4> QED BY <4>1, <4>2
    <3> QED BY <1>2, <2>2, <3>1, <3>2 DEF DropsDue
  <2>5. Numbered' <=> Numbered BY <1>2, <2>2, <2>3 DEF Numbered
  <2> QED BY <1>1, <1>2, <1>5, <2>1, <2>2, <2>3, <2>4, <2>5 DEF Together, OriginsKnown
<1> QED BY <1>7, <1>9, <1>10 DEF EpisodeIInv

LEMMA PollSaveKeeps ==
  ASSUME EpisodeIInv, PollSave
  PROVE  EpisodeIInv'
<1>1. /\ EpisodeTypeOK /\ Posting /\ poll.due = <<>>
      /\ stored' = poll.record /\ poll' = IdlePoll
      /\ breach' = Breached(Sampled) /\ crossings' = Crossing(Sampled)
      /\ UNCHANGED <<followed, write, minted, writes, crashes, origin, posted, accepted,
                     redelivered, undone>>
  BY DEF EpisodeIInv, PollSave, Posting, Sampled
<1>2. poll'.phase = "idle" /\ poll'.record = EmptyRecord /\ poll'.due = <<>> BY <1>1 DEF IdlePoll
<1>3. EpisodeTypeOK'
  <2>1. <<>> \in Seq(Firing) /\ IdlePoll \in [phase : {"idle", "sampling", "posting"},
                                               record : WatchRecord, due : Seq(Firing)]
    BY EmptyIsRecord DEF IdlePoll
  <2>2. Crossing(Sampled) \in [EpisodeSignals -> Nat] BY <1>1 DEF EpisodeTypeOK, Crossing
  <2>3. Breached(Sampled) \in [EpisodeSignals -> BOOLEAN]
    BY <1>1, InBreachIsBoolean DEF EpisodeTypeOK, Breached
  <2> QED BY <1>1, <2>1, <2>2, <2>3 DEF EpisodeTypeOK
<1>4. /\ Truthful(stored.firings, accepted)' /\ Truthful(poll.record.firings, accepted)'
      /\ Truthful(write.record.firings, accepted)'
  BY <1>1, <1>2, EmptyIsRecord, TruthOfMembers DEF EpisodeIInv
<1>5. ASSUME ~undone' PROVE Together'
  <2>1. Together BY <1>1, <1>5 DEF EpisodeIInv
  <2>2. InStep(stored.snapshot, breach, crossings, minted, origin)'
    BY <1>1, <2>1 DEF Together
  <2>3. ~Posting' /\ poll'.phase # "sampling" BY <1>2 DEF Posting
  <2>4. crashes = 0 => Numbered' BY <1>1, <2>1, <2>3 DEF Together, Numbered
  <2> QED BY <1>1, <2>1, <2>2, <2>3, <2>4 DEF Together, OriginsKnown
<1> QED BY <1>3, <1>4, <1>5 DEF EpisodeIInv

LEMMA EpisodeStepKeeps == EpisodeIInv /\ [EpisodeNext]_episodeVars => EpisodeIInv'
<1> SUFFICES ASSUME EpisodeIInv, [EpisodeNext]_episodeVars PROVE EpisodeIInv' OBVIOUS
<1>1. CASE PollStep
  BY <1>1, PollListKeeps, PollEvaluateKeeps, PollPostKeeps, PollSaveKeeps DEF PollStep
<1>2. CASE Crash \/ WriteLoad \/ WritePersist
  BY <1>2, CrashKeeps, WriteKeepsEpisodes
<1>3. CASE UNCHANGED episodeVars
  <2>1. UNCHANGED <<followed, stored, poll, write, minted, writes, crashes, breach, crossings,
                    origin, posted, accepted, redelivered, undone>>
    BY <1>3 DEF episodeVars
  <2>2. Posting' = Posting /\ Sampled' = Sampled BY <2>1 DEF Posting, Sampled
  <2>3. Breached(Sampled)' = Breached(Sampled) /\ Crossing(Sampled)' = Crossing(Sampled)
    BY <2>1, <2>2 DEF Breached, Crossing, Begins
  <2>4. Numbered' = Numbered BY <2>1, <2>2, <2>3 DEF Numbered
  <2>5. ~undone => Together'
    BY <2>1, <2>2, <2>3, <2>4 DEF EpisodeIInv, Together, OriginsKnown
  <2>6. EpisodeTypeOK' BY <2>1 DEF EpisodeIInv, EpisodeTypeOK
  <2> QED BY <2>1, <2>5, <2>6 DEF EpisodeIInv
<1> QED BY <1>1, <1>2, <1>3 DEF EpisodeNext

LEMMA EpisodeInvariant == EpisodeSpec => []EpisodeIInv
<1> QED BY EpisodeInitHolds, EpisodeStepKeeps, PTL DEF EpisodeSpec

(***************************************************************************)
(* The theorems about episodes.                                            *)
(***************************************************************************)
\* Every reachable state is well typed: keys name an episode or two samples the
\* sources gave, and what was answered 2xx had been posted.
THEOREM EpisodesTyped == EpisodeSpec => []EpisodeTypeOK
<1>1. EpisodeIInv => EpisodeTypeOK BY DEF EpisodeIInv
<1> QED BY <1>1, EpisodeInvariant, PTL

\* The firings of one breach carry one key, for any signals, thresholds and samples,
\* unless a poll was cut short or a refresh or rotation put back an older record.
THEOREM BreachHasOneKey == EpisodeSpec => []OneKeyPerCrossing
<1>1. EpisodeIInv => OneKeyPerCrossing BY DEF EpisodeIInv, Together, OneKeyPerCrossing
<1> QED BY <1>1, EpisodeInvariant, PTL

\* Two breaches with a recovery seen between them never share a key.
THEOREM RecoveryEndsKey == EpisodeSpec => []NewKeyAfterRecovery
<1>1. EpisodeIInv => NewKeyAfterRecovery BY DEF EpisodeIInv, Together, NewKeyAfterRecovery
<1> QED BY <1>1, EpisodeInvariant, PTL

\* A breach that a poll saw and saved has fired, crashes or not.
THEOREM BreachesFire == EpisodeSpec => []EveryCrossingFires
<1>1. EpisodeIInv => EveryCrossingFires
  <2> SUFFICES ASSUME EpisodeIInv, ~undone, NEW x \in EpisodeSignals, breach[x]
               PROVE  \E p \in origin : p[1][1] = x /\ p[2] = crossings[x]
    BY DEF EveryCrossingFires
  <2>1. <<<<x, stored.snapshot.episode[x], 0>>, crossings[x]>> \in origin
    BY DEF EpisodeIInv, Together, InStep
  <2> QED BY <2>1
<1> QED BY <1>1, EpisodeInvariant, PTL

\* A receipt that says delivered is right, and lists a firing once, whatever else wrote
\* the record.
THEOREM ReceiptsAreTrue == EpisodeSpec => []ReceiptTellsTheTruth
<1>1. EpisodeIInv => ReceiptTellsTheTruth
  BY DEF EpisodeIInv, Truthful, OneEach, ReceiptTellsTheTruth
<1> QED BY <1>1, EpisodeInvariant, PTL

\* A drop of at least the threshold between two samples saved one after the other has
\* been posted when the later one is saved.
THEOREM DropsArePosted == EpisodeSpec => EveryDropIsPosted
<1> DEFINE Posted ==
      ~undone' => \A x \in Markets :
        LET before == stored.snapshot.sample[x]
            after == stored'.snapshot.sample[x]
        IN  (before # NoSample /\ after # NoSample /\ before - after >= Threshold[x])
              => <<x, before, after>> \in posted
<1>1. EpisodeIInv /\ [EpisodeNext]_episodeVars => [Posted]_episodeVars
  <2> SUFFICES ASSUME EpisodeIInv, EpisodeNext, ~undone', NEW x \in Markets,
                      stored.snapshot.sample[x] # NoSample,
                      stored'.snapshot.sample[x] # NoSample,
                      stored.snapshot.sample[x] - stored'.snapshot.sample[x] >= Threshold[x]
               PROVE  <<x, stored.snapshot.sample[x], stored'.snapshot.sample[x]>> \in posted
    OBVIOUS
  <2>1. CASE PollSave
    <3>1. ~undone /\ Posting /\ poll.due = <<>> /\ stored' = poll.record
      BY <2>1 DEF PollSave, Posting
    <3>2. DropsDue(stored.snapshot.sample, Sampled, poll.due, posted)
      BY <3>1 DEF EpisodeIInv, Together
    <3> QED BY <3>1, <3>2 DEF DropsDue, DropFires, Sampled
  <2>2. stored' # stored
    <3>1. stored.snapshot.sample \in Sightings BY DEF EpisodeIInv, EpisodeTypeOK, WatchRecord, Snapshot
    <3>2. \A s \in Sightings : s[x] = NoSample \/ s[x] \in Int
      BY EpisodesAssumption, EmptyIsRecord DEF Sightings, Seen, Signals
    <3>3. Threshold[x] \in Nat \ {0} BY SignalsAssumption
    <3> QED BY <3>1, <3>2, <3>3
  <2>3. stored' = stored \/ PollSave
    BY DEF EpisodeNext, PollStep, PollList, PollEvaluate, PollPost, Crash, WriteLoad, WritePersist
  <2> QED BY <2>1, <2>2, <2>3
<1> QED BY <1>1, EpisodeInvariant, PTL DEF EpisodeSpec, EveryDropIsPosted
==============================================================================
