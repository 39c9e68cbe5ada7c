-------------------------- MODULE SessionStoreProofs --------------------------
(***************************************************************************)
(* Theorems about SessionStore, for any number of sessions and instances,  *)
(* any budget and any time to live.                                        *)
(***************************************************************************)
EXTENDS SessionStore, TLAPS

\* Rounding a span up to whole Redis seconds never shortens it.
LEMMA CeilCovers ==
  ASSUME NEW span \in Int
  PROVE  /\ CeilSeconds(span) \in Int /\ CeilSeconds(span) >= span
         /\ span \in Nat => CeilSeconds(span) \in Nat
<1> DEFINE T == TicksPerSecond
           q == (span + T - 1) \div T
           r == (span + T - 1) % T
<1>1. T \in Nat \ {0} BY TicksAssumption
<1>2. span + T - 1 \in Int BY <1>1
<1>3. q \in Int /\ r \in 0..(T - 1) /\ span + T - 1 = T * q + r
  BY <1>1, <1>2
<1> HIDE DEF q, r
<1>4. T * q \in Int /\ T * q >= span
  BY <1>1, <1>3
<1>5. QED BY <1>4 DEF CeilSeconds, q

(***************************************************************************)
(* The inductive invariant.                                                *)
(***************************************************************************)
\* A call under way names a minted session and read a clock that has passed.
CallsInTime ==
  \A i \in Instances :
    call[i].phase # "idle" => /\ call[i].session \in minted
                              /\ call[i].nowMs <= now

\* Creates name ids nobody has been told of, and no two the same; every other
\* call names an id a receipt told.
CreatesArePrivate ==
  \A i \in Instances :
    call[i].phase # "idle" =>
      IF call[i].op = "create"
      THEN /\ call[i].session \notin known
           /\ \A j \in Instances \ {i} :
                (call[j].phase # "idle" /\ call[j].op = "create")
                  => call[j].session # call[i].session
      ELSE call[i].session \in known

\* A key outlives the expiry of its record, which is that of the last grant;
\* a key that is gone was promised no longer than until now.
TtlCoversPromise ==
  \A s \in Sessions :
    /\ Present(s) => promised[s] = db[s].expiresAt /\ db[s].expiresAt <= db[s].evictAt
    /\ ~Present(s) => promised[s] <= now

IInv ==
  /\ TypeOK
  /\ CallsInTime
  /\ CreatesArePrivate
  /\ TtlCoversPromise

USE DEF Buckets, Ops, Replies

(***************************************************************************)
(* Lemmas on the operators.                                                *)
(***************************************************************************)
LEMMA TtlTicksNat == TtlTicks \in Nat
<1>1. TtlSeconds \in Nat /\ TicksPerSecond \in Nat
  BY SessionAssumption, TicksAssumption
<1>2. QED BY <1>1 DEF TtlTicks

\* Both grants write a record that is one.
LEMMA FreshRecordType ==
  ASSUME TypeOK, NEW t \in Nat
  PROVE  FreshRecord(t) \in Record
<1>1. Budget \in [Buckets -> Nat] BY SessionAssumption
<1>2. QED BY <1>1, TtlTicksNat DEF FreshRecord, Record, TypeOK

\* What CONSUME_LUA writes is a record with the same expiry, and its EX covers it.
LEMMA ChargedType ==
  ASSUME TypeOK, NEW s \in Sessions, NEW b \in Buckets, NEW t \in Nat, t <= now,
         Live(s, t), db[s].remaining[b] > 0
  PROVE  /\ Charged(s, b, t) \in Record
         /\ Charged(s, b, t).expiresAt = db[s].expiresAt
         /\ Charged(s, b, t).evictAt >= db[s].expiresAt
<1> DEFINE span == db[s].expiresAt - t
<1>1. db[s] \in Record BY DEF Live, Present, TypeOK
<1>2. span \in Nat BY <1>1 DEF Live, Record
<1>3. CeilSeconds(span) \in Nat /\ CeilSeconds(span) >= span
  BY <1>2, CeilCovers
<1> DEFINE e == CeilSeconds(span)
<1>4. now + e \in Nat /\ now + e >= db[s].expiresAt
  BY <1>1, <1>3 DEF TypeOK, Record
<1> HIDE DEF e
<1>5. Charged(s, b, t) = [db[s] EXCEPT !.remaining[b] = @ - 1, !.evictAt = now + e]
  BY DEF Charged, e
<1>6. [db[s].remaining EXCEPT ![b] = @ - 1] \in [Buckets -> Nat]
  BY <1>1 DEF Record
<1>7. QED BY <1>1, <1>4, <1>5, <1>6 DEF Record

(***************************************************************************)
(* The invariant holds initially and every action preserves it.            *)
(***************************************************************************)
LEMMA InitIInv == Init => IInv
<1> SUFFICES ASSUME Init PROVE IInv OBVIOUS
<1>1. TypeOK
  BY SessionAssumption DEF Init, TypeOK, Ledger, IdleCall, Call
<1>2. CallsInTime /\ CreatesArePrivate
  BY DEF Init, CallsInTime, CreatesArePrivate, IdleCall
<1>3. \A s \in Sessions : ~Present(s) /\ promised[s] <= now
  <2> TAKE s \in Sessions
  <2>1. now = 0 /\ promised[s] = 0 BY DEF Init
  <2>2. ~Present(s) BY DEF Init, Present
  <2>3. QED BY <2>1, <2>2
<1>4. TtlCoversPromise BY <1>3 DEF TtlCoversPromise
<1>5. QED BY <1>1, <1>2, <1>4 DEF IInv

\* What a call about to run knows of itself.
LEMMA ArrivesFacts ==
  ASSUME IInv, NEW i \in Instances, call[i].phase # "idle"
  PROVE  /\ call[i] \in Call
         /\ call[i].session \in Sessions
         /\ call[i].session \in minted
         /\ call[i].nowMs \in Nat
         /\ call[i].nowMs <= now
  BY DEF IInv, TypeOK, CallsInTime, Call

\* A reply changes nothing the call invariants look at.
LEMMA RepliedKeeps ==
  ASSUME IInv, NEW i \in Instances, NEW reply \in Replies, NEW units \in Nat,
         call[i].phase = "queued", Replied(i, reply, units),
         UNCHANGED <<now, minted, known>>
  PROVE  call' \in [Instances -> Call] /\ CallsInTime' /\ CreatesArePrivate'
<1>1. call[i] \in Call /\ call \in [Instances -> Call] BY DEF IInv, TypeOK
<1> DEFINE u == call[i].units + units
           c == [call[i] EXCEPT !.phase = "replied", !.reply = reply, !.units = u]
<1>a. u \in Nat BY <1>1 DEF Call
<1>b. call' = [call EXCEPT ![i] = c] BY <1>1 DEF Replied, Call
<1> HIDE DEF u
<1>c. c \in Call BY <1>1, <1>a DEF Call
<1>2. call' \in [Instances -> Call] BY <1>1, <1>b, <1>c
<1>3. \A j \in Instances : /\ call'[j].op = call[j].op
                           /\ call'[j].session = call[j].session
                           /\ call'[j].nowMs = call[j].nowMs
                           /\ call'[j].phase # "idle" => call[j].phase # "idle"
  BY <1>1 DEF Replied, Call
<1>4. CallsInTime' BY <1>3 DEF IInv, CallsInTime
<1>5. CreatesArePrivate' BY <1>3 DEF IInv, CreatesArePrivate
<1>6. QED BY <1>2, <1>4, <1>5

\* A grant keeps the types and the promise it makes.
LEMMA GrantKeeps ==
  ASSUME IInv, NEW s \in Sessions, NEW t \in Nat, t <= now, Granted(s, t), now' = now
  PROVE  /\ db' \in [Sessions -> Record \cup {NoRecord}]
         /\ granted' \in Ledger /\ spent' \in Ledger
         /\ promised' \in [Sessions -> Nat]
         /\ TtlCoversPromise'
<1>1. TypeOK BY DEF IInv
<1>2. FreshRecord(t) \in Record BY <1>1, FreshRecordType
<1>3. t + TtlTicks \in Nat BY TtlTicksNat
<1>4. db' = [db EXCEPT ![s] = FreshRecord(t)] BY DEF Granted, Write
<1>5. db' \in [Sessions -> Record \cup {NoRecord}] BY <1>1, <1>2, <1>4 DEF TypeOK
<1>6. granted' \in Ledger
  BY <1>1, SessionAssumption DEF Granted, TypeOK, Ledger
<1>7. spent' \in Ledger /\ promised' \in [Sessions -> Nat]
  BY <1>1, <1>3 DEF Granted, TypeOK
<1>8. TtlCoversPromise'
  <2>1. FreshRecord(t).expiresAt = t + TtlTicks /\ FreshRecord(t).evictAt = now + TtlTicks
    BY DEF FreshRecord
  <2>2. FreshRecord(t).expiresAt <= FreshRecord(t).evictAt
    BY <1>1, <2>1, TtlTicksNat DEF TypeOK
  <2>3. db'[s] = FreshRecord(t) /\ promised'[s] = FreshRecord(t).expiresAt /\ db'[s] # NoRecord
    BY <1>1, <1>2, <1>4, <2>1, SessionAssumption DEF TypeOK, Granted
  <2>4. \A r \in Sessions \ {s} : db'[r] = db[r] /\ promised'[r] = promised[r]
    BY <1>1, <1>4 DEF TypeOK, Granted
  <2>5. QED BY <2>2, <2>3, <2>4 DEF IInv, TtlCoversPromise, Present
<1>9. QED BY <1>5, <1>6, <1>7, <1>8

\* Deleting a record that expired by an earlier clock reading breaks no promise.
LEMMA DeleteKeeps ==
  ASSUME IInv, NEW s \in Sessions, NEW t \in Nat, t <= now, Expired(s, t),
         Write(s, NoRecord), UNCHANGED <<now, promised>>
  PROVE  db' \in [Sessions -> Record \cup {NoRecord}] /\ TtlCoversPromise'
<1>1. TypeOK BY DEF IInv
<1>2. db' \in [Sessions -> Record \cup {NoRecord}] BY <1>1 DEF TypeOK, Write
<1>3. promised[s] <= now
  <2>1. db[s] \in Record BY <1>1 DEF TypeOK, Expired, Present
  <2>2. promised[s] = db[s].expiresAt BY DEF IInv, TtlCoversPromise, Expired
  <2>3. QED BY <1>1, <2>1, <2>2 DEF Expired, Record, TypeOK
<1>4. db'[s] = NoRecord /\ \A r \in Sessions \ {s} : db'[r] = db[r]
  BY <1>1 DEF TypeOK, Write
<1>5. TtlCoversPromise' BY <1>3, <1>4 DEF IInv, TtlCoversPromise, Present
<1>6. QED BY <1>2, <1>5

\* Making a call on behalf of a client.
LEMMA IssueKeeps ==
  ASSUME IInv, NEW i \in Instances, NEW op \in Ops, NEW s \in Sessions, NEW b \in Buckets,
         Issue(i, op, s, b),
         \/ op # "create" /\ s \in known /\ UNCHANGED minted
         \/ op = "create" /\ s \notin minted /\ minted' = minted \cup {s}
  PROVE  IInv'
<1>1. TypeOK BY DEF IInv
<1> DEFINE c == [op |-> op, session |-> s, bucket |-> b, nowMs |-> now,
                 phase |-> "queued", reply |-> "ok", units |-> 0]
<1>2. c \in Call BY <1>1 DEF Call, TypeOK
<1>3. call' = [call EXCEPT ![i] = c] BY DEF Issue
<1>4. TypeOK'
  BY <1>1, <1>2, <1>3 DEF TypeOK, Issue, history
<1>5. call'[i] = c /\ \A j \in Instances \ {i} : call'[j] = call[j]
  BY <1>1, <1>3 DEF TypeOK
<1>6. CallsInTime'
  <2>1. s \in minted' /\ minted \subseteq minted' BY <1>1 DEF TypeOK
  <2>2. QED BY <1>1, <1>5, <2>1 DEF IInv, CallsInTime, Issue, TypeOK
<1>7. CreatesArePrivate'
  <2>1. known' = known BY DEF Issue
  <2>2. CASE op # "create"
    BY <1>5, <2>1, <2>2 DEF IInv, CreatesArePrivate
  <2>3. CASE op = "create"
    <3>1. s \notin minted BY <2>3
    <3>2. s \notin known BY <1>1, <3>1 DEF TypeOK
    <3>3. \A j \in Instances : call[j].phase # "idle" => call[j].session # s
      BY <3>1 DEF IInv, CallsInTime
    <3>4. QED BY <1>5, <2>1, <2>3, <3>2, <3>3 DEF IInv, CreatesArePrivate
  <2>4. QED BY <2>2, <2>3
<1>8. TtlCoversPromise'
  BY DEF IInv, TtlCoversPromise, Present, Issue, history
<1>9. QED BY <1>4, <1>6, <1>7, <1>8 DEF IInv

\* A script that runs and leaves the database alone.
LEMMA ReadKeeps ==
  ASSUME IInv, NEW i \in Instances, NEW reply \in Replies,
         call[i].phase = "queued", Replied(i, reply, 0),
         UNCHANGED <<now, link, minted, known, calls, drops, db, history>>
  PROVE  IInv'
<1>1. call' \in [Instances -> Call] /\ CallsInTime' /\ CreatesArePrivate'
  BY RepliedKeeps
<1>2. TypeOK' BY <1>1 DEF IInv, TypeOK, history
<1>3. TtlCoversPromise' BY DEF IInv, TtlCoversPromise, Present, history
<1>4. QED BY <1>1, <1>2, <1>3 DEF IInv

\* A script that ends in a grant.
LEMMA GrantStepKeeps ==
  ASSUME IInv, NEW i \in Instances, call[i].phase = "queued",
         Granted(call[i].session, call[i].nowMs), Replied(i, "ok", 0),
         UNCHANGED <<now, link, minted, known, calls, drops>>
  PROVE  IInv'
<1>1. call' \in [Instances -> Call] /\ CallsInTime' /\ CreatesArePrivate'
  BY RepliedKeeps
<1>2. call[i].session \in Sessions /\ call[i].nowMs \in Nat /\ call[i].nowMs <= now
  BY ArrivesFacts
<1>3. /\ db' \in [Sessions -> Record \cup {NoRecord}]
      /\ granted' \in Ledger /\ spent' \in Ledger
      /\ promised' \in [Sessions -> Nat]
      /\ TtlCoversPromise'
  BY <1>2, GrantKeeps
<1>4. TypeOK' BY <1>1, <1>3 DEF IInv, TypeOK
<1>5. QED BY <1>1, <1>3, <1>4 DEF IInv

\* A script that finds the record expired and deletes it.
LEMMA DeleteStepKeeps ==
  ASSUME IInv, NEW i \in Instances, call[i].phase = "queued",
         Expired(call[i].session, call[i].nowMs), Write(call[i].session, NoRecord),
         Replied(i, "expired", 0),
         UNCHANGED <<now, link, minted, known, calls, drops, history>>
  PROVE  IInv'
<1>1. call' \in [Instances -> Call] /\ CallsInTime' /\ CreatesArePrivate'
  BY RepliedKeeps
<1>2. call[i].session \in Sessions /\ call[i].nowMs \in Nat /\ call[i].nowMs <= now
  BY ArrivesFacts
<1>3. db' \in [Sessions -> Record \cup {NoRecord}] /\ TtlCoversPromise'
  BY <1>2, DeleteKeeps DEF history
<1>4. TypeOK' BY <1>1, <1>3 DEF IInv, TypeOK, history
<1>5. QED BY <1>1, <1>3, <1>4 DEF IInv

\* A consume that takes its unit.
LEMMA ChargeStepKeeps ==
  ASSUME IInv, NEW i \in Instances, call[i].phase = "queued",
         NEW s \in Sessions, NEW b \in Buckets, NEW t \in Nat, t <= now,
         Live(s, t), db[s].remaining[b] > 0, Write(s, Charged(s, b, t)),
         spent' = [spent EXCEPT ![s][b] = @ + 1],
         Replied(i, "ok", 1),
         UNCHANGED <<now, link, minted, known, calls, drops, granted, promised>>
  PROVE  IInv'
<1>1. call' \in [Instances -> Call] /\ CallsInTime' /\ CreatesArePrivate'
  BY RepliedKeeps
<1>2. TypeOK BY DEF IInv
<1>3. /\ Charged(s, b, t) \in Record
      /\ Charged(s, b, t).expiresAt = db[s].expiresAt
      /\ Charged(s, b, t).evictAt >= db[s].expiresAt
  BY <1>2, ChargedType
<1>4. db' = [db EXCEPT ![s] = Charged(s, b, t)] BY DEF Write
<1>5. db' \in [Sessions -> Record \cup {NoRecord}] BY <1>2, <1>3, <1>4 DEF TypeOK
<1>6. spent' \in Ledger BY <1>2 DEF TypeOK, Ledger
<1>7. TypeOK' BY <1>1, <1>2, <1>5, <1>6 DEF TypeOK
<1>8. TtlCoversPromise'
  <2>1. db'[s] = Charged(s, b, t) /\ \A r \in Sessions \ {s} : db'[r] = db[r]
    BY <1>2, <1>4 DEF TypeOK
  <2>2. Present(s) /\ promised[s] = db[s].expiresAt
    BY DEF IInv, TtlCoversPromise, Live
  <2>3. db'[s] # NoRecord BY <1>3, <2>1, SessionAssumption
  <2>4. QED BY <1>3, <2>1, <2>2, <2>3 DEF IInv, TtlCoversPromise, Present
<1>9. QED BY <1>1, <1>7, <1>8 DEF IInv

\* Redis evicting the keys whose deadline a tick reaches.
LEMMA TickKeeps ==
  ASSUME IInv, Tick
  PROVE  IInv'
<1>1. TypeOK BY DEF IInv
<1>2. now' = now + 1 /\ now \in Nat BY <1>1 DEF Tick, TypeOK
<1>3. db' = [s \in Sessions |-> IF Present(s) /\ db[s].evictAt <= now + 1
                                THEN NoRecord ELSE db[s]]
  BY <1>1 DEF Tick, Unevicted, TypeOK, Present
<1>4. TypeOK' BY <1>1, <1>2, <1>3 DEF TypeOK, Tick, history
<1>5. CallsInTime'
  <2> SUFFICES ASSUME NEW i \in Instances, call[i].phase # "idle"
               PROVE  call[i].session \in minted /\ call[i].nowMs <= now'
    BY DEF CallsInTime, Tick
  <2>1. call[i].nowMs \in Nat /\ call[i].nowMs <= now /\ call[i].session \in minted
    BY ArrivesFacts
  <2>2. QED BY <1>2, <2>1
<1>6. CreatesArePrivate' BY DEF IInv, CreatesArePrivate, Tick
<1>7. TtlCoversPromise'
  <2> SUFFICES ASSUME NEW s \in Sessions
               PROVE  /\ db'[s] # NoRecord => /\ promised[s] = db'[s].expiresAt
                                              /\ db'[s].expiresAt <= db'[s].evictAt
                      /\ db'[s] = NoRecord => promised[s] <= now'
    BY DEF TtlCoversPromise, Present, Tick, history
  <2>1. promised[s] \in Nat BY <1>1 DEF TypeOK
  <2>2. CASE ~Present(s)
    <3>1. db'[s] = NoRecord BY <1>3, <2>2 DEF Present
    <3>2. promised[s] <= now BY <2>2 DEF IInv, TtlCoversPromise
    <3>3. QED BY <1>2, <2>1, <3>1, <3>2
  <2>3. CASE Present(s)
    <3>1. db[s] \in Record BY <1>1, <2>3 DEF TypeOK, Present
    <3>2. promised[s] = db[s].expiresAt /\ db[s].expiresAt <= db[s].evictAt
      BY <2>3 DEF IInv, TtlCoversPromise
    <3>3. CASE db[s].evictAt <= now + 1
      <4>1. db'[s] = NoRecord BY <1>3, <2>3, <3>3
      <4>2. promised[s] <= now + 1 BY <1>2, <3>1, <3>2, <3>3 DEF Record
      <4>3. QED BY <1>2, <4>1, <4>2
    <3>4. CASE ~(db[s].evictAt <= now + 1)
      <4>1. db'[s] = db[s] BY <1>3, <3>4
      <4>2. QED BY <2>3, <3>2, <4>1 DEF Present
    <3>5. QED BY <3>3, <3>4
  <2>4. QED BY <2>2, <2>3
<1>8. QED BY <1>4, <1>5, <1>6, <1>7 DEF IInv

\* A refresh that turns into a create of a fresh id.
LEMMA RefreshMintsKeeps ==
  ASSUME IInv, NEW i \in Instances, RefreshMints(i)
  PROVE  IInv'
<1>1. TypeOK BY DEF IInv
<1>2. PICK s \in Sessions \ minted :
        /\ minted' = minted \cup {s}
        /\ call' = [call EXCEPT ![i].op = "create", ![i].session = s,
                                ![i].phase = "queued", ![i].reply = "ok"]
  BY DEF RefreshMints
<1> DEFINE c == [call[i] EXCEPT !.op = "create", !.session = s,
                               !.phase = "queued", !.reply = "ok"]
<1>3. call[i] \in Call BY <1>1 DEF TypeOK
<1>4. c \in Call BY <1>3 DEF Call
<1>5. call' = [call EXCEPT ![i] = c] BY <1>1, <1>2 DEF TypeOK, Call
<1>6. /\ c.op = "create" /\ c.session = s /\ c.nowMs = call[i].nowMs
      BY <1>3 DEF Call
<1>7. call'[i] = c /\ \A j \in Instances \ {i} : call'[j] = call[j]
  BY <1>1, <1>5 DEF TypeOK
<1>8. UNCHANGED <<now, db, link, calls, drops, known, granted, spent, promised>>
  BY DEF RefreshMints, Answered, history
<1>9. call[i].phase # "idle" /\ call[i].nowMs <= now
  BY DEF RefreshMints, Answered, IInv, CallsInTime
<1> HIDE DEF c
<1>10. TypeOK'
  <2>1. call' \in [Instances -> Call] BY <1>1, <1>4, <1>5 DEF TypeOK
  <2>2. minted' \subseteq Sessions /\ known \subseteq minted'
    BY <1>1, <1>2 DEF TypeOK
  <2>3. QED BY <1>1, <1>8, <2>1, <2>2 DEF TypeOK
<1>11. CallsInTime'
  <2>1. \A j \in Instances :
          call'[j].phase # "idle" => call'[j].session \in minted' /\ call'[j].nowMs <= now
    <3>1. minted' = minted \cup {s} BY <1>2
    <3>2. \A j \in Instances : call[j].phase # "idle" =>
            call[j].session \in minted /\ call[j].nowMs <= now
      BY DEF IInv, CallsInTime
    <3>3. QED BY <1>6, <1>7, <1>9, <3>1, <3>2
  <2>2. QED BY <1>8, <2>1 DEF CallsInTime
<1>12. CreatesArePrivate'
  <2>1. s \notin known BY <1>1 DEF TypeOK
  <2>2. \A j \in Instances : call[j].phase # "idle" => call[j].session # s
    BY DEF IInv, CallsInTime
  <2> SUFFICES ASSUME NEW k \in Instances, call'[k].phase # "idle"
               PROVE  IF call'[k].op = "create"
                      THEN /\ call'[k].session \notin known
                           /\ \A j \in Instances \ {k} :
                                (call'[j].phase # "idle" /\ call'[j].op = "create")
                                  => call'[j].session # call'[k].session
                      ELSE call'[k].session \in known
    BY <1>8 DEF CreatesArePrivate
  <2>3. CASE k = i BY <1>6, <1>7, <2>1, <2>2, <2>3
  <2>4. CASE k # i
    BY <1>6, <1>7, <2>2, <2>4 DEF IInv, CreatesArePrivate
  <2>5. QED BY <2>3, <2>4
<1>13. TtlCoversPromise' BY <1>8 DEF IInv, TtlCoversPromise, Present
<1>14. QED BY <1>10, <1>11, <1>12, <1>13 DEF IInv

\* The end of a call: a receipt makes its id known.
LEMMA AnswerKeeps ==
  ASSUME IInv, NEW i \in Instances, Answer(i)
  PROVE  IInv'
<1>1. TypeOK BY DEF IInv
<1>2. IdleCall \in Call /\ IdleCall.phase = "idle" BY DEF IdleCall, Call
<1>3. call' = [call EXCEPT ![i] = IdleCall] BY DEF Answer
<1>4. call'[i] = IdleCall /\ \A j \in Instances \ {i} : call'[j] = call[j]
  BY <1>1, <1>3 DEF TypeOK
<1>5. UNCHANGED <<now, db, link, calls, drops, minted, granted, spent, promised>>
  BY DEF Answer, Answered, history
<1>6. call[i].phase # "idle" BY DEF Answer, Answered
<1>7. call[i].session \in minted BY <1>6, ArrivesFacts
<1>8. TypeOK'
  <2>1. call' \in [Instances -> Call] BY <1>1, <1>2, <1>3 DEF TypeOK
  <2>2. known' \subseteq minted BY <1>1, <1>7 DEF Answer, TypeOK
  <2>3. QED BY <1>1, <1>5, <2>1, <2>2 DEF TypeOK
<1>9. CallsInTime' BY <1>2, <1>4, <1>5 DEF IInv, CallsInTime
<1>10. CreatesArePrivate'
  <2>1. CASE call[i].op = "create"
    <3>1. \A j \in Instances \ {i} :
            (call[j].phase # "idle" /\ call[j].op = "create")
              => call[j].session # call[i].session
      BY <1>6, <2>1 DEF IInv, CreatesArePrivate
    <3>2. known \subseteq known' /\ known' \subseteq known \cup {call[i].session}
      BY DEF Answer
    <3>3. QED BY <1>2, <1>4, <3>1, <3>2 DEF IInv, CreatesArePrivate
  <2>2. CASE call[i].op # "create"
    <3>1. known' = known BY <2>2 DEF Answer
    <3>2. QED BY <1>2, <1>4, <3>1 DEF IInv, CreatesArePrivate
  <2>3. QED BY <2>1, <2>2
<1>11. TtlCoversPromise' BY <1>5 DEF IInv, TtlCoversPromise, Present
<1>12. QED BY <1>8, <1>9, <1>10, <1>11 DEF IInv

\* A broken connection: what was replied and not received is queued again.
LEMMA DropKeeps ==
  ASSUME IInv, NEW i \in Instances, Drop(i)
  PROVE  IInv'
<1>1. TypeOK BY DEF IInv
<1> DEFINE ph == IF call[i].phase = "replied" THEN "queued" ELSE call[i].phase
           c == [call[i] EXCEPT !.phase = ph, !.reply = "ok"]
<1>2. call[i] \in Call BY <1>1 DEF TypeOK
<1>3. c \in Call BY <1>2 DEF Call
<1>4. call' = [call EXCEPT ![i] = c] BY <1>1 DEF Drop, TypeOK, Call
<1>5. \A j \in Instances : /\ call'[j].op = call[j].op
                           /\ call'[j].session = call[j].session
                           /\ call'[j].nowMs = call[j].nowMs
                           /\ call'[j].phase # "idle" => call[j].phase # "idle"
  BY <1>1, <1>2, <1>4 DEF TypeOK, Call
<1>6. UNCHANGED <<now, db, minted, known, calls, granted, spent, promised>>
  BY DEF Drop, history
<1>7. TypeOK'
  <2>1. call' \in [Instances -> Call] BY <1>1, <1>3, <1>4 DEF TypeOK
  <2>2. link' \in [Instances -> BOOLEAN] /\ drops' \in Nat
    BY <1>1 DEF Drop, TypeOK
  <2>3. QED BY <1>1, <1>6, <2>1, <2>2 DEF TypeOK
<1>8. CallsInTime' BY <1>5, <1>6 DEF IInv, CallsInTime
<1>9. CreatesArePrivate' BY <1>5, <1>6 DEF IInv, CreatesArePrivate
<1>10. TtlCoversPromise' BY <1>6 DEF IInv, TtlCoversPromise, Present
<1>11. QED BY <1>7, <1>8, <1>9, <1>10 DEF IInv

\* Every action preserves the invariant.
LEMMA NextIInv == IInv /\ [Next]_vars => IInv'
<1> SUFFICES ASSUME IInv, [Next]_vars PROVE IInv' OBVIOUS
<1>1. TypeOK BY DEF IInv
<1>2. ASSUME NEW i \in Instances, StartCreate(i) PROVE IInv'
  <2>1. PICK s \in Sessions \ minted :
          Issue(i, "create", s, "research") /\ minted' = minted \cup {s}
    BY <1>2 DEF StartCreate
  <2>2. QED BY <2>1, IssueKeeps
<1>3. ASSUME NEW i \in Instances, StartRefresh(i) \/ StartGet(i) \/ StartConsume(i)
      PROVE  IInv'
  <2>1. PICK op \in {"refresh", "get", "consume"}, s \in known, b \in Buckets :
          Issue(i, op, s, b) /\ UNCHANGED minted
    BY <1>3 DEF StartRefresh, StartGet, StartConsume
  <2>2. s \in Sessions BY <1>1 DEF TypeOK
  <2>3. QED BY <2>1, <2>2, IssueKeeps
<1>4. ASSUME NEW i \in Instances, RunCreate(i) PROVE IInv'
  BY <1>4, GrantStepKeeps DEF RunCreate, Arrives
<1>5. ASSUME NEW i \in Instances, RunGet(i) PROVE IInv'
  BY <1>5, ReadKeeps DEF RunGet, Arrives
<1>6. ASSUME NEW i \in Instances, RunRefresh(i) PROVE IInv'
  <2>1. CASE ~Present(call[i].session)
    <3>1. ~Live(call[i].session, call[i].nowMs) /\ ~Expired(call[i].session, call[i].nowMs)
      BY <2>1 DEF Live, Expired
    <3>2. QED BY <1>6, <3>1, ReadKeeps DEF RunRefresh, Arrives
  <2>2. CASE Present(call[i].session)
    BY <1>6, <2>2, DeleteStepKeeps, GrantStepKeeps DEF RunRefresh, Arrives
  <2>3. QED BY <2>1, <2>2
<1>7. ASSUME NEW i \in Instances, RunConsume(i) PROVE IInv'
  <2> DEFINE s == call[i].session
             b == call[i].bucket
             t == call[i].nowMs
  <2>1. call[i].phase = "queued" /\ UNCHANGED <<now, link, minted, known, calls, drops>>
    BY <1>7 DEF RunConsume, Arrives
  <2>2. s \in Sessions /\ b \in Buckets /\ t \in Nat /\ t <= now
    BY <2>1, ArrivesFacts DEF Call
  <2>3. CASE \E reply \in Replies : Replied(i, reply, 0) /\ UNCHANGED <<db, history>>
    BY <2>1, <2>3, ReadKeeps
  <2>4. CASE Expired(s, t) /\ Write(s, NoRecord) /\ Replied(i, "expired", 0)
             /\ UNCHANGED history
    BY <2>1, <2>4, DeleteStepKeeps
  <2>5. CASE /\ Live(s, t) /\ db[s].remaining[b] > 0 /\ Write(s, Charged(s, b, t))
             /\ spent' = [spent EXCEPT ![s][b] = @ + 1]
             /\ Replied(i, "ok", 1) /\ UNCHANGED <<granted, promised>>
    BY <2>1, <2>2, <2>5, ChargeStepKeeps
  <2>6. QED BY <1>7, <2>3, <2>4, <2>5 DEF RunConsume
<1>8. ASSUME NEW i \in Instances, ServerError(i) PROVE IInv'
  BY <1>8, ReadKeeps DEF ServerError
<1>9. ASSUME NEW i \in Instances, Reconnect(i) PROVE IInv'
  <2>1. TypeOK' BY <1>1, <1>9 DEF Reconnect, TypeOK, history
  <2>2. CallsInTime' /\ CreatesArePrivate' /\ TtlCoversPromise'
    BY <1>9 DEF Reconnect, IInv, CallsInTime, CreatesArePrivate, TtlCoversPromise,
                Present, history
  <2>3. QED BY <2>1, <2>2 DEF IInv
<1>10. CASE UNCHANGED vars
  <2>1. TypeOK' BY <1>1, <1>10 DEF vars, TypeOK
  <2>2. CallsInTime' /\ CreatesArePrivate' /\ TtlCoversPromise'
    BY <1>10 DEF vars, IInv, CallsInTime, CreatesArePrivate, TtlCoversPromise, Present
  <2>3. QED BY <2>1, <2>2 DEF IInv
<1>11. QED
  BY <1>2, <1>3, <1>4, <1>5, <1>6, <1>7, <1>8, <1>9, <1>10, TickKeeps,
     RefreshMintsKeeps, AnswerKeeps, DropKeeps DEF Next, Serve

(***************************************************************************)
(* Theorems.                                                               *)
(***************************************************************************)
LEMMA Invariance == Spec => []IInv
BY InitIInv, NextIInv, PTL DEF Spec

\* The store's variables keep their types: in particular no bucket of a stored
\* session ever goes below zero.
THEOREM TypeCorrect == Spec => []TypeOK
<1>1. IInv => TypeOK BY DEF IInv
<1>2. QED BY <1>1, Invariance, PTL

\* No session leaves Redis before the expiry its last grant put on the receipt.
THEOREM SessionsLastAsLongAsPaid == Spec => []PaidWindowHonoured
<1>1. IInv => PaidWindowHonoured
  <2> SUFFICES ASSUME IInv, NEW s \in Sessions, now < promised[s] PROVE Present(s)
    BY DEF PaidWindowHonoured
  <2>1. now \in Nat /\ promised[s] \in Nat BY DEF IInv, TypeOK
  <2>2. QED BY <2>1 DEF IInv, TtlCoversPromise
<1>2. QED BY <1>1, Invariance, PTL

\* An id a client holds and Redis has lost is never written again: a grant or a
\* charge of a known id requires its record, and a create names an unknown one.
THEOREM GoneStaysGone == Spec => NoResurrection
<1> DEFINE Step == \A s \in known : ~Present(s) => ~Present(s)'
<1>1. ASSUME IInv, [Next]_vars PROVE [Step]_vars
  <2> SUFFICES ASSUME Next, NEW s \in known, ~Present(s) PROVE ~Present(s)'
    BY <1>1
  <2>1. s \in Sessions /\ db \in [Sessions -> Record \cup {NoRecord}]
    BY <1>1 DEF IInv, TypeOK
  <2>2. CASE db' = db BY <2>2 DEF Present
  <2>3. CASE \E r \in Sessions \ {s}, rec \in Record \cup {NoRecord} : Write(r, rec)
    BY <2>1, <2>3 DEF Write, Present
  <2>4. ASSUME NEW i \in Instances, call[i].phase = "queued", call[i].session # s,
               NEW rec, Write(call[i].session, rec)
        PROVE  ~Present(s)'
    BY <2>1, <2>4 DEF Write, Present
  <2>5. ASSUME NEW i \in Instances, RunCreate(i) PROVE ~Present(s)'
    <3>1. call[i].session # s
      BY <1>1, <2>5 DEF RunCreate, Arrives, IInv, CreatesArePrivate
    <3>2. QED BY <2>4, <2>5, <3>1 DEF RunCreate, Arrives, Granted
  <2>6. ASSUME NEW i \in Instances, RunRefresh(i) PROVE ~Present(s)'
    <3>1. CASE call[i].session # s
      BY <2>2, <2>4, <2>6, <3>1 DEF RunRefresh, Arrives, Granted
    <3>2. CASE call[i].session = s
      BY <2>2, <2>6, <3>2 DEF RunRefresh, Live, Expired
    <3>3. QED BY <3>1, <3>2
  <2>7. ASSUME NEW i \in Instances, RunConsume(i) PROVE ~Present(s)'
    <3>1. CASE call[i].session # s
      BY <2>2, <2>4, <2>7, <3>1 DEF RunConsume, Arrives
    <3>2. CASE call[i].session = s
      BY <2>2, <2>7, <3>2 DEF RunConsume, Live, Expired
    <3>3. QED BY <3>1, <3>2
  <2>8. CASE Tick
    BY <2>1, <2>8 DEF Tick, Unevicted, Present
  <2>9. QED
    BY <2>2, <2>5, <2>6, <2>7, <2>8
    DEF Next, Serve, StartCreate, StartRefresh, StartGet, StartConsume, Issue, RunGet,
        RefreshMints, Answer, Answered, ServerError, Drop, Reconnect
<1>2. QED BY <1>1, Invariance, PTL DEF Spec, NoResurrection

(***************************************************************************)
(* The refinement of PrepaidCredit.                                        *)
(***************************************************************************)
LEMMA GrantRefines ==
  ASSUME IInv, NEW s \in Sessions, NEW t \in Nat, Granted(s, t)
  PROVE  Promise!Grant(s)
<1>1. TypeOK BY DEF IInv
<1>2. FreshRecord(t) \in Record /\ FreshRecord(t).remaining = Budget
  BY <1>1, FreshRecordType DEF FreshRecord
<1>3. db' = [db EXCEPT ![s] = FreshRecord(t)] BY DEF Granted, Write
<1>4. /\ db'[s] = FreshRecord(t) /\ db'[s] # NoRecord
      /\ \A r \in Sessions \ {s} : db'[r] = db[r]
  BY <1>1, <1>2, <1>3, SessionAssumption DEF TypeOK
<1>5. Credit' = [Credit EXCEPT ![s] = Budget]
  BY <1>2, <1>4 DEF Credit, Present
<1>6. QED BY <1>5 DEF Promise!Grant, Granted

LEMMA DeleteRefines ==
  ASSUME IInv, NEW s \in Sessions, Write(s, NoRecord), UNCHANGED <<granted, spent>>
  PROVE  Promise!Next
<1>1. db'[s] = NoRecord /\ \A r \in Sessions \ {s} : db'[r] = db[r]
  BY DEF IInv, TypeOK, Write
<1>2. Credit' = [r \in Sessions |-> IF r \in {s} THEN [b \in Buckets |-> 0] ELSE Credit[r]]
  BY <1>1 DEF Credit, Present
<1>3. Promise!Lapse({s}) BY <1>2 DEF Promise!Lapse
<1>4. QED BY <1>3 DEF Promise!Next

LEMMA ChargeRefines ==
  ASSUME IInv, NEW s \in Sessions, NEW b \in Buckets, NEW t \in Nat, t <= now,
         Live(s, t), db[s].remaining[b] > 0, Write(s, Charged(s, b, t)),
         spent' = [spent EXCEPT ![s][b] = @ + 1], UNCHANGED granted
  PROVE  Promise!Spend(s, b)
<1>1. TypeOK BY DEF IInv
<1>2. /\ Charged(s, b, t) \in Record
      /\ Charged(s, b, t).remaining = [db[s].remaining EXCEPT ![b] = @ - 1]
  <2>1. Charged(s, b, t) \in Record BY <1>1, ChargedType
  <2>2. db[s] \in Record BY <1>1 DEF TypeOK, Live, Present
  <2>3. QED BY <2>1, <2>2 DEF Charged, Record
<1>3. /\ db'[s] = Charged(s, b, t) /\ db'[s] # NoRecord
      /\ \A r \in Sessions \ {s} : db'[r] = db[r]
  BY <1>1, <1>2, SessionAssumption DEF TypeOK, Write
<1>4. Present(s) /\ Credit[s] = db[s].remaining BY DEF Live, Credit
<1>5. Credit' = [Credit EXCEPT ![s] = [db[s].remaining EXCEPT ![b] = @ - 1]]
  BY <1>2, <1>3 DEF Credit, Present
<1>6. Credit' = [Credit EXCEPT ![s][b] = @ - 1] BY <1>4, <1>5
<1>7. QED BY <1>4, <1>6 DEF Promise!Spend

LEMMA TickRefines ==
  ASSUME IInv, Tick
  PROVE  Promise!Next
<1> DEFINE S == {s \in Sessions : Present(s) /\ db[s].evictAt <= now + 1}
<1>1. db' = [s \in Sessions |-> IF s \in S THEN NoRecord ELSE db[s]]
  BY DEF Tick, Unevicted, IInv, TypeOK, Present
<1>2. Credit' = [s \in Sessions |-> IF s \in S THEN [b \in Buckets |-> 0] ELSE Credit[s]]
  <2> HIDE DEF S
  <2>1. \A s \in Sessions : db'[s] = IF s \in S THEN NoRecord ELSE db[s] BY <1>1
  <2>2. QED BY <2>1 DEF Credit, Present
<1>3. Promise!Lapse(S) BY <1>2 DEF Promise!Lapse, Tick, history
<1>4. QED BY <1>3 DEF Promise!Next

\* Each step of the store is a step of the promise, or none.
LEMMA StepRefines == IInv /\ [Next]_vars => [Promise!Next]_(Promise!vars)
<1> SUFFICES ASSUME IInv, [Next]_vars PROVE Promise!Next \/ UNCHANGED Promise!vars
  OBVIOUS
<1>1. CASE UNCHANGED <<db, granted, spent>>
  <2>1. Credit' = Credit BY <1>1 DEF Credit, Present
  <2>2. QED BY <1>1, <2>1 DEF Promise!vars
<1>2. ASSUME NEW i \in Instances, call[i].phase = "queued",
             Granted(call[i].session, call[i].nowMs)
      PROVE  Promise!Next
  <2>1. call[i].session \in Sessions /\ call[i].nowMs \in Nat BY <1>2, ArrivesFacts
  <2>2. Promise!Grant(call[i].session) BY <1>2, <2>1, GrantRefines
  <2>3. QED BY <2>1, <2>2 DEF Promise!Next
<1>3. ASSUME NEW i \in Instances, call[i].phase = "queued",
             Write(call[i].session, NoRecord), UNCHANGED history
      PROVE  Promise!Next
  <2>1. call[i].session \in Sessions BY <1>3, ArrivesFacts
  <2>2. QED BY <1>3, <2>1, DeleteRefines DEF history
<1>4. ASSUME NEW i \in Instances, RunRefresh(i)
      PROVE  Promise!Next \/ UNCHANGED Promise!vars
  BY <1>1, <1>2, <1>3, <1>4 DEF RunRefresh, Arrives, history
<1>5. ASSUME NEW i \in Instances, RunConsume(i)
      PROVE  Promise!Next \/ UNCHANGED Promise!vars
  <2> DEFINE s == call[i].session
             b == call[i].bucket
             t == call[i].nowMs
  <2>1. call[i].phase = "queued" BY <1>5 DEF RunConsume, Arrives
  <2>2. s \in Sessions /\ b \in Buckets /\ t \in Nat /\ t <= now
    BY <2>1, ArrivesFacts DEF Call
  <2>3. CASE UNCHANGED <<db, history>> BY <1>1, <2>3 DEF history
  <2>4. CASE Write(s, NoRecord) /\ UNCHANGED history BY <1>3, <2>1, <2>4
  <2>5. CASE /\ Live(s, t) /\ db[s].remaining[b] > 0 /\ Write(s, Charged(s, b, t))
             /\ spent' = [spent EXCEPT ![s][b] = @ + 1] /\ UNCHANGED granted
    <3>1. Promise!Spend(s, b) BY <2>2, <2>5, ChargeRefines
    <3>2. QED BY <2>2, <3>1 DEF Promise!Next
  <2>6. QED BY <1>5, <2>3, <2>4, <2>5 DEF RunConsume
<1>6. ASSUME NEW i \in Instances, RunCreate(i) PROVE Promise!Next
  BY <1>2, <1>6 DEF RunCreate, Arrives
<1>7. QED
  BY <1>1, <1>4, <1>5, <1>6, TickRefines
  DEF Next, Serve, StartCreate, StartRefresh, StartGet, StartConsume, Issue, RunGet,
      RefreshMints, Answer, Answered, ServerError, Drop, Reconnect, vars, history

\* The store implements PrepaidCredit.
THEOREM StoreKeepsPromise == Spec => KeepsPromise
<1>1. Init => Promise!Init
  <2> SUFFICES ASSUME Init PROVE Promise!Init OBVIOUS
  <2>1. Credit = [s \in Sessions |-> [b \in Buckets |-> 0]]
    <3>1. \A s \in Sessions : ~Present(s) BY DEF Init, Present
    <3>2. QED BY <3>1 DEF Credit
  <2>2. QED BY <2>1 DEF Init, Promise!Init
<1>2. QED BY <1>1, StepRefines, Invariance, PTL DEF Spec, KeepsPromise, Promise!Spec

\* No session is served more units than its grants gave it, and the units it
\* still holds are covered too.
THEOREM NeverOverspent == Spec => []NoOverspend
<1> DEFINE J == /\ Credit \in Ledger /\ granted \in Ledger /\ spent \in Ledger
                /\ NoOverspend
<1>1. Init => J
  <2> SUFFICES ASSUME Init PROVE J OBVIOUS
  <2>1. \A s \in Sessions : Credit[s] = [b \in Buckets |-> 0] BY DEF Init, Credit, Present
  <2>2. Credit = [s \in Sessions |-> [b \in Buckets |-> 0]]
    BY <2>1 DEF Init, Credit, Present
  <2>3. QED BY <2>2 DEF Init, Ledger, NoOverspend
<1>2. ASSUME J, IInv', [Promise!Next]_(Promise!vars) PROVE J'
  <2>1. Credit' \in Ledger /\ granted' \in Ledger /\ spent' \in Ledger
    <3>1. db' \in [Sessions -> Record \cup {NoRecord}] BY <1>2 DEF IInv, TypeOK
    <3>2. Credit' \in Ledger BY <3>1 DEF Credit, Present, Record, Ledger
    <3>3. QED BY <1>2, <3>2 DEF IInv, TypeOK
  <2>2. NoOverspend'
    <3> SUFFICES ASSUME NEW s \in Sessions, NEW b \in Buckets
                 PROVE  spent'[s][b] + Credit'[s][b] <= granted'[s][b]
      BY DEF NoOverspend
    <3> DEFINE c == Credit[s][b]
               g == granted[s][b]
               p == spent[s][b]
    <3>1. c \in Nat /\ g \in Nat /\ p \in Nat /\ p + c <= g
      BY <1>2 DEF NoOverspend, Ledger
    <3>2. Budget[b] \in Nat BY SessionAssumption
    <3>3. ASSUME NEW r \in Sessions, Promise!Grant(r)
          PROVE  spent'[s][b] + Credit'[s][b] <= granted'[s][b]
      <4>1. CASE r = s
        <5>1. Credit'[s][b] = Budget[b] /\ spent'[s][b] = p
          BY <1>2, <3>3, <4>1 DEF Promise!Grant, Ledger
        <5>2. granted'[s][b] = g + Budget[b]
          BY <1>2, <3>3, <4>1 DEF Promise!Grant, Ledger
        <5>3. QED BY <3>1, <3>2, <5>1, <5>2
      <4>2. CASE r # s
        <5>1. Credit'[s][b] = c /\ spent'[s][b] = p /\ granted'[s][b] = g
          BY <1>2, <3>3, <4>2 DEF Promise!Grant, Ledger
        <5>2. QED BY <3>1, <5>1
      <4>3. QED BY <4>1, <4>2
    <3>4. ASSUME NEW r \in Sessions, NEW d \in Buckets, Promise!Spend(r, d)
          PROVE  spent'[s][b] + Credit'[s][b] <= granted'[s][b]
      <4>1. granted'[s][b] = g BY <3>4 DEF Promise!Spend
      <4>2. CASE r = s /\ d = b
        <5>1. Credit'[s][b] = c - 1 /\ spent'[s][b] = p + 1
          BY <1>2, <3>4, <4>2 DEF Promise!Spend, Ledger
        <5>2. QED BY <3>1, <4>1, <5>1
      <4>3. CASE r # s \/ d # b
        <5>1. Credit'[s][b] = c /\ spent'[s][b] = p
          BY <1>2, <3>4, <4>3 DEF Promise!Spend, Ledger
        <5>2. QED BY <3>1, <4>1, <5>1
      <4>4. QED BY <4>2, <4>3
    <3>5. ASSUME NEW S \in SUBSET Sessions, Promise!Lapse(S)
          PROVE  spent'[s][b] + Credit'[s][b] <= granted'[s][b]
      <4>1. spent'[s][b] = p /\ granted'[s][b] = g BY <3>5 DEF Promise!Lapse
      <4>2. Credit'[s][b] = 0 \/ Credit'[s][b] = c BY <3>5 DEF Promise!Lapse
      <4>3. QED BY <3>1, <4>1, <4>2
    <3>6. CASE UNCHANGED Promise!vars BY <3>1, <3>6 DEF Promise!vars
    <3>7. QED BY <1>2, <3>3, <3>4, <3>5, <3>6 DEF Promise!Next
  <2>3. QED BY <2>1, <2>2
<1>3. J => NoOverspend OBVIOUS
<1> HIDE DEF J
<1>4. QED BY <1>1, <1>2, <1>3, StepRefines, Invariance, PTL DEF Spec

==============================================================================
