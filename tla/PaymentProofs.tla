----------------------------- MODULE PaymentProofs -----------------------------
(***************************************************************************)
(* Theorems about the way of a payment: the gateway that takes it          *)
(* (PaidGateway), the page that keeps the session it bought (WebSession)   *)
(* and the harvest of what has come in (FeeHarvest).                       *)
(***************************************************************************)
EXTENDS PaidGateway, WebSession, FeeHarvest, TLAPS

(***************************************************************************)
(* The gateway: its inductive invariant, for any requests and payments,    *)
(* with dry_run on or off.                                                 *)
(***************************************************************************)
\* What the gateway knows of a request in each phase.
PhaseKnown(r) ==
  /\ phase[r] = "new" => route[r] = "unknown"
  /\ phase[r] \in {"new", "verify", "app"} => app[r] = "untouched"
  /\ phase[r] \in {"verify", "settle"} => route[r] \in {"standard", "gated"}
  /\ /\ route[r] \in {"standard", "gated"}
     /\ phase[r] \in {"verify", "app", "settle"} \/ app[r] # "untouched" \/ answer[r] = "served"
     => payment[r] \in Payments
  /\ phase[r] = "settle" =>
       IF route[r] = "standard" THEN app[r] = "ok" /\ ~DryRun ELSE app[r] = "untouched"
  /\ phase[r] # "done" => answer[r] = "none"

\* A payment is settled for a request that carries it, once, and on a standard
\* route for one the app has served.
SettledForItsOwn ==
  \A p \in Payments, r \in Requests :
    settledBy[p] = r =>
      /\ payment[r] = p
      /\ phase[r] \in {"app", "done"}
      /\ route[r] = "standard" => phase[r] = "done" /\ app[r] = "ok"

IInv ==
  /\ TypeOK
  /\ \A r \in Requests : PhaseKnown(r)
  /\ SettledForItsOwn
  /\ ServedIsPaid
  /\ GatedWorkIsPaid

USE DEF Phases, Routes, AppStates, Answers

LEMMA InitIInv == Init => IInv
BY GatewayAssumption
   DEF Init, IInv, TypeOK, PhaseKnown, SettledForItsOwn, ServedIsPaid, GatedWorkIsPaid

\* A step of one request leaves what is known of the others.
Unmoved(q) ==
  /\ phase'[q] = phase[q] /\ route'[q] = route[q] /\ payment'[q] = payment[q]
  /\ app'[q] = app[q] /\ answer'[q] = answer[q]

StepOf(r) ==
  \/ PassThrough(r) \/ AskForPayment(r) \/ ReceivePayment(r)
  \/ VerifyRefused(r) \/ VerifyValid(r) \/ AppAnswers(r)
  \/ SettlementDone(r) \/ SettlementRefused(r)

LEMMA TypeKept ==
  ASSUME TypeOK, NEW r \in Requests, PhaseKnown(r), StepOf(r)
  PROVE  TypeOK' /\ \A q \in Requests \ {r} : Unmoved(q)
<1> USE DEF TypeOK, Unmoved
<1>1. CASE PassThrough(r) BY <1>1 DEF PassThrough, GoTo
<1>2. CASE AskForPayment(r)
  <2>1. PICK kind \in {"standard", "gated"} : route' = [route EXCEPT ![r] = kind]
    BY <1>2 DEF AskForPayment
  <2>2. PICK with \in {"payment required", "refused"} : Finish(r, with)
    BY <1>2 DEF AskForPayment
  <2> QED BY <1>2, <2>1, <2>2 DEF AskForPayment, Finish
<1>3. CASE ReceivePayment(r)
  <2>1. PICK p \in Payments : payment' = [payment EXCEPT ![r] = p]
    BY <1>3 DEF ReceivePayment
  <2>2. PICK kind \in {"standard", "gated"} : route' = [route EXCEPT ![r] = kind]
    BY <1>3 DEF ReceivePayment
  <2>3. phase' \in [Requests -> Phases] /\ answer' \in [Requests -> Answers]
        /\ \A q \in Requests \ {r} : phase'[q] = phase[q] /\ answer'[q] = answer[q]
    BY <1>3 DEF ReceivePayment, GoTo, Finish
  <2> QED BY <1>3, <2>1, <2>2, <2>3 DEF ReceivePayment
<1>4. CASE VerifyRefused(r) BY <1>4 DEF VerifyRefused, Finish
<1>5. CASE VerifyValid(r) BY <1>5 DEF VerifyValid, GoTo
<1>6. CASE AppAnswers(r) BY <1>6 DEF AppAnswers, AfterApp, GoTo, Finish
<1>7. CASE SettlementDone(r)
  <2>1. payment[r] \in Payments BY <1>7 DEF SettlementDone, PhaseKnown
  <2> QED BY <1>7, <2>1 DEF SettlementDone, AfterSettlement, GoTo, Finish
<1>8. CASE SettlementRefused(r)
  BY <1>8 DEF SettlementRefused, AfterSettlement, Finish
<1> QED BY <1>1, <1>2, <1>3, <1>4, <1>5, <1>6, <1>7, <1>8 DEF StepOf

\* What is known of the request that moved.
LEMMA MoverKnown ==
  ASSUME IInv, NEW r \in Requests, StepOf(r)
  PROVE  PhaseKnown(r)'
<1> USE GatewayAssumption DEF TypeOK, PhaseKnown
<1>0. TypeOK /\ PhaseKnown(r) BY DEF IInv
<1>1. CASE PassThrough(r) BY <1>0, <1>1 DEF PassThrough, GoTo
<1>2. CASE AskForPayment(r) BY <1>0, <1>2 DEF AskForPayment, Finish
<1>3. CASE ReceivePayment(r) BY <1>0, <1>3 DEF ReceivePayment, GoTo, Finish
<1>4. CASE VerifyRefused(r) BY <1>0, <1>4 DEF VerifyRefused, Finish
<1>5. CASE VerifyValid(r) BY <1>0, <1>5 DEF VerifyValid, GoTo
<1>6. CASE AppAnswers(r)
  <2>1. PICK status \in AppStates \ {"untouched"} :
          app' = [app EXCEPT ![r] = status] /\ AfterApp(r, status)
    BY <1>6 DEF AppAnswers
  <2>2. /\ phase[r] = "app" /\ app'[r] = status
        /\ payment' = payment /\ route' = route
    BY <1>0, <1>6, <2>1 DEF AppAnswers
  <2>3. CASE status = "ok" /\ route[r] = "standard" /\ ~DryRun
    BY <1>0, <2>1, <2>2, <2>3 DEF AfterApp, GoTo
  <2>4. CASE ~(status = "ok" /\ route[r] = "standard" /\ ~DryRun)
    BY <1>0, <2>1, <2>2, <2>4 DEF AfterApp, Finish
  <2> QED BY <2>3, <2>4
<1>7. CASE SettlementDone(r)
  BY <1>0, <1>7 DEF SettlementDone, AfterSettlement, GoTo, Finish
<1>8. CASE SettlementRefused(r)
  BY <1>0, <1>8 DEF SettlementRefused, AfterSettlement, Finish
<1> QED BY <1>1, <1>2, <1>3, <1>4, <1>5, <1>6, <1>7, <1>8 DEF StepOf

\* A payment is settled once, for the request at that step.
LEMMA SettledOnce ==
  ASSUME TypeOK, NEW r \in Requests, PhaseKnown(r), StepOf(r)
  PROVE  \A p \in Payments :
           \/ settledBy'[p] = settledBy[p]
           \/ /\ settledBy[p] = None /\ settledBy'[p] = r
              /\ SettlementDone(r) /\ p = payment[r]
<1>1. CASE SettlementDone(r)
  <2>1. payment[r] \in Payments BY <1>1 DEF SettlementDone, PhaseKnown
  <2>2. settledBy[payment[r]] = None
    BY <1>1, <2>1, GatewayAssumption DEF SettlementDone, Settled
  <2>3. settledBy' = [settledBy EXCEPT ![payment[r]] = r] BY <1>1 DEF SettlementDone
  <2> QED BY <1>1, <2>1, <2>2, <2>3 DEF TypeOK
<1>2. CASE ~SettlementDone(r)
  BY <1>2 DEF StepOf, PassThrough, AskForPayment, ReceivePayment, VerifyRefused,
              VerifyValid, AppAnswers, SettlementRefused
<1> QED BY <1>1, <1>2

\* The three safety conjuncts, for the request that moved.
LEMMA MoverPaid ==
  ASSUME IInv, NEW r \in Requests, StepOf(r), NEW p \in Payments
  PROVE  /\ settledBy'[p] = r =>
              /\ payment'[r] = p
              /\ phase'[r] \in {"app", "done"}
              /\ route'[r] = "standard" => phase'[r] = "done" /\ app'[r] = "ok"
         /\ answer'[r] = "served" /\ route'[r] \in {"standard", "gated"} =>
              (route'[r] = "standard" /\ DryRun) \/ settledBy'[payment'[r]] = r
         /\ route'[r] = "gated" /\ (phase'[r] = "app" \/ app'[r] # "untouched") =>
              settledBy'[payment'[r]] = r
<1> USE GatewayAssumption DEF TypeOK, PhaseKnown
<1>0. /\ TypeOK /\ PhaseKnown(r)
      /\ settledBy[p] = r =>
           /\ payment[r] = p /\ phase[r] \in {"app", "done"}
           /\ route[r] = "standard" => phase[r] = "done" /\ app[r] = "ok"
      /\ answer[r] = "served" /\ route[r] \in {"standard", "gated"} =>
           (route[r] = "standard" /\ DryRun) \/ settledBy[payment[r]] = r
      /\ route[r] = "gated" /\ (phase[r] = "app" \/ app[r] # "untouched") =>
           settledBy[payment[r]] = r
  BY DEF IInv, SettledForItsOwn, ServedIsPaid, GatedWorkIsPaid
<1>1. CASE PassThrough(r) BY <1>0, <1>1 DEF PassThrough, GoTo
<1>2. CASE AskForPayment(r) BY <1>0, <1>2 DEF AskForPayment, Finish
<1>3. CASE ReceivePayment(r) BY <1>0, <1>3 DEF ReceivePayment, GoTo, Finish
<1>4. CASE VerifyRefused(r) BY <1>0, <1>4 DEF VerifyRefused, Finish
<1>5. CASE VerifyValid(r) BY <1>0, <1>5 DEF VerifyValid, GoTo
<1>6. CASE AppAnswers(r) BY <1>0, <1>6 DEF AppAnswers, AfterApp, GoTo, Finish
<1>7. CASE SettlementDone(r)
  BY <1>0, <1>7 DEF SettlementDone, AfterSettlement, GoTo, Finish
<1>8. CASE SettlementRefused(r)
  BY <1>0, <1>8 DEF SettlementRefused, AfterSettlement, Finish
<1> QED BY <1>1, <1>2, <1>3, <1>4, <1>5, <1>6, <1>7, <1>8 DEF StepOf

LEMMA NextIInv ==
  ASSUME IInv, [Next]_vars
  PROVE  IInv'
<1>1. ASSUME NEW r \in Requests, StepOf(r) PROVE IInv'
  <2> USE GatewayAssumption
  <2>0. TypeOK /\ (\A q \in Requests : PhaseKnown(q)) BY DEF IInv
  <2>1. TypeOK' /\ \A q \in Requests \ {r} : Unmoved(q) BY <1>1, <2>0, TypeKept
  <2>2. \A q \in Requests : PhaseKnown(q)'
    BY <1>1, <2>0, <2>1, MoverKnown DEF PhaseKnown, Unmoved
  <2>3. \A p \in Payments :
          settledBy'[p] = settledBy[p] \/ (settledBy[p] = None /\ settledBy'[p] = r)
    BY <1>1, <2>0, SettledOnce
  <2>4. SettledForItsOwn'
    <3>1. ASSUME NEW p \in Payments, NEW q \in Requests, settledBy'[p] = q
          PROVE  /\ payment'[q] = p
                 /\ phase'[q] \in {"app", "done"}
                 /\ route'[q] = "standard" => phase'[q] = "done" /\ app'[q] = "ok"
      <4>1. CASE q = r BY <1>1, <3>1, <4>1, MoverPaid
      <4>2. CASE q # r
        BY <2>1, <2>3, <3>1, <4>2 DEF IInv, SettledForItsOwn, Unmoved
      <4> QED BY <4>1, <4>2
    <3> QED BY <3>1 DEF SettledForItsOwn
  <2>5. ASSUME NEW q \in Requests, q # r, settledBy[payment[q]] = q,
               payment[q] \in Payments
        PROVE  settledBy'[payment'[q]] = q
    BY <2>1, <2>3, <2>5 DEF Unmoved
  <2>6. ServedIsPaid'
    <3>1. ASSUME NEW q \in Requests, answer'[q] = "served",
                 route'[q] \in {"standard", "gated"}
          PROVE  (route'[q] = "standard" /\ DryRun) \/ settledBy'[payment'[q]] = q
      <4>1. CASE q = r BY <1>1, <2>1, <2>2, <3>1, <4>1, MoverPaid DEF PhaseKnown
      <4>2. CASE q # r
        <5>1. (route[q] = "standard" /\ DryRun) \/ settledBy[payment[q]] = q
          BY <2>1, <3>1, <4>2 DEF IInv, ServedIsPaid, Unmoved
        <5>2. payment[q] \in Payments BY <2>0, <2>1, <3>1, <4>2 DEF PhaseKnown, Unmoved
        <5> QED BY <2>1, <2>5, <4>2, <5>1, <5>2 DEF Unmoved
      <4> QED BY <4>1, <4>2
    <3> QED BY <3>1 DEF ServedIsPaid
  <2>7. GatedWorkIsPaid'
    <3>1. ASSUME NEW q \in Requests, route'[q] = "gated",
                 phase'[q] = "app" \/ app'[q] # "untouched"
          PROVE  settledBy'[payment'[q]] = q
      <4>1. CASE q = r BY <1>1, <2>1, <2>2, <3>1, <4>1, MoverPaid DEF PhaseKnown
      <4>2. CASE q # r
        <5>1. settledBy[payment[q]] = q
          BY <2>1, <3>1, <4>2 DEF IInv, GatedWorkIsPaid, Unmoved
        <5>2. payment[q] \in Payments BY <2>0, <2>1, <3>1, <4>2 DEF PhaseKnown, Unmoved
        <5> QED BY <2>5, <4>2, <5>1, <5>2
      <4> QED BY <4>1, <4>2
    <3> QED BY <3>1 DEF GatedWorkIsPaid
  <2> QED BY <2>1, <2>2, <2>4, <2>6, <2>7 DEF IInv
<1>2. CASE UNCHANGED vars
  <2>1. TypeOK' BY <1>2 DEF vars, IInv, TypeOK
  <2>2. \A r \in Requests : PhaseKnown(r)' BY <1>2 DEF vars, IInv, PhaseKnown
  <2>3. SettledForItsOwn' BY <1>2 DEF vars, IInv, SettledForItsOwn
  <2>4. ServedIsPaid' /\ GatedWorkIsPaid'
    BY <1>2 DEF vars, IInv, ServedIsPaid, GatedWorkIsPaid
  <2> QED BY <2>1, <2>2, <2>3, <2>4 DEF IInv
<1> QED BY <1>1, <1>2 DEF Next, StepOf

LEMMA Invariance == Spec => []IInv
BY InitIInv, NextIInv, PTL DEF Spec

(***************************************************************************)
(* The theorems.                                                           *)
(***************************************************************************)
\* Type correctness.
THEOREM TypeCorrect == Spec => []TypeOK
BY Invariance, PTL DEF IInv

\* Whatever requests share a payment, one at most is served for it.
THEOREM ServesOnlyWhatIsPaid == Spec => []ServedIsPaid
BY Invariance, PTL DEF IInv

\* On a gated route nothing reaches the app before its payment is settled.
THEOREM GatesOnSettlement == Spec => []GatedWorkIsPaid
BY Invariance, PTL DEF IInv

\* On a standard route what the app failed is not charged for.
THEOREM ChargesNoError == Spec => []ErrorsAreFree
<1>1. ASSUME IInv, NEW r \in Requests, app[r] \in {"error", "unreachable"},
             route[r] = "standard", Settled(r)
      PROVE  settledBy[payment[r]] # r
  <2>1. payment[r] \in Payments BY <1>1 DEF IInv, TypeOK, Settled
  <2> QED BY <1>1, <2>1 DEF IInv, SettledForItsOwn
<1>2. IInv => ErrorsAreFree BY <1>1 DEF ErrorsAreFree
<1> QED BY <1>2, Invariance, PTL

(***************************************************************************)
(* The page session: its inductive invariant, for any sessions, budgets    *)
(* and time to live, any use of the buttons and any agents.                *)
(***************************************************************************)
Codes == {"ok", "quota", "failed", "SESSION_INVALID", "SESSION_EXPIRED",
          "SESSION_EXHAUSTED", "SESSION_UNAVAILABLE"}
Kinds == {"idle", "tool", "look", "checkout"}
Kept == [remaining : [Buckets -> Nat], expiresAt : Nat]

\* An answer to a request for session s, or for any if s is Nil.
AnswerFor(told, s) ==
  /\ told \in [code : Codes, receipt : Receipts \cup {Nil}]
  /\ told.code \in {"ok", "quota"} => told.receipt \in Receipts
  /\ told.code = "ok" /\ s # Nil => told.receipt.id = s

Typed ==
  /\ now \in Nat /\ minted \subseteq Sessions
  /\ server \in [Sessions -> Kept \cup {Nil}]
  /\ store \in Receipts \cup {Nil}
  /\ bought \in Sessions \cup {Nil} /\ crossed \in BOOLEAN /\ displaced \in BOOLEAN

\* Only what was given out can be bought.
BusyTyped ==
  /\ busy.kind \in {"tool", "look"} => busy.id \in Sessions
  /\ busy.kind = "tool" => busy.bucket \in Buckets
  /\ busy.answer # Nil =>
       /\ AnswerFor(busy.answer, IF busy.kind = "checkout" THEN Nil ELSE busy.id)
       /\ busy.kind = "checkout" /\ busy.answer.code = "ok" => busy.answer.receipt.id \in minted

PollTyped ==
  poll # IdlePoll =>
    /\ poll.receipt \in Receipts
    /\ poll.answer # Nil => AnswerFor(poll.answer, poll.receipt.id)

\* What was bought is what the page keeps, and the tool and the poll under way are about
\* it.  A session that was refused as unknown is never live again.
AllIsAboutIt ==
  bought # Nil /\ ~crossed /\ ~displaced /\ Live(bought) =>
    /\ store # Nil /\ store.id = bought
    /\ busy.kind = "tool" => busy.id = bought
    /\ busy.kind \in {"tool", "look"} /\ busy.id = bought /\ busy.answer # Nil =>
         busy.answer.code # "SESSION_INVALID"
    /\ poll # IdlePoll => poll.receipt.id = bought

PageInv ==
  /\ Typed
  /\ busy \in [kind : Kinds, id : Sessions \cup {Nil}, bucket : Buckets \cup {Nil},
               answer : [code : Codes, receipt : Receipts \cup {Nil}] \cup {Nil}]
  /\ poll \in [receipt : Receipts \cup {Nil},
               answer : [code : Codes, receipt : Receipts \cup {Nil}] \cup {Nil}]
  /\ BusyTyped /\ PollTyped
  /\ bought # Nil => bought \in minted
  /\ AllIsAboutIt

USE DEF Codes, Kinds

LEMMA InitPageInv == PageInit => PageInv
<1> SUFFICES ASSUME PageInit PROVE PageInv OBVIOUS
<1> USE DEF PageInit, Idle, IdlePoll
<1>1. crossed \in BOOLEAN /\ displaced \in BOOLEAN OBVIOUS
<1>2. Typed BY <1>1 DEF Typed
<1>4. busy \in [kind : Kinds, id : Sessions \cup {Nil}, bucket : Buckets \cup {Nil},
               answer : [code : Codes, receipt : Receipts \cup {Nil}] \cup {Nil}]
  OBVIOUS
<1>3. BusyTyped /\ PollTyped /\ AllIsAboutIt
  BY WebSessionAssumption DEF BusyTyped, PollTyped, AllIsAboutIt
<1> QED BY <1>2, <1>3, <1>4 DEF PageInv

(***************************************************************************)
(* Time, evictions and agents.                                             *)
(***************************************************************************)
LEMMA OutsideKeeps ==
  ASSUME PageInv, ClockTick \/ Evict \/ AgentSpends
  PROVE  PageInv'
<1>1. UNCHANGED <<minted, store, busy, poll, work, history>>
      /\ now' \in Nat /\ now <= now' /\ now \in Nat
  BY DEF ClockTick, Evict, AgentSpends, PageInv, Typed
<1>2. server' \in [Sessions -> Kept \cup {Nil}]
      /\ \A s \in Sessions : Live(s)' => Live(s)
  <2>1. CASE ClockTick BY <1>1, <2>1 DEF ClockTick, PageInv, Typed, Live, Present, Kept
  <2>2. CASE Evict BY <1>1, <2>2 DEF Evict, PageInv, Typed, Live, Present
  <2>3. CASE AgentSpends
    <3>1. PICK s \in Sessions, b \in Buckets :
            /\ Live(s) /\ server[s].remaining[b] > 0
            /\ server' = [server EXCEPT ![s].remaining[b] = @ - 1]
      BY <2>3 DEF AgentSpends
    <3>2. server[s] \in Kept BY <3>1 DEF Live, Present, PageInv, Typed
    <3> DEFINE r == [server[s] EXCEPT !.remaining[b] = @ - 1]
    <3>3. r \in Kept /\ r.expiresAt = server[s].expiresAt BY <3>1, <3>2 DEF Kept
    <3>4. server' = [server EXCEPT ![s] = r] BY <3>1
    <3> HIDE DEF r
    <3>5. now' = now BY <2>3 DEF AgentSpends
    <3> QED BY <3>1, <3>3, <3>4, <3>5 DEF PageInv, Typed, Live, Present
  <2> QED BY <2>1, <2>2, <2>3
<1>3. Typed' BY <1>1, <1>2 DEF PageInv, Typed, history
<1>4. BusyTyped' /\ PollTyped' BY <1>1 DEF PageInv, BusyTyped, PollTyped
<1>5. AllIsAboutIt' BY <1>1, <1>2 DEF PageInv, Typed, AllIsAboutIt, history
<1> QED BY <1>1, <1>3, <1>4, <1>5 DEF PageInv, history

(***************************************************************************)
(* Buttons.                                                                *)
(***************************************************************************)
LEMMA PressKeeps ==
  ASSUME PageInv, CallTool \/ Look \/ Buy \/ Refresh
  PROVE  PageInv'
<1>1. PICK kind \in Kinds \ {"idle"}, id \in Sessions \cup {Nil},
           bucket \in Buckets \cup {Nil} :
        /\ Press(kind, id, bucket)
        /\ kind \in {"tool", "look"} => id \in Sessions
        /\ kind = "tool" => store # Nil /\ id = store.id
        /\ kind = "tool" => bucket \in Buckets
  <2>1. store # Nil => store.id \in Sessions BY DEF PageInv, Typed, Receipts
  <2>2. CASE CallTool BY <2>1, <2>2 DEF CallTool
  <2>3. CASE Look BY <2>3 DEF Look
  <2>4. CASE Buy BY <2>4 DEF Buy
  <2>5. CASE Refresh BY <2>1, <2>5 DEF Refresh
  <2> QED BY <2>2, <2>3, <2>4, <2>5
<1>2. /\ busy' = [Idle EXCEPT !.kind = kind, !.id = id, !.bucket = bucket]
      /\ UNCHANGED <<now, server, minted, store, poll, history>>
  BY <1>1 DEF Press
<1>3. /\ busy'.kind = kind /\ busy'.id = id /\ busy'.bucket = bucket /\ busy'.answer = Nil
      /\ busy' \in [kind : Kinds, id : Sessions \cup {Nil}, bucket : Buckets \cup {Nil},
                    answer : [code : Codes, receipt : Receipts \cup {Nil}] \cup {Nil}]
  BY <1>2 DEF Idle
<1>4. BusyTyped' BY <1>1, <1>3 DEF BusyTyped
<1>5. PollTyped' /\ Typed' BY <1>2 DEF PageInv, PollTyped, Typed, history
<1>6. AllIsAboutIt' BY <1>1, <1>2, <1>3 DEF PageInv, AllIsAboutIt, Live, Present, history
<1> QED BY <1>2, <1>3, <1>4, <1>5, <1>6 DEF PageInv, history

\* The answer of a request comes in: nothing changes but that.
LEMMA AnsweredKeeps ==
  ASSUME PageInv, NEW told, busy' = [busy EXCEPT !.answer = told],
         AnswerFor(told, IF busy.kind = "checkout" THEN Nil ELSE busy.id),
         busy.kind = "checkout" /\ told.code = "ok" => told.receipt.id \in minted',
         UNCHANGED <<now, store, poll, history>>,
         minted \subseteq minted', minted' \subseteq Sessions,
         server' \in [Sessions -> Kept \cup {Nil}],
         \A s \in minted : Live(s)' => Live(s),
         busy.kind \in {"tool", "look"} /\ told.code = "SESSION_INVALID" => ~Live(busy.id)'
  PROVE  PageInv'
<1>1. /\ busy'.kind = busy.kind /\ busy'.id = busy.id /\ busy'.bucket = busy.bucket
      /\ busy'.answer = told
      /\ busy' \in [kind : Kinds, id : Sessions \cup {Nil}, bucket : Buckets \cup {Nil},
                    answer : [code : Codes, receipt : Receipts \cup {Nil}] \cup {Nil}]
  BY DEF PageInv, AnswerFor
<1>2. BusyTyped' BY <1>1 DEF PageInv, BusyTyped
<1>3. PollTyped' /\ Typed' BY DEF PageInv, PollTyped, Typed, history
<1>4. AllIsAboutIt' BY <1>1 DEF PageInv, AllIsAboutIt, history
<1> QED BY <1>1, <1>2, <1>3, <1>4 DEF PageInv, history

LEMMA ReceiptTyped ==
  ASSUME PageInv, NEW s \in Sessions, Present(s)
  PROVE  Receipt(s) \in Receipts /\ Receipt(s).id = s /\ server[s] \in Kept
<1>1. server[s] \in Kept BY DEF PageInv, Typed, Present
<1> QED BY <1>1 DEF Receipt, Receipts, Status, Kept

LEMMA LookedUpTyped ==
  ASSUME PageInv, NEW s \in Sessions
  PROVE  /\ AnswerFor(LookedUp(s), s)
         /\ LookedUp(s).code = "SESSION_INVALID" => ~Live(s)
<1>1. CASE Live(s)
  BY <1>1, ReceiptTyped DEF AnswerFor, LookedUp, Told, Live
<1>2. CASE ~Live(s)
  BY <1>2 DEF AnswerFor, LookedUp, Told
<1> QED BY <1>1, <1>2

LEMMA ToldWithout ==
  ASSUME NEW code \in Codes \ {"ok", "quota"}, NEW s
  PROVE  AnswerFor(Told(code, Nil), s) /\ Told(code, Nil).code = code
BY DEF AnswerFor, Told

LEMMA ConsumeKeeps ==
  ASSUME PageInv, busy.kind = "tool", Consume, UNCHANGED <<now, minted, store, poll, work, history>>
  PROVE  PageInv'
<1> DEFINE s == busy.id
           b == busy.bucket
<1>1. s \in Sessions /\ b \in Buckets BY DEF PageInv, BusyTyped
<1>2. server \in [Sessions -> Kept \cup {Nil}] /\ minted \subseteq Sessions BY DEF PageInv, Typed
<1>3. CASE Live(s) /\ server[s].remaining[b] > 0
           /\ server' = [server EXCEPT ![s].remaining = [server[s].remaining EXCEPT ![b] = @ - 1]]
           /\ \/ busy' = [busy EXCEPT !.answer = Told("quota",
                   [Receipt(s) EXCEPT !.remaining = [server[s].remaining EXCEPT ![b] = @ - 1]])]
              \/ busy' = [busy EXCEPT !.answer = Told("failed", Nil)]
  <2> DEFINE rest == [server[s].remaining EXCEPT ![b] = @ - 1]
             r == [server[s] EXCEPT !.remaining = rest]
             q == [Receipt(s) EXCEPT !.remaining = rest]
  <2>1. server[s] \in Kept /\ Receipt(s) \in Receipts /\ Present(s)
    BY <1>1, <1>3, ReceiptTyped DEF Live
  <2>2. rest \in [Buckets -> Nat] BY <1>1, <1>3, <2>1 DEF Kept
  <2>3. r \in Kept /\ r.expiresAt = server[s].expiresAt BY <2>1, <2>2 DEF Kept
  <2>4. q \in Receipts BY <2>1, <2>2 DEF Receipts
  <2>5. server' = [server EXCEPT ![s] = r] BY <1>3
  <2>6. busy' = [busy EXCEPT !.answer = Told("quota", q)]
        \/ busy' = [busy EXCEPT !.answer = Told("failed", Nil)]
    BY <1>3
  <2> HIDE DEF rest, r, q
  <2>7. server' \in [Sessions -> Kept \cup {Nil}] /\ \A x \in minted : Live(x)' => Live(x)
    BY <1>1, <1>2, <1>3, <2>3, <2>5 DEF Live, Present
  <2>8. AnswerFor(Told("quota", q), s) /\ Told("quota", q).code = "quota"
    BY <2>4 DEF AnswerFor, Told
  <2>9. AnswerFor(Told("failed", Nil), s) /\ Told("failed", Nil).code = "failed"
    BY ToldWithout
  <2> QED BY <1>2, <2>6, <2>7, <2>8, <2>9, AnsweredKeeps
<1>4. CASE Live(s) /\ server[s].remaining[b] = 0 /\ UNCHANGED server
           /\ busy' = [busy EXCEPT !.answer = Told("SESSION_EXHAUSTED", Nil)]
  <2>1. server' \in [Sessions -> Kept \cup {Nil}] /\ \A x \in minted : Live(x)' => Live(x)
    BY <1>2, <1>4 DEF Live, Present
  <2>2. AnswerFor(Told("SESSION_EXHAUSTED", Nil), s)
        /\ Told("SESSION_EXHAUSTED", Nil).code = "SESSION_EXHAUSTED"
    BY ToldWithout
  <2> QED BY <1>2, <1>4, <2>1, <2>2, AnsweredKeeps
<1>5. CASE ~Live(s) /\ server' = [server EXCEPT ![s] = Nil]
           /\ busy' = [busy EXCEPT !.answer =
                Told(IF Present(s) THEN "SESSION_EXPIRED" ELSE "SESSION_INVALID", Nil)]
  <2> DEFINE code == IF Present(s) THEN "SESSION_EXPIRED" ELSE "SESSION_INVALID"
  <2>1. server' \in [Sessions -> Kept \cup {Nil}] /\ ~Live(s)'
        /\ \A x \in minted : Live(x)' => Live(x)
    BY <1>1, <1>2, <1>5 DEF Live, Present
  <2>2. code \in Codes \ {"ok", "quota"} OBVIOUS
  <2> HIDE DEF code
  <2>3. AnswerFor(Told(code, Nil), s) /\ Told(code, Nil).code = code BY <2>2, ToldWithout
  <2>4. busy' = [busy EXCEPT !.answer = Told(code, Nil)] BY <1>5 DEF code
  <2> QED BY <1>2, <2>1, <2>2, <2>3, <2>4, AnsweredKeeps
<1> QED BY <1>3, <1>4, <1>5 DEF Consume

LEMMA GrantKeeps ==
  ASSUME PageInv, busy.kind = "checkout", Grant, UNCHANGED <<now, store, poll, work, history>>
  PROVE  PageInv'
<1>1. PICK s \in IF busy.id # Nil /\ Live(busy.id) THEN {busy.id} ELSE Sessions \ minted :
        LET record == [remaining |-> Budget, expiresAt |-> now + Ttl]
            receipt == [id |-> s, remaining |-> Budget, expiresAt |-> now + Ttl,
                        status |-> Status(Budget)]
        IN  /\ server' = [server EXCEPT ![s] = record]
            /\ minted' = minted \cup {s}
            /\ \E code \in {"ok", "failed"} :
                 busy' = [busy EXCEPT !.answer = Told(code, IF code = "ok" THEN receipt ELSE Nil)]
  BY DEF Grant
<1> DEFINE record == [remaining |-> Budget, expiresAt |-> now + Ttl]
           receipt == [id |-> s, remaining |-> Budget, expiresAt |-> now + Ttl,
                       status |-> Status(Budget)]
<1>2. s \in Sessions /\ (s \in minted => Live(s)) BY DEF PageInv
<1>3. record \in Kept /\ receipt \in Receipts /\ receipt.id = s
  BY <1>2, WebSessionAssumption DEF Kept, Receipts, Status, PageInv, Typed
<1>4. /\ server' = [server EXCEPT ![s] = record] /\ minted' = minted \cup {s}
      /\ busy' = [busy EXCEPT !.answer = Told("ok", receipt)]
         \/ busy' = [busy EXCEPT !.answer = Told("failed", Nil)]
  BY <1>1
<1> HIDE DEF record, receipt
<1>5. /\ server' \in [Sessions -> Kept \cup {Nil}] /\ minted \subseteq minted'
      /\ minted' \subseteq Sessions
      /\ \A x \in minted : Live(x)' => Live(x)
  BY <1>2, <1>3, <1>4 DEF PageInv, Typed, Live, Present
<1>6. AnswerFor(Told("ok", receipt), Nil) /\ Told("ok", receipt).code = "ok"
      /\ Told("ok", receipt).receipt = receipt
  BY <1>3 DEF AnswerFor, Told
<1>7. AnswerFor(Told("failed", Nil), Nil) /\ Told("failed", Nil).code = "failed"
  BY ToldWithout
<1>8. CASE busy' = [busy EXCEPT !.answer = Told("ok", receipt)]
  BY <1>3, <1>4, <1>5, <1>6, <1>8, AnsweredKeeps
<1>9. CASE busy' = [busy EXCEPT !.answer = Told("failed", Nil)]
  BY <1>5, <1>7, <1>9, AnsweredKeeps
<1> QED BY <1>4, <1>8, <1>9

LEMMA ServeKeeps == ASSUME PageInv, Serve PROVE PageInv'
<1>1. UNCHANGED <<now, store, poll, work, history>> BY DEF Serve
<1>2. CASE busy.kind = "tool" /\ Consume /\ UNCHANGED minted BY <1>1, <1>2, ConsumeKeeps
<1>3. CASE busy.kind = "checkout" /\ Grant BY <1>1, <1>3, GrantKeeps
<1>4. CASE busy.kind = "look" /\ UNCHANGED <<server, minted>>
           /\ busy' = [busy EXCEPT !.answer = LookedUp(busy.id)]
  <2>1. busy.id \in Sessions /\ server' \in [Sessions -> Kept \cup {Nil}]
        /\ minted' = minted /\ minted \subseteq Sessions
    BY <1>4 DEF PageInv, Typed, BusyTyped
  <2>2. \A s \in Sessions : Live(s)' <=> Live(s) BY <1>1, <1>4 DEF Live, Present
  <2> QED BY <1>1, <1>4, <2>1, <2>2, LookedUpTyped, AnsweredKeeps
<1> QED BY <1>2, <1>3, <1>4 DEF Serve

LEMMA RefuseKeeps == ASSUME PageInv, Refuse PROVE PageInv'
<1>1. PICK code \in {"failed", "SESSION_UNAVAILABLE"} :
        busy' = [busy EXCEPT !.answer = Told(code, Nil)]
  BY DEF Refuse
<1>2. UNCHANGED <<now, server, minted, store, poll, history>> BY DEF Refuse
<1>3. /\ AnswerFor(Told(code, Nil), IF busy.kind = "checkout" THEN Nil ELSE busy.id)
      /\ Told(code, Nil).code = code
  BY ToldWithout
<1>4. /\ server' \in [Sessions -> Kept \cup {Nil}] /\ minted \subseteq Sessions
      /\ \A s \in Sessions : Live(s)' <=> Live(s)
  BY <1>2 DEF PageInv, Typed, Live, Present
<1> QED BY <1>1, <1>2, <1>3, <1>4, AnsweredKeeps

(***************************************************************************)
(* What the page makes of answers.                                         *)
(***************************************************************************)
LEMMA ToolDoneKeeps == ASSUME PageInv, ToolDone PROVE PageInv'
<1> DEFINE told == busy.answer
<1>1. /\ busy.kind \in {"tool", "look"} /\ told # Nil
      /\ store' = Persisted(told) /\ busy' = Idle
      /\ UNCHANGED <<now, server, minted, poll, bought, crossed>>
      /\ displaced' = (displaced \/ (busy.kind = "look" /\ busy.id # bought
                                     /\ told.code \in {"ok", "SESSION_INVALID"}))
  BY DEF ToolDone
<1>2. AnswerFor(told, busy.id) /\ busy.id \in Sessions
  BY <1>1 DEF PageInv, BusyTyped
<1>3. store' \in Receipts \cup {Nil}
      /\ (store # Nil /\ told.code \notin {"ok", "SESSION_INVALID"} =>
            store' \in Receipts /\ store'.id = store.id)
      /\ (told.code = "ok" => store' = told.receipt)
  <2>1. store \in Receipts \cup {Nil} BY DEF PageInv, Typed
  <2> QED BY <1>1, <1>2, <2>1 DEF Persisted, AnswerFor, WithQuota, Receipts, Status
<1>4. Idle \in [kind : Kinds, id : Sessions \cup {Nil}, bucket : Buckets \cup {Nil},
                answer : [code : Codes, receipt : Receipts \cup {Nil}] \cup {Nil}]
      /\ Idle.kind = "idle" /\ Idle.answer = Nil
  BY DEF Idle
<1>5. Typed' /\ BusyTyped' /\ PollTyped'
  BY <1>1, <1>3, <1>4 DEF PageInv, Typed, BusyTyped, PollTyped
<1>6. AllIsAboutIt'
  <2> SUFFICES ASSUME bought # Nil, ~crossed, ~displaced', Live(bought)
               PROVE  /\ store' # Nil /\ store'.id = bought
                      /\ poll # IdlePoll => poll.receipt.id = bought
    BY <1>1, <1>4 DEF AllIsAboutIt, Live, Present
  <2>1. ~displaced BY <1>1
  <2>2. /\ store # Nil /\ store.id = bought
        /\ poll # IdlePoll => poll.receipt.id = bought
        /\ told.code \in {"ok", "SESSION_INVALID"} => busy.id = bought
        /\ busy.id = bought => told.code # "SESSION_INVALID"
    BY <1>1, <2>1 DEF PageInv, AllIsAboutIt
  <2>3. CASE told.code = "ok"
    BY <1>2, <1>3, <2>2, <2>3, WebSessionAssumption DEF AnswerFor
  <2>4. CASE told.code # "ok" BY <1>3, <2>2, <2>4, WebSessionAssumption
  <2> QED BY <2>2, <2>3, <2>4
<1> QED BY <1>1, <1>4, <1>5, <1>6 DEF PageInv

LEMMA CheckoutDoneKeeps == ASSUME PageInv, CheckoutDone PROVE PageInv'
<1> DEFINE told == busy.answer
<1>1. /\ busy.kind = "checkout" /\ told # Nil /\ busy' = Idle
      /\ UNCHANGED <<now, server, minted, poll>>
  BY DEF CheckoutDone
<1>2. /\ AnswerFor(told, Nil)
      /\ told.code = "ok" => told.receipt \in Receipts /\ told.receipt.id \in minted
  BY <1>1 DEF PageInv, BusyTyped, AnswerFor
<1>3. Idle \in [kind : Kinds, id : Sessions \cup {Nil}, bucket : Buckets \cup {Nil},
                answer : [code : Codes, receipt : Receipts \cup {Nil}] \cup {Nil}]
      /\ Idle.kind = "idle" /\ Idle.answer = Nil
  BY DEF Idle
<1>4. BusyTyped' /\ PollTyped' BY <1>1, <1>3 DEF PageInv, BusyTyped, PollTyped
<1>5. CASE told.code # "ok"
  <2>1. UNCHANGED <<store, history>> BY <1>5 DEF CheckoutDone
  <2>2. Typed' /\ AllIsAboutIt'
    BY <1>1, <1>3, <2>1 DEF PageInv, Typed, AllIsAboutIt, Live, Present, history
  <2> QED BY <1>1, <1>3, <1>4, <2>1, <2>2 DEF PageInv, history
<1>6. CASE told.code = "ok"
  <2>1. /\ store' = told.receipt /\ bought' = told.receipt.id
        /\ crossed' = (poll # IdlePoll /\ poll.receipt.id # bought')
        /\ displaced' = FALSE
    BY <1>6 DEF CheckoutDone
  <2>2. bought' \in minted' /\ bought' \in Sessions
    BY <1>1, <1>2, <1>6, <2>1 DEF Receipts
  <2>3. crossed' \in BOOLEAN /\ displaced' \in BOOLEAN BY <2>1
  <2>4. Typed' BY <1>1, <1>2, <1>6, <2>1, <2>2, <2>3 DEF PageInv, Typed
  <2>5. store' # Nil /\ store'.id = bought' BY <1>2, <1>6, <2>1, WebSessionAssumption
  <2>6. AllIsAboutIt'
    BY <1>1, <1>3, <2>1, <2>5 DEF AllIsAboutIt
  <2> QED BY <1>1, <1>3, <1>4, <2>2, <2>4, <2>6 DEF PageInv
<1> QED BY <1>5, <1>6

\* A poll starts or is answered; the receipt it was sent for stays.
LEMMA PollMoves ==
  ASSUME PageInv, NEW r, poll' = r,
         UNCHANGED <<now, server, minted, store, busy, history>>,
         r \in [receipt : Receipts \cup {Nil},
                answer : [code : Codes, receipt : Receipts \cup {Nil}] \cup {Nil}],
         r # IdlePoll =>
           /\ r.receipt \in Receipts
           /\ r.answer # Nil => AnswerFor(r.answer, r.receipt.id)
           /\ r.receipt = store \/ (poll # IdlePoll /\ r.receipt = poll.receipt)
  PROVE  PageInv'
<1>1. Typed' /\ BusyTyped' /\ PollTyped'
  BY DEF PageInv, Typed, BusyTyped, PollTyped, history
<1>2. AllIsAboutIt' BY DEF PageInv, AllIsAboutIt, Live, Present, history
<1> QED BY <1>1, <1>2 DEF PageInv, history

LEMMA PollsKeep == ASSUME PageInv, StartPoll \/ PollServed \/ PollRefused PROVE PageInv'
<1>1. UNCHANGED <<now, server, minted, store, busy, history>>
  BY DEF StartPoll, PollServed, PollRefused
<1>2. CASE StartPoll
  <2> DEFINE r == [IdlePoll EXCEPT !.receipt = store]
  <2>1. store \in Receipts BY <1>2 DEF StartPoll, PageInv, Typed
  <2>2. /\ r \in [receipt : Receipts \cup {Nil},
                  answer : [code : Codes, receipt : Receipts \cup {Nil}] \cup {Nil}]
        /\ r.receipt = store /\ r.answer = Nil
    BY <2>1 DEF IdlePoll
  <2>3. poll' = r BY <1>2 DEF StartPoll
  <2> HIDE DEF r
  <2> QED BY <1>1, <2>1, <2>2, <2>3, PollMoves
<1>3. ASSUME poll # IdlePoll, NEW told, AnswerFor(told, poll.receipt.id),
             poll' = [poll EXCEPT !.answer = told]
      PROVE  PageInv'
  <2> DEFINE r == [poll EXCEPT !.answer = told]
  <2>1. /\ r \in [receipt : Receipts \cup {Nil},
                  answer : [code : Codes, receipt : Receipts \cup {Nil}] \cup {Nil}]
        /\ r.receipt = poll.receipt /\ r.answer = told /\ poll.receipt \in Receipts
    BY <1>3 DEF AnswerFor, PageInv, PollTyped
  <2>2. poll' = r BY <1>3
  <2> HIDE DEF r
  <2> QED BY <1>1, <1>3, <2>1, <2>2, PollMoves
<1>4. CASE PollServed
  <2>1. poll.receipt.id \in Sessions BY <1>4 DEF PollServed, PageInv, PollTyped, Receipts
  <2> QED BY <1>3, <1>4, <2>1, LookedUpTyped DEF PollServed
<1>5. CASE PollRefused
  <2>1. PICK code \in {"failed", "SESSION_UNAVAILABLE"} :
          poll' = [poll EXCEPT !.answer = Told(code, Nil)]
    BY <1>5 DEF PollRefused
  <2> QED BY <1>3, <1>5, <2>1, ToldWithout DEF PollRefused
<1> QED BY <1>2, <1>4, <1>5

LEMMA PollDoneKeeps == ASSUME PageInv, PollDone PROVE PageInv'
<1> DEFINE told == poll.answer
<1>1. /\ poll # IdlePoll /\ told # Nil /\ store' = Polled /\ poll' = IdlePoll
      /\ UNCHANGED <<now, server, minted, busy, history>>
  BY DEF PollDone
<1>2. AnswerFor(told, poll.receipt.id) /\ poll.receipt \in Receipts
      /\ poll.receipt.id \in Sessions
  BY <1>1 DEF PageInv, PollTyped, Receipts
<1>3. \/ store' = store
      \/ store' \in Receipts /\ store'.id = poll.receipt.id
  BY <1>1, <1>2, WebSessionAssumption DEF Polled, AnswerFor, Receipts
<1>4. IdlePoll \in [receipt : Receipts \cup {Nil},
                    answer : [code : Codes, receipt : Receipts \cup {Nil}] \cup {Nil}]
  BY DEF IdlePoll
<1>5. Typed' /\ BusyTyped' /\ PollTyped'
  BY <1>1, <1>3 DEF PageInv, Typed, BusyTyped, PollTyped, history
<1>6. AllIsAboutIt'
  BY <1>1, <1>3, WebSessionAssumption DEF PageInv, AllIsAboutIt, Live, Present, history
<1> QED BY <1>1, <1>4, <1>5, <1>6 DEF PageInv, history

LEMMA PageStepKeeps == PageInv /\ [PageNext]_pageVars => PageInv'
<1>1. ASSUME PageInv, UNCHANGED pageVars PROVE PageInv'
  BY <1>1 DEF pageVars, history, PageInv, Typed, BusyTyped, PollTyped, AllIsAboutIt, Live, Present
<1> QED BY <1>1, OutsideKeeps, PressKeeps, ServeKeeps, RefuseKeeps, ToolDoneKeeps,
           CheckoutDoneKeeps, PollsKeep, PollDoneKeeps DEF PageNext

(***************************************************************************)
(* The theorem.                                                            *)
(***************************************************************************)
\* A session that was bought stays in the page until another checkout or until the
\* gateway has dropped it, unless a poll for the session before crossed the purchase or
\* another id was looked up since and answered with a session or as unknown.
THEOREM PurchasesStay == PageSpec => []PurchaseStays
<1>1. PageInv => PurchaseStays BY DEF PageInv, AllIsAboutIt, PurchaseStays
<1> QED BY <1>1, InitPageInv, PageStepKeeps, PTL DEF PageSpec

(***************************************************************************)
(* What leaves the pay-to wallet: FairShares for any unit, payments, lock, *)
(* weeks and runs.  Each harvest adds a split whose rounding is less than  *)
(* a whole USDC, whatever balance it was computed from.                    *)
(***************************************************************************)
USE HarvestAssumption

LEMMA Scaled ==
  ASSUME NEW u \in Nat, NEW x \in Int, NEW y \in Int, x <= y
  PROVE  u * x <= u * y
<1>1. u * y = u * x + u * (y - x) OBVIOUS
<1>2. u * (y - x) >= 0 OBVIOUS
<1> QED BY <1>1, <1>2

\* What splitFeeHarvestWholeUsdc does with a whole amount.
LEMMA SplitIsFair ==
  ASSUME NEW whole \in Nat
  PROVE  LET share == Split(whole)
         IN  /\ share \in [Recipients -> Nat]
             /\ share["30a"] = share["30b"]
             /\ share["30a"] + share["30b"] + share["40"] = Unit * whole
             /\ 10 * share["30a"] <= 3 * (Unit * whole)
             /\ 3 * (Unit * whole) <= 10 * share["30a"] + 10 * Unit
<1> DEFINE a == (whole * 30) \div 100
           rest == whole - a - a
<1>1. a \in Nat /\ 10 * a <= 3 * whole /\ 3 * whole <= 10 * a + 10 OBVIOUS
<1>2. rest \in Nat BY <1>1
<1>3. Split(whole) = [c \in Recipients |-> Unit * (IF c = "40" THEN rest ELSE a)]
  BY DEF Split
<1> HIDE DEF a, rest
<1>4. Split(whole)["30a"] = Unit * a /\ Split(whole)["30b"] = Unit * a
      /\ Split(whole)["40"] = Unit * rest
  BY <1>3 DEF Recipients
<1>5. Unit * a \in Nat /\ Unit * rest \in Nat BY <1>1, <1>2
<1>6. Unit * a + Unit * a + Unit * rest = Unit * whole
  BY <1>1, <1>2 DEF rest
<1>7. Unit * (10 * a) <= Unit * (3 * whole) BY <1>1, Scaled
<1>8. Unit * (3 * whole) <= Unit * (10 * a + 10) BY <1>1, Scaled
<1>9. Split(whole) \in [Recipients -> Nat] BY <1>1, <1>2, <1>3, <1>5
<1> QED BY <1>1, <1>4, <1>5, <1>6, <1>7, <1>8, <1>9

-----------------------------------------------------------------------------
LEMMA InitHarvestTypeOK == HarvestInit => HarvestTypeOK
BY DEF HarvestInit, HarvestTypeOK, Runs

LEMMA WholeIsNat ==
  ASSUME NEW balance \in Nat
  PROVE  WholeUsdc(balance) \in Nat /\ Unit * WholeUsdc(balance) \in Nat
<1>1. WholeUsdc(balance) \in Nat BY DEF WholeUsdc
<1> QED BY <1>1

LEMMA StepHarvestTypeOK == HarvestTypeOK /\ [HarvestNext]_harvestVars => HarvestTypeOK'
<1> SUFFICES ASSUME HarvestTypeOK, [HarvestNext]_harvestVars PROVE HarvestTypeOK' OBVIOUS
<1> USE DEF HarvestTypeOK, chain, Goto, AnotherFailure
<1>1. CASE UNCHANGED harvestVars BY <1>1 DEF harvestVars
<1>2. CASE Pay BY <1>2 DEF Pay
<1>3. CASE Tick
  <2>1. hour' \in 0..(Week - 1) BY <1>3 DEF Tick
  <2>2. lock' \in 0..LockTtl BY <1>3 DEF Tick, Expired
  <2> QED BY <1>3, <2>1, <2>2 DEF Tick
<1>4. ASSUME NEW i \in Instances, Fire(i) PROVE HarvestTypeOK'
  BY <1>4 DEF Fire, Begin, Runs
<1>5. ASSUME NEW r \in Clis \cup Sweeps, RunByHand(r) PROVE HarvestTypeOK'
  BY <1>5 DEF RunByHand, Begin, Runs
<1>6. ASSUME NEW r \in Runs, Steps(r) \/ Commit(r) \/ Drop(r) PROVE HarvestTypeOK'
  <2>1. CASE TakeLock(r) BY <2>1 DEF TakeLock
  <2>2. CASE ReadBalance(r)
    <3>1. Unit * WholeUsdc(wallet) \in Nat BY WholeIsNat
    <3> QED BY <2>2, <3>1 DEF ReadBalance
  <2>3. CASE SendGroup(r) BY <2>3 DEF SendGroup, Left
  <2>4. CASE Fails(r) BY <2>4 DEF Fails, Left
  <2>5. CASE CommitHarvest(r)
    <3> DEFINE whole == pooled[r] \div Unit
    <3>1. whole \in Nat OBVIOUS
    <3>2. Split(whole) \in [Recipients -> Nat] BY <3>1, SplitIsFair
    <3>3. received' = [c \in Recipients |-> received[c] + Split(whole)[c]]
      BY <2>5 DEF CommitHarvest
    <3>4. received' \in [Recipients -> Nat] BY <3>2, <3>3
    <3>5. wallet' \in Nat BY <2>5 DEF CommitHarvest
    <3> QED BY <2>5, <3>4, <3>5 DEF CommitHarvest
  <2>6. CASE CommitSweep(r) BY <2>6 DEF CommitSweep
  <2>7. CASE Drop(r) BY <2>7 DEF Drop
  <2> QED BY <1>6, <2>1, <2>2, <2>3, <2>4, <2>5, <2>6, <2>7 DEF Steps, Commit
<1> QED BY <1>1, <1>2, <1>3, <1>4, <1>5, <1>6 DEF HarvestNext

-----------------------------------------------------------------------------
LEMMA InitFairShares == HarvestInit => FairShares
<1> SUFFICES ASSUME HarvestInit PROVE FairShares OBVIOUS
<1>1. \A c \in Recipients : received[c] = 0 BY DEF HarvestInit
<1>2. received["30a"] = 0 /\ received["30b"] = 0 /\ received["40"] = 0 /\ groups = 0
  BY <1>1 DEF Recipients, HarvestInit
<1> QED BY <1>2 DEF FairShares

LEMMA HarvestIsFair ==
  ASSUME HarvestTypeOK, FairShares, NEW r \in Runs, CommitHarvest(r)
  PROVE  FairShares'
<1> DEFINE whole == pooled[r] \div Unit
           share == Split(whole)
           total == received["30a"] + received["30b"] + received["40"]
<1>1. whole \in Nat BY DEF HarvestTypeOK
<1>2. \A c \in Recipients : received'[c] = received[c] + share[c] BY DEF CommitHarvest
<1>3. /\ received'["30a"] = received["30a"] + share["30a"]
      /\ received'["30b"] = received["30b"] + share["30b"]
      /\ received'["40"] = received["40"] + share["40"]
  BY <1>2 DEF Recipients
<1>4. groups' = groups + 1 /\ groups \in Nat BY DEF CommitHarvest, HarvestTypeOK
<1>5. received["30a"] \in Nat /\ received["30b"] \in Nat /\ received["40"] \in Nat
  BY DEF HarvestTypeOK, Recipients
<1>6. /\ share \in [Recipients -> Nat]
      /\ share["30a"] = share["30b"]
      /\ share["30a"] + share["30b"] + share["40"] = Unit * whole
      /\ 10 * share["30a"] <= 3 * (Unit * whole)
      /\ 3 * (Unit * whole) <= 10 * share["30a"] + 10 * Unit
  BY <1>1, SplitIsFair
<1>7. share["30a"] \in Nat /\ share["30b"] \in Nat /\ share["40"] \in Nat
  BY <1>6 DEF Recipients
<1>8. 10 * Unit * (groups + 1) = 10 * Unit * groups + 10 * Unit BY <1>4
<1> HIDE DEF whole, share
<1>9. 10 * Unit * groups \in Nat BY <1>4
<1> QED BY <1>3, <1>4, <1>5, <1>6, <1>7, <1>8, <1>9 DEF FairShares

LEMMA StepFairShares == HarvestTypeOK /\ FairShares /\ [HarvestNext]_harvestVars => FairShares'
<1> SUFFICES ASSUME HarvestTypeOK, FairShares, [HarvestNext]_harvestVars PROVE FairShares' OBVIOUS
<1>1. CASE \E r \in Runs : CommitHarvest(r) BY <1>1, HarvestIsFair
<1>2. CASE ~\E r \in Runs : CommitHarvest(r)
  <2>1. UNCHANGED <<received, groups>>
    BY <1>2 DEF HarvestNext, harvestVars, chain, Pay, Tick, Fire, RunByHand, Begin, Steps, TakeLock,
                ReadBalance, SendGroup, Fails, Commit, CommitSweep, Drop
  <2> QED BY <2>1 DEF FairShares
<1> QED BY <1>1, <1>2

-----------------------------------------------------------------------------
\* The wallet never goes below nothing, groups in flight are amounts that were read.
THEOREM HarvestTyped == HarvestSpec => []HarvestTypeOK
BY InitHarvestTypeOK, StepHarvestTypeOK, PTL DEF HarvestSpec

\* All harvests together are shared 30/30/40 up to a whole USDC for each, whoever ran
\* them, whatever lock they held and whatever came in or was swept in between.
THEOREM HarvestsAreShared == HarvestSpec => []FairShares
<1>1. HarvestTypeOK /\ FairShares /\ [HarvestNext]_harvestVars => HarvestTypeOK' /\ FairShares'
  BY StepHarvestTypeOK, StepFairShares
<1> QED BY InitHarvestTypeOK, InitFairShares, <1>1, PTL DEF HarvestSpec
================================================================================
