------------------------------ MODULE PaidGateway ------------------------------
(***************************************************************************)
(* The x402 middleware of the Caddy gateway (caddy/handler.go) between     *)
(* clients, the facilitator that verifies and settles payments, and the    *)
(* protocol app behind it.                                                 *)
(*                                                                         *)
(* A standard route is verified, passed to the app, and settled once the   *)
(* app has answered; a settlement-gated route is settled first.  Requests  *)
(* are handled by goroutines of their own, and a client may send one       *)
(* signed payment with several requests (a retry, for instance).           *)
(***************************************************************************)
EXTENDS Naturals

CONSTANTS
  Requests,       \* HTTP requests
  Payments,       \* signed payments clients hold
  DryRun,         \* dry_run of the x402 block
  None            \* no payment, nobody

ASSUME GatewayAssumption ==
  DryRun \in BOOLEAN /\ None \notin Payments /\ None \notin Requests

VARIABLES
  phase,          \* where the gateway is with each request
  route,          \* open (free or exempt), standard or gated
  payment,        \* PAYMENT-SIGNATURE, or None
  app,            \* what the app has made of the request
  answer,         \* what the client was answered
  settledBy       \* facilitator: the request each payment was settled for

vars == <<phase, route, payment, app, answer, settledBy>>

Phases == {"new", "verify", "app", "settle", "done"}
Routes == {"unknown", "open", "standard", "gated"}
AppStates == {"untouched", "ok", "error", "unreachable"}
Answers == {"none", "payment required", "refused", "served", "app error"}

TypeOK ==
  /\ phase \in [Requests -> Phases]
  /\ route \in [Requests -> Routes]
  /\ payment \in [Requests -> Payments \cup {None}]
  /\ app \in [Requests -> AppStates]
  /\ answer \in [Requests -> Answers]
  /\ settledBy \in [Payments -> Requests \cup {None}]

Init ==
  /\ phase = [r \in Requests |-> "new"]
  /\ route = [r \in Requests |-> "unknown"]
  /\ payment = [r \in Requests |-> None]
  /\ app = [r \in Requests |-> "untouched"]
  /\ answer = [r \in Requests |-> "none"]
  /\ settledBy = [p \in Payments |-> None]

GoTo(r, next) == phase' = [phase EXCEPT ![r] = next] /\ UNCHANGED answer

Finish(r, with) ==
  /\ phase' = [phase EXCEPT ![r] = "done"]
  /\ answer' = [answer EXCEPT ![r] = with]

Settled(r) == payment[r] # None /\ settledBy[payment[r]] # None

(***************************************************************************)
(* A request arrives.                                                      *)
(***************************************************************************)
\* ua_match, except, and routes outside any x402 block.
PassThrough(r) ==
  /\ phase[r] = "new"
  /\ route' = [route EXCEPT ![r] = "open"]
  /\ GoTo(r, "app")
  /\ UNCHANGED <<payment, app, settledBy>>

\* No PAYMENT-SIGNATURE: a quoted or a static 402, or the quote went wrong.
AskForPayment(r) ==
  /\ phase[r] = "new"
  /\ \E kind \in {"standard", "gated"} : route' = [route EXCEPT ![r] = kind]
  /\ Finish(r, "payment required") \/ Finish(r, "refused")
  /\ UNCHANGED <<payment, app, settledBy>>

\* A signed payment; on a gated route its quote is parsed first.
ReceivePayment(r) ==
  /\ phase[r] = "new"
  /\ \E p \in Payments : payment' = [payment EXCEPT ![r] = p]
  /\ \/ \E kind \in {"standard", "gated"} :
          route' = [route EXCEPT ![r] = kind] /\ GoTo(r, "verify")
     \/ route' = [route EXCEPT ![r] = "gated"] /\ Finish(r, "refused")
  /\ UNCHANGED <<app, settledBy>>

(***************************************************************************)
(* Verification by the facilitator.                                        *)
(***************************************************************************)
VerifyRefused(r) ==
  /\ phase[r] = "verify"
  /\ Finish(r, "payment required") \/ Finish(r, "refused")
  /\ UNCHANGED <<route, payment, app, settledBy>>

\* Bug: a gated request goes on to the app as a standard one does.
VerifyValidUngated(r) ==
  /\ phase[r] = "verify" /\ ~Settled(r)
  /\ GoTo(r, "app")
  /\ UNCHANGED <<route, payment, app, settledBy>>

\* Valid: the facilitator could settle it now.
VerifyValid(r) ==
  /\ phase[r] = "verify" /\ ~Settled(r)
  /\ GoTo(r, IF route[r] = "gated" THEN "settle" ELSE "app")
  /\ UNCHANGED <<route, payment, app, settledBy>>

(***************************************************************************)
(* The app.                                                                *)
(***************************************************************************)
\* Bug: settlement follows whatever status the app answered.
AfterAppAlwaysSettles(r, status) ==
  IF route[r] # "standard" \/ DryRun \/ status = "unreachable"
  THEN Finish(r, IF status = "ok" THEN "served" ELSE "app error")
  ELSE GoTo(r, "settle")

\* Only a standard route settles now, and only what the app served.
AfterApp(r, status) ==
  IF status = "ok" /\ route[r] = "standard" /\ ~DryRun
  THEN GoTo(r, "settle")
  ELSE Finish(r, IF status = "ok" THEN "served" ELSE "app error")

\* The app answers below 400, at 400 or above, or cannot be reached.
AppAnswers(r) ==
  /\ phase[r] = "app"
  /\ \E status \in AppStates \ {"untouched"} :
       /\ app' = [app EXCEPT ![r] = status]
       /\ AfterApp(r, status)
  /\ UNCHANGED <<route, payment, settledBy>>

(***************************************************************************)
(* Settlement.  The facilitator settles a payment once.                    *)
(***************************************************************************)
\* Bug: a failed settlement is logged and the answer goes out all the same.
AfterSettlementUnchecked(r, success) ==
  IF route[r] = "gated" THEN GoTo(r, "app") ELSE Finish(r, "served")

\* The buffered answer is flushed, or the gated request goes to the app.
AfterSettlement(r, success) ==
  CASE ~success -> Finish(r, "refused")
    [] success /\ route[r] = "gated" -> GoTo(r, "app")
    [] OTHER -> Finish(r, "served")

\* The payment is confirmed; the gateway hears of it, or the answer is lost.
SettlementDone(r) ==
  /\ phase[r] = "settle" /\ ~Settled(r)
  /\ settledBy' = [settledBy EXCEPT ![payment[r]] = r]
  /\ \E heard \in BOOLEAN : AfterSettlement(r, heard)
  /\ UNCHANGED <<route, payment, app>>

\* Settled before, no longer valid, or the facilitator cannot be reached.
SettlementRefused(r) ==
  /\ phase[r] = "settle"
  /\ AfterSettlement(r, FALSE)
  /\ UNCHANGED <<route, payment, app, settledBy>>

Next ==
  \E r \in Requests :
    \/ PassThrough(r) \/ AskForPayment(r) \/ ReceivePayment(r)
    \/ VerifyRefused(r) \/ VerifyValid(r)
    \/ AppAnswers(r)
    \/ SettlementDone(r) \/ SettlementRefused(r)

Spec == Init /\ [][Next]_vars

(***************************************************************************)
(* Properties.                                                             *)
(***************************************************************************)
\* What a client is served on a paid route was paid for by that very request:
\* two requests that carry the same payment are never both served.
ServedIsPaid ==
  \A r \in Requests :
    answer[r] = "served" /\ route[r] \in {"standard", "gated"} =>
      (route[r] = "standard" /\ DryRun) \/ settledBy[payment[r]] = r

\* "Don't settle if the handler itself reported an error": on a standard route
\* a request the app failed is not charged for.
ErrorsAreFree ==
  \A r \in Requests :
    app[r] \in {"error", "unreachable"} /\ route[r] = "standard" =>
      ~Settled(r) \/ settledBy[payment[r]] # r

\* "settle before upstream": on a gated route the app works only for requests
\* whose payment has been settled, each for its own.
GatedWorkIsPaid ==
  \A r \in Requests :
    route[r] = "gated" /\ (phase[r] = "app" \/ app[r] # "untouched") =>
      settledBy[payment[r]] = r

-----------------------------------------------------------------------------
(***************************************************************************)
(* Stated by caddy/module.go and not kept by the code.                     *)
(***************************************************************************)
\* "DryRun disables on-chain settlement" (caddy/module.go).
DryRunNeverSettles == DryRun => \A p \in Payments : settledBy[p] = None
==============================================================================
