------------------------------ MODULE WebSession ------------------------------
(***************************************************************************)
(* The prepaid session of the /webmcp page (website/src/lib/webmcp):       *)
(* checkout.ts buys and refreshes it, human-execute.ts spends it, a poll   *)
(* every 15 s (page-app.ts) reads what is left, and all three write the    *)
(* one receipt of session-store.ts when their answer comes.  Buttons are   *)
(* locked while one of them is at work, the poll is not.                   *)
(*                                                                         *)
(* The gateway is taken as SessionStore shows it: one atomic step a call.  *)
(* Whoever else holds the receipt, as an agent in the page, spends too.    *)
(***************************************************************************)
EXTENDS Integers

CONSTANTS
  Sessions,    \* session ids
  Buckets,     \* "research" and "quotes"
  Budget,      \* units of a grant, per bucket
  Ttl,         \* ticks a grant lasts
  Nil,
  MaxTime,     \* ticks modelled
  MaxWork      \* uses of buttons modelled

\* What GET /sessions/:sessionId says of a session, and the page keeps of it.
Receipts ==
  [id : Sessions, remaining : [Buckets -> Nat], expiresAt : Nat,
   status : {"active", "exhausted", "expired"}]

ASSUME WebSessionAssumption ==
  /\ Budget \in [Buckets -> Nat] /\ Ttl \in Nat \ {0}
  /\ Nil \notin Sessions /\ Nil \notin Receipts

VARIABLES
  now,
  server,      \* what the gateway keeps of each session
  minted,      \* ids given out
  store,       \* the receipt the page keeps
  busy,        \* what a button set off
  poll,        \* the poll under way, with the receipt it was sent for
  work,        \* buttons used
  bought,      \* the session of the last checkout the page was told of
  crossed,     \* a poll for another session was under way then
  displaced    \* since then a lookup of another id took the receipt's place or cleared it

history == <<bought, crossed, displaced>>  \* told apart from what the page keeps
pageVars == <<now, server, minted, store, busy, poll, work, history>>

-----------------------------------------------------------------------------
Status(remaining) == IF \A b \in Buckets : remaining[b] = 0 THEN "exhausted" ELSE "active"

\* What the gateway answers of a session.
Receipt(s) ==
  [id |-> s, remaining |-> server[s].remaining, expiresAt |-> server[s].expiresAt,
   status |-> Status(server[s].remaining)]

Present(s) == server[s] # Nil
Live(s) == Present(s) /\ server[s].expiresAt > now

Idle == [kind |-> "idle", id |-> Nil, bucket |-> Nil, answer |-> Nil]
IdlePoll == [receipt |-> Nil, answer |-> Nil]

Told(code, receipt) == [code |-> code, receipt |-> receipt]

PageInit ==
  /\ now = 0 /\ work = 0
  /\ server = [s \in Sessions |-> Nil] /\ minted = {}
  /\ store = Nil /\ busy = Idle /\ poll = IdlePoll
  /\ bought = Nil /\ crossed = FALSE /\ displaced = FALSE

ClockTick == now < MaxTime /\ now' = now + 1
        /\ UNCHANGED <<server, minted, store, busy, poll, work, history>>

Evict ==
  /\ \E s \in Sessions : Present(s) /\ ~Live(s) /\ server' = [server EXCEPT ![s] = Nil]
  /\ UNCHANGED <<now, minted, store, busy, poll, work, history>>

AgentSpends ==
  /\ \E s \in Sessions, b \in Buckets :
       /\ Live(s) /\ server[s].remaining[b] > 0
       /\ server' = [server EXCEPT ![s].remaining[b] = @ - 1]
  /\ UNCHANGED <<now, minted, store, busy, poll, work, history>>

-----------------------------------------------------------------------------
(***************************************************************************)
(* Buttons.  withBusy lets one run at a time.                              *)
(***************************************************************************)
Press(kind, id, bucket) ==
  /\ busy = Idle /\ work < MaxWork
  /\ busy' = [Idle EXCEPT !.kind = kind, !.id = id, !.bucket = bucket]
  /\ work' = work + 1
  /\ UNCHANGED <<now, server, minted, store, poll, history>>

\* isSessionExpired, isSessionExhausted, bucketQuotaExhausted.
Usable(receipt, bucket) ==
  /\ receipt.status = "active" /\ receipt.expiresAt > now
  /\ receipt.remaining[bucket] > 0

\* executeAsHuman on a paid tool.
CallTool == \E b \in Buckets : store # Nil /\ Usable(store, b) /\ Press("tool", store.id, b)

\* executeAsHuman on canix_get_session: its form asks for an id, the page's own or any
\* other, and whether or not there is a receipt.  One not minted yet is a mistyped one.
Look == \E s \in Sessions : Press("look", s, Nil)

\* buyPrepaidSession: the id is read before the wallet is asked.
Buy == Press("checkout", Nil, Nil)
Refresh == Press("checkout", IF store = Nil THEN Nil ELSE store.id, Nil)

Waiting == busy # Idle /\ busy.answer = Nil

\* GET /sessions/:sessionId.
LookedUp(s) ==
  Told(IF ~Present(s) THEN "SESSION_INVALID" ELSE IF Live(s) THEN "ok" ELSE "SESSION_EXPIRED",
       IF Live(s) THEN Receipt(s) ELSE Nil)

\* The session gate: one unit, or why not.
Consume ==
  LET s == busy.id
      b == busy.bucket
      rest == [server[s].remaining EXCEPT ![b] = @ - 1]
  IN  \/ /\ Live(s) /\ server[s].remaining[b] > 0
         /\ server' = [server EXCEPT ![s].remaining = rest]
         \* the app may fail after the gate, and the quota is not read then
         /\ \/ busy' = [busy EXCEPT !.answer =
                 Told("quota", [Receipt(s) EXCEPT !.remaining = rest])]
            \/ busy' = [busy EXCEPT !.answer = Told("failed", Nil)]
      \/ /\ Live(s) /\ server[s].remaining[b] = 0
         /\ busy' = [busy EXCEPT !.answer = Told("SESSION_EXHAUSTED", Nil)]
         /\ UNCHANGED server
      \/ /\ ~Live(s)
         /\ server' = [server EXCEPT ![s] = Nil]
         /\ busy' = [busy EXCEPT !.answer =
              Told(IF Present(s) THEN "SESSION_EXPIRED" ELSE "SESSION_INVALID", Nil)]

\* POST /sessions and /sessions/refresh once paid: a live session is reset, else one
\* is minted; the answer may be lost.
Grant ==
  \E s \in IF busy.id # Nil /\ Live(busy.id) THEN {busy.id} ELSE Sessions \ minted :
    LET record == [remaining |-> Budget, expiresAt |-> now + Ttl]
        receipt == [id |-> s, remaining |-> Budget, expiresAt |-> now + Ttl,
                    status |-> Status(Budget)]
    IN  /\ server' = [server EXCEPT ![s] = record]
        /\ minted' = minted \cup {s}
        /\ \E code \in {"ok", "failed"} :
             busy' = [busy EXCEPT !.answer = Told(code, IF code = "ok" THEN receipt ELSE Nil)]

Serve ==
  /\ Waiting
  /\ \/ busy.kind = "tool" /\ Consume /\ UNCHANGED minted
     \/ /\ busy.kind = "look"
        /\ busy' = [busy EXCEPT !.answer = LookedUp(busy.id)] /\ UNCHANGED <<server, minted>>
     \/ busy.kind = "checkout" /\ Grant
  /\ UNCHANGED <<now, store, poll, work, history>>

\* Not reached, not paid for, or the store is unavailable: nothing happened.
Refuse ==
  /\ Waiting
  /\ \E code \in {"failed", "SESSION_UNAVAILABLE"} :
       busy' = [busy EXCEPT !.answer = Told(code, Nil)]
  /\ UNCHANGED <<now, server, minted, store, poll, work, history>>

-----------------------------------------------------------------------------
\* applySessionQuota: a receipt that is not active stays so.
WithQuota(receipt, quota) ==
  [receipt EXCEPT
     !.remaining = quota.remaining, !.expiresAt = quota.expiresAt,
     !.status = IF @ = "active" THEN Status(quota.remaining) ELSE @]

\* Bug: any refusal of the session throws the receipt away.
ClearOnRefusal(answer) ==
  IF answer.code = "ok" THEN answer.receipt
  ELSE IF store = Nil \/ answer.code \in {"SESSION_EXHAUSTED", "SESSION_INVALID"} THEN Nil
  ELSE IF answer.code = "quota" THEN WithQuota(store, answer.receipt)
  ELSE store

\* persistHumanResult, on the receipt that is in the store by then, whichever id the
\* answer is about.
Persisted(answer) ==
  CASE answer.code = "ok" -> answer.receipt
    [] answer.code # "ok" /\ store = Nil -> Nil
    [] answer.code = "SESSION_EXPIRED" /\ store # Nil -> [store EXCEPT !.status = "expired"]
    [] answer.code = "SESSION_EXHAUSTED" /\ store # Nil -> [store EXCEPT !.status = "exhausted"]
    [] answer.code = "SESSION_INVALID" /\ store # Nil -> Nil
    [] answer.code = "quota" /\ store # Nil -> WithQuota(store, answer.receipt)
    [] OTHER -> store

ToolDone ==
  /\ busy.kind \in {"tool", "look"} /\ busy.answer # Nil
  /\ store' = Persisted(busy.answer)
  /\ displaced' = (displaced \/ (busy.kind = "look" /\ busy.id # bought
                                 /\ busy.answer.code \in {"ok", "SESSION_INVALID"}))
  /\ busy' = Idle
  /\ UNCHANGED <<now, server, minted, poll, work, bought, crossed>>

\* persistCheckoutResult.
CheckoutDone ==
  /\ busy.kind = "checkout" /\ busy.answer # Nil
  /\ IF busy.answer.code = "ok"
     THEN /\ store' = busy.answer.receipt
          /\ bought' = busy.answer.receipt.id
          /\ crossed' = (poll # IdlePoll /\ poll.receipt.id # bought')
          /\ displaced' = FALSE
     ELSE UNCHANGED <<store, history>>
  /\ busy' = Idle
  /\ UNCHANGED <<now, server, minted, poll, work>>

-----------------------------------------------------------------------------
(***************************************************************************)
(* The poll: refreshSessionRemaining.                                      *)
(***************************************************************************)
StartPoll ==
  /\ poll = IdlePoll /\ store # Nil
  /\ poll' = [IdlePoll EXCEPT !.receipt = store]
  /\ UNCHANGED <<now, server, minted, store, busy, work, history>>

PollServed ==
  /\ poll # IdlePoll /\ poll.answer = Nil
  /\ poll' = [poll EXCEPT !.answer = LookedUp(poll.receipt.id)]
  /\ UNCHANGED <<now, server, minted, store, busy, work, history>>

PollRefused ==
  /\ poll # IdlePoll /\ poll.answer = Nil
  /\ \E code \in {"failed", "SESSION_UNAVAILABLE"} :
       poll' = [poll EXCEPT !.answer = Told(code, Nil)]
  /\ UNCHANGED <<now, server, minted, store, busy, work, history>>

\* Bug: what the server has left is put into the receipt, as after a tool.
PolledQuota ==
  LET answer == poll.answer
  IN  CASE answer.code = "ok" -> WithQuota(poll.receipt, answer.receipt)
        [] answer.code = "SESSION_EXPIRED" -> [poll.receipt EXCEPT !.status = "expired"]
        [] answer.code = "failed" -> store
        [] OTHER -> poll.receipt

\* Any refusal of the session writes back the receipt the poll was sent for.
Polled ==
  LET answer == poll.answer
  IN  CASE answer.code = "ok" -> answer.receipt
        [] answer.code = "SESSION_EXPIRED" -> [poll.receipt EXCEPT !.status = "expired"]
        [] answer.code = "failed" -> store
        [] OTHER -> poll.receipt

PollDone ==
  /\ poll # IdlePoll /\ poll.answer # Nil
  /\ store' = Polled
  /\ poll' = IdlePoll
  /\ UNCHANGED <<now, server, minted, busy, work, history>>

PageNext ==
  \/ ClockTick \/ Evict \/ AgentSpends
  \/ CallTool \/ Look \/ Buy \/ Refresh \/ Serve \/ Refuse \/ ToolDone \/ CheckoutDone
  \/ StartPoll \/ PollServed \/ PollRefused \/ PollDone

PageSpec == PageInit /\ [][PageNext]_pageVars

\* The interval goes on while the page is open, an answer is dealt with, and of
\* many polls one gets through; time, buttons and agents owe nothing.
FairPageSpec ==
  PageSpec /\ WF_pageVars(StartPoll) /\ WF_pageVars(PollDone) /\ SF_pageVars(PollServed)

-----------------------------------------------------------------------------
\* The page's receipt is what the gateway knows of that session, if it does.
Agrees == store # Nil /\ Live(store.id) => store = Receipt(store.id)

\* Whatever was refused, lost, spent elsewhere or answered late, and whichever status
\* a refused call left behind, once the session is left alone the page shows what is
\* left of it and lets it be used again: also a refresh whose answer was lost.
PageCatchesUp == <>[]Agrees

\* "Pay once, then call paid tools against the stored receipt": a session that was
\* bought stays in the page until another checkout or until the gateway has dropped
\* it, whatever is refused, lost or polled; but for two cases: a poll for the session
\* before it was under way when it came, or since then another id was looked up and
\* answered with a session or as unknown.
PurchaseStays ==
  bought # Nil /\ ~crossed /\ ~displaced /\ Live(bought) => store # Nil /\ store.id = bought

-----------------------------------------------------------------------------
(***************************************************************************)
(* Stated by the release notes of 1.6.1 and not kept by the code.          *)
(***************************************************************************)
\* The same whatever was under way or looked up: a poll sent for the session before it
\* writes that one back over the one just bought, and so does the lookup of another
\* session; that of an unknown id leaves no receipt at all.
PurchaseAlwaysStays == bought # Nil /\ Live(bought) => store # Nil /\ store.id = bought
==============================================================================
