------------------------------ MODULE Payments ------------------------------
(***************************************************************************)
(* How money reaches an order and leaves it (apps/api/src/checkout):        *)
(* attempts opened with two providers or confirmed by staff, the providers' *)
(* events, delivered at least once and in any order, refunds, disputes, the *)
(* draft that is rewritten while an attempt is open, and the sweep that     *)
(* closes old drafts.                                                      *)
(*                                                                         *)
(* A worker is one request, webhook delivery or sweep; an action ends where *)
(* what the call has read may go stale.  The stock part of markPaid is      *)
(* StockHolds, and what follows PAID is Fulfillment.                        *)
(***************************************************************************)
EXTENDS OrderStatus, Integers, FiniteSets

CONSTANTS Order, Payment, Worker,
          OrderOf,          \* OrderOf[p]: the order attempt p pays for
          Card, Hosted,     \* attempts through Stripe, through Final Processor;
                            \* the others are transfers that staff confirm
          NoOrder, NoPayment,
          MaxCost,          \* bound on the amounts a rewritten draft goes through
          MaxEvents,        \* bound on the events the providers report
          MaxCrashes        \* bound on calls that die half-way

ASSUME PaymentsAssumption ==
  /\ OrderOf \in [Payment -> Order]
  /\ Card \subseteq Payment /\ Hosted \subseteq Payment /\ Card \cap Hosted = {}
  /\ NoOrder \notin Order /\ NoPayment \notin Payment
  /\ MaxCost \in Nat \ {0} /\ MaxEvents \in Nat /\ MaxCrashes \in Nat

VARIABLES status,    \* status[o]: Order.status
          risk,      \* risk[o]: Order.riskLevel
          cost,      \* cost[o]: Order.totalUsd, as a version of the draft
          sales,     \* sales[o]: what countSale has added for the order
          flagged,   \* orders with a staff note on money that does not fit
          row,       \* row[p]: Payment.state, "NONE" before the row
          refunded,  \* payments that have a Refund row
          remote,    \* remote[p]: what the provider knows of the attempt
          amount,    \* amount[p]: the amount it was opened at
          returned,  \* returned[p]: how much the provider has given back
          events,    \* the events the providers have to deliver
          handled,   \* the events whose WebhookEvent row has processedAt
          job,       \* job[w]: where call w stands
          crashes    \* calls that have died so far

orderVars  == <<status, risk, cost, sales, flagged>>
rowVars    == <<row, refunded>>
remoteVars == <<remote, amount, returned, events>>
vars == <<orderVars, rowVars, remoteVars, handled, job, crashes>>

RiskLevels == {"LOW", "MEDIUM", "HIGH", "BLOCKED"}
Risky      == {"HIGH", "BLOCKED"}
RowStates  == {"NONE", "PROCESSING", "SUCCEEDED", "FAILED", "CANCELLED", "REFUNDED"}
Kinds      == {"succeeded", "failed", "part", "full", "dispute"}
Event      == Kinds \X Payment

\* The statuses in which an order counts as sold.
Sold == {"PAYMENT_REVIEW", "PAID", "FULFILLING", "FULFILLED", "COMPLETED", "PARTIALLY_REFUNDED"}

Steps == {"idle", "look", "mark", "commit", "closed", "refund", "credit", "block", "failed",
          "count", "close", "open", "record", "list", "cancel", "cancelled", "retire",
          "return", "lift", "finish"}
Ops == Kinds \cup {"none", "check", "confirm", "return", "lift", "pay", "draft", "sweep"}

Jobs == [at   : Steps,
         op   : Ops,
         pay  : Payment \cup {NoPayment},
         ord  : Order \cup {NoOrder},
         from : OrderStatuses,   \* the status read
         back : BOOLEAN,         \* markPaid: the row was REFUNDED when read
         hold : BOOLEAN,         \* markPaid: something speaks for review
         risk : RiskLevels,      \* the risk level to write, or the one read
         cost : 0..MaxCost,      \* pay, draft: the amount read, or wanted
         todo : SUBSET Payment]  \* cancelOpenIntents: intents still to cancel
Call(step, op, p, o) ==
  [at |-> step, op |-> op, pay |-> p, ord |-> o, from |-> "PENDING_PAYMENT",
   back |-> FALSE, hold |-> FALSE, risk |-> "LOW", cost |-> 0, todo |-> {}]
Idle == Call("idle", "none", NoPayment, NoOrder)

PayTypeOK ==
  /\ status \in [Order -> OrderStatuses] /\ risk \in [Order -> RiskLevels]
  /\ cost \in [Order -> 1..MaxCost] /\ sales \in [Order -> Int]
  /\ flagged \subseteq Order
  /\ row \in [Payment -> RowStates] /\ refunded \subseteq Payment
  /\ remote \in [Payment -> {"none", "open", "captured", "closed"}]
  /\ amount \in [Payment -> 0..MaxCost]
  /\ returned \in [Payment -> {"no", "part", "full"}]
  /\ events \subseteq Event /\ handled \subseteq events
  /\ job \in [Worker -> Jobs] /\ crashes \in 0..MaxCrashes

Init == /\ status = [o \in Order |-> "PENDING_PAYMENT"]
        /\ risk = [o \in Order |-> "LOW"]
        /\ cost = [o \in Order |-> 1] /\ sales = [o \in Order |-> 0]
        /\ flagged = {} /\ refunded = {}
        /\ row = [p \in Payment |-> "NONE"]
        /\ remote = [p \in Payment |-> "none"]
        /\ amount = [p \in Payment |-> 0]
        /\ returned = [p \in Payment |-> "no"]
        /\ events = {} /\ handled = {}
        /\ job = [w \in Worker |-> Idle] /\ crashes = 0

-----------------------------------------------------------------------------
At(w, step) == job[w].at = step
Becomes(w, call) == job' = [job EXCEPT ![w] = call]
Goto(w, step) == Becomes(w, [job[w] EXCEPT !.at = step])
Return(w) == Becomes(w, Idle)

\* A webhook goes on to mark its event processed; other calls are over.
Done(w) == IF job[w].op \in Kinds
           THEN Becomes(w, Call("finish", job[w].op, job[w].pay, NoOrder))
           ELSE Return(w)

AttemptsOn(o) == {p \in Payment : OrderOf[p] = o}
OpenOn(o, via) == {p \in AttemptsOn(o) \cap via : row[p] = "PROCESSING"}

\* A refund that writes the payment's row keeps it locked until it commits.
RowIsFree(w, p) ==
  \A v \in Worker \ {w} :
    ~(At(v, "credit") /\ job[v].pay = p /\ (job[v].op = "full" \/ p \in Hosted))

-----------------------------------------------------------------------------
(***************************************************************************)
(* The providers.                                                          *)
(***************************************************************************)
Emits(kind, p) == /\ events' = events \cup {<<kind, p>>}
                  /\ Cardinality(events') <= MaxEvents

\* The buyer pays; he was given the means after the row was written.
Capture(p) ==
  /\ remote[p] = "open" /\ row[p] # "NONE"
  /\ remote' = [remote EXCEPT ![p] = "captured"]
  /\ Emits("succeeded", p)
  /\ UNCHANGED <<orderVars, rowVars, amount, returned, handled, job, crashes>>

\* A card is declined, and may be tried again; a hosted session expires.
Decline(p) ==
  /\ remote[p] = "open" /\ row[p] # "NONE"
  /\ remote' = [remote EXCEPT ![p] = IF p \in Hosted THEN "closed" ELSE @]
  /\ Emits("failed", p)
  /\ UNCHANGED <<orderVars, rowVars, amount, returned, handled, job, crashes>>

\* Money goes back, from the provider's dashboard or at the panel's request.
GiveBack(p) ==
  /\ remote[p] = "captured"
  /\ \/ returned[p] = "no" /\ returned' = [returned EXCEPT ![p] = "part"] /\ Emits("part", p)
     \/ returned[p] # "full" /\ returned' = [returned EXCEPT ![p] = "full"] /\ Emits("full", p)
  /\ UNCHANGED <<orderVars, rowVars, remote, amount, handled, job, crashes>>

OpenDispute(p) ==
  /\ p \in Card /\ remote[p] = "captured"
  /\ Emits("dispute", p)
  /\ UNCHANGED <<orderVars, rowVars, remote, amount, returned, handled, job, crashes>>

-----------------------------------------------------------------------------
(***************************************************************************)
(* Webhooks.                                                               *)
(***************************************************************************)
FirstStep(kind, p) ==
  CASE kind = "succeeded" -> IF p \in Hosted THEN "look" ELSE "mark"
    [] kind = "failed"    -> "failed"
    [] kind = "dispute"   -> "block"
    [] OTHER              -> "refund"

\* Mutant: the event is marked processed before it is worked.
Deliver_ClaimFirst(w, kind, p) ==
  /\ At(w, "idle")
  /\ <<kind, p>> \in events \ handled
  /\ handled' = handled \cup {<<kind, p>>}
  /\ Becomes(w, Call(FirstStep(kind, p), kind, p, OrderOf[p]))
  /\ UNCHANGED <<orderVars, rowVars, remoteVars, crashes>>

\* beginWebhook: an event already processed is answered at once; one that is
\* being worked by another call, or was when that call died, is worked (again).
Deliver(w, kind, p) ==
  /\ At(w, "idle")
  /\ <<kind, p>> \in events \ handled
  /\ Becomes(w, Call(FirstStep(kind, p), kind, p, OrderOf[p]))
  /\ UNCHANGED <<orderVars, rowVars, remoteVars, handled, crashes>>

\* finishWebhook.
Finish(w) ==
  /\ At(w, "finish")
  /\ handled' = handled \cup {<<job[w].op, job[w].pay>>}
  /\ Return(w)
  /\ UNCHANGED <<orderVars, rowVars, remoteVars, crashes>>

-----------------------------------------------------------------------------
(***************************************************************************)
(* markPaid.                                                               *)
(***************************************************************************)
\* applySuccess: the amount is compared with the order's, and what has gone back
\* by then is noted for markPaid: the row's word, and the provider's (an event
\* may be older than the refund; the return page asks anew).
CompareHosted(w) ==
  LET p == job[w].pay IN
  /\ At(w, "look")
  /\ IF amount[p] # cost[job[w].ord]
     THEN /\ flagged' = flagged \cup {job[w].ord}
          /\ Done(w)
     ELSE /\ UNCHANGED flagged
          /\ \E told \in IF returned[p] = "no" THEN {FALSE}
                         ELSE IF job[w].op = "check" THEN {TRUE} ELSE BOOLEAN :
               Becomes(w, [job[w] EXCEPT !.at = "mark",
                             !.hold = told \/ row[p] = "REFUNDED" \/ p \in refunded])
  /\ UNCHANGED <<status, risk, cost, sales, rowVars, remoteVars, handled, crashes>>

\* The order and the payment's row are read.  What speaks for review: an amount
\* that does not fit (a transfer has none to compare), the risk level, which is
\* the card network's or the order's, money gone back as noted above, and a
\* spent coupon or a sandbox payment, which are not modelled and left open.
ReadOrder(w) ==
  LET p == job[w].pay  o == job[w].ord IN
  /\ At(w, "mark")
  /\ \E level \in IF p \in Card THEN {"LOW", "HIGH", "BLOCKED"} ELSE {risk[o]},
        other \in BOOLEAN :
       Becomes(w, [job[w] EXCEPT !.at = "commit", !.from = status[o],
                     !.back = (row[p] = "REFUNDED"), !.risk = level,
                     !.hold = \/ @ \/ other \/ level \in Risky
                              \/ p \in Card \cup Hosted /\ amount[p] # cost[o]])
  /\ UNCHANGED <<orderVars, rowVars, remoteVars, handled, crashes>>

\* Mutant: a payment that something speaks against is recorded and no more.
Moves_Unheld(w) == /\ job[w].from = "PENDING_PAYMENT" /\ status[job[w].ord] = "PENDING_PAYMENT"
                   /\ ~job[w].hold

\* Whether the compare-and-set of markPaid moves the order.
Moves(w) == job[w].from = "PENDING_PAYMENT" /\ status[job[w].ord] = "PENDING_PAYMENT"

\* Mutant: the answer is the status read at the start.
Found_Stale(w) == job[w].from

\* The status markPaid answers with when it has moved nothing.
Found(w) == IF job[w].from = "PENDING_PAYMENT" THEN status[job[w].ord] ELSE job[w].from

\* The payment is recorded in any case; the order moves if it was read pending
\* and still is.  Money for a closed order is flagged (Final Processor only).
Commit(w) ==
  LET p == job[w].pay  o == job[w].ord IN
  /\ At(w, "commit") /\ RowIsFree(w, p)
  /\ row' = [row EXCEPT ![p] = IF job[w].back THEN "REFUNDED" ELSE "SUCCEEDED"]
  /\ IF Moves(w)
     THEN /\ status' = [status EXCEPT ![o] = IF job[w].hold THEN "PAYMENT_REVIEW" ELSE "PAID"]
          /\ risk' = [risk EXCEPT ![o] = job[w].risk]
          /\ sales' = [sales EXCEPT ![o] = @ + 1]
          /\ Done(w)
     ELSE /\ UNCHANGED <<status, risk, sales>>
          /\ IF Found(w) \in {"CANCELLED", "FAILED"} /\ p \in Hosted
             THEN Goto(w, "closed") ELSE Done(w)
  /\ UNCHANGED <<cost, flagged, refunded, remoteVars, handled, crashes>>

\* The units of a hold that lapsed are promised to another cart (StockHolds), and
\* the sale breaks a CHECK: everything is rolled back, the record of the payment
\* with it, and the call ends in an error with its event unprocessed.
CommitFails(w) ==
  /\ At(w, "commit") /\ RowIsFree(w, job[w].pay) /\ Moves(w)
  /\ Return(w)
  /\ UNCHANGED <<orderVars, rowVars, remoteVars, handled, crashes>>

\* flag, with the order found closed.
FlagClosed(w) ==
  /\ At(w, "closed")
  /\ flagged' = flagged \cup {job[w].ord}
  /\ Done(w)
  /\ UNCHANGED <<status, risk, cost, sales, rowVars, remoteVars, handled, crashes>>

\* The buyer's return page: an open payment is confirmed with the processor.
CheckStatus(w, p) ==
  /\ At(w, "idle") /\ p \in Hosted
  /\ status[OrderOf[p]] = "PENDING_PAYMENT" /\ row[p] = "PROCESSING"
  /\ remote[p] = "captured" /\ returned[p] # "full"
  /\ Becomes(w, Call("look", "check", p, OrderOf[p]))
  /\ UNCHANGED <<orderVars, rowVars, remoteVars, handled, crashes>>

\* confirmPayment: staff confirm a transfer on an order that awaits its payment.
ConfirmPayment(w, p) ==
  /\ At(w, "idle") /\ p \notin Card \cup Hosted
  /\ status[OrderOf[p]] = "PENDING_PAYMENT"
  /\ Becomes(w, Call("mark", "confirm", p, OrderOf[p]))
  /\ UNCHANGED <<orderVars, rowVars, remoteVars, handled, crashes>>

-----------------------------------------------------------------------------
(***************************************************************************)
(* Attempts that fail, money that goes back, disputes and holds.           *)
(***************************************************************************)
\* Mutant: a failure reported late overwrites the outcome.
FailRow_Blind(p) == row' = [row EXCEPT ![p] = "FAILED"]

FailRow(p) == row' = [row EXCEPT ![p] = IF @ = "PROCESSING" THEN "FAILED" ELSE @]

\* markPaymentFailed for a card.  For a hosted session, which has expired,
\* applyFailure goes on if the order was still pending.
Fail(w) ==
  LET p == job[w].pay IN
  /\ At(w, "failed") /\ RowIsFree(w, p)
  /\ FailRow(p)
  /\ IF p \in Hosted /\ status[job[w].ord] = "PENDING_PAYMENT" THEN Goto(w, "count") ELSE Done(w)
  /\ UNCHANGED <<orderVars, refunded, remoteVars, handled, crashes>>

\* Nothing else is paying for the order: no attempt open or succeeded, and no
\* transfer the buyer was sent the details for (the mail log is left open).
CountOthers(w) ==
  LET others == AttemptsOn(job[w].ord) \ {job[w].pay} IN
  /\ At(w, "count")
  /\ \/ /\ \A q \in others : row[q] \notin {"PROCESSING", "SUCCEEDED"}
        /\ Goto(w, "close")
     \/ Done(w)
  /\ UNCHANGED <<orderVars, rowVars, remoteVars, handled, crashes>>

\* The draft is closed if it is pending still: by an expired session, or by the
\* expiry sweep once the intents are cancelled.
CloseDraft(w) ==
  LET o == job[w].ord IN
  /\ At(w, "close")
  /\ status' = [status EXCEPT ![o] = AfterTransition(@, "PENDING_PAYMENT", "CANCELLED")]
  /\ Done(w)
  /\ UNCHANGED <<risk, cost, sales, flagged, rowVars, remoteVars, handled, crashes>>

\* recordRefundOutcome reads the status it moves the order from.
ReadForRefund(w) ==
  /\ At(w, "refund") /\ RowIsFree(w, job[w].pay)
  /\ Becomes(w, [job[w] EXCEPT !.at = "credit", !.from = status[job[w].ord]])
  /\ UNCHANGED <<orderVars, rowVars, remoteVars, handled, crashes>>

Outcome(w) == IF job[w].op = "full" THEN "REFUNDED" ELSE "PARTIALLY_REFUNDED"

\* Mutant: the row is given the order's outcome.
Returned_Outcome(w) == Outcome(w)

\* The state of the payment's row after the refund.
Returned(w) == IF job[w].op = "full" THEN "REFUNDED" ELSE row[job[w].pay]

\* Mutant: every full refund takes the sale back, moved or not.
TakesBack_Always(w, moved) == job[w].op = "full"

TakesBack(w, moved) == job[w].op = "full" /\ moved

\* The refund is recorded whatever the status can say; a full one takes the
\* sale back if this call moved the order.
Credit(w) ==
  LET p == job[w].pay  o == job[w].ord
      after == AfterTransition(status[o], job[w].from, Outcome(w)) IN
  /\ At(w, "credit")
  /\ refunded' = refunded \cup {p}
  /\ row' = [row EXCEPT ![p] = Returned(w)]
  /\ status' = [status EXCEPT ![o] = after]
  /\ sales' = [sales EXCEPT ![o] = IF TakesBack(w, after # status[o]) THEN @ - 1 ELSE @]
  /\ Done(w)
  /\ UNCHANGED <<risk, cost, flagged, remoteVars, handled, crashes>>

\* refundOrder for a transfer, returned by staff outside the store.
AskReturn(w, p) ==
  /\ At(w, "idle") /\ p \notin Card \cup Hosted
  /\ row[p] = "SUCCEEDED" /\ status[OrderOf[p]] \in Sold
  /\ Becomes(w, [Call("return", "return", p, OrderOf[p]) EXCEPT !.from = status[OrderOf[p]]])
  /\ UNCHANGED <<orderVars, rowVars, remoteVars, handled, crashes>>

\* All of it is recorded, or nothing if somebody moved the order meanwhile.
RecordReturn(w) ==
  LET p == job[w].pay  o == job[w].ord IN
  /\ At(w, "return")
  /\ IF status[o] = job[w].from
     THEN /\ refunded' = refunded \cup {p}
          /\ row' = [row EXCEPT ![p] = "REFUNDED"]
          /\ status' = [status EXCEPT ![o] = "REFUNDED"]
          /\ sales' = [sales EXCEPT ![o] = @ - 1]
     ELSE UNCHANGED <<refunded, row, status, sales>>
  /\ Return(w)
  /\ UNCHANGED <<risk, cost, flagged, remoteVars, handled, crashes>>

\* applyDispute blocks the order in whatever status it is.
Block(w) ==
  /\ At(w, "block")
  /\ risk' = [risk EXCEPT ![job[w].ord] = "BLOCKED"]
  /\ Done(w)
  /\ UNCHANGED <<status, cost, sales, flagged, rowVars, remoteVars, handled, crashes>>

OnHold(o) == \/ status[o] = "PAYMENT_REVIEW"
             \/ status[o] \in Deliverable /\ risk[o] \in Risky

\* releaseHold: staff look at an order on hold, and lift what they saw.
AskLift(w, o) ==
  /\ At(w, "idle") /\ OnHold(o)
  /\ Becomes(w, [Call("lift", "lift", NoPayment, o) EXCEPT !.from = status[o], !.risk = risk[o]])
  /\ UNCHANGED <<orderVars, rowVars, remoteVars, handled, crashes>>

\* Mutant: the compare-and-set covers the status only, as transitionOrder's does.
AsSeen_StatusOnly(w) == status[job[w].ord] = job[w].from

AsSeen(w) == status[job[w].ord] = job[w].from /\ risk[job[w].ord] = job[w].risk

Lift(w) ==
  LET o == job[w].ord IN
  /\ At(w, "lift")
  /\ IF AsSeen(w)
     THEN /\ risk' = [risk EXCEPT ![o] = "MEDIUM"]
          /\ status' = [status EXCEPT ![o] = IF @ = "PAYMENT_REVIEW" THEN "PAID" ELSE @]
     ELSE UNCHANGED <<risk, status>>
  /\ Return(w)
  /\ UNCHANGED <<cost, sales, flagged, rowVars, remoteVars, handled, crashes>>

-----------------------------------------------------------------------------
(***************************************************************************)
(* Drafts and the attempts opened on them.                                 *)
(***************************************************************************)
\* pay: the order is looked up and the amount taken from it.
Pay(w, o) ==
  /\ At(w, "idle") /\ status[o] = "PENDING_PAYMENT"
  /\ Becomes(w, [Call("open", "pay", NoPayment, o) EXCEPT !.cost = cost[o]])
  /\ UNCHANGED <<orderVars, rowVars, remoteVars, handled, crashes>>

Start(w, p) ==
  /\ remote' = [remote EXCEPT ![p] = "open"]
  /\ amount' = [amount EXCEPT ![p] = job[w].cost]
  /\ Becomes(w, [job[w] EXCEPT !.at = "record", !.pay = p])

Reuse(w, p) ==
  /\ Becomes(w, [job[w] EXCEPT !.at = "record", !.pay = p])
  /\ UNCHANGED <<remote, amount>>

\* Stripe's idempotency key is the order and the amount: the same intent comes
\* back, whatever has become of it.
OpenIntent(w) ==
  LET known == {p \in AttemptsOn(job[w].ord) \cap Card : remote[p] # "none"}
      same  == {p \in known : amount[p] = job[w].cost} IN
  /\ At(w, "open")
  /\ \/ \E p \in same : Reuse(w, p)
     \/ same = {} /\ \E p \in (AttemptsOn(job[w].ord) \cap Card) \ known : Start(w, p)
  /\ UNCHANGED <<orderVars, rowVars, returned, events, handled, crashes>>

\* Final Processor has one live payment an order: the same comes back, or the
\* call is refused as order_ref_conflict if the amount is another.
OpenSession(w) ==
  LET attempts == AttemptsOn(job[w].ord) \cap Hosted
      live == {p \in attempts : remote[p] \in {"open", "captured"}} IN
  /\ At(w, "open")
  /\ \/ \E p \in live : \/ amount[p] = job[w].cost /\ Reuse(w, p)
                       \/ /\ amount[p] # job[w].cost /\ Goto(w, "retire")
                          /\ UNCHANGED <<remote, amount>>
     \/ live = {} /\ \E p \in attempts : remote[p] = "none" /\ Start(w, p)
  /\ UNCHANGED <<orderVars, rowVars, returned, events, handled, crashes>>

\* The row is created, or left as it is; then the other intents go.
RecordAttempt(w) ==
  LET p == job[w].pay IN
  /\ At(w, "record") /\ RowIsFree(w, p)
  /\ row' = [row EXCEPT ![p] = IF @ = "NONE" THEN "PROCESSING" ELSE @]
  /\ IF p \in Card THEN Goto(w, "list") ELSE Return(w)
  /\ UNCHANGED <<orderVars, refunded, remoteVars, handled, crashes>>

\* start: the draft of the cart is found, at a new amount.  With a hosted
\* attempt open at another amount it is retired, else rewritten.
FindDraft(w, o, c) ==
  /\ At(w, "idle") /\ status[o] = "PENDING_PAYMENT"
  /\ Becomes(w, [Call(IF \E p \in OpenOn(o, Hosted) : amount[p] # c THEN "retire" ELSE "list",
                      "draft", NoPayment, o) EXCEPT !.cost = c])
  /\ UNCHANGED <<orderVars, rowVars, remoteVars, handled, crashes>>

Retired(o) == OpenOn(o, Hosted)

\* retireDraft: the open attempts are marked whether or not the order moves.
RetireDraft(w) ==
  LET o == job[w].ord IN
  /\ At(w, "retire") /\ \A p \in Retired(o) : RowIsFree(w, p)
  /\ status' = [status EXCEPT ![o] = AfterTransition(@, "PENDING_PAYMENT", "CANCELLED")]
  /\ row' = [p \in Payment |-> IF p \in Retired(o) THEN "CANCELLED" ELSE row[p]]
  /\ Return(w)
  /\ UNCHANGED <<risk, cost, sales, flagged, refunded, remoteVars, handled, crashes>>

\* The expiry sweep finds an old draft without a succeeded payment; one sweep
\* runs at a time.
FindStale(w, o) ==
  /\ At(w, "idle") /\ \A v \in Worker : job[v].op # "sweep"
  /\ status[o] = "PENDING_PAYMENT"
  /\ \A p \in AttemptsOn(o) : row[p] # "SUCCEEDED"
  /\ Becomes(w, Call("list", "sweep", NoPayment, o))
  /\ UNCHANGED <<orderVars, rowVars, remoteVars, handled, crashes>>

\* cancelOpenIntents.
ListIntents(w) ==
  /\ At(w, "list")
  /\ Becomes(w, [job[w] EXCEPT !.at = "cancel", !.todo = OpenOn(job[w].ord, Card) \ {job[w].pay},
                               !.pay = NoPayment])
  /\ UNCHANGED <<orderVars, rowVars, remoteVars, handled, crashes>>

\* Stripe cancels an open intent, and refuses one captured or cancelled.
CancelIntent(w, p) ==
  /\ At(w, "cancel") /\ p \in job[w].todo
  /\ IF remote[p] = "open"
     THEN /\ remote' = [remote EXCEPT ![p] = "closed"]
          /\ Becomes(w, [job[w] EXCEPT !.at = "cancelled", !.pay = p, !.todo = @ \ {p}])
     ELSE /\ UNCHANGED remote
          /\ Becomes(w, [job[w] EXCEPT !.todo = @ \ {p}])
  /\ UNCHANGED <<orderVars, rowVars, amount, returned, events, handled, crashes>>

RecordCancel(w) ==
  LET p == job[w].pay IN
  /\ At(w, "cancelled") /\ RowIsFree(w, p)
  /\ row' = [row EXCEPT ![p] = IF @ = "PROCESSING" THEN "CANCELLED" ELSE @]
  /\ Becomes(w, [job[w] EXCEPT !.at = "cancel", !.pay = NoPayment])
  /\ UNCHANGED <<orderVars, refunded, remoteVars, handled, crashes>>

\* With the intents gone, a draft is rewritten, an old one closed, and the
\* buyer given his.  The rewrite has no condition on the status.
AfterCancel(w) ==
  /\ At(w, "cancel") /\ job[w].todo = {}
  /\ IF job[w].op = "sweep" THEN Goto(w, "close") ELSE Return(w)
  /\ cost' = IF job[w].op = "draft" THEN [cost EXCEPT ![job[w].ord] = job[w].cost] ELSE cost
  /\ UNCHANGED <<status, risk, sales, flagged, rowVars, remoteVars, handled, crashes>>

-----------------------------------------------------------------------------
\* The delivery pipeline moves a paid order on.
Fulfil(o) ==
  /\ \E to \in {"FULFILLING", "FULFILLED"} :
       CanTransition(status[o], to) /\ status' = [status EXCEPT ![o] = to]
  /\ UNCHANGED <<risk, cost, sales, flagged, rowVars, remoteVars, handled, job, crashes>>

\* A call dies; the transaction it is in rolls back.
Crash(w) ==
  /\ ~At(w, "idle") /\ crashes < MaxCrashes
  /\ crashes' = crashes + 1
  /\ Return(w)
  /\ UNCHANGED <<orderVars, rowVars, remoteVars, handled>>

Provider == \E p \in Payment : Capture(p) \/ Decline(p) \/ GiveBack(p) \/ OpenDispute(p)

Begin(w) ==
  \/ \E p \in Payment : \/ \E kind \in Kinds : Deliver(w, kind, p)
                        \/ CheckStatus(w, p) \/ ConfirmPayment(w, p) \/ AskReturn(w, p)
  \/ \E o \in Order : \/ \E c \in 1..MaxCost : FindDraft(w, o, c)
                      \/ AskLift(w, o) \/ Pay(w, o) \/ FindStale(w, o)

Proceed(w) ==
  \/ CompareHosted(w) \/ ReadOrder(w) \/ Commit(w) \/ CommitFails(w) \/ FlagClosed(w)
  \/ Fail(w) \/ CountOthers(w) \/ CloseDraft(w)
  \/ ReadForRefund(w) \/ Credit(w) \/ RecordReturn(w) \/ Block(w) \/ Lift(w)
  \/ OpenIntent(w) \/ OpenSession(w) \/ RecordAttempt(w) \/ RetireDraft(w)
  \/ ListIntents(w) \/ (\E p \in Payment : CancelIntent(w, p)) \/ RecordCancel(w) \/ AfterCancel(w)
  \/ Finish(w)

Next == \/ \E w \in Worker : Begin(w) \/ Proceed(w) \/ Crash(w)
        \/ Provider
        \/ \E o \in Order : Fulfil(o)

Spec == Init /\ [][Next]_vars
-----------------------------------------------------------------------------
(***************************************************************************)
(* Safety.                                                                 *)
(***************************************************************************)
\* Money whose event has been dealt with is on record: no late failure, retired
\* draft, cancelled intent or second delivery takes it off again.  What the
\* processor took at an amount that does not fit is on the order for staff.
MoneyIsOnRecord ==
  \A p \in Payment : <<"succeeded", p>> \in handled =>
    row[p] \in {"SUCCEEDED", "REFUNDED"} \/ OrderOf[p] \in flagged

\* No order awaits payment while a payment of it is recorded as received, which
\* is what keeps the sweep, and an expired session, from cancelling paid orders.
SucceededIsApplied ==
  \A p \in Payment : row[p] = "SUCCEEDED" => status[OrderOf[p]] # "PENDING_PAYMENT"

\* An order is counted as sold once while it is sold, and not at all before it
\* is paid and after it was refunded in full, whatever payments, refunds and
\* releases of it race or are reported twice.
SaleIsCounted ==
  \A o \in Order : sales[o] = IF status[o] \in Sold THEN 1 ELSE 0

\* The orders and the payments on record, as OrderBook sees them.
Book == INSTANCE OrderBook WITH
          received <- {p \in Payment : row[p] \in {"SUCCEEDED", "REFUNDED"}}

\* Orders and the payments on record are the abstract OrderBook: every status
\* moves along the map, no order is released but by a payment that is recorded in
\* the same step, nothing takes a payment off the record again, and an order is
\* counted as sold once while it is sold, whatever events, refunds, releases,
\* sweeps and retired drafts race or are reported twice.
OrderBookKept == Book!Spec

\* Final Processor's money for an order that was closed before it arrived, or
\* while its event was being worked, does not go unnoticed.
ClosedOrderIsFlagged ==
  \A p \in Hosted : <<"succeeded", p>> \in handled /\ status[OrderOf[p]] = "CANCELLED"
    => OrderOf[p] \in flagged

\* Once an order is paid, only staff who saw it blocked unblock it: neither a
\* late payment nor a release asked for before the dispute does.
DisputeIsSeen ==
  [][\A o \in Order :
       risk[o] = "BLOCKED" /\ risk'[o] # "BLOCKED" /\ status[o] # "PENDING_PAYMENT"
         => \E w \in Worker : /\ At(w, "lift") /\ job[w].ord = o /\ job[w].risk = "BLOCKED"
                              /\ job'[w] = Idle]_vars

\* The other half of the agreement that Fulfillment relies on: whatever calls race
\* here, they move an order only by the moves that are checkout's, and what
\* delivery is taken to do beside them is what DeliveryMovesItsOwn says it does.
CheckoutMovesItsOwn ==
  [][\A o \in Order : status'[o] # status[o] =>
       <<status[o], status'[o]>> \in IF job' = job THEN DeliveryMoves ELSE CheckoutMoves]_vars

(***************************************************************************)
(* Liveness.  A started call goes on, and the providers deliver a payment's *)
(* success again until a delivery of it is answered.                       *)
(***************************************************************************)
Fairness ==
  /\ \A w \in Worker : WF_vars(Proceed(w))
  /\ \A p \in Payment : SF_vars(\E w \in Worker : Deliver(w, "succeeded", p))

FairSpec == Spec /\ Fairness

\* From some time on the shelf refuses the sale of order o no more.
ShelfHasRoom(o) == <>[][\A w \in Worker : CommitFails(w) => job[w].ord # o]_vars

\* Money that was taken ends on record, or before staff, even if the call that
\* works its event dies or is rolled back, unless the shelf refuses the order's
\* sale for ever: then nothing applies the payment and nobody is told.
CapturedIsApplied ==
  \A p \in Payment : ShelfHasRoom(OrderOf[p]) =>
    (remote[p] = "captured" ~> (row[p] \in {"SUCCEEDED", "REFUNDED"} \/ OrderOf[p] \in flagged))
=============================================================================
