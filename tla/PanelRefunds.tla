---------------------------- MODULE PanelRefunds ----------------------------
(***************************************************************************)
(* Refunds of one payment made through Final Processor (checkout/          *)
(* fp-payments.service.ts): staff give back all or part of it from the     *)
(* panel, the processor's own dashboard does too, answers are lost or come *)
(* late, and the processor's events report each refund at least once and in*)
(* any order.                                                              *)
(*                                                                         *)
(* A Refund row and the processor's refund share a member of Refund: the   *)
(* row's own id is the reference the processor is asked with.              *)
(***************************************************************************)
EXTENDS OrderStatus, Integers, FiniteSets

CONSTANTS Refund,      \* the refunds that can be started
          Worker,      \* panel requests and webhook deliveries
          Paid,        \* Payment.amountUsd, in units
          NoRefund,
          MaxCrashes   \* bound on calls that die half-way

ASSUME RefundsAssumption ==
  /\ IsFiniteSet(Refund) /\ NoRefund \notin Refund
  /\ Paid \in Nat \ {0} /\ MaxCrashes \in Nat

VARIABLES status,    \* Order.status
          sales,     \* what countSale has added for the order
          state,     \* Payment.state
          total,     \* Payment.refundedUsd
          row,       \* row[r]: Refund.status, "NONE" before the row
          size,      \* size[r]: the amount of refund r
          known,     \* rows with a providerRef: an answer or an event came
          flagged,   \* refunds staff have a note about
          remote,    \* remote[r]: what the processor has made of refund r
          strict,    \* whether the processor checks the balance itself
          events,    \* events to deliver: <<kind, refund, refunded_minor>>
          handled,   \* events whose WebhookEvent row has processedAt
          job,       \* job[w]: where call w stands
          crashes,   \* calls that have died so far
          \* History, which no guard reads:
          lost,      \* a refund lost its compare-and-set of the order's status
          overlapped \* two requests of the panel were under way at once

payVars    == <<status, sales, state, total, lost>>
rowVars    == <<row, known, flagged>>
remoteVars == <<remote, strict, events>>
vars == <<payVars, rowVars, size, remoteVars, handled, job, crashes, overlapped>>

\* Where money was taken and not all of it given back: REFUNDABLE.
Refundable == {"PAYMENT_REVIEW", "PAID", "FULFILLING", "FULFILLED", "COMPLETED",
               "PARTIALLY_REFUNDED"}

RowStates    == {"NONE", "PENDING", "SUCCEEDED", "FAILED"}
RemoteStates == {"none", "pending", "succeeded", "failed"}
Event        == {"refunded", "failed"} \X Refund \X Nat
PanelSteps   == {"create", "ask", "wait", "refused", "heard", "settle", "move", "note"}
HookSteps    == {"apply", "enter", "tell", "finish"}

Jobs == [at    : {"idle"} \cup PanelSteps \cup HookSteps,
         ref   : Refund \cup {NoRefund},
         kind  : {"none", "refunded", "failed"},   \* the event
         heard : RemoteStates,                     \* the processor's answer
         sum   : Int,   \* the amount decided, read off the rows, or the event's
         from  : OrderStatuses \cup {"none"}]      \* the order's status, once read
Call(step, r, kind, n) ==
  [at |-> step, ref |-> r, kind |-> kind, heard |-> "none", sum |-> n, from |-> "none"]
Idle == Call("idle", NoRefund, "none", 0)

RefundTypeOK ==
  /\ status \in OrderStatuses /\ sales \in Int
  /\ state \in {"SUCCEEDED", "REFUNDED"} /\ total \in Nat
  /\ row \in [Refund -> RowStates] /\ size \in [Refund -> 0..Paid]
  /\ known \subseteq Refund /\ flagged \subseteq Refund
  /\ remote \in [Refund -> RemoteStates] /\ strict \in BOOLEAN
  /\ events \subseteq Event /\ handled \subseteq events
  /\ job \in [Worker -> Jobs] /\ crashes \in 0..MaxCrashes
  /\ lost \in BOOLEAN /\ overlapped \in BOOLEAN

\* The order as markPaid or its delivery left it.
Init == /\ status \in {"PAYMENT_REVIEW", "PAID", "FULFILLING", "FULFILLED"} /\ sales = 1
        /\ state = "SUCCEEDED" /\ total = 0
        /\ row = [r \in Refund |-> "NONE"] /\ size = [r \in Refund |-> 0]
        /\ known = {} /\ flagged = {}
        /\ remote = [r \in Refund |-> "none"] /\ strict \in BOOLEAN
        /\ events = {} /\ handled = {}
        /\ job = [w \in Worker |-> Idle] /\ crashes = 0
        /\ lost = FALSE /\ overlapped = FALSE

-----------------------------------------------------------------------------
At(w, step) == job[w].at = step
Becomes(w, call) == job' = [job EXCEPT ![w] = call]
Goto(w, step) == Becomes(w, [job[w] EXCEPT !.at = step])
Return(w) == Becomes(w, Idle)

\* What the refunds of S add up to, counted unit by unit.
Units(S) == {u \in Refund \X (1..Paid) : u[1] \in S /\ u[2] <= size[u[1]]}
Sum(S) == Cardinality(Units(S))

RowsIn(states)   == {r \in Refund : row[r] \in states}
RemoteIn(states) == {r \in Refund : remote[r] \in states}

\* What the processor has given back so far.
Given == Sum(RemoteIn({"succeeded"}))

Fresh(r) == row[r] = "NONE" /\ remote[r] = "none" /\ \A w \in Worker : job[w].ref # r

\* A refund's row is locked from the statement that writes it to the commit.
RowIsFree(w, r) ==
  \A v \in Worker \ {w} : ~(job[v].at \in {"settle", "move", "enter"} /\ job[v].ref = r)

\* The payment's row is locked by the update that raises its total, by the one
\* that closes it, and by an event's own, which is unconditional.
TakesPayment(w) == At(w, "apply") \/ At(w, "enter") \/ job[w].sum > total \/ job[w].sum >= Paid
HoldsPayment(w) == job[w].at \in {"move", "enter"} /\ TakesPayment(w)

-----------------------------------------------------------------------------
(***************************************************************************)
(* The processor.                                                        *)
(***************************************************************************)
\* A new refund fits into what was paid less what it has under way.
Fits(n) == n + Sum(RemoteIn({"pending", "succeeded"})) <= Paid

\* Somebody refunds in the processor's dashboard, which is never without a check.
Dashboard(r, n) ==
  /\ strict /\ Fresh(r) /\ Fits(n)
  /\ size' = [size EXCEPT ![r] = n]
  /\ remote' = [remote EXCEPT ![r] = "pending"]
  /\ UNCHANGED <<payVars, rowVars, strict, events, handled, job, crashes, overlapped>>

\* The gateway completes a refund or rejects it, and the event is queued with
\* the payment's total as it is then.
Complete(r, kind) ==
  /\ remote[r] = "pending"
  /\ remote' = [remote EXCEPT ![r] = IF kind = "refunded" THEN "succeeded" ELSE "failed"]
  /\ events' = events \cup
       {<<kind, r, Sum({q \in Refund : remote'[q] = "succeeded"})>>}
  /\ UNCHANGED <<payVars, rowVars, size, strict, handled, job, crashes, overlapped>>

\* Delivery, or staff who release a hold, move the order meanwhile.
OthersMove ==
  /\ \E m \in DeliveryMoves \cup {<<"PAYMENT_REVIEW", "PAID">>} : status = m[1] /\ status' = m[2]
  /\ UNCHANGED <<sales, state, total, lost, rowVars, size, remoteVars, handled, job, crashes,
                 overlapped>>

-----------------------------------------------------------------------------
(***************************************************************************)
(* refund: the panel's request.                                          *)
(***************************************************************************)
\* A refund whose answer never came back.
Unconfirmed == RowsIn({"PENDING"}) \ known

\* What was given back or may yet be.
Committed == Sum(RowsIn({"PENDING", "SUCCEEDED"}))

\* The payment as the request must find it.
MayRefund == status \in Refundable /\ state = "SUCCEEDED"

\* No other request of the panel is under way.  Nothing in the code sees to it.
Alone(w) == \A v \in Worker \ {w} : job[v].at \notin PanelSteps
Started(w) == overlapped' = (overlapped \/ ~Alone(w))

\* Nothing is unconfirmed: a new refund, of an amount that is left.
StartRefund(w, n) ==
  /\ At(w, "idle") /\ MayRefund
  /\ Unconfirmed = {}
  /\ n <= Paid - Committed
  /\ Becomes(w, Call("create", NoRefund, "none", n))
  /\ Started(w)
  /\ UNCHANGED <<payVars, rowVars, size, remoteVars, handled, crashes>>

\* An unconfirmed refund is asked for again, by its own reference and amount.
RetryRefund(w, r) ==
  /\ At(w, "idle") /\ MayRefund
  /\ r \in Unconfirmed
  /\ Becomes(w, Call("ask", r, "none", 0))
  /\ Started(w)
  /\ UNCHANGED <<payVars, rowVars, size, remoteVars, handled, crashes>>

CreateRow(w, r) ==
  /\ At(w, "create") /\ Fresh(r)
  /\ row' = [row EXCEPT ![r] = "PENDING"]
  /\ size' = [size EXCEPT ![r] = job[w].sum]
  /\ Becomes(w, Call("ask", r, "none", 0))
  /\ UNCHANGED <<payVars, known, flagged, remoteVars, handled, crashes, overlapped>>

\* The request reaches the processor.  A reference it knows is never refunded
\* twice; a new one it takes up, or refuses for good.
Ask(w) ==
  LET r == job[w].ref IN
  /\ At(w, "ask")
  /\ \/ remote[r] # "none" /\ Goto(w, "wait") /\ UNCHANGED remote
     \/ /\ remote[r] = "none" /\ (strict => Fits(size[r]))
        /\ remote' = [remote EXCEPT ![r] = "pending"]
        /\ Goto(w, "wait")
     \/ remote[r] = "none" /\ Goto(w, "refused") /\ UNCHANGED remote
  /\ UNCHANGED <<payVars, rowVars, size, strict, events, handled, crashes, overlapped>>

\* It answers with what has become of the refund by then.
Hear(w) ==
  /\ At(w, "wait")
  /\ Becomes(w, [job[w] EXCEPT !.at = "heard", !.heard = remote[job[w].ref]])
  /\ UNCHANGED <<payVars, rowVars, size, remoteVars, handled, crashes, overlapped>>

\* Mutant: an error of any kind is taken for a refusal.
Lose_AsRefusal(w) ==
  /\ At(w, "ask") \/ At(w, "wait")
  /\ Goto(w, "refused")
  /\ UNCHANGED <<payVars, rowVars, size, remoteVars, handled, crashes, overlapped>>

\* The request or its answer is lost: the row stays as it is, and staff are told
\* to try again.
Lose(w) ==
  /\ At(w, "ask") \/ At(w, "wait")
  /\ Return(w)
  /\ UNCHANGED <<payVars, rowVars, size, remoteVars, handled, crashes, overlapped>>

\* Mutant: the processor's word is stored as it came.
RefundStatusFrom_Raw(answer) == answer

RefundStatusFrom(answer) ==
  IF answer = "failed" THEN "FAILED" ELSE IF answer = "succeeded" THEN "SUCCEEDED" ELSE "PENDING"

RecordRefusal(w) ==
  LET r == job[w].ref IN
  /\ At(w, "refused") /\ RowIsFree(w, r)
  /\ row' = [row EXCEPT ![r] = "FAILED"]
  /\ Return(w)
  /\ UNCHANGED <<payVars, known, flagged, size, remoteVars, handled, crashes, overlapped>>

\* The answer is written over whatever the row holds by now.
RecordAnswer(w) ==
  LET r == job[w].ref IN
  /\ At(w, "heard") /\ job[w].heard # "succeeded" /\ RowIsFree(w, r)
  /\ row' = [row EXCEPT ![r] = RefundStatusFrom(job[w].heard)]
  /\ known' = known \cup {r}
  /\ IF job[w].heard = "failed" THEN Goto(w, "note") ELSE Return(w)
  /\ UNCHANGED <<payVars, flagged, size, remoteVars, handled, crashes, overlapped>>

\* What has gone back, by the rows a transaction that writes r can see.
GivenByRows(r) == Sum(RowsIn({"SUCCEEDED"}) \cup {r})

\* settleFromRows adds the rows up; another call's row may not be committed yet.
AddUp(w) ==
  LET r == job[w].ref IN
  /\ At(w, "heard") /\ job[w].heard = "succeeded" /\ RowIsFree(w, r)
  /\ Becomes(w, [job[w] EXCEPT !.at = "settle", !.sum = GivenByRows(r)])
  /\ UNCHANGED <<payVars, rowVars, size, remoteVars, handled, crashes, overlapped>>

\* Mutant: the payment's total is overwritten.
Raised_Blind(n) == n

\* raiseRefunded: the total only goes up.
Raised(n) == IF n > total THEN n ELSE total

\* recordRefundOutcome reads the order's status when the refund and the payment
\* are written, neither of them committed yet.
ReadOrder(w, step) ==
  /\ TakesPayment(w) => \A v \in Worker \ {w} : ~HoldsPayment(v)
  /\ Becomes(w, [job[w] EXCEPT !.at = step, !.from = status])
  /\ UNCHANGED <<payVars, rowVars, size, remoteVars, handled, crashes, overlapped>>

ReadToSettle(w) == At(w, "settle") /\ ReadOrder(w, "move")

\* Mutant: the order is written whatever it has become since it was read.
Outcome_Blind(from, full) ==
  LET to == IF full THEN "REFUNDED" ELSE "PARTIALLY_REFUNDED" IN
  /\ status' = AfterTransition(from, from, to)
  /\ lost' = lost
  /\ sales' = IF full /\ from # to THEN sales - 1 ELSE sales

\* Then it moves the order by compare-and-set, and the sale with it.  One that is
\* lost is skipped: the refund is booked and the order stays as it is.
Outcome(from, full) ==
  LET to == IF full THEN "REFUNDED" ELSE "PARTIALLY_REFUNDED" IN
  /\ status' = AfterTransition(status, from, to)
  /\ lost' = (lost \/ (CanTransition(from, to) /\ status # from))
  /\ sales' = IF full /\ status' # status THEN sales - 1 ELSE sales

\* The refund is recorded as given back, with the call's sum as the total.
GiveBack(w) ==
  LET r == job[w].ref
      n == job[w].sum IN
  /\ row' = [row EXCEPT ![r] = "SUCCEEDED"]
  /\ known' = known \cup {r}
  /\ total' = Raised(n)
  /\ state' = IF n >= Paid THEN "REFUNDED" ELSE state
  /\ Outcome(job[w].from, n >= Paid)

Settle(w) ==
  /\ At(w, "move")
  /\ GiveBack(w)
  /\ Return(w)
  /\ UNCHANGED <<flagged, size, remoteVars, handled, crashes, overlapped>>

\* flag: a refund the gateway rejected is brought before staff.
Note(w) ==
  /\ At(w, "note") \/ At(w, "tell")
  /\ flagged' = flagged \cup {job[w].ref}
  /\ IF At(w, "tell") THEN Goto(w, "finish") ELSE Return(w)
  /\ UNCHANGED <<payVars, row, known, size, remoteVars, handled, crashes, overlapped>>

-----------------------------------------------------------------------------
(***************************************************************************)
(* The processor's events.                                               *)
(***************************************************************************)
Deliver(w, e) ==
  /\ At(w, "idle") /\ e \in events \ handled
  /\ Becomes(w, Call("apply", e[2], e[1], e[3]))
  /\ UNCHANGED <<payVars, rowVars, size, remoteVars, handled, crashes, overlapped>>

\* applyRefunded: one transaction, like the panel's.  Of two that insert the same
\* refund the unique index fails one, which is delivered again and finds the row.
ReadToApply(w) ==
  /\ At(w, "apply") /\ job[w].kind = "refunded" /\ RowIsFree(w, job[w].ref)
  /\ ReadOrder(w, "enter")

ApplyRefunded(w) ==
  /\ At(w, "enter")
  /\ GiveBack(w)
  /\ Becomes(w, Call("finish", job[w].ref, "refunded", job[w].sum))
  /\ UNCHANGED <<flagged, size, remoteVars, handled, crashes, overlapped>>

ApplyRefundFailed(w) ==
  LET r == job[w].ref IN
  /\ At(w, "apply") /\ job[w].kind = "failed" /\ RowIsFree(w, r)
  /\ row' = [row EXCEPT ![r] = "FAILED"]
  /\ known' = known \cup {r}
  /\ Goto(w, "tell")
  /\ UNCHANGED <<payVars, flagged, size, remoteVars, handled, crashes, overlapped>>

\* finishWebhook.
Finish(w) ==
  /\ At(w, "finish")
  /\ handled' = handled \cup
       {e \in events : e[1] = job[w].kind /\ e[2] = job[w].ref /\ e[3] = job[w].sum}
  /\ Return(w)
  /\ UNCHANGED <<payVars, rowVars, size, remoteVars, crashes, overlapped>>

\* A call dies; the transaction it is in rolls back.
Crash(w) ==
  /\ ~At(w, "idle") /\ crashes < MaxCrashes
  /\ crashes' = crashes + 1
  /\ Return(w)
  /\ UNCHANGED <<payVars, rowVars, size, remoteVars, handled, overlapped>>

-----------------------------------------------------------------------------
Processor == \E r \in Refund : \/ \E n \in 1..Paid : Dashboard(r, n)
                               \/ \E kind \in {"refunded", "failed"} : Complete(r, kind)

Begin(w) == \/ \E n \in 1..Paid : StartRefund(w, n)
            \/ \E r \in Refund : RetryRefund(w, r)
            \/ \E e \in events : Deliver(w, e)

Proceed(w) == \/ \E r \in Refund : CreateRow(w, r)
              \/ Ask(w) \/ Hear(w) \/ Lose(w) \/ RecordRefusal(w) \/ RecordAnswer(w)
              \/ AddUp(w) \/ ReadToSettle(w) \/ Settle(w) \/ Note(w)
              \/ ReadToApply(w) \/ ApplyRefunded(w) \/ ApplyRefundFailed(w) \/ Finish(w)

Next == Processor \/ OthersMove \/ \E w \in Worker : Begin(w) \/ Proceed(w) \/ Crash(w)

Spec == Init /\ [][Next]_vars
-----------------------------------------------------------------------------
(***************************************************************************)
(* Properties.                                                           *)
(***************************************************************************)
\* No more goes back than was paid, whatever answers are lost and retried.  With
\* a processor that would give back anything it is asked for, the store's own
\* cap and reference see to it, unless requests of the panel overlap: two of them
\* may pass the cap before either has its row.
NotOverRefunded == strict \/ ~overlapped => Sum(RemoteIn({"pending", "succeeded"})) <= Paid

\* The payment's money and its books, as RefundLedger sees them.
Ledger == INSTANCE RefundLedger WITH
            given   <- Given,
            booked  <- total,
            payment <- state,
            outcome <- IF status \in RefundOutcomes THEN status ELSE "none"

\* The money given back and the books about it are the abstract ledger of
\* RefundLedger, though two calls add the rows up at once, events are old, answers
\* come late and delivery moves the order in between: every entry raises the
\* payment's total to one the processor has really given back, the entry that
\* completes the refund closes the payment, the order follows every entry unless
\* its compare-and-set was lost, and its sale leaves the counters with the move to
\* REFUNDED and never twice.
LedgerKept == Ledger!Spec

\* What the books say has gone back really has, though two calls add the rows
\* up at once, events are old and answers come late.
RefundedIsReal ==
  /\ total <= Given
  /\ state = "REFUNDED" \/ status = "REFUNDED" => Given >= Paid

\* Once every event has been worked and no call is under way, the payment agrees
\* with the processor, in whatever order events and answers came, and staff have
\* been told of every refund the gateway rejected.  The order agrees as well unless
\* somebody moved it between a refund's read and its write.
BooksAgree ==
  events = handled /\ (\A w \in Worker : At(w, "idle")) =>
    /\ total = Given
    /\ state = (IF Given >= Paid THEN "REFUNDED" ELSE "SUCCEEDED")
    /\ RemoteIn({"failed"}) \subseteq flagged
    /\ ~lost => /\ status \in RefundOutcomes \equiv Given > 0
                /\ status = "REFUNDED" \equiv Given >= Paid
=============================================================================
