----------------------------- MODULE Fulfillment -----------------------------
(***************************************************************************)
(* Delivery of paid orders (apps/api/src/fulfillment), composed with the   *)
(* key vault and the order-status map.                                     *)
(*                                                                         *)
(* A worker is one call in flight: the payment webhook or the stranded-    *)
(* order sweep running onOrderPaid, a member of staff sending an assigned  *)
(* line, delivering one by hand, or marking one failed.  Each statement    *)
(* such a call issues against the database or the mail provider is one     *)
(* action, because other calls run between any two of them.                *)
(***************************************************************************)
EXTENDS OrderStatus, KeyVault, Naturals

CONSTANTS Order,
          OrderOf,       \* OrderOf[l]: the order line l belongs to
          Stocked,       \* lines whose variant is FROM_STOCK
          HandLines,     \* lines staff may deliver by hand (fulfilManually)
          Worker,        \* calls that may be in flight at once
          Sweep,         \* the worker that runs the stranded-order sweep
          NoWorker, NoOrder, NoKey,
          AutoDelivery,  \* the automatic-delivery switch
          LockOverruns,  \* whether a send may outlive its advisory lock
          MaxCrashes     \* bound on calls that die, or throw, half-way

ASSUME FulfillmentAssumption ==
  /\ OrderOf \in [Line -> Order]
  /\ Stocked \subseteq Line /\ HandLines \subseteq Line
  /\ Sweep \in Worker /\ NoWorker \notin Worker
  /\ NoOrder \notin Order /\ NoKey \notin Key
  /\ AutoDelivery \in BOOLEAN /\ LockOverruns \in BOOLEAN
  /\ MaxCrashes \in Nat

VARIABLES status,   \* status[o]: Order.status
          held,     \* held[o]: Order.riskLevel is HIGH or BLOCKED
          line,     \* line[l]: OrderItem.fulfillmentState
          sends,    \* sends[l]: licence emails the provider accepted (none, once, more)
          mailLog,  \* lines with a delivered licence.delivered row in NotificationLog
          lock,     \* lock[l]: the worker that holds the line's advisory lock
          job,      \* job[w]: the local state of call w
          crashes   \* calls that have died or thrown so far

orderVars == <<status, held>>
lineVars  == <<line, sends, mailLog>>
vars == <<vaultVars, orderVars, lineVars, lock, job, crashes>>

LineStates == {"PENDING", "AUTO_ASSIGNED", "MANUAL_QUEUE", "DELIVERED", "FAILED"}
LinesOf(o) == {l \in Line : OrderOf[l] = o}

\* Where a call stands; "idle" is no call.
Steps == {"idle", "lines", "pick", "claim", "adopt", "short", "deliver",
          "gate", "bound", "logged", "email", "record", "stamp",
          "finish", "store", "requeue", "count", "status", "move", "unlock"}

Jobs == [at   : Steps,
         op   : {"none", "paid", "send", "manual", "fail"},
         ord  : Order \cup {NoOrder},
         ln   : Line \cup {NoLine},
         key  : Key \cup {NoKey},
         seen : [Line -> LineStates],     \* line states read at the start
         todo : SUBSET Line,              \* lines onOrderPaid still has to work
         mine : SUBSET Line,              \* lines it moved to AUTO_ASSIGNED, to send
         done : {"none", "some", "all"},  \* refreshOrderState: lines delivered
         from : OrderStatuses]            \* refreshOrderState: status read

NoneSeen == [l \in Line |-> "PENDING"]
Idle == [at |-> "idle", op |-> "none", ord |-> NoOrder, ln |-> NoLine, key |-> NoKey,
         seen |-> NoneSeen, todo |-> {}, mine |-> {}, done |-> "none",
         from |-> "PENDING_PAYMENT"]

TypeOK == /\ VaultTypeOK
          /\ status \in [Order -> OrderStatuses]
          /\ held \in [Order -> BOOLEAN]
          /\ line \in [Line -> LineStates]
          /\ sends \in [Line -> 0..2]
          /\ mailLog \subseteq Line
          /\ lock \in [Line -> Worker \cup {NoWorker}]
          /\ job \in [Worker -> Jobs]
          /\ crashes \in 0..MaxCrashes

\* writeLines: a new order's stocked lines are PENDING, the others are queued.
Init == /\ VaultInit
        /\ status = [o \in Order |-> "PENDING_PAYMENT"]
        /\ held = [o \in Order |-> FALSE]
        /\ line = [l \in Line |-> IF l \in Stocked THEN "PENDING" ELSE "MANUAL_QUEUE"]
        /\ sends = [l \in Line |-> 0]
        /\ mailLog = {}
        /\ lock = [l \in Line |-> NoWorker]
        /\ job = [w \in Worker |-> Idle]
        /\ crashes = 0

-----------------------------------------------------------------------------
(***************************************************************************)
(* Bookkeeping of a call.                                                  *)
(***************************************************************************)
At(w, step) == job[w].at = step
Becomes(w, call) == job' = [job EXCEPT ![w] = call]
Goto(w, step) == Becomes(w, [job[w] EXCEPT !.at = step])
Return(w) == Becomes(w, Idle)

-----------------------------------------------------------------------------
(***************************************************************************)
(* onOrderPaid.                                                            *)
(***************************************************************************)
\* Mutant: the sweep looks for failed lines instead of untouched ones.
OnOrderPaid_WrongLines(w, o) ==
  /\ At(w, "idle")
  /\ status[o] = "PAID"
  /\ w = Sweep => \E l \in LinesOf(o) : line[l] = "FAILED"
  /\ Becomes(w, [Idle EXCEPT !.at = "lines", !.op = "paid", !.ord = o,
                             !.seen = [l \in Line |-> IF l \in LinesOf(o) THEN line[l] ELSE "PENDING"],
                             !.todo = {l \in LinesOf(o) : line[l] \notin {"DELIVERED", "AUTO_ASSIGNED"}}])
  /\ UNCHANGED <<vaultVars, orderVars, lineVars, lock, crashes>>

\* The order and its lines are read once.  On any status but PAID the call
\* returns at once, which is the same as never having started.
OnOrderPaid(w, o) ==
  /\ At(w, "idle")
  /\ status[o] = "PAID"
  /\ w = Sweep => \E l \in LinesOf(o) : line[l] = "PENDING"
  /\ Becomes(w, [Idle EXCEPT !.at = "lines", !.op = "paid", !.ord = o,
                             !.seen = [l \in Line |-> IF l \in LinesOf(o) THEN line[l] ELSE "PENDING"],
                             !.todo = {l \in LinesOf(o) : line[l] \notin {"DELIVERED", "AUTO_ASSIGNED"}}])
  /\ UNCHANGED <<vaultVars, orderVars, lineVars, lock, crashes>>

\* A made-to-order line goes to the supplier queue, whatever its state is now.
QueueMadeToOrder(w, l) ==
  /\ At(w, "lines") /\ l \in job[w].todo \ Stocked
  /\ line' = [line EXCEPT ![l] = "MANUAL_QUEUE"]
  /\ Becomes(w, [job[w] EXCEPT !.todo = @ \ {l}])
  /\ UNCHANGED <<vaultVars, orderVars, sends, mailLog, lock, crashes>>

\* assign, first read: a line that already has a key keeps it.
AssignLookup(w, l) ==
  /\ At(w, "lines") /\ l \in job[w].todo \cap Stocked
  /\ Becomes(w, [job[w] EXCEPT !.at = IF IsBound(l) THEN "adopt" ELSE "pick",
                               !.ln = l, !.todo = @ \ {l}])
  /\ UNCHANGED <<vaultVars, orderVars, lineVars, lock, crashes>>

\* Mutant: a short vault is taken for a successful assignment.
AssignPick_ShortIgnored(w) ==
  /\ At(w, "pick")
  /\ \/ \E k \in Offerable : Becomes(w, [job[w] EXCEPT !.at = "claim", !.key = k])
     \/ Offerable = {} /\ Goto(w, "adopt")
  /\ UNCHANGED <<vaultVars, orderVars, lineVars, lock, crashes>>

\* assign, second read: one key in stock, or none.
AssignPick(w) ==
  /\ At(w, "pick")
  /\ \/ \E k \in Offerable : Becomes(w, [job[w] EXCEPT !.at = "claim", !.key = k])
     \/ Offerable = {} /\ Goto(w, "short")
  /\ UNCHANGED <<vaultVars, orderVars, lineVars, lock, crashes>>

\* assign, the claiming write.  A key that went meanwhile leaves the line short;
\* a line that got another key meanwhile breaks the unique index, and the
\* exception ends the call.
AssignClaim(w) ==
  LET k == job[w].key  l == job[w].ln IN
  /\ At(w, "claim")
  /\ \/ ClaimKey(k, l) /\ Becomes(w, [job[w] EXCEPT !.at = "adopt", !.key = NoKey])
     \/ /\ ~StillFree(k)
        /\ Becomes(w, [job[w] EXCEPT !.at = "short", !.key = NoKey])
        /\ UNCHANGED vaultVars
     \/ StillFree(k) /\ IsBound(l) /\ Return(w) /\ UNCHANGED vaultVars
  /\ UNCHANGED <<orderVars, lineVars, lock, crashes>>

\* No key for the line: it is queued for a person, whatever its state is now.
QueueShort(w) ==
  /\ At(w, "short")
  /\ line' = [line EXCEPT ![job[w].ln] = "MANUAL_QUEUE"]
  /\ Becomes(w, [job[w] EXCEPT !.at = "lines", !.ln = NoLine])
  /\ UNCHANGED <<vaultVars, orderVars, sends, mailLog, lock, crashes>>

\* Mutant: the line is given the vault's name for the state.
AdoptKey_WrongState(w) ==
  /\ At(w, "adopt")
  /\ line' = [line EXCEPT ![job[w].ln] = "ASSIGNED"]
  /\ Becomes(w, [job[w] EXCEPT !.at = "lines", !.ln = NoLine])
  /\ UNCHANGED <<vaultVars, orderVars, sends, mailLog, lock, crashes>>

\* The move to AUTO_ASSIGNED is a compare-and-set on the state read at the
\* start; only the call that makes it sends the line.
AdoptKey(w) ==
  LET l == job[w].ln
      won == line[l] = job[w].seen[l] IN
  /\ At(w, "adopt")
  /\ line' = [line EXCEPT ![l] = IF won THEN "AUTO_ASSIGNED" ELSE @]
  /\ Becomes(w, [job[w] EXCEPT !.at = "lines", !.ln = NoLine,
                               !.mine = IF won THEN @ \cup {l} ELSE @])
  /\ UNCHANGED <<vaultVars, orderVars, sends, mailLog, lock, crashes>>

LinesDone(w) ==
  /\ At(w, "lines") /\ job[w].todo = {}
  /\ Becomes(w, [job[w] EXCEPT !.at = "count", !.seen = NoneSeen])
  /\ UNCHANGED <<vaultVars, orderVars, lineVars, lock, crashes>>

\* autoDeliver, over the lines this call claimed; a busy line is left to whoever
\* holds it.
AutoDeliver(w) ==
  /\ At(w, "deliver")
  /\ \/ (job[w].mine = {} \/ ~AutoDelivery) /\ Return(w) /\ UNCHANGED lock
     \/ /\ AutoDelivery
        /\ \E l \in job[w].mine :
             \/ /\ lock[l] = NoWorker
                /\ lock' = [lock EXCEPT ![l] = w]
                /\ Becomes(w, [job[w] EXCEPT !.at = "gate", !.ln = l, !.mine = @ \ {l}])
             \/ /\ lock[l] # NoWorker
                /\ Becomes(w, [job[w] EXCEPT !.mine = @ \ {l}])
                /\ UNCHANGED lock
  /\ UNCHANGED <<vaultVars, orderVars, lineVars, crashes>>

-----------------------------------------------------------------------------
(***************************************************************************)
(* sendAssigned: the send of a line whose key is bound.                    *)
(***************************************************************************)
\* Mutant: the staff send does not look at the lock.
DeliverAssigned_NoLock(w, l) ==
  /\ At(w, "idle") /\ w # Sweep
  /\ Becomes(w, [Idle EXCEPT !.at = "gate", !.op = "send",
                             !.ord = OrderOf[l], !.ln = l])
  /\ UNCHANGED <<vaultVars, orderVars, lineVars, lock, crashes>>

\* deliverAssigned, by staff; it answers "busy" while another send holds the line.
DeliverAssigned(w, l) ==
  /\ At(w, "idle") /\ w # Sweep
  /\ lock[l] = NoWorker
  /\ lock' = [lock EXCEPT ![l] = w]
  /\ Becomes(w, [Idle EXCEPT !.at = "gate", !.op = "send",
                             !.ord = OrderOf[l], !.ln = l])
  /\ UNCHANGED <<vaultVars, orderVars, lineVars, crashes>>

\* Mutant: nobody asks whether the money has arrived.
MayDeliver_Unpaid(l) == line[l] # "DELIVERED" /\ ~held[OrderOf[l]]

\* The gates both ways of sending share: money in, nothing held, not yet sent.
MayDeliver(l) == /\ line[l] # "DELIVERED"
                 /\ status[OrderOf[l]] \in Deliverable
                 /\ ~held[OrderOf[l]]

Gate(w) ==
  /\ At(w, "gate")
  /\ Goto(w, IF MayDeliver(job[w].ln) THEN "bound" ELSE "unlock")
  /\ UNCHANGED <<vaultVars, orderVars, lineVars, lock, crashes>>

AskBound(w) ==
  /\ At(w, "bound")
  /\ Goto(w, IF IsBound(job[w].ln) THEN "logged" ELSE "unlock")
  /\ UNCHANGED <<vaultVars, orderVars, lineVars, lock, crashes>>

\* Mutant: the log is not asked.
AskLogged_Never(w) ==
  /\ At(w, "logged")
  /\ Goto(w, "email")
  /\ UNCHANGED <<vaultVars, orderVars, lineVars, lock, crashes>>

\* licenceAlreadyEmailed: a line whose email is on record is only finished.  The
\* record has to be of the order's own address, which changes only when a draft is
\* rewritten, its lines with it, and not bounced, which nothing here says of an email.
AskLogged(w) ==
  /\ At(w, "logged")
  /\ Goto(w, IF job[w].ln \in mailLog THEN "stamp" ELSE "email")
  /\ UNCHANGED <<vaultVars, orderVars, lineVars, lock, crashes>>

\* emailLicence: the provider takes the message or refuses it.  A refusal by
\* hand leaves the key bound and the line to be retried from the queue.
MailAccepted(w) ==
  /\ At(w, "email")
  /\ sends' = [sends EXCEPT ![job[w].ln] = IF @ = 0 THEN 1 ELSE 2]
  /\ Goto(w, "record")
  /\ UNCHANGED <<vaultVars, orderVars, line, mailLog, lock, crashes>>

\* Mutant: a refused message is treated as sent.
MailRefused_Ignored(w) ==
  /\ At(w, "email")
  /\ Goto(w, "stamp")
  /\ UNCHANGED <<vaultVars, orderVars, lineVars, lock, crashes>>

MailRefused(w) ==
  /\ At(w, "email")
  /\ Goto(w, IF job[w].op = "manual" THEN "requeue" ELSE "unlock")
  /\ UNCHANGED <<vaultVars, orderVars, lineVars, lock, crashes>>

\* MailService.send writes its NotificationLog row after the provider answered.
RecordMail(w) ==
  /\ At(w, "record")
  /\ mailLog' = mailLog \cup {job[w].ln}
  /\ Goto(w, "stamp")
  /\ UNCHANGED <<vaultVars, orderVars, line, sends, lock, crashes>>

StampKey(w) ==
  /\ At(w, "stamp")
  /\ MarkDelivered(job[w].ln)
  /\ Goto(w, "finish")
  /\ UNCHANGED <<orderVars, lineVars, lock, crashes>>

\* The line is DELIVERED without a condition on its state.
FinishLine(w) ==
  /\ At(w, "finish")
  /\ line' = [line EXCEPT ![job[w].ln] = "DELIVERED"]
  /\ Becomes(w, [job[w] EXCEPT !.at = "count", !.seen = NoneSeen])
  /\ UNCHANGED <<vaultVars, orderVars, sends, mailLog, lock, crashes>>

\* Mutant: a send that ended without delivering keeps its lock.
Unlock_Leak(w) ==
  /\ At(w, "unlock")
  /\ IF job[w].op = "paid"
     THEN Becomes(w, [job[w] EXCEPT !.at = "deliver", !.ln = NoLine])
     ELSE Return(w)
  /\ UNCHANGED <<vaultVars, orderVars, lineVars, lock, crashes>>

\* The lock goes with its transaction; after an overrun it is no longer ours.
Unlock(w) ==
  LET l == job[w].ln IN
  /\ At(w, "unlock")
  /\ lock' = [lock EXCEPT ![l] = IF @ = w THEN NoWorker ELSE @]
  /\ IF job[w].op = "paid"
     THEN Becomes(w, [job[w] EXCEPT !.at = "deliver", !.ln = NoLine])
     ELSE Return(w)
  /\ UNCHANGED <<vaultVars, orderVars, lineVars, crashes>>

-----------------------------------------------------------------------------
(***************************************************************************)
(* refreshOrderState: the order's status follows its lines.                *)
(***************************************************************************)
Delivered(o) == {l \in LinesOf(o) : line[l] = "DELIVERED"}

\* Mutant: one delivered line counts as all of them.
CountLines_Some(w) ==
  LET o == job[w].ord IN
  /\ At(w, "count")
  /\ Becomes(w, [job[w] EXCEPT !.at = "status",
                               !.done = IF Delivered(o) = {} THEN "none" ELSE "all"])
  /\ UNCHANGED <<vaultVars, orderVars, lineVars, lock, crashes>>

CountLines(w) ==
  LET o == job[w].ord IN
  /\ At(w, "count")
  /\ Becomes(w, [job[w] EXCEPT !.at = "status",
                               !.done = IF Delivered(o) = LinesOf(o) THEN "all"
                                           ELSE IF Delivered(o) = {} THEN "none" ELSE "some"])
  /\ UNCHANGED <<vaultVars, orderVars, lineVars, lock, crashes>>

ReadStatus(w) ==
  /\ At(w, "status")
  /\ Becomes(w, [job[w] EXCEPT !.at = "move", !.from = status[job[w].ord]])
  /\ UNCHANGED <<vaultVars, orderVars, lineVars, lock, crashes>>

\* The status the lines just counted call for; `from` itself when none.
Target(w) == CASE job[w].done = "all" -> "FULFILLED"
               [] job[w].done = "some" /\ job[w].from = "PAID" -> "FULFILLING"
               [] OTHER -> job[w].from

\* Where a call goes after the refresh: onOrderPaid has one before its sends.
AfterRefresh(w) ==
  IF job[w].ln # NoLine /\ job[w].op \in {"paid", "send"} THEN "unlock"
  ELSE IF job[w].op = "paid" THEN "deliver" ELSE "idle"

\* Mutant: the write is not conditional on the status it was decided on.
MoveOrder_Blind(w) ==
  /\ At(w, "move")
  /\ status' = [status EXCEPT ![job[w].ord] =
                  IF CanTransition(job[w].from, Target(w)) THEN Target(w) ELSE @]
  /\ IF AfterRefresh(w) = "idle" THEN Return(w)
     ELSE Becomes(w, [job[w] EXCEPT !.at = AfterRefresh(w), !.done = "none",
                                    !.from = "PENDING_PAYMENT"])
  /\ UNCHANGED <<vaultVars, held, lineVars, lock, crashes>>

MoveOrder(w) ==
  /\ At(w, "move")
  /\ status' = [status EXCEPT ![job[w].ord] = AfterTransition(@, job[w].from, Target(w))]
  /\ IF AfterRefresh(w) = "idle" THEN Return(w)
     ELSE Becomes(w, [job[w] EXCEPT !.at = AfterRefresh(w), !.done = "none",
                                    !.from = "PENDING_PAYMENT"])
  /\ UNCHANGED <<vaultVars, held, lineVars, lock, crashes>>

-----------------------------------------------------------------------------
(***************************************************************************)
(* The staff acts on a line that do not go through the send lock.          *)
(***************************************************************************)
\* fulfilManually: the gates are read once, at the start.
FulfilManually(w, l) ==
  /\ At(w, "idle") /\ w # Sweep /\ l \in HandLines
  /\ MayDeliver(l)
  /\ Becomes(w, [Idle EXCEPT !.at = "store", !.op = "manual",
                             !.ord = OrderOf[l], !.ln = l,
                             !.seen = [NoneSeen EXCEPT ![l] = line[l]]])
  /\ UNCHANGED <<vaultVars, orderVars, lineVars, lock, crashes>>

\* The pasted code enters the vault bound to the line, or is refused.
StorePasted(w) ==
  LET l == job[w].ln IN
  /\ At(w, "store")
  /\ \/ \E k \in Key : StoreForLine(k, l) /\ Goto(w, "email")
     \/ (IsBound(l) \/ \E k \in Key : keyState[k] # "ABSENT")
        /\ Return(w) /\ UNCHANGED vaultVars
  /\ UNCHANGED <<orderVars, lineVars, lock, crashes>>

\* The email failed: the line waits as a bound key not yet sent, unless a
\* concurrent call moved it.
Requeue(w) ==
  LET l == job[w].ln IN
  /\ At(w, "requeue")
  /\ line' = [line EXCEPT ![l] = IF @ = job[w].seen[l] THEN "AUTO_ASSIGNED" ELSE @]
  /\ Return(w)
  /\ UNCHANGED <<vaultVars, orderVars, sends, mailLog, lock, crashes>>

\* markFailed: no condition on the line's state.
MarkFailed(w, l) ==
  /\ At(w, "idle") /\ w # Sweep
  /\ line' = [line EXCEPT ![l] = "FAILED"]
  /\ Becomes(w, [Idle EXCEPT !.at = "count", !.op = "fail",
                             !.ord = OrderOf[l], !.ln = l])
  /\ UNCHANGED <<vaultVars, orderVars, sends, mailLog, lock, crashes>>

-----------------------------------------------------------------------------
(***************************************************************************)
(* What the rest of the system does to the same rows.                      *)
(***************************************************************************)
\* markPaid, as delivery sees it: the provider's risk level replaces the order's
\* own, a risky payment is always kept in review, and others may be.
PaymentLands(o) ==
  /\ status[o] = "PENDING_PAYMENT"
  /\ \E risky \in BOOLEAN :
       /\ held' = [held EXCEPT ![o] = risky]
       /\ \/ ~risky /\ status' = [status EXCEPT ![o] = "PAID"]
          \/ status' = [status EXCEPT ![o] = "PAYMENT_REVIEW"]
  /\ UNCHANGED <<vaultVars, lineVars, lock, job, crashes>>

\* releaseHold lifts the risk and, from review, releases the money.
ReleaseHold(o) ==
  /\ \/ status[o] = "PAYMENT_REVIEW"
     \/ status[o] \in Deliverable /\ held[o]
  /\ held' = [held EXCEPT ![o] = FALSE]
  /\ status' = [status EXCEPT ![o] = IF @ = "PAYMENT_REVIEW" THEN "PAID" ELSE @]
  /\ UNCHANGED <<vaultVars, lineVars, lock, job, crashes>>

\* The draft sweep or a final payment failure.
CancelDraft(o) ==
  /\ status[o] = "PENDING_PAYMENT"
  /\ status' = [status EXCEPT ![o] = "CANCELLED"]
  /\ UNCHANGED <<vaultVars, held, lineVars, lock, job, crashes>>

\* A refund of the order, full or in part, from either provider or the panel.
Refund(o) ==
  /\ \E to \in RefundOutcomes :
       /\ CanTransition(status[o], to)
       /\ status' = [status EXCEPT ![o] = to]
  /\ UNCHANGED <<vaultVars, held, lineVars, lock, job, crashes>>

\* applyDispute blocks the order whatever its status.
Dispute(o) ==
  /\ ~held[o]
  /\ held' = [held EXCEPT ![o] = TRUE]
  /\ UNCHANGED <<vaultVars, status, lineVars, lock, job, crashes>>

\* The vault's own statements: stock arrives, is revoked, passes its date.
VaultMoves ==
  /\ \/ \E k \in Key : ImportKey(k) \/ RevokeKey(k) \/ Lapse(k)
     \/ ExpireStale
  /\ UNCHANGED <<orderVars, lineVars, lock, job, crashes>>

\* A call dies: process killed, or a statement that throws.  Its advisory lock
\* ends with its transaction; what it wrote stays.
Crash(w) ==
  /\ ~At(w, "idle") /\ crashes < MaxCrashes
  /\ crashes' = crashes + 1
  /\ lock' = [l \in Line |-> IF lock[l] = w THEN NoWorker ELSE lock[l]]
  /\ Return(w)
  /\ UNCHANGED <<vaultVars, orderVars, lineVars>>

\* A statement of an automatic send throws: autoDeliver catches it, the lock ends,
\* and the call goes on to its next line.
SendThrows(w) ==
  /\ job[w].op = "paid"
  /\ job[w].at \in {"gate", "bound", "logged", "record", "stamp", "finish", "count"}
  /\ job[w].ln # NoLine
  /\ crashes < MaxCrashes
  /\ crashes' = crashes + 1
  /\ Goto(w, "unlock")
  /\ UNCHANGED <<vaultVars, orderVars, lineVars, lock>>

\* A send outlives the lock's time limit: the lock goes, the work continues.
Overrun(l) ==
  /\ LockOverruns /\ lock[l] # NoWorker
  /\ lock' = [lock EXCEPT ![l] = NoWorker]
  /\ UNCHANGED <<vaultVars, orderVars, lineVars, job, crashes>>

-----------------------------------------------------------------------------
\* The steps a call takes by itself, once it has started.
Proceed(w) ==
  \/ \E l \in Line : QueueMadeToOrder(w, l) \/ AssignLookup(w, l)
  \/ AssignPick(w) \/ AssignClaim(w) \/ QueueShort(w) \/ AdoptKey(w)
  \/ LinesDone(w) \/ AutoDeliver(w)
  \/ Gate(w) \/ AskBound(w) \/ AskLogged(w) \/ MailAccepted(w) \/ MailRefused(w)
  \/ RecordMail(w) \/ StampKey(w) \/ FinishLine(w) \/ Unlock(w)
  \/ CountLines(w) \/ ReadStatus(w) \/ MoveOrder(w)
  \/ StorePasted(w) \/ Requeue(w)

Begin(w) ==
  \/ \E o \in Order : OnOrderPaid(w, o)
  \/ \E l \in Line : DeliverAssigned(w, l) \/ FulfilManually(w, l) \/ MarkFailed(w, l)

Environment ==
  \/ \E o \in Order : \/ PaymentLands(o) \/ ReleaseHold(o) \/ CancelDraft(o)
                      \/ Refund(o) \/ Dispute(o)
  \/ VaultMoves
  \/ \E l \in Line : Overrun(l)

Fail(w) == Crash(w) \/ SendThrows(w)

Next == (\E w \in Worker : Begin(w) \/ Proceed(w) \/ Fail(w)) \/ Environment

Spec == Init /\ [][Next]_vars
-----------------------------------------------------------------------------
(***************************************************************************)
(* Safety.                                                                 *)
(***************************************************************************)
\* No licence email leaves, and no key is stamped delivered, before the order's
\* money is in and released: a worker that passed the gate stays entitled, as no
\* refund, dispute, release or refresh walks an order back to an unpaid status.
NoKeyBeforeMoney ==
  \A l \in Line : (sends[l] > 0 \/ \E k \in Key : keyLine[k] = l /\ keySent[k])
                    => status[OrderOf[l]] \in MoneyReleased

\* "Delivered" is only ever written after the message left and was logged, on a
\* line that has a key: whichever path sent it, and through any crash.
DeliveredWasSent ==
  \A l \in Line : line[l] = "DELIVERED" => sends[l] > 0 /\ l \in mailLog /\ IsBound(l)

\* The same of the vault: a key is DELIVERED only if its line was emailed.
DeliveredKeyWasSent ==
  \A k \in Key : keySent[k] => keyLine[k] # NoLine /\ sends[keyLine[k]] > 0

\* A line in the state the staff screen offers to send always has a key to send,
\* however calls, failed emails and crashes interleave.
AssignedHoldsKey == \A l \in Line : line[l] = "AUTO_ASSIGNED" => IsBound(l)

\* An order reported FULFILLED had every one of its lines emailed, although the
\* lines are counted in one statement and the status moved in a later one.
FulfilledSentAll ==
  \A l \in Line : status[OrderOf[l]] \in {"FULFILLED", "COMPLETED"} => sends[l] > 0

\* No line's licence is emailed twice without somebody asking for a resend.
SentOnce == \A l \in Line : sends[l] <= 1

\* The calls inside the locked part of a send of line l.
Sending(l) == {w \in Worker : /\ job[w].ln = l
                              /\ job[w].op \in {"paid", "send"}
                              /\ job[w].at \notin {"pick", "claim", "adopt", "short"}}

\* The advisory lock lets one call at a time send a line, whatever crashes.
OneSenderPerLine == \A l \in Line : \A v, w \in Sending(l) : v = w

(***************************************************************************)
(* Action properties.                                                      *)
(***************************************************************************)
\* Although a call decides on a status read in an earlier statement, all it does
\* to an order is carry it forward through delivery; every other move is one that
\* checkout makes (a step that leaves every call where it is, is not delivery's).
DeliveryMovesItsOwn ==
  [][\A o \in Order : status'[o] # status[o] =>
       <<status[o], status'[o]>> \in IF job' = job THEN CheckoutMoves ELSE DeliveryMoves]_vars

\* Once an email is on record for a line, no call of the locked way sends it again:
\* not a redelivered webhook, not the sweep, not staff after a call that died, or
\* threw, between the record and the line's last write.
NoSendAfterRecord == [][\A l \in mailLog : sends'[l] = sends[l]]_vars

\* The rows of orders, lines, keys and log, as KeyDelivery sees them.
Promise == INSTANCE KeyDelivery WITH
             released <- {o \in Order : status[o] \in MoneyReleased},
             closed   <- {o \in Order : status[o] \in {"FULFILLED", "COMPLETED"}},
             bound    <- {l \in Line : IsBound(l)},
             emailed  <- {l \in Line : sends[l] > 0},
             logged   <- mailLog,
             stamped  <- {l \in Line : \E k \in Key : keyLine[k] = l /\ keySent[k]},
             shown    <- {l \in Line : line[l] = "DELIVERED"}

\* Whatever calls overlap, crash, throw or outlive their lock, a line's licence
\* goes out in one order: money released and key bound, then emailed, on record,
\* its key stamped, the line shown; no step is skipped or undone but the showing,
\* and an order is closed only when every line of it was emailed.
DeliveryKept == Promise!Spec

(***************************************************************************)
(* Liveness.  The sweep runs on a timer and a started call goes on by      *)
(* itself; nobody is obliged to press a button, pay, or call back.         *)
(***************************************************************************)
Fairness == /\ WF_vars(\E o \in Order : OnOrderPaid(Sweep, o))
            /\ \A w \in Worker : WF_vars(Proceed(w))

FairSpec == Spec /\ Fairness

\* A paid order is never left with a line nobody has looked at: the sweep picks
\* up what a lost webhook or a dead process left behind.
PaidLineIsWorked ==
  \A l \in Line : (status[OrderOf[l]] = "PAID" /\ line[l] = "PENDING")
                    ~> (line[l] # "PENDING" \/ status[OrderOf[l]] # "PAID")

\* A line whose send is under way does not stay locked.
LockIsReleased == \A l \in Line : lock[l] # NoWorker ~> lock[l] = NoWorker
=============================================================================
