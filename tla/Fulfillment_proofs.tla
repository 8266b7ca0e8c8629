------------------------- MODULE Fulfillment_proofs -------------------------
(***************************************************************************)
(* Proofs about delivery, for any number of orders, lines, keys and calls. *)
(*                                                                         *)
(* Three layers, each using the ones before it: every row has its type and *)
(* every call is where its arguments allow it to be (Typing); what rows    *)
(* and calls have gained is never lost (Gains); what a row or a call says  *)
(* of money, key and email is true (Delivery).                             *)
(***************************************************************************)
EXTENDS Fulfillment, KeyVault_proofs, TLAPS

-----------------------------------------------------------------------------
(***************************************************************************)
(* Calls: how one statement changes the record of the call that issued it. *)
(***************************************************************************)
AssignSteps == {"pick", "claim", "adopt", "short"}
SendSteps == {"gate", "bound", "logged", "unlock"}
MailSteps == {"email", "record", "stamp", "finish"}
RefreshSteps == {"count", "status", "move"}

\* What the place of a call says about its arguments.
Placed(c) ==
  /\ c.at # "idle" => c.ord \in Order
  /\ c.ln \in Line => c.ord = OrderOf[c.ln]
  /\ c.at \in AssignSteps \cup SendSteps \cup MailSteps \cup {"store", "requeue"}
       => c.ln \in Line
  /\ c.at \in {"idle", "lines", "deliver"} => c.ln = NoLine
  /\ c.at = "claim" => c.key \in Key
  /\ c.at \in AssignSteps \cup {"lines", "deliver"} => c.op = "paid"
  /\ c.at \in SendSteps => c.op \in {"paid", "send"}
  /\ c.at \in MailSteps => c.op \in {"paid", "send", "manual"}
  /\ c.at \in {"store", "requeue"} => c.op = "manual"
  /\ c.op = "paid" => c.todo \subseteq LinesOf(c.ord) /\ c.mine \subseteq LinesOf(c.ord)
  /\ c.op = "manual" => c.ln \in HandLines

PlacedCalls == {c \in Jobs : Placed(c)}
Calls == job \in [Worker -> PlacedCalls]

LEMMA IdleIsPlaced ==
  Idle \in PlacedCalls /\ Idle.op = "none" /\ Idle.ln = NoLine /\ Idle.mine = {}
  BY FulfillmentAssumption, VaultAssumption
  DEF Idle, Jobs, Steps, NoneSeen, LineStates, OrderStatuses, PlacedCalls, Placed,
      AssignSteps, SendSteps, MailSteps

LEMMA CallChanges ==
  ASSUME Calls, NEW w \in Worker, NEW call \in PlacedCalls, Becomes(w, call)
  PROVE  Calls' /\ job'[w] = call /\ \A v \in Worker \ {w} : job'[v] = job[v]
  BY DEF Calls, Becomes

LEMMA CallReturns ==
  ASSUME Calls, NEW w \in Worker, Return(w) PROVE Calls'
  BY IdleIsPlaced, CallChanges DEF Return

-----------------------------------------------------------------------------
(***************************************************************************)
(* Typing.                                                                 *)
(***************************************************************************)
\* The rows of TypeOK, without the calls.
Rows == /\ VaultTypeOK
        /\ status \in [Order -> OrderStatuses]
        /\ held \in [Order -> BOOLEAN]
        /\ line \in [Line -> LineStates]
        /\ sends \in [Line -> 0..2]
        /\ mailLog \subseteq Line
        /\ lock \in [Line -> Worker \cup {NoWorker}]
        /\ crashes \in 0..MaxCrashes

Typing == Rows /\ Calls

\* onOrderPaid, up to its first refresh.
LEMMA CallsPaid ==
  ASSUME Typing, NEW w \in Worker,
         \/ \E o \in Order : OnOrderPaid(w, o)
         \/ \E l \in Line : QueueMadeToOrder(w, l) \/ AssignLookup(w, l)
         \/ AssignPick(w) \/ AssignClaim(w) \/ QueueShort(w) \/ AdoptKey(w)
         \/ LinesDone(w) \/ AutoDeliver(w)
  PROVE  Calls'
<1> USE DEF Typing, Rows, Calls, At, Goto
<1>0. job[w] \in Jobs /\ Placed(job[w])
  BY DEF PlacedCalls
<1> USE FulfillmentAssumption DEF Placed, Jobs, Steps, AssignSteps, SendSteps, MailSteps
<1>1. ASSUME NEW o \in Order, OnOrderPaid(w, o) PROVE Calls'
  <2> DEFINE call(S, T) == [Idle EXCEPT !.at = "lines", !.op = "paid", !.ord = o,
                                        !.seen = S, !.todo = T]
  <2>1. ASSUME NEW S \in [Line -> LineStates], NEW T \in SUBSET LinesOf(o)
        PROVE  call(S, T) \in PlacedCalls
    <3>1. call(S, T) \in Jobs
      BY IdleIsPlaced DEF PlacedCalls, LinesOf
    <3>2. Placed(call(S, T))
      BY IdleIsPlaced, VaultAssumption DEF PlacedCalls
    <3> QED BY <3>1, <3>2 DEF PlacedCalls
  <2>2. /\ [l \in Line |-> IF l \in LinesOf(o) THEN line[l] ELSE "PENDING"]
             \in [Line -> LineStates]
        /\ {l \in LinesOf(o) : line[l] \notin {"DELIVERED", "AUTO_ASSIGNED"}}
             \in SUBSET LinesOf(o)
    BY DEF LineStates
  <2>3. PICK S \in [Line -> LineStates], T \in SUBSET LinesOf(o) : Becomes(w, call(S, T))
    BY <1>1, <2>2 DEF OnOrderPaid
  <2> QED BY <2>1, <2>3, CallChanges
<1>2. ASSUME NEW l \in Line, QueueMadeToOrder(w, l) PROVE Calls'
  <2>1. [job[w] EXCEPT !.todo = job[w].todo \ {l}] \in PlacedCalls
    BY <1>0, <1>2 DEF QueueMadeToOrder, PlacedCalls
  <2> QED BY <1>2, <2>1, CallChanges DEF QueueMadeToOrder
<1>3. ASSUME NEW l \in Line, AssignLookup(w, l) PROVE Calls'
  <2> DEFINE call == [job[w] EXCEPT !.at = IF IsBound(l) THEN "adopt" ELSE "pick",
                                    !.ln = l, !.todo = job[w].todo \ {l}]
  <2>1. call \in PlacedCalls
    <3>1. call \in Jobs
      <4>1. ASSUME NEW step \in Steps, NEW T \in SUBSET Line
            PROVE  [job[w] EXCEPT !.at = step, !.ln = l, !.todo = T] \in Jobs
        BY <1>0
      <4>2. (IF IsBound(l) THEN "adopt" ELSE "pick") \in Steps
        OBVIOUS
      <4>3. job[w].todo \ {l} \in SUBSET Line
        BY <1>0
      <4> HIDE DEF Jobs, Steps
      <4> QED BY <4>1, <4>2, <4>3
    <3>2. Placed(call)
      BY <1>0, <1>3 DEF AssignLookup, LinesOf
    <3> QED BY <3>1, <3>2 DEF PlacedCalls
  <2> QED BY <1>3, <2>1, CallChanges DEF AssignLookup
<1>4. CASE AssignPick(w)
  <2>1. [job[w] EXCEPT !.at = "short"] \in PlacedCalls
    BY <1>0, <1>4 DEF AssignPick, PlacedCalls
  <2>2. ASSUME NEW k \in Key PROVE [job[w] EXCEPT !.at = "claim", !.key = k] \in PlacedCalls
    BY <1>0, <1>4 DEF AssignPick, PlacedCalls
  <2> QED BY <1>4, <2>1, <2>2, CallChanges DEF AssignPick, Offerable
<1>5. CASE AssignClaim(w)
  <2>1. /\ [job[w] EXCEPT !.at = "adopt", !.key = NoKey] \in PlacedCalls
        /\ [job[w] EXCEPT !.at = "short", !.key = NoKey] \in PlacedCalls
    BY <1>0, <1>5 DEF AssignClaim, PlacedCalls
  <2> QED BY <1>5, <2>1, CallChanges, CallReturns DEF AssignClaim
<1>6. CASE QueueShort(w)
  <2>1. [job[w] EXCEPT !.at = "lines", !.ln = NoLine] \in PlacedCalls
    BY <1>0, <1>6, VaultAssumption DEF QueueShort, PlacedCalls
  <2> QED BY <1>6, <2>1, CallChanges DEF QueueShort
<1>7. CASE AdoptKey(w)
  <2> DEFINE call(M) == [job[w] EXCEPT !.at = "lines", !.ln = NoLine, !.mine = M]
  <2>1. ASSUME NEW M \in SUBSET LinesOf(job[w].ord) PROVE call(M) \in PlacedCalls
    <3>1. call(M) \in Jobs
      BY <1>0, VaultAssumption DEF LinesOf
    <3>2. Placed(call(M))
      BY <1>0, <1>7, VaultAssumption DEF AdoptKey, LinesOf
    <3> QED BY <3>1, <3>2 DEF PlacedCalls
  <2>2. job[w].mine \subseteq LinesOf(job[w].ord) /\ job[w].ln \in LinesOf(job[w].ord)
    BY <1>0, <1>7 DEF AdoptKey, LinesOf
  <2>3. PICK M \in SUBSET LinesOf(job[w].ord) : Becomes(w, call(M))
    BY <1>7, <2>2 DEF AdoptKey
  <2> QED BY <2>1, <2>3, CallChanges
<1>8. CASE LinesDone(w)
  <2>1. [job[w] EXCEPT !.at = "count", !.seen = NoneSeen] \in PlacedCalls
    BY <1>0, <1>8 DEF LinesDone, PlacedCalls, NoneSeen, LineStates
  <2> QED BY <1>8, <2>1, CallChanges DEF LinesDone
<1>9. CASE AutoDeliver(w)
  <2>1. ASSUME NEW l \in job[w].mine, At(w, "deliver")
        PROVE  /\ [job[w] EXCEPT !.at = "gate", !.ln = l, !.mine = job[w].mine \ {l}] \in PlacedCalls
               /\ [job[w] EXCEPT !.mine = job[w].mine \ {l}] \in PlacedCalls
    BY ZenonT(40), <1>0, <2>1 DEF PlacedCalls, LinesOf
  <2> QED BY <1>9, <2>1, CallChanges, CallReturns DEF AutoDeliver
<1> QED
  BY <1>1, <1>2, <1>3, <1>4, <1>5, <1>6, <1>7, <1>8, <1>9

\* The send of a line and the refresh of its order.
LEMMA CallsSend ==
  ASSUME Typing, NEW w \in Worker,
         \/ \E l \in Line : DeliverAssigned(w, l)
         \/ Gate(w) \/ AskBound(w) \/ AskLogged(w) \/ MailAccepted(w) \/ MailRefused(w)
         \/ RecordMail(w) \/ StampKey(w) \/ FinishLine(w) \/ Unlock(w)
         \/ CountLines(w) \/ ReadStatus(w) \/ MoveOrder(w)
  PROVE  Calls'
<1> USE DEF Typing, Rows, Calls, At, Goto
<1>0. job[w] \in Jobs /\ Placed(job[w])
  BY DEF PlacedCalls
<1> USE FulfillmentAssumption, VaultAssumption
    DEF Placed, Jobs, Steps, AssignSteps, SendSteps, MailSteps
<1>1. ASSUME NEW l \in Line, DeliverAssigned(w, l) PROVE Calls'
  <2>1. [Idle EXCEPT !.at = "gate", !.op = "send", !.ord = OrderOf[l], !.ln = l] \in PlacedCalls
    BY ZenonT(40), IdleIsPlaced DEF PlacedCalls
  <2> QED BY <1>1, <2>1, CallChanges DEF DeliverAssigned
<1>2. ASSUME NEW step \in SendSteps \cup MailSteps \cup {"requeue"}, Goto(w, step),
             \/ job[w].at \in {"gate", "bound", "logged"} /\ step # "requeue"
             \/ job[w].at \in MailSteps
                /\ step \in MailSteps \cup {IF job[w].op = "manual" THEN "requeue" ELSE "unlock"}
      PROVE  Calls'
  <2>1. [job[w] EXCEPT !.at = step] \in PlacedCalls
    BY ZenonT(40), <1>0, <1>2 DEF PlacedCalls
  <2> QED BY <1>2, <2>1, CallChanges
<1>3. CASE Gate(w) \/ AskBound(w) \/ AskLogged(w)
  BY <1>2, <1>3 DEF Gate, AskBound, AskLogged
<1>4. CASE MailAccepted(w) \/ MailRefused(w) \/ RecordMail(w) \/ StampKey(w)
  BY <1>2, <1>4 DEF MailAccepted, MailRefused, RecordMail, StampKey
<1>5. CASE FinishLine(w)
  <2>1. [job[w] EXCEPT !.at = "count", !.seen = NoneSeen] \in PlacedCalls
    BY <1>0, <1>5 DEF FinishLine, PlacedCalls, NoneSeen, LineStates
  <2> QED BY <1>5, <2>1, CallChanges DEF FinishLine
<1>6. CASE Unlock(w)
  <2>1. job[w].op = "paid" => [job[w] EXCEPT !.at = "deliver", !.ln = NoLine] \in PlacedCalls
    BY <1>0, <1>6 DEF Unlock, PlacedCalls
  <2> QED BY <1>6, <2>1, CallChanges, CallReturns DEF Unlock
<1>7. CASE CountLines(w)
  <2>1. ASSUME NEW d \in {"none", "some", "all"}
        PROVE  [job[w] EXCEPT !.at = "status", !.done = d] \in PlacedCalls
    BY ZenonT(40), <1>0, <1>7 DEF CountLines, PlacedCalls
  <2>2. PICK d \in {"none", "some", "all"} : Becomes(w, [job[w] EXCEPT !.at = "status", !.done = d])
    BY <1>7 DEF CountLines
  <2> QED BY <2>1, <2>2, CallChanges
<1>8. CASE ReadStatus(w)
  <2>1. [job[w] EXCEPT !.at = "move", !.from = status[job[w].ord]] \in PlacedCalls
    BY ZenonT(40), <1>0, <1>8 DEF ReadStatus, PlacedCalls
  <2> QED BY <1>8, <2>1, CallChanges DEF ReadStatus
<1>9. CASE MoveOrder(w)
  <2> DEFINE call(step) == [job[w] EXCEPT !.at = step, !.done = "none",
                                          !.from = "PENDING_PAYMENT"]
  <2>0. job[w].at = "move" /\ "PENDING_PAYMENT" \in OrderStatuses
    BY <1>9 DEF MoveOrder, OrderStatuses
  <2>1. AfterRefresh(w) = "unlock" => call("unlock") \in PlacedCalls
    BY <1>0, <2>0 DEF AfterRefresh, PlacedCalls
  <2>2. AfterRefresh(w) = "deliver" => call("deliver") \in PlacedCalls
    BY <1>0, <2>0 DEF AfterRefresh, PlacedCalls
  <2>3. AfterRefresh(w) \in {"unlock", "deliver", "idle"}
    BY DEF AfterRefresh
  <2> QED BY <1>9, <2>1, <2>2, <2>3, CallChanges, CallReturns DEF MoveOrder
<1> QED
  BY <1>1, <1>3, <1>4, <1>5, <1>6, <1>7, <1>8, <1>9

\* What staff do outside the lock, and a crash.
LEMMA CallsStaff ==
  ASSUME Typing, NEW w \in Worker,
         \/ \E l \in Line : FulfilManually(w, l) \/ MarkFailed(w, l)
         \/ StorePasted(w) \/ Requeue(w) \/ Fail(w)
  PROVE  Calls'
<1> USE DEF Typing, Rows, Calls, At, Goto
<1>0. job[w] \in Jobs /\ Placed(job[w])
  BY DEF PlacedCalls
<1> USE FulfillmentAssumption, VaultAssumption
    DEF Placed, Jobs, Steps, AssignSteps, SendSteps, MailSteps
<1>1. ASSUME NEW l \in Line, FulfilManually(w, l) PROVE Calls'
  <2> DEFINE call(S) == [Idle EXCEPT !.at = "store", !.op = "manual", !.ord = OrderOf[l],
                                     !.ln = l, !.seen = S]
  <2>1. l \in HandLines
    BY <1>1 DEF FulfilManually
  <2>2. ASSUME NEW S \in [Line -> LineStates] PROVE call(S) \in PlacedCalls
    BY ZenonT(40), <2>1, IdleIsPlaced DEF PlacedCalls
  <2>3. [NoneSeen EXCEPT ![l] = line[l]] \in [Line -> LineStates]
    BY DEF NoneSeen, LineStates
  <2> QED BY <1>1, <2>2, <2>3, CallChanges DEF FulfilManually
<1>2. ASSUME NEW l \in Line, MarkFailed(w, l) PROVE Calls'
  <2>1. [Idle EXCEPT !.at = "count", !.op = "fail", !.ord = OrderOf[l], !.ln = l]
          \in PlacedCalls
    BY ZenonT(40), IdleIsPlaced DEF PlacedCalls
  <2> QED BY <1>2, <2>1, CallChanges DEF MarkFailed
<1>3. CASE StorePasted(w)
  <2>1. [job[w] EXCEPT !.at = "email"] \in PlacedCalls
    BY <1>0, <1>3 DEF StorePasted, PlacedCalls
  <2> QED BY <1>3, <2>1, CallChanges, CallReturns DEF StorePasted
<1>4. CASE Requeue(w)
  BY <1>4, CallReturns DEF Requeue
<1>5. CASE Fail(w)
  <2>1. SendThrows(w) => [job[w] EXCEPT !.at = "unlock"] \in PlacedCalls
    BY <1>0 DEF SendThrows, PlacedCalls
  <2> QED BY <1>5, <2>1, CallReturns, CallChanges DEF Fail, Crash, SendThrows
<1> QED
  BY <1>1, <1>2, <1>3, <1>4, <1>5

\* A statement of the vault keeps the vault's rows in their types.
LEMMA VaultStepTyped ==
  ASSUME VaultTypeOK, [VaultNext]_vaultVars PROVE VaultTypeOK'
<1> USE DEF VaultTypeOK, KeyStates
<1>1. ASSUME NEW k \in Key, NEW l \in Line, ClaimKey(k, l) \/ StoreForLine(k, l)
      PROVE VaultTypeOK'
  BY <1>1 DEF ClaimKey, StoreForLine
<1>2. ASSUME NEW k \in Key, ImportKey(k) \/ RevokeKey(k) \/ RevokeUnsold(k) \/ Lapse(k)
      PROVE VaultTypeOK'
  BY <1>2 DEF ImportKey, RevokeKey, RevokeUnsold, Lapse
<1>3. ASSUME NEW l \in Line, MarkDelivered(l) PROVE VaultTypeOK'
  BY <1>3 DEF MarkDelivered
<1>4. CASE ExpireStale
  BY <1>4 DEF ExpireStale
<1>5. CASE UNCHANGED vaultVars
  BY <1>5 DEF vaultVars
<1> QED
  BY <1>1, <1>2, <1>3, <1>4, <1>5 DEF VaultNext

\* Every step of delivery is, for the vault, one of its own statements.
LEMMA StepKeepsVault ==
  ASSUME Typing, [Next]_vars PROVE [VaultNext]_vaultVars
<1> USE DEF VaultNext, vaultVars
<1>1. ASSUME NEW w \in Worker PROVE job[w] \in Jobs /\ Placed(job[w])
  BY DEF Typing, Calls, PlacedCalls
<1>2. ASSUME NEW w \in Worker, AssignClaim(w) PROVE [VaultNext]_vaultVars
  <2>1. job[w].ln \in Line /\ job[w].key \in Key
    BY <1>1, <1>2 DEF AssignClaim, At, Placed, AssignSteps
  <2> QED BY <1>2, <2>1 DEF AssignClaim
<1>3. ASSUME NEW w \in Worker, StampKey(w) PROVE [VaultNext]_vaultVars
  <2>1. job[w].ln \in Line
    BY <1>1, <1>3 DEF StampKey, At, Placed, MailSteps
  <2> QED BY <1>3, <2>1 DEF StampKey
<1>4. ASSUME NEW w \in Worker, StorePasted(w) PROVE [VaultNext]_vaultVars
  <2>1. job[w].ln \in Line
    BY <1>1, <1>4 DEF StorePasted, At, Placed
  <2> QED BY <1>4, <2>1 DEF StorePasted
<1>5. CASE VaultMoves
  BY <1>5 DEF VaultMoves
<1>6. ASSUME NEW w \in Worker, Begin(w) PROVE UNCHANGED vaultVars
  BY <1>6 DEF Begin, OnOrderPaid, DeliverAssigned, FulfilManually, MarkFailed
<1>7. ASSUME NEW w \in Worker, Proceed(w),
             ~AssignClaim(w), ~StampKey(w), ~StorePasted(w)
      PROVE UNCHANGED vaultVars
  BY <1>7 DEF Proceed, QueueMadeToOrder, AssignLookup, AssignPick, QueueShort, AdoptKey,
     LinesDone, AutoDeliver, Gate, AskBound, AskLogged, MailAccepted, MailRefused,
     RecordMail, FinishLine, Unlock, CountLines, ReadStatus, MoveOrder, Requeue
<1>8. ASSUME NEW w \in Worker, Fail(w) PROVE UNCHANGED vaultVars
  BY <1>8 DEF Fail, Crash, SendThrows
<1>9. CASE Environment /\ ~VaultMoves
  BY <1>9 DEF Environment, PaymentLands, ReleaseHold, CancelDraft, Refund, Dispute, Overrun
<1>10. CASE UNCHANGED vars
  BY <1>10 DEF vars
<1> QED
  BY <1>2, <1>3, <1>4, <1>5, <1>6, <1>7, <1>8, <1>9, <1>10 DEF Next

\* What the orders' rows can become in one step.
OrderStep == \A o \in Order : status'[o] = status[o] \/ CanTransition(status[o], status'[o])

LEMMA StatusMoves ==
  ASSUME Typing, [Next]_vars
  PROVE  /\ status' \in [Order -> OrderStatuses] /\ held' \in [Order -> BOOLEAN]
         /\ OrderStep
<1> USE DEF Typing, Rows, OrderStep
<1>1. ASSUME NEW p \in Order,
             PaymentLands(p) \/ ReleaseHold(p) \/ CancelDraft(p) \/ Refund(p) \/ Dispute(p)
      PROVE  /\ status' \in [Order -> OrderStatuses] /\ held' \in [Order -> BOOLEAN]
             /\ OrderStep
  BY ZenonT(40), <1>1 DEF PaymentLands, ReleaseHold, CancelDraft, Refund, Dispute,
     CanTransition, OrderTransitions, OrderStatuses, RefundOutcomes
<1>2. ASSUME NEW w \in Worker, MoveOrder(w)
      PROVE  status' \in [Order -> OrderStatuses] /\ held' = held /\ OrderStep
  <2>1. CanTransition(job[w].from, Target(w)) => Target(w) \in OrderStatuses
    BY DEF CanTransition, OrderTransitions, OrderStatuses, RefundOutcomes
  <2> QED BY <1>2, <2>1 DEF MoveOrder, AfterTransition
<1>3. ASSUME NEW w \in Worker, Begin(w) \/ Fail(w) PROVE UNCHANGED orderVars
  BY <1>3 DEF Begin, OnOrderPaid, DeliverAssigned, FulfilManually, MarkFailed, Fail, Crash, SendThrows
<1>4. ASSUME NEW w \in Worker, Proceed(w), ~MoveOrder(w) PROVE UNCHANGED orderVars
  BY <1>4
  DEF Proceed, QueueMadeToOrder, AssignLookup, AssignPick, AssignClaim, QueueShort, AdoptKey,
      LinesDone, AutoDeliver, Gate, AskBound, AskLogged, MailAccepted, MailRefused, RecordMail,
      StampKey, FinishLine, Unlock, CountLines, ReadStatus, StorePasted, Requeue
<1>5. CASE VaultMoves \/ \E l \in Line : Overrun(l)
  BY <1>5 DEF VaultMoves, Overrun, orderVars
<1>6. CASE UNCHANGED orderVars
  BY <1>6 DEF orderVars
<1> QED
  BY <1>1, <1>2, <1>3, <1>4, <1>5, <1>6 DEF Next, Environment, vars

\* What the lines' rows can become in one step, and which call writes them.
LineStep ==
  \A l \in Line :
    \/ line'[l] \in {line[l], "MANUAL_QUEUE", "FAILED"}
    \/ \E w \in Worker : /\ job[w].ln = l
                         /\ \/ At(w, "adopt") /\ line'[l] = "AUTO_ASSIGNED"
                            \/ At(w, "requeue") /\ line'[l] = "AUTO_ASSIGNED"
                            \/ At(w, "finish") /\ line'[l] = "DELIVERED"

LEMMA LineMoves ==
  ASSUME Typing, [Next]_vars PROVE line' \in [Line -> LineStates] /\ LineStep
<1> USE DEF Typing, Rows, LineStates, LineStep
<1>1. ASSUME NEW w \in Worker, QueueShort(w) \/ AdoptKey(w) \/ FinishLine(w) \/ Requeue(w)
      PROVE  line' \in [Line -> LineStates] /\ LineStep
  BY <1>1 DEF QueueShort, AdoptKey, FinishLine, Requeue
<1>2. ASSUME NEW w \in Worker, NEW m \in Line, QueueMadeToOrder(w, m) \/ MarkFailed(w, m)
      PROVE  line' \in [Line -> LineStates] /\ LineStep
  BY <1>2 DEF QueueMadeToOrder, MarkFailed
<1>3. ASSUME NEW w \in Worker, Fail(w) \/ Begin(w), \A l \in Line : ~MarkFailed(w, l)
      PROVE UNCHANGED line
  BY <1>3 DEF Begin, OnOrderPaid, DeliverAssigned, FulfilManually, Fail, Crash, SendThrows, lineVars
<1>4. ASSUME NEW w \in Worker, Proceed(w),
             ~(QueueShort(w) \/ AdoptKey(w) \/ FinishLine(w) \/ Requeue(w)),
             \A l \in Line : ~QueueMadeToOrder(w, l)
      PROVE UNCHANGED line
  BY <1>4
  DEF Proceed, AssignLookup, AssignPick, AssignClaim, LinesDone, AutoDeliver, Gate, AskBound,
      AskLogged, MailAccepted, MailRefused, RecordMail, StampKey, Unlock, CountLines,
      ReadStatus, MoveOrder, StorePasted, lineVars
<1>5. CASE Environment
  BY <1>5 DEF Environment, VaultMoves, Overrun, PaymentLands, ReleaseHold, CancelDraft, Refund,
     Dispute, lineVars
<1>6. CASE UNCHANGED line
  BY <1>6
<1> QED
  BY <1>1, <1>2, <1>3, <1>4, <1>5, <1>6 DEF Next, vars, lineVars

\* What the mail's rows can become in one step, and which call writes them.
MailStep ==
  \A l \in Line :
    /\ \/ sends'[l] = sends[l]
       \/ \E w \in Worker : At(w, "email") /\ job[w].ln = l /\ sends'[l] > 0
    /\ l \in mailLog => l \in mailLog'
    /\ l \in mailLog' => \/ l \in mailLog
                         \/ \E w \in Worker : At(w, "record") /\ job[w].ln = l

LEMMA MailMoves ==
  ASSUME Typing, [Next]_vars
  PROVE  sends' \in [Line -> 0..2] /\ mailLog' \subseteq Line /\ MailStep
<1> USE DEF Typing, Rows
<1>1. ASSUME NEW w \in Worker, MailAccepted(w)
      PROVE  sends' \in [Line -> 0..2] /\ mailLog' = mailLog /\ MailStep
  <2>1. PICK n \in 0..2 : n > 0 /\ sends' = [sends EXCEPT ![job[w].ln] = n]
    <3>1. CASE sends[job[w].ln] = 0
      BY <1>1, <3>1 DEF MailAccepted
    <3>2. CASE sends[job[w].ln] # 0
      BY <1>1, <3>2 DEF MailAccepted
    <3> QED BY <3>1, <3>2
  <2>2. /\ sends' \in [Line -> 0..2]
        /\ \A l \in Line : sends'[l] = sends[l] \/ (job[w].ln = l /\ sends'[l] > 0)
    BY <2>1
  <2> QED BY <1>1, <2>2 DEF MailAccepted, MailStep
<1>2. ASSUME NEW w \in Worker, RecordMail(w)
      PROVE  sends' = sends /\ mailLog' \subseteq Line /\ MailStep
  <2>1. job[w].ln \in Line
    BY <1>2 DEF RecordMail, At, Calls, PlacedCalls, Placed, MailSteps
  <2> QED BY <1>2, <2>1 DEF RecordMail, MailStep
<1>3. ASSUME NEW w \in Worker, Begin(w) \/ Fail(w) PROVE UNCHANGED <<sends, mailLog>>
  BY <1>3 DEF Begin, OnOrderPaid, DeliverAssigned, FulfilManually, MarkFailed, Fail, Crash, SendThrows,
     lineVars
<1>4. ASSUME NEW w \in Worker, Proceed(w), ~MailAccepted(w), ~RecordMail(w)
      PROVE UNCHANGED <<sends, mailLog>>
  BY <1>4
  DEF Proceed, QueueMadeToOrder, AssignLookup, AssignPick, AssignClaim, QueueShort, AdoptKey,
      LinesDone, AutoDeliver, Gate, AskBound, AskLogged, MailRefused, StampKey, FinishLine,
      Unlock, CountLines, ReadStatus, MoveOrder, StorePasted, Requeue, lineVars
<1>5. CASE Environment
  BY <1>5 DEF Environment, VaultMoves, Overrun, PaymentLands, ReleaseHold, CancelDraft, Refund,
     Dispute, lineVars, MailStep
<1>6. CASE UNCHANGED vars
  BY <1>6 DEF vars, lineVars, MailStep
<1> QED
  BY <1>1, <1>2, <1>3, <1>4, <1>5, <1>6 DEF Next, MailStep

\* What a lock can become in one step.
LEMMA LockMoves ==
  ASSUME Typing, [Next]_vars
  PROVE  lock' \in [Line -> Worker \cup {NoWorker}] /\ crashes' \in 0..MaxCrashes
<1> USE DEF Typing, Rows
<1>1. ASSUME NEW w \in Worker, AutoDeliver(w) \/ Unlock(w)
      PROVE  lock' \in [Line -> Worker \cup {NoWorker}] /\ crashes' = crashes
  BY <1>1 DEF AutoDeliver, Unlock
<1>2. ASSUME NEW w \in Worker, NEW l \in Line, DeliverAssigned(w, l) \/ Overrun(l)
      PROVE  lock' \in [Line -> Worker \cup {NoWorker}] /\ crashes' = crashes
  BY <1>2 DEF DeliverAssigned, Overrun
<1>3. ASSUME NEW w \in Worker, Fail(w)
      PROVE  lock' \in [Line -> Worker \cup {NoWorker}] /\ crashes' \in 0..MaxCrashes
  BY <1>3, FulfillmentAssumption DEF Fail, Crash, SendThrows
<1>4. ASSUME NEW w \in Worker, Begin(w), \A l \in Line : ~DeliverAssigned(w, l)
      PROVE  UNCHANGED <<lock, crashes>>
  BY <1>4 DEF Begin, OnOrderPaid, FulfilManually, MarkFailed
<1>5. ASSUME NEW w \in Worker, Proceed(w), ~AutoDeliver(w), ~Unlock(w)
      PROVE  UNCHANGED <<lock, crashes>>
  BY <1>5
  DEF Proceed, QueueMadeToOrder, AssignLookup, AssignPick, AssignClaim, QueueShort, AdoptKey,
      LinesDone, Gate, AskBound, AskLogged, MailAccepted, MailRefused, RecordMail, StampKey,
      FinishLine, CountLines, ReadStatus, MoveOrder, StorePasted, Requeue
<1>6. CASE Environment /\ \A l \in Line : ~Overrun(l)
  BY <1>6 DEF Environment, VaultMoves, PaymentLands, ReleaseHold, CancelDraft, Refund, Dispute
<1>7. CASE UNCHANGED vars
  BY <1>7 DEF vars
<1>8. CASE \E l \in Line : Overrun(l)
  BY <1>8, <1>2, FulfillmentAssumption
<1> QED
  BY <1>1, <1>2, <1>3, <1>4, <1>5, <1>6, <1>7, <1>8 DEF Next

\* Every step keeps every row and every call in its type and place.
LEMMA TypingStep ==
  ASSUME Typing, [Next]_vars PROVE Typing'
<1>1. VaultTypeOK'
  BY StepKeepsVault, VaultStepTyped DEF Typing, Rows
<1>2. Rows'
  BY <1>1, StatusMoves, LineMoves, MailMoves, LockMoves DEF Rows
<1>3. ASSUME NEW w \in Worker, Begin(w) \/ Proceed(w) \/ Fail(w) PROVE Calls'
  BY <1>3, CallsPaid, CallsSend, CallsStaff DEF Begin, Proceed
<1>4. ASSUME Environment PROVE Calls'
  BY <1>4 DEF Environment, VaultMoves, Overrun, PaymentLands, ReleaseHold, CancelDraft, Refund,
     Dispute, Typing, Calls
<1>5. ASSUME UNCHANGED vars PROVE Calls'
  BY <1>5 DEF vars, Typing, Calls
<1> QED
  BY <1>2, <1>3, <1>4, <1>5 DEF Next, Typing

LEMMA TypingInit == Init => Typing
<1> SUFFICES ASSUME Init PROVE Typing
  OBVIOUS
<1>1. VaultTypeOK
  BY DEF Init, VaultInit, VaultTypeOK, KeyStates
<1>2. Rows
  BY <1>1, FulfillmentAssumption DEF Init, Rows, OrderStatuses, LineStates
<1>3. Calls
  BY IdleIsPlaced DEF Init, Calls
<1> QED
  BY <1>2, <1>3 DEF Typing

THEOREM TypingAlways == Spec => []Typing
  BY TypingInit, TypingStep, PTL DEF Spec

\* Every row and every call keeps its type, whatever calls run together.
THEOREM TypeCorrect == Spec => []TypeOK
<1>1. Typing => TypeOK
  BY DEF Typing, Rows, Calls, PlacedCalls, TypeOK
<1> QED
  BY <1>1, TypingAlways, PTL

\* Which moves the map leaves to a call that asks for the target of a refresh.
LEMMA RefreshMoves ==
  ASSUME NEW w \in Worker, NEW s, AfterTransition(s, job[w].from, Target(w)) # s
  PROVE  <<s, AfterTransition(s, job[w].from, Target(w))>> \in DeliveryMoves
<1>1. /\ s = job[w].from /\ CanTransition(s, Target(w))
      /\ AfterTransition(s, job[w].from, Target(w)) = Target(w) /\ Target(w) # s
  BY DEF AfterTransition
<1>2. \/ Target(w) = "FULFILLED"
      \/ Target(w) = "FULFILLING" /\ s = "PAID"
  BY <1>1 DEF Target
<1>3. \A from : CanTransition(from, "FULFILLED") => from \in {"PAID", "FULFILLING"}
  BY DEF CanTransition, OrderTransitions, RefundOutcomes
<1> QED BY <1>1, <1>2, <1>3 DEF DeliveryMoves

LEMMA MoversMove ==
  ASSUME Typing, [Next]_vars, NEW o \in Order, status'[o] # status[o]
  PROVE  <<status[o], status'[o]>> \in IF job' = job THEN CheckoutMoves ELSE DeliveryMoves
<1> USE DEF Typing, Rows
<1>1. status \in [Order -> OrderStatuses] /\ job \in [Worker -> Jobs]
  BY DEF Calls, PlacedCalls
<1>2. ASSUME NEW p \in Order,
             PaymentLands(p) \/ ReleaseHold(p) \/ CancelDraft(p) \/ Refund(p) \/ Dispute(p)
      PROVE  job' = job /\ <<status[o], status'[o]>> \in CheckoutMoves
  <2>1. job' = job
    BY <1>2 DEF PaymentLands, ReleaseHold, CancelDraft, Refund, Dispute
  <2>2. CASE Refund(p)
    <3>1. PICK to \in RefundOutcomes :
            CanTransition(status[p], to) /\ status' = [status EXCEPT ![p] = to]
      BY <2>2 DEF Refund
    <3>2. o = p /\ <<status[o], status'[o]>> = <<status[p], to>>
      BY <1>1, <3>1
    <3>3. <<status[p], to>> \in {m \in OrderTransitions : m[2] \in RefundOutcomes}
      BY <3>1 DEF CanTransition
    <3> QED BY <2>1, <3>2, <3>3 DEF CheckoutMoves
  <2>3. CASE PaymentLands(p) \/ ReleaseHold(p) \/ CancelDraft(p) \/ Dispute(p)
    <3>1. \/ status[o] = "PENDING_PAYMENT" /\ status'[o] \in {"PAID", "PAYMENT_REVIEW", "CANCELLED"}
          \/ status[o] = "PAYMENT_REVIEW" /\ status'[o] = "PAID"
      BY <1>1, <2>3 DEF PaymentLands, ReleaseHold, CancelDraft, Dispute
    <3> QED BY <2>1, <3>1 DEF CheckoutMoves
  <2> QED BY <1>2, <2>2, <2>3
<1>3. ASSUME NEW w \in Worker, MoveOrder(w)
      PROVE  job' # job /\ <<status[o], status'[o]>> \in DeliveryMoves
  <2>1. job'[w].at # "move"
    <3>1. \E call : Becomes(w, call) /\ call.at # "move"
      <4>1. AfterRefresh(w) # "move" /\ Idle.at # "move" /\ job[w] \in Jobs
        BY <1>1 DEF AfterRefresh, Idle
      <4>2. CASE AfterRefresh(w) = "idle"
        BY <1>3, <4>1, <4>2 DEF MoveOrder, Return
      <4>3. CASE AfterRefresh(w) # "idle"
        <5> DEFINE on == [job[w] EXCEPT !.at = AfterRefresh(w), !.done = "none",
                                        !.from = "PENDING_PAYMENT"]
        <5>1. on.at = AfterRefresh(w)
          BY <4>1 DEF Jobs
        <5>2. Becomes(w, on)
          BY <1>3, <4>3 DEF MoveOrder
        <5> QED BY <4>1, <5>1, <5>2
      <4> QED BY <4>2, <4>3
    <3> QED BY <1>1, <3>1 DEF Becomes
  <2>2. job'[w] # job[w]
    BY <1>3, <2>1 DEF MoveOrder, At
  <2>3. status'[o] = AfterTransition(status[o], job[w].from, Target(w))
    BY <1>1, <1>3 DEF MoveOrder
  <2> QED BY <2>2, <2>3, RefreshMoves
<1>4. ASSUME NEW w \in Worker, Begin(w) \/ Fail(w) PROVE FALSE
  BY <1>4 DEF Begin, OnOrderPaid, DeliverAssigned, FulfilManually, MarkFailed, Fail, Crash,
     SendThrows, orderVars
<1>5. ASSUME NEW w \in Worker, Proceed(w), ~MoveOrder(w) PROVE FALSE
  BY <1>5
  DEF Proceed, QueueMadeToOrder, AssignLookup, AssignPick, AssignClaim, QueueShort, AdoptKey,
      LinesDone, AutoDeliver, Gate, AskBound, AskLogged, MailAccepted, MailRefused, RecordMail,
      StampKey, FinishLine, Unlock, CountLines, ReadStatus, StorePasted, Requeue, orderVars
<1>6. ~(VaultMoves \/ \E l \in Line : Overrun(l)) /\ ~UNCHANGED vars
  BY DEF VaultMoves, Overrun, orderVars, vars
<1> QED
  BY <1>2, <1>3, <1>4, <1>5, <1>6 DEF Next, Environment

\* Delivery carries orders forward and does nothing else to them, whatever other
\* calls, payments, refunds and disputes run between what it reads and writes.
THEOREM DeliveryMovesOnlyItsOwn == Spec => DeliveryMovesItsOwn
<1>1. Typing /\ [Next]_vars
        => [\A o \in Order : status'[o] # status[o] =>
              <<status[o], status'[o]>> \in IF job' = job THEN CheckoutMoves ELSE DeliveryMoves]_vars
  BY MoversMove
<1> QED
  BY <1>1, TypingAlways, PTL DEF Spec, DeliveryMovesItsOwn

\* Each action of delivery is composed with a statement of the vault, or leaves the
\* vault alone, so that what holds of the vault holds here.
LEMMA DeliveryKeepsVault == Spec => VaultSpec
<1>1. Init => VaultInit
  BY DEF Init
<1> QED
  BY <1>1, StepKeepsVault, TypingAlways, PTL DEF Spec, VaultSpec

\* What the vault promises therefore holds of delivery as a whole: webhooks, the
\* sweep, staff and crashes sell no key twice, give no line a second key and
\* offer no buyer one that was bound or sent before (vault.service.ts:261).
THEOREM DeliverySellsOnce ==
  Spec => SoldAtMostOnce /\ []OneKeyPerLine /\ []StockIsUntouched
BY DeliveryKeepsVault, VaultSellsOnce, VaultOneKeyPerLine, VaultStockIsUntouched, PTL

-----------------------------------------------------------------------------
(***************************************************************************)
(* Gains: what a line, a key or an order has gained is never lost.         *)
(***************************************************************************)
LEMMA MoneyStays ==
  ASSUME NEW s \in MoneyReleased, NEW t, CanTransition(s, t) PROVE t \in MoneyReleased
  BY DEF MoneyReleased, CanTransition, OrderTransitions, RefundOutcomes

\* A key leaves its line for no statement of the vault, and an unsent key is bound.
LEMMA KeysStay ==
  ASSUME VaultTypeOK, StockIsUntouched, [VaultNext]_vaultVars
  PROVE  /\ StockIsUntouched'
         /\ \A k \in Key : keyLine[k] # NoLine => keyLine'[k] = keyLine[k]
         /\ \A k \in Key : keyLine'[k] # keyLine[k] => ~keySent'[k]
<1> USE DEF VaultTypeOK, StockIsUntouched
<1> DEFINE Stay == /\ StockIsUntouched'
                   /\ \A k \in Key : keyLine[k] # NoLine => keyLine'[k] = keyLine[k]
                   /\ \A k \in Key : keyLine'[k] # keyLine[k] => ~keySent'[k]
<1>1. ASSUME NEW k \in Key, NEW l \in Line, ClaimKey(k, l) PROVE Stay
  BY <1>1 DEF ClaimKey, StillFree
<1>2. ASSUME NEW k \in Key, NEW l \in Line, StoreForLine(k, l) PROVE Stay
  BY <1>2 DEF StoreForLine
<1>3. ASSUME NEW k \in Key, ImportKey(k) \/ RevokeKey(k) \/ RevokeUnsold(k) \/ Lapse(k) PROVE Stay
  BY <1>3 DEF ImportKey, RevokeKey, RevokeUnsold, Lapse
<1>4. ASSUME NEW l \in Line, MarkDelivered(l) PROVE Stay
  BY <1>4, VaultAssumption DEF MarkDelivered, Unstamped
<1>5. CASE ExpireStale
  BY <1>5 DEF ExpireStale
<1>6. CASE UNCHANGED vaultVars
  BY <1>6 DEF vaultVars
<1> QED
  BY <1>1, <1>2, <1>3, <1>4, <1>5, <1>6 DEF VaultNext

\* Only the step that follows an email stamps a key.
LEMMA StampMoves ==
  ASSUME Typing, [Next]_vars
  PROVE  keySent' = keySent \/ \E w \in Worker : StampKey(w)
<1>1. ASSUME NEW w \in Worker, Begin(w) \/ Fail(w) PROVE UNCHANGED keySent
  BY <1>1 DEF Begin, OnOrderPaid, DeliverAssigned, FulfilManually, MarkFailed, Fail, Crash, SendThrows,
     vaultVars
<1>2. ASSUME NEW w \in Worker, Proceed(w), ~StampKey(w) PROVE UNCHANGED keySent
  BY <1>2
  DEF Proceed, QueueMadeToOrder, AssignLookup, AssignPick, AssignClaim, QueueShort, AdoptKey,
      LinesDone, AutoDeliver, Gate, AskBound, AskLogged, MailAccepted, MailRefused, RecordMail,
      FinishLine, Unlock, CountLines, ReadStatus, MoveOrder, StorePasted, Requeue,
      ClaimKey, StoreForLine, vaultVars
<1>3. ASSUME Environment PROVE UNCHANGED keySent
  BY <1>3 DEF Environment, VaultMoves, ImportKey, RevokeKey, Lapse, ExpireStale, Overrun,
     PaymentLands, ReleaseHold, CancelDraft, Refund, Dispute, vaultVars
<1> QED
  BY <1>1, <1>2, <1>3 DEF Next, vars, vaultVars

Gains ==
  /\ \A o \in Order : status[o] \in MoneyReleased => status'[o] \in MoneyReleased
  /\ \A l \in Line : /\ sends[l] > 0 => sends'[l] > 0
                     /\ l \in mailLog => l \in mailLog'
                     /\ IsBound(l) => IsBound(l)'

LEMMA NothingIsLost ==
  ASSUME Typing, StockIsUntouched, [Next]_vars PROVE Gains
<1>1. \A o \in Order : status[o] \in MoneyReleased => status'[o] \in MoneyReleased
  BY StatusMoves, MoneyStays DEF OrderStep
<1>2. \A l \in Line : (sends[l] > 0 => sends'[l] > 0) /\ (l \in mailLog => l \in mailLog')
  BY MailMoves DEF MailStep
<1>3. \A l \in Line : IsBound(l) => IsBound(l)'
  BY StepKeepsVault, KeysStay, VaultAssumption DEF Typing, Rows, IsBound
<1> QED
  BY <1>1, <1>2, <1>3 DEF Gains

\* A step changes the record of at most one call.
LEMMA OthersStay ==
  ASSUME Calls, NEW w \in Worker, Begin(w) \/ Proceed(w) \/ Fail(w)
  PROVE  \A v \in Worker \ {w} : job'[v] = job[v]
<1> DEFINE Stay == \A v \in Worker \ {w} : job'[v] = job[v]
<1>1. ASSUME NEW c, Becomes(w, c) PROVE Stay
  BY <1>1 DEF Becomes, Calls
<1>2. CASE Begin(w) \/ Fail(w)
  BY <1>1, <1>2 DEF Begin, OnOrderPaid, DeliverAssigned, FulfilManually, MarkFailed, Fail, Crash, SendThrows,
     Goto, Return
<1>3. CASE \/ \E l \in Line : QueueMadeToOrder(w, l) \/ AssignLookup(w, l)
           \/ AssignPick(w) \/ AssignClaim(w) \/ QueueShort(w) \/ AdoptKey(w)
           \/ LinesDone(w) \/ AutoDeliver(w)
  BY <1>1, <1>3 DEF QueueMadeToOrder, AssignLookup, AssignPick, AssignClaim, QueueShort,
     AdoptKey, LinesDone, AutoDeliver, Goto, Return
<1>4. CASE \/ Gate(w) \/ AskBound(w) \/ AskLogged(w) \/ MailAccepted(w) \/ MailRefused(w)
           \/ RecordMail(w) \/ StampKey(w) \/ FinishLine(w) \/ Unlock(w)
           \/ CountLines(w) \/ ReadStatus(w) \/ MoveOrder(w) \/ StorePasted(w) \/ Requeue(w)
  BY <1>1, <1>4 DEF Gate, AskBound, AskLogged, MailAccepted, MailRefused, RecordMail, StampKey,
     FinishLine, Unlock, CountLines, ReadStatus, MoveOrder, StorePasted, Requeue, Goto, Return
<1> QED
  BY <1>2, <1>3, <1>4 DEF Proceed

-----------------------------------------------------------------------------
(***************************************************************************)
(* Delivery: what a row or a call says of money, key and email is true.    *)
(***************************************************************************)
\* What the step a call has reached says about the rows, so that the step it
\* takes next may rely on it although other calls ran in between.
Backed(w) ==
  LET c == job[w] IN
  /\ c.at \in {"bound", "logged", "store"} \cup MailSteps => status[c.ord] \in MoneyReleased
  /\ c.at \in {"adopt", "logged", "requeue"} \cup MailSteps => IsBound(c.ln)
  /\ c.at \in {"record", "stamp", "finish"} => sends[c.ln] > 0
  /\ c.at \in {"stamp", "finish"} => c.ln \in mailLog
  /\ c.at \in {"status", "move"} /\ c.done = "all" => \A m \in LinesOf(c.ord) : sends[m] > 0

LoggedWasSent == \A l \in mailLog : sends[l] > 0

Truth == /\ StockIsUntouched
         /\ NoKeyBeforeMoney
         /\ DeliveredWasSent
         /\ DeliveredKeyWasSent
         /\ AssignedHoldsKey
         /\ FulfilledSentAll
         /\ LoggedWasSent

Delivery == Typing /\ Truth /\ \A w \in Worker : Backed(w)

LEMMA GotoFields ==
  ASSUME Calls, NEW w \in Worker, NEW step, Goto(w, step)
  PROVE  /\ job'[w].at = step /\ job'[w].ln = job[w].ln /\ job'[w].ord = job[w].ord
         /\ job'[w].op = job[w].op /\ job'[w].done = job[w].done
<1>1. job[w] \in Jobs /\ job'[w] = [job[w] EXCEPT !.at = step]
  BY DEF Calls, PlacedCalls, Goto, Becomes
<1> QED
  BY <1>1 DEF Jobs

LEMMA ReturnFields ==
  ASSUME Calls, NEW w \in Worker, Return(w) PROVE job'[w].at = "idle"
<1>1. job'[w] = Idle
  BY DEF Calls, Return, Becomes
<1> QED
  BY <1>1 DEF Idle

\* A call that does not move stays backed.
LEMMA WaitingStaysBacked ==
  ASSUME Delivery, Gains, NEW w \in Worker, job'[w] = job[w]
  PROVE  Backed(w)'
<1>1. job[w] \in Jobs /\ Placed(job[w]) /\ Backed(w)
  BY DEF Delivery, Typing, Calls, PlacedCalls
<1>2. job[w].at # "idle" => job[w].ord \in Order
  BY <1>1 DEF Placed
<1>3. job[w].at \in {"adopt", "logged", "requeue"} \cup MailSteps => job[w].ln \in Line
  BY <1>1 DEF Placed, AssignSteps, SendSteps
<1>4. \A m \in LinesOf(job[w].ord) : m \in Line
  BY DEF LinesOf
<1> QED
  BY <1>1, <1>2, <1>3, <1>4 DEF Backed, Gains, MailSteps

\* The moves of onOrderPaid up to its first refresh.
LEMMA PaidIsBacked ==
  ASSUME Delivery, [Next]_vars, NEW w \in Worker,
         \/ \E o \in Order : OnOrderPaid(w, o)
         \/ \E l \in Line : QueueMadeToOrder(w, l) \/ AssignLookup(w, l)
         \/ AssignPick(w) \/ AssignClaim(w) \/ QueueShort(w) \/ AdoptKey(w)
         \/ LinesDone(w) \/ AutoDeliver(w)
  PROVE  Backed(w)'
<1>0. Calls /\ job[w] \in Jobs /\ Placed(job[w])
  BY DEF Delivery, Typing, Calls, PlacedCalls
<1> DEFINE Early == {"idle", "lines", "pick", "claim", "short", "count", "deliver", "gate"}
<1>1. ASSUME job'[w].at \in Early PROVE Backed(w)'
  BY <1>1 DEF Backed, MailSteps
<1>2. ASSUME NEW o \in Order, OnOrderPaid(w, o) PROVE job'[w].at = "lines"
  <2>1. Idle \in Jobs
    BY IdleIsPlaced DEF PlacedCalls
  <2> QED BY <1>0, <1>2, <2>1 DEF OnOrderPaid, Becomes, Calls, Jobs
<1>3. ASSUME NEW l \in Line, QueueMadeToOrder(w, l) PROVE job'[w].at = "lines"
  BY <1>0, <1>3 DEF QueueMadeToOrder, Becomes, Calls, Jobs, At
<1>4. ASSUME NEW l \in Line, AssignLookup(w, l) PROVE Backed(w)'
  <2>1. /\ job'[w].at = IF IsBound(l) THEN "adopt" ELSE "pick"
        /\ job'[w].ln = l
    BY <1>0, <1>4 DEF AssignLookup, Becomes, Calls, Jobs
  <2>2. IsBound(l)' <=> IsBound(l)
    BY <1>4 DEF AssignLookup, vaultVars, IsBound
  <2> QED BY <1>1, <2>1, <2>2 DEF Backed, MailSteps
<1>5. CASE AssignPick(w)
  <2>1. job'[w].at \in {"claim", "short"}
    BY <1>0, <1>5 DEF AssignPick, Becomes, Goto, Calls, Jobs
  <2> QED BY <1>1, <2>1
<1>6. CASE AssignClaim(w)
  <2>0. job[w].ln \in Line /\ job[w].key \in Key
    BY <1>0, <1>6 DEF AssignClaim, At, Placed, AssignSteps
  <2>1. CASE ClaimKey(job[w].key, job[w].ln) /\ Becomes(w, [job[w] EXCEPT !.at = "adopt", !.key = NoKey])
    <3>1. job'[w].at = "adopt" /\ job'[w].ln = job[w].ln
      BY <1>0, <2>1 DEF Becomes, Calls, Jobs
    <3>2. IsBound(job[w].ln)'
      BY <2>0, <2>1 DEF ClaimKey, IsBound, Delivery, Typing, Rows, VaultTypeOK, Becomes
    <3> QED BY <3>1, <3>2 DEF Backed, MailSteps, IsBound
  <2>2. CASE Becomes(w, [job[w] EXCEPT !.at = "short", !.key = NoKey])
    <3>1. job'[w].at = "short"
      BY <1>0, <2>2 DEF Becomes, Calls, Jobs
    <3> QED BY <1>1, <3>1
  <2>3. CASE Return(w)
    BY <1>0, <1>1, <2>3, ReturnFields
  <2> QED BY <1>6, <2>1, <2>2, <2>3 DEF AssignClaim
<1>7. CASE QueueShort(w)
  <2>1. job'[w].at = "lines"
    BY <1>0, <1>7 DEF QueueShort, Becomes, Calls, Jobs
  <2> QED BY <1>1, <2>1
<1>8. CASE AdoptKey(w)
  <2>1. job'[w].at = "lines"
    BY <1>0, <1>8 DEF AdoptKey, Becomes, Calls, Jobs
  <2> QED BY <1>1, <2>1
<1>9. CASE LinesDone(w)
  <2>1. job'[w].at = "count"
    BY <1>0, <1>9 DEF LinesDone, Becomes, Calls, Jobs
  <2> QED BY <1>1, <2>1
<1>10. CASE AutoDeliver(w)
  <2>1. CASE Return(w)
    BY <1>0, <1>1, <2>1, ReturnFields
  <2>2. ASSUME NEW l \in job[w].mine,
               \/ Becomes(w, [job[w] EXCEPT !.at = "gate", !.ln = l, !.mine = job[w].mine \ {l}])
               \/ Becomes(w, [job[w] EXCEPT !.mine = job[w].mine \ {l}])
        PROVE  Backed(w)'
    <3>1. job[w].at = "deliver"
      BY <1>10 DEF AutoDeliver, At
    <3>2. job'[w].at \in {"gate", "deliver"}
      BY <1>0, <2>2, <3>1 DEF Becomes, Calls, Jobs
    <3> QED BY <1>1, <3>2
  <2> QED BY <1>10, <2>1, <2>2 DEF AutoDeliver
<1> QED
  BY <1>1, <1>2, <1>3, <1>4, <1>5, <1>6, <1>7, <1>8, <1>9, <1>10

\* The send of a line: the gate is where money comes in, and what the gate, the
\* vault and the log answered stays true while the email is out.
LEMMA SendIsBacked ==
  ASSUME Delivery, [Next]_vars, NEW w \in Worker,
         \/ \E l \in Line : DeliverAssigned(w, l)
         \/ Gate(w) \/ AskBound(w) \/ AskLogged(w) \/ MailAccepted(w) \/ MailRefused(w)
         \/ RecordMail(w) \/ StampKey(w) \/ FinishLine(w) \/ Unlock(w)
  PROVE  Backed(w)'
<1>0. Calls /\ job[w] \in Jobs /\ Placed(job[w]) /\ Backed(w) /\ Gains
  BY NothingIsLost DEF Delivery, Truth, Typing, Calls, PlacedCalls
<1>1. job[w].at \in {"gate", "bound", "logged"} \cup MailSteps
        => /\ job[w].ln \in Line /\ job[w].ord = OrderOf[job[w].ln] /\ job[w].ord \in Order
  BY <1>0, FulfillmentAssumption DEF Placed, SendSteps, AssignSteps, MailSteps
<1>2. ASSUME NEW l \in Line, DeliverAssigned(w, l) PROVE Backed(w)'
  <2>1. Idle \in Jobs
    BY IdleIsPlaced DEF PlacedCalls
  <2>2. job'[w].at = "gate"
    BY <1>0, <1>2, <2>1 DEF DeliverAssigned, Becomes, Calls, Jobs
  <2> QED BY <2>2 DEF Backed, MailSteps
<1>3. CASE Gate(w)
  <2>1. MayDeliver(job[w].ln) => status'[job[w].ord] \in MoneyReleased
    BY <1>0, <1>1, <1>3 DEF Gate, At, MayDeliver, Deliverable, MoneyReleased, orderVars
  <2>2. job'[w].at = (IF MayDeliver(job[w].ln) THEN "bound" ELSE "unlock") /\ job'[w].ord = job[w].ord
    BY <1>0, <1>3, GotoFields DEF Gate
  <2> QED BY <2>1, <2>2 DEF Backed, MailSteps
<1>4. CASE AskBound(w)
  <2>1. /\ job'[w].at = (IF IsBound(job[w].ln) THEN "logged" ELSE "unlock")
        /\ job'[w].ord = job[w].ord /\ job'[w].ln = job[w].ln
    BY <1>0, <1>4, GotoFields DEF AskBound
  <2>2. status'[job[w].ord] \in MoneyReleased
    BY <1>0, <1>1, <1>4 DEF AskBound, At, Backed, Gains
  <2>3. IsBound(job[w].ln) => IsBound(job[w].ln)'
    BY <1>0, <1>1, <1>4, <2>1 DEF AskBound, At, Gains, IsBound
  <2> QED BY <2>1, <2>2, <2>3 DEF Backed, MailSteps, IsBound
<1>5. CASE AskLogged(w) \/ MailAccepted(w) \/ MailRefused(w) \/ RecordMail(w) \/ StampKey(w)
  <2>1. job[w].at \in {"logged", "email", "record", "stamp"}
    BY <1>5 DEF AskLogged, MailAccepted, MailRefused, RecordMail, StampKey, At
  <2>2. job'[w].ord = job[w].ord /\ job'[w].ln = job[w].ln
    BY <1>0, <1>5, GotoFields DEF AskLogged, MailAccepted, MailRefused, RecordMail, StampKey
  <2>3. status'[job[w].ord] \in MoneyReleased /\ IsBound(job[w].ln)'
    BY <1>0, <1>1, <2>1, <2>2 DEF Backed, Gains, MailSteps, IsBound
  <2>4. job'[w].at \in {"email", "record", "stamp", "finish", "requeue", "unlock"}
    BY <1>0, <1>5, GotoFields DEF AskLogged, MailAccepted, MailRefused, RecordMail, StampKey
  <2>5. job'[w].at = "record" => sends'[job[w].ln] > 0
    <3>1. SUFFICES ASSUME job'[w].at = "record" PROVE sends'[job[w].ln] > 0
      OBVIOUS
    <3>2. MailAccepted(w)
      BY <1>0, <1>5, <3>1, GotoFields DEF AskLogged, MailRefused, RecordMail, StampKey
    <3>3. PICK n \in {1, 2} : sends' = [sends EXCEPT ![job[w].ln] = n]
      BY <3>2 DEF MailAccepted
    <3> QED BY <1>1, <2>1, <3>3 DEF Delivery, Typing, Rows, MailSteps
  <2>6. job'[w].at = "stamp" => sends'[job[w].ln] > 0 /\ job[w].ln \in mailLog'
    <3>1. SUFFICES ASSUME job'[w].at = "stamp"
                   PROVE sends'[job[w].ln] > 0 /\ job[w].ln \in mailLog'
      OBVIOUS
    <3>2. CASE AskLogged(w)
      <4>1. job[w].ln \in mailLog
        BY <1>0, <3>1, <3>2, GotoFields DEF AskLogged
      <4>2. sends[job[w].ln] > 0
        BY <4>1 DEF Delivery, Truth, LoggedWasSent
      <4> QED BY <3>2, <4>1, <4>2 DEF AskLogged, lineVars
    <3>3. CASE RecordMail(w)
      BY <1>0, <3>3 DEF RecordMail, At, Backed, MailSteps
    <3> QED
      BY <1>0, <1>5, <3>1, <3>2, <3>3, GotoFields DEF MailAccepted, MailRefused, StampKey
  <2>7. job'[w].at = "finish" => sends'[job[w].ln] > 0 /\ job[w].ln \in mailLog'
    <3>1. SUFFICES ASSUME job'[w].at = "finish"
                   PROVE sends'[job[w].ln] > 0 /\ job[w].ln \in mailLog'
      OBVIOUS
    <3>2. StampKey(w)
      BY <1>0, <1>5, <3>1, GotoFields DEF AskLogged, MailAccepted, MailRefused, RecordMail
    <3> QED BY <1>0, <3>2 DEF StampKey, At, Backed, lineVars
  <2> QED BY <2>2, <2>3, <2>4, <2>5, <2>6, <2>7 DEF Backed, MailSteps, IsBound
<1>6. CASE FinishLine(w)
  <2>1. job'[w].at = "count"
    BY <1>0, <1>6 DEF FinishLine, Becomes, Calls, Jobs
  <2> QED BY <2>1 DEF Backed, MailSteps
<1>7. CASE Unlock(w)
  <2>1. job'[w].at \in {"deliver", "idle"}
    BY ZenonT(40), <1>0, <1>7, ReturnFields DEF Unlock, Becomes, Calls, Jobs
  <2> QED BY <2>1 DEF Backed, MailSteps
<1> QED
  BY <1>2, <1>3, <1>4, <1>5, <1>6, <1>7

\* The refresh of an order: "all delivered" means all sent, and stays so.
LEMMA RefreshIsBacked ==
  ASSUME Delivery, [Next]_vars, NEW w \in Worker,
         CountLines(w) \/ ReadStatus(w) \/ MoveOrder(w)
  PROVE  Backed(w)'
<1>0. Calls /\ job[w] \in Jobs /\ Backed(w)
  BY DEF Delivery, Typing, Calls, PlacedCalls
<1>1. CASE CountLines(w)
  <2>1. /\ job'[w].at = "status" /\ job'[w].ord = job[w].ord
        /\ job'[w].done = IF Delivered(job[w].ord) = LinesOf(job[w].ord) THEN "all"
                          ELSE IF Delivered(job[w].ord) = {} THEN "none" ELSE "some"
    BY <1>0, <1>1 DEF CountLines, Becomes, Calls, Jobs
  <2>2. job'[w].done = "all" => \A m \in LinesOf(job[w].ord) : line[m] = "DELIVERED"
    BY <2>1 DEF Delivered
  <2>3. \A m \in Line : line[m] = "DELIVERED" => sends'[m] > 0
    BY <1>1 DEF Delivery, Truth, DeliveredWasSent, CountLines, lineVars
  <2> QED BY <2>1, <2>2, <2>3 DEF Backed, MailSteps, LinesOf
<1>2. CASE ReadStatus(w)
  <2>1. /\ job'[w].at = "move" /\ job'[w].ord = job[w].ord /\ job'[w].done = job[w].done
    BY <1>0, <1>2 DEF ReadStatus, Becomes, Calls, Jobs
  <2>2. job[w].at = "status" /\ sends' = sends
    BY <1>2 DEF ReadStatus, At, lineVars
  <2> QED BY <1>0, <2>1, <2>2 DEF Backed, MailSteps, LinesOf
<1>3. CASE MoveOrder(w)
  <2>1. ASSUME Becomes(w, [job[w] EXCEPT !.at = AfterRefresh(w), !.done = "none",
                                         !.from = "PENDING_PAYMENT"])
        PROVE  job'[w].at = AfterRefresh(w)
    BY <1>0, <2>1 DEF Becomes, Calls, Jobs
  <2>2. AfterRefresh(w) \in {"unlock", "deliver", "idle"}
    BY DEF AfterRefresh
  <2>3. job'[w].at \in {"unlock", "deliver", "idle"}
    BY <1>0, <1>3, <2>1, <2>2, ReturnFields DEF MoveOrder
  <2> QED BY <2>3 DEF Backed, MailSteps
<1> QED
  BY <1>1, <1>2, <1>3

\* Staff's own calls, and a crash.
LEMMA StaffIsBacked ==
  ASSUME Delivery, [Next]_vars, NEW w \in Worker,
         \/ \E l \in Line : FulfilManually(w, l) \/ MarkFailed(w, l)
         \/ StorePasted(w) \/ Requeue(w) \/ Fail(w)
  PROVE  Backed(w)'
<1>0. Calls /\ job[w] \in Jobs /\ Placed(job[w]) /\ Backed(w) /\ Gains
  BY NothingIsLost DEF Delivery, Truth, Typing, Calls, PlacedCalls
<1>00. Idle \in Jobs
  BY IdleIsPlaced DEF PlacedCalls
<1>1. ASSUME NEW l \in Line, FulfilManually(w, l) PROVE Backed(w)'
  <2>1. job'[w].at = "store" /\ job'[w].ord = OrderOf[l]
    BY <1>0, <1>00, <1>1 DEF FulfilManually, Becomes, Calls, Jobs
  <2>2. status'[OrderOf[l]] \in MoneyReleased
    BY <1>1 DEF FulfilManually, MayDeliver, Deliverable, MoneyReleased, orderVars
  <2> QED BY <2>1, <2>2 DEF Backed, MailSteps
<1>2. ASSUME NEW l \in Line, MarkFailed(w, l) PROVE Backed(w)'
  <2>1. job'[w].at = "count"
    BY <1>0, <1>00, <1>2 DEF MarkFailed, Becomes, Calls, Jobs
  <2> QED BY <2>1 DEF Backed, MailSteps
<1>3. CASE StorePasted(w)
  <2>1. CASE Return(w)
    BY <1>0, <2>1, ReturnFields DEF Backed, MailSteps
  <2>2. ASSUME NEW k \in Key, StoreForLine(k, job[w].ln), Goto(w, "email") PROVE Backed(w)'
    <3>1. job'[w].at = "email" /\ job'[w].ord = job[w].ord /\ job'[w].ln = job[w].ln
      BY <1>0, <2>2, GotoFields
    <3>2. job[w].at = "store" /\ job[w].ord \in Order
      BY <1>0, <1>3 DEF StorePasted, At, Placed
    <3>3. status'[job[w].ord] \in MoneyReleased
      BY <1>0, <3>2 DEF Backed, Gains
    <3>4. keyLine'[k] = job[w].ln
      BY <2>2 DEF StoreForLine, Delivery, Typing, Rows, VaultTypeOK
    <3> QED BY <3>1, <3>3, <3>4 DEF Backed, MailSteps, IsBound
  <2> QED BY <1>3, <2>1, <2>2 DEF StorePasted
<1>4. CASE Requeue(w) \/ Fail(w)
  <2>1. job'[w].at \in {"idle", "unlock"}
    BY <1>0, <1>4, ReturnFields, GotoFields DEF Requeue, Fail, Crash, SendThrows
  <2> QED BY <2>1 DEF Backed, MailSteps
<1> QED
  BY <1>1, <1>2, <1>3, <1>4

LEMMA BackedStep ==
  ASSUME Delivery, [Next]_vars, NEW w \in Worker PROVE Backed(w)'
<1>1. Calls /\ Gains
  BY NothingIsLost DEF Delivery, Truth, Typing
<1>2. CASE Begin(w) \/ Proceed(w) \/ Fail(w)
  BY <1>2, PaidIsBacked, SendIsBacked, RefreshIsBacked, StaffIsBacked DEF Begin, Proceed
<1>3. ASSUME NEW v \in Worker \ {w}, Begin(v) \/ Proceed(v) \/ Fail(v) PROVE Backed(w)'
  BY <1>1, <1>3, OthersStay, WaitingStaysBacked
<1>4. CASE Environment
  BY <1>1, <1>4, WaitingStaysBacked DEF Environment, VaultMoves, Overrun, PaymentLands,
     ReleaseHold, CancelDraft, Refund, Dispute
<1>5. CASE UNCHANGED vars
  BY <1>1, <1>5, WaitingStaysBacked DEF vars
<1> QED
  BY <1>2, <1>3, <1>4, <1>5 DEF Next

\* An order becomes FULFILLED only by a call that counted every line delivered.
LEMMA FulfilledMoves ==
  ASSUME Typing, [Next]_vars, NEW o \in Order,
         status[o] # "FULFILLED", status'[o] = "FULFILLED"
  PROVE  \E w \in Worker : At(w, "move") /\ job[w].ord = o /\ job[w].done = "all"
<1> USE DEF Typing, Rows
<1>1. ASSUME NEW w \in Worker, MoveOrder(w)
      PROVE  At(w, "move") /\ job[w].ord = o /\ job[w].done = "all"
  <2>1. job[w].ord = o /\ status[o] = job[w].from /\ Target(w) = "FULFILLED"
    BY <1>1 DEF MoveOrder, AfterTransition
  <2>2. job[w].done = "all"
    BY <2>1 DEF Target
  <2> QED BY <1>1, <2>1, <2>2 DEF MoveOrder
<1>2. ASSUME NEW w \in Worker, Begin(w) \/ Fail(w) PROVE FALSE
  BY <1>2 DEF Begin, OnOrderPaid, DeliverAssigned, FulfilManually, MarkFailed, Fail, Crash, SendThrows,
     orderVars
<1>3. ASSUME NEW w \in Worker, Proceed(w), ~MoveOrder(w) PROVE FALSE
  BY <1>3
  DEF Proceed, QueueMadeToOrder, AssignLookup, AssignPick, AssignClaim, QueueShort, AdoptKey,
      LinesDone, AutoDeliver, Gate, AskBound, AskLogged, MailAccepted, MailRefused, RecordMail,
      StampKey, FinishLine, Unlock, CountLines, ReadStatus, StorePasted, Requeue, orderVars
<1>4. ASSUME Environment PROVE FALSE
  BY <1>4 DEF Environment, VaultMoves, Overrun, PaymentLands, ReleaseHold, CancelDraft, Refund,
     RefundOutcomes, Dispute, orderVars
<1> QED
  BY <1>1, <1>2, <1>3, <1>4 DEF Next, vars, orderVars

LEMMA TruthStep ==
  ASSUME Delivery, [Next]_vars PROVE Truth'
<1>0. Typing /\ Truth /\ Gains /\ VaultTypeOK
  BY NothingIsLost DEF Delivery, Truth, Typing, Rows
<1>1. ASSUME NEW w \in Worker PROVE job[w] \in Jobs /\ Placed(job[w]) /\ Backed(w)
  BY DEF Delivery, Typing, Calls, PlacedCalls
<1>2. /\ StockIsUntouched'
      /\ \A k \in Key : keyLine[k] # NoLine => keyLine'[k] = keyLine[k]
      /\ \A k \in Key : keyLine'[k] # keyLine[k] => ~keySent'[k]
  BY <1>0, KeysStay, StepKeepsVault DEF Truth
<1>3. ASSUME NEW k \in Key, keySent'[k], ~keySent[k]
      PROVE  \E w \in Worker : At(w, "stamp") /\ job[w].ln = keyLine[k] /\ job[w].ln \in Line
  <2>1. PICK w \in Worker : StampKey(w)
    BY <1>0, <1>3, StampMoves
  <2>2. keyLine[k] = job[w].ln
    BY <1>0, <1>3, <2>1 DEF StampKey, MarkDelivered, Unstamped, VaultTypeOK
  <2> QED BY <1>1, <2>1, <2>2 DEF StampKey, At, Placed, MailSteps
<1>4. LoggedWasSent'
  <2> SUFFICES ASSUME NEW l \in mailLog' PROVE sends'[l] > 0
    BY DEF LoggedWasSent
  <2>1. l \in Line
    BY <1>0, MailMoves
  <2>2. CASE l \in mailLog
    BY <1>0, <2>1, <2>2 DEF Truth, LoggedWasSent, Gains
  <2>3. CASE \E w \in Worker : At(w, "record") /\ job[w].ln = l
    BY <1>0, <1>1, <2>1, <2>3 DEF At, Backed, Gains
  <2> QED BY <1>0, <2>1, <2>2, <2>3, MailMoves DEF MailStep
<1>5. DeliveredWasSent'
  <2> SUFFICES ASSUME NEW l \in Line, line'[l] = "DELIVERED"
               PROVE  sends'[l] > 0 /\ l \in mailLog' /\ IsBound(l)'
    BY DEF DeliveredWasSent
  <2>1. CASE line[l] = "DELIVERED"
    BY <1>0, <2>1 DEF Truth, DeliveredWasSent, Gains
  <2>2. CASE \E w \in Worker : At(w, "finish") /\ job[w].ln = l
    BY <1>0, <1>1, <2>2 DEF At, Backed, MailSteps, Gains
  <2> QED BY <1>0, <2>1, <2>2, LineMoves DEF LineStep
<1>6. AssignedHoldsKey'
  <2> SUFFICES ASSUME NEW l \in Line, line'[l] = "AUTO_ASSIGNED" PROVE IsBound(l)'
    BY DEF AssignedHoldsKey
  <2>1. CASE line[l] = "AUTO_ASSIGNED"
    BY <1>0, <2>1 DEF Truth, AssignedHoldsKey, Gains
  <2>2. CASE \E w \in Worker : (At(w, "adopt") \/ At(w, "requeue")) /\ job[w].ln = l
    BY <1>0, <1>1, <2>2 DEF At, Backed, Gains
  <2> QED BY <1>0, <2>1, <2>2, LineMoves DEF LineStep
<1>7. DeliveredKeyWasSent'
  <2> SUFFICES ASSUME NEW k \in Key, keySent'[k]
               PROVE  keyLine'[k] # NoLine /\ sends'[keyLine'[k]] > 0
    BY DEF DeliveredKeyWasSent
  <2>1. keyLine[k] # NoLine /\ keyLine'[k] = keyLine[k] /\ keyLine[k] \in Line
    <3>1. keyLine'[k] = keyLine[k]
      BY <1>2
    <3>2. keyLine[k] # NoLine
      BY <1>0, <1>3, VaultAssumption DEF Truth, DeliveredKeyWasSent
    <3> QED BY <1>0, <3>1, <3>2 DEF VaultTypeOK
  <2>2. sends[keyLine[k]] > 0
    BY <1>0, <1>1, <1>3 DEF Truth, DeliveredKeyWasSent, At, Backed
  <2> QED BY <1>0, <2>1, <2>2 DEF Gains
<1>8. NoKeyBeforeMoney'
  <2> SUFFICES ASSUME NEW l \in Line,
                      sends'[l] > 0 \/ \E k \in Key : keyLine'[k] = l /\ keySent'[k]
               PROVE  status'[OrderOf[l]] \in MoneyReleased
    BY DEF NoKeyBeforeMoney
  <2>0. OrderOf[l] \in Order
    BY FulfillmentAssumption
  <2>1. CASE status[OrderOf[l]] \in MoneyReleased
    BY <1>0, <2>0, <2>1 DEF Gains
  <2>2. CASE \E w \in Worker : (At(w, "email") \/ At(w, "stamp")) /\ job[w].ln = l
    BY <1>0, <1>1, <2>0, <2>2 DEF At, Backed, Placed, MailSteps, Gains
  <2>3. CASE sends'[l] > 0
    <3>1. CASE sends[l] > 0
      BY <1>0, <2>1, <3>1 DEF Truth, NoKeyBeforeMoney
    <3> QED BY <1>0, <2>2, <2>3, <3>1, MailMoves DEF MailStep
  <2>4. ASSUME NEW k \in Key, keyLine'[k] = l, keySent'[k]
        PROVE  status'[OrderOf[l]] \in MoneyReleased
    <3>1. keyLine[k] = l
      BY <1>2, <2>4
    <3>2. CASE keySent[k]
      BY <1>0, <2>1, <3>1, <3>2 DEF Truth, NoKeyBeforeMoney
    <3> QED BY <1>3, <2>2, <2>4, <3>1, <3>2
  <2> QED BY <2>3, <2>4
<1>9. FulfilledSentAll'
  <2> SUFFICES ASSUME NEW l \in Line, status'[OrderOf[l]] \in {"FULFILLED", "COMPLETED"}
               PROVE  sends'[l] > 0
    BY DEF FulfilledSentAll
  <2>0. OrderOf[l] \in Order
    BY FulfillmentAssumption
  <2>1. CASE status[OrderOf[l]] \in {"FULFILLED", "COMPLETED"}
    BY <1>0, <2>1 DEF Truth, FulfilledSentAll, Gains
  <2>2. CASE status[OrderOf[l]] # "FULFILLED" /\ status'[OrderOf[l]] = "FULFILLED"
    <3>1. PICK w \in Worker : At(w, "move") /\ job[w].ord = OrderOf[l] /\ job[w].done = "all"
      BY <1>0, <2>0, <2>2, FulfilledMoves
    <3> QED BY <1>0, <1>1, <3>1 DEF At, Backed, LinesOf, Gains
  <2>3. CASE status'[OrderOf[l]] = "COMPLETED"
    <3>1. \/ status[OrderOf[l]] = "COMPLETED"
          \/ CanTransition(status[OrderOf[l]], "COMPLETED")
      BY <1>0, <2>0, <2>3, StatusMoves DEF OrderStep
    <3>2. ASSUME NEW s, CanTransition(s, "COMPLETED") PROVE s = "FULFILLED"
      BY <3>2 DEF CanTransition, OrderTransitions, RefundOutcomes
    <3> QED BY <2>1, <3>1, <3>2
  <2> QED BY <2>1, <2>2, <2>3
<1> QED
  BY <1>2, <1>4, <1>5, <1>6, <1>7, <1>8, <1>9 DEF Truth

LEMMA DeliveryInit == Init => Delivery
<1> SUFFICES ASSUME Init PROVE Delivery
  OBVIOUS
<1>1. Typing
  BY TypingInit
<1>2. Truth
  BY FulfillmentAssumption DEF Init, VaultInit, Truth, StockIsUntouched, NoKeyBeforeMoney,
     DeliveredWasSent, DeliveredKeyWasSent, AssignedHoldsKey, FulfilledSentAll, LoggedWasSent
<1>3. \A w \in Worker : Backed(w)
  BY DEF Init, Idle, Backed, MailSteps
<1> QED
  BY <1>1, <1>2, <1>3 DEF Delivery

THEOREM DeliveryAlways == Spec => []Delivery
<1>1. Delivery /\ [Next]_vars => Delivery'
  BY TypingStep, TruthStep, BackedStep DEF Delivery
<1> QED
  BY <1>1, DeliveryInit, PTL DEF Spec

\* No licence email leaves, and no key is stamped, before the money is released.
THEOREM NothingBeforeMoney == Spec => []NoKeyBeforeMoney
  BY DeliveryAlways, PTL DEF Delivery, Truth

\* A delivered line was emailed, its email is on record and it has a key.
THEOREM DeliveredMeansSent == Spec => []DeliveredWasSent
  BY DeliveryAlways, PTL DEF Delivery, Truth

\* A key stamped delivered belongs to a line that was emailed.
THEOREM DeliveredKeyMeansSent == Spec => []DeliveredKeyWasSent
  BY DeliveryAlways, PTL DEF Delivery, Truth

\* A line offered for sending has a key.
THEOREM AssignedMeansBound == Spec => []AssignedHoldsKey
  BY DeliveryAlways, PTL DEF Delivery, Truth

\* An order reported FULFILLED had every line emailed.
THEOREM FulfilledMeansSent == Spec => []FulfilledSentAll
  BY DeliveryAlways, PTL DEF Delivery, Truth

-----------------------------------------------------------------------------
(***************************************************************************)
(* The promise to the buyer: every step is a step of KeyDelivery or none.  *)
(***************************************************************************)
StampedLines == {l \in Line : \E k \in Key : keyLine[k] = l /\ keySent[k]}

\* A call that is about to show its line delivered has stamped its key.
FinishIsStamped == \A w \in Worker : At(w, "finish") => job[w].ln \in StampedLines

LEMMA StampsStay ==
  ASSUME Delivery, [Next]_vars
  PROVE  StampedLines \subseteq StampedLines'
<1>1. \A k \in Key : keyLine[k] # NoLine => keyLine'[k] = keyLine[k]
  BY StepKeepsVault, KeysStay DEF Delivery, Typing, Rows, Truth
<1>2. \A k \in Key : keySent[k] => keySent'[k]
  BY StampMoves DEF Delivery, StampKey, MarkDelivered
<1> QED BY <1>1, <1>2, VaultAssumption DEF StampedLines

\* The only way to the last step of a send.
LEMMA FinishFollowsStamp ==
  ASSUME Calls, NEW w \in Worker, Begin(w) \/ Proceed(w) \/ Fail(w), job'[w].at = "finish"
  PROVE  StampKey(w)
<1>0. job[w] \in Jobs /\ job \in [Worker -> PlacedCalls]
  BY DEF Calls, PlacedCalls
<1>1. ASSUME NEW step, Goto(w, step) PROVE step = "finish"
  BY <1>1, GotoFields
<1>2. ~Return(w)
  BY ReturnFields
<1>a. \A call : Becomes(w, call) => job'[w] = call
  BY <1>0 DEF Becomes
<1>3. CASE Begin(w)
  <2>1. \A o \in Order : OnOrderPaid(w, o) => job'[w].at = "lines"
    BY <1>a DEF OnOrderPaid, Idle
  <2>2. \A l \in Line : DeliverAssigned(w, l) => job'[w].at = "gate"
    BY <1>a DEF DeliverAssigned, Idle
  <2>3. \A l \in Line : FulfilManually(w, l) => job'[w].at = "store"
    BY <1>a DEF FulfilManually, Idle
  <2>4. \A l \in Line : MarkFailed(w, l) => job'[w].at = "count"
    BY <1>a DEF MarkFailed, Idle
  <2> QED BY <1>3, <2>1, <2>2, <2>3, <2>4 DEF Begin
<1>4. CASE Fail(w)
  BY <1>1, <1>2, <1>4 DEF Fail, Crash, SendThrows
<1>5. CASE \E l \in Line : QueueMadeToOrder(w, l) \/ AssignLookup(w, l)
  <2>1. PICK l \in Line : QueueMadeToOrder(w, l) \/ AssignLookup(w, l)
    BY <1>5
  <2>2. QueueMadeToOrder(w, l) => job'[w].at = "lines"
    BY <1>0, <1>a DEF QueueMadeToOrder, Jobs, At
  <2>3. AssignLookup(w, l) => job'[w].at \in {"adopt", "pick"}
    BY <1>0, <1>a DEF AssignLookup, Jobs
  <2> QED BY <2>1, <2>2, <2>3
<1>6. CASE AssignPick(w) \/ AssignClaim(w) \/ QueueShort(w) \/ AdoptKey(w) \/ LinesDone(w)
  <2>1. AssignPick(w) => job'[w].at = "claim"
    <3>1. AssignPick(w) => \E k \in Key : Becomes(w, [job[w] EXCEPT !.at = "claim", !.key = k])
      BY <1>1 DEF AssignPick, Offerable
    <3> QED BY <1>0, <1>a, <3>1 DEF Jobs
  <2>2. AssignClaim(w) => job'[w].at \in {"adopt", "short"}
    <3>1. AssignClaim(w) => \/ Becomes(w, [job[w] EXCEPT !.at = "adopt", !.key = NoKey])
                            \/ Becomes(w, [job[w] EXCEPT !.at = "short", !.key = NoKey])
      BY <1>2 DEF AssignClaim
    <3> QED BY <1>0, <1>a, <3>1 DEF Jobs
  <2>3. QueueShort(w) => job'[w].at = "lines"
    BY <1>0, <1>a DEF QueueShort, Jobs
  <2>4. LinesDone(w) => job'[w].at = "count"
    BY <1>0, <1>a DEF LinesDone, Jobs
  <2>5. AdoptKey(w) => job'[w].at = "lines"
    BY <1>0, <1>a DEF AdoptKey, Jobs
  <2> QED BY <1>6, <2>1, <2>2, <2>3, <2>4, <2>5
<1>7. CASE AutoDeliver(w) \/ FinishLine(w) \/ Unlock(w) \/ CountLines(w) \/ ReadStatus(w)
  <2>1. AutoDeliver(w) => FALSE
    <3>1. ASSUME NEW l, Becomes(w, [job[w] EXCEPT !.at = "gate", !.ln = l, !.mine = @ \ {l}])
          PROVE  job'[w].at = "gate"
      BY <1>0, <1>a, <3>1 DEF Jobs
    <3>2. ASSUME NEW l, At(w, "deliver"), Becomes(w, [job[w] EXCEPT !.mine = @ \ {l}])
          PROVE  job'[w].at = "deliver"
      BY <1>0, <1>a, <3>2 DEF Jobs, At
    <3> QED BY <1>2, <3>1, <3>2 DEF AutoDeliver
  <2>2. ~FinishLine(w)
    BY <1>0, <1>2, <1>a DEF FinishLine, Jobs
  <2>3. ~Unlock(w)
    BY <1>0, <1>2, <1>a DEF Unlock, Jobs
  <2>4. ~CountLines(w)
    BY <1>0, <1>a DEF CountLines, Jobs
  <2>5. ~ReadStatus(w)
    BY <1>0, <1>a DEF ReadStatus, Jobs
  <2> QED BY <1>7, <2>1, <2>2, <2>3, <2>4, <2>5
<1>8. CASE Gate(w) \/ AskBound(w) \/ AskLogged(w) \/ MailAccepted(w) \/ MailRefused(w) \/ RecordMail(w)
  BY <1>1, <1>8 DEF Gate, AskBound, AskLogged, MailAccepted, MailRefused, RecordMail
<1>9. CASE MoveOrder(w)
  BY <1>0, <1>2, <1>9, <1>a DEF MoveOrder, AfterRefresh, Jobs
<1>10. CASE StorePasted(w) \/ Requeue(w)
  BY <1>1, <1>2, <1>10 DEF StorePasted, Requeue
<1> QED
  BY <1>3, <1>4, <1>5, <1>6, <1>7, <1>8, <1>9, <1>10 DEF Proceed

LEMMA StampedFinishes ==
  ASSUME Delivery, FinishIsStamped, [Next]_vars
  PROVE  FinishIsStamped'
<1>0. Calls
  BY DEF Delivery, Typing
<1> SUFFICES ASSUME NEW w \in Worker, job'[w].at = "finish"
             PROVE  job'[w].ln \in StampedLines'
  BY DEF FinishIsStamped, At
<1>1. CASE job'[w] = job[w]
  BY <1>1, StampsStay DEF FinishIsStamped, At
<1>2. CASE Begin(w) \/ Proceed(w) \/ Fail(w)
  <2>1. StampKey(w)
    BY <1>0, <1>2, FinishFollowsStamp
  <2>2. job'[w].ln = job[w].ln
    BY <1>0, <2>1, GotoFields DEF StampKey
  <2>3. job[w].ln \in Line /\ IsBound(job[w].ln)
    BY <1>0, <2>1 DEF StampKey, At, Delivery, Backed, Calls, PlacedCalls, Placed, MailSteps
  <2>4. PICK k \in Key : keyLine[k] = job[w].ln
    BY <2>3 DEF IsBound
  <2>5. keyLine' = keyLine /\ keySent'[k]
    BY <2>1, <2>4 DEF StampKey, MarkDelivered, Unstamped
  <2> QED BY <2>2, <2>3, <2>4, <2>5 DEF StampedLines
<1>3. job'[w] = job[w] \/ Begin(w) \/ Proceed(w) \/ Fail(w)
  <2>1. ASSUME NEW v \in Worker, Begin(v) \/ Proceed(v) \/ Fail(v), v # w PROVE job'[w] = job[w]
    BY <1>0, <2>1, OthersStay
  <2>2. Environment \/ UNCHANGED vars => job' = job
    BY DEF Environment, VaultMoves, Overrun, PaymentLands, ReleaseHold, CancelDraft, Refund,
       Dispute, vars
  <2> QED BY <2>1, <2>2 DEF Next
<1> QED BY <1>1, <1>2, <1>3

LEMMA FinishIsStampedAlways == Spec => []FinishIsStamped
<1>1. Init => FinishIsStamped
  BY DEF Init, Idle, FinishIsStamped, At
<1> QED BY <1>1, StampedFinishes, DeliveryAlways, PTL DEF Spec

-----------------------------------------------------------------------------
Promised == [Promise!Next]_(Promise!deliveryVars)

keyRows == <<keyLine, keySent>>

\* A status written is money released, an order closed or reopened, or nothing
\* the buyer is promised anything about.
LEMMA StatusKeepsPromise ==
  ASSUME Delivery, Delivery', [Next]_vars, NEW o \in Order, NEW s,
         status' = [status EXCEPT ![o] = s], UNCHANGED <<keyRows, lineVars>>
  PROVE  Promised
<1> DEFINE Closed == {"FULFILLED", "COMPLETED"}
           released == {p \in Order : status[p] \in MoneyReleased}
           closed == {p \in Order : status[p] \in Closed}
<1>1. status \in [Order -> OrderStatuses] /\ status'[o] = s
      /\ \A p \in Order : p # o => status'[p] = status[p]
  BY DEF Delivery, Typing, Rows
<1>2. s = status[o] \/ CanTransition(status[o], s)
  BY <1>1, StatusMoves DEF Delivery, OrderStep
<1>3. /\ {l \in Line : IsBound(l)}' = {l \in Line : IsBound(l)}
      /\ {l \in Line : sends'[l] > 0} = {l \in Line : sends[l] > 0}
      /\ mailLog' = mailLog
      /\ {l \in Line : \E k \in Key : keyLine'[k] = l /\ keySent'[k]}
           = {l \in Line : \E k \in Key : keyLine[k] = l /\ keySent[k]}
      /\ {l \in Line : line'[l] = "DELIVERED"} = {l \in Line : line[l] = "DELIVERED"}
  BY DEF keyRows, lineVars, IsBound
<1>4. status[o] \in MoneyReleased => s \in MoneyReleased
  BY <1>2, MoneyStays
<1>5. Closed \subseteq MoneyReleased
  BY DEF MoneyReleased
<1>6. CASE status[o] \notin MoneyReleased /\ s \in MoneyReleased
  <2>1. s \notin Closed
    BY <1>2, <1>6 DEF CanTransition, OrderTransitions, MoneyReleased, RefundOutcomes
  <2>2. released' = released \cup {o} /\ closed' = closed
    BY <1>1, <1>5, <1>6, <2>1
  <2>3. Promise!Release(o)
    BY <1>3, <2>2 DEF Promise!Release
  <2> QED BY <2>3 DEF Promised, Promise!Next
<1>7. CASE status[o] \in MoneyReleased /\ status[o] \notin Closed /\ s \in Closed
  <2>1. released' = released /\ closed' = closed \cup {o} /\ o \in released
    BY <1>1, <1>4, <1>7
  <2>2. \A l \in Line : OrderOf[l] = o => sends'[l] > 0
    BY <1>1, <1>7 DEF Delivery, Truth, FulfilledSentAll
  <2>3. \A l \in Line : OrderOf[l] = o => l \in {m \in Line : sends[m] > 0}
    BY <1>3, <2>2
  <2>4. Promise!Close(o)
    BY <1>3, <2>1, <2>3 DEF Promise!Close
  <2> QED BY <2>4 DEF Promised, Promise!Next
<1>8. CASE status[o] \in Closed /\ s \notin Closed
  <2>1. released' = released /\ closed' = closed \ {o}
    BY <1>1, <1>4, <1>5, <1>8
  <2>2. Promise!Reopen(o)
    BY <1>3, <2>1 DEF Promise!Reopen
  <2> QED BY <2>2 DEF Promised, Promise!Next
<1>9. CASE /\ status[o] \in MoneyReleased <=> s \in MoneyReleased
           /\ status[o] \in Closed <=> s \in Closed
  <2>1. released' = released /\ closed' = closed
    BY <1>1, <1>9
  <2> QED BY <1>3, <2>1 DEF Promised, Promise!deliveryVars, Promise!orders
<1> QED BY <1>4, <1>5, <1>6, <1>7, <1>8, <1>9

\* A line written is shown, or no longer shown, as delivered.
LEMMA LineKeepsPromise ==
  ASSUME Delivery, FinishIsStamped, [Next]_vars, NEW l \in Line, NEW s,
         line' = [line EXCEPT ![l] = s], UNCHANGED <<keyRows, status, sends, mailLog>>
  PROVE  Promised
<1> DEFINE shown == {m \in Line : line[m] = "DELIVERED"}
<1>1. line \in [Line -> LineStates] /\ line'[l] = s
      /\ \A m \in Line : m # l => line'[m] = line[m]
  BY DEF Delivery, Typing, Rows
<1>2. /\ {m \in Line : IsBound(m)}' = {m \in Line : IsBound(m)}
      /\ {m \in Line : sends'[m] > 0} = {m \in Line : sends[m] > 0}
      /\ mailLog' = mailLog
      /\ {m \in Line : \E k \in Key : keyLine'[k] = m /\ keySent'[k]}
           = {m \in Line : \E k \in Key : keyLine[k] = m /\ keySent[k]}
      /\ {o \in Order : status'[o] \in MoneyReleased} = {o \in Order : status[o] \in MoneyReleased}
      /\ {o \in Order : status'[o] \in {"FULFILLED", "COMPLETED"}}
           = {o \in Order : status[o] \in {"FULFILLED", "COMPLETED"}}
  BY DEF keyRows, IsBound
<1>3. CASE s = "DELIVERED" /\ line[l] # "DELIVERED"
  <2>1. PICK w \in Worker : job[w].ln = l /\ At(w, "finish")
    BY <1>1, <1>3, LineMoves DEF Delivery, LineStep
  <2>2. l \in {m \in Line : \E k \in Key : keyLine[k] = m /\ keySent[k]}
    BY <2>1 DEF FinishIsStamped, StampedLines
  <2>3. shown' = shown \cup {l}
    BY <1>1, <1>3
  <2>4. Promise!Show(l)
    BY <1>2, <2>2, <2>3 DEF Promise!Show, Promise!orders
  <2> QED BY <2>4 DEF Promised, Promise!Next
<1>4. CASE s # "DELIVERED"
  <2>1. shown' = shown \ {l}
    BY <1>1, <1>4
  <2>2. Promise!TakeBack(l)
    BY <1>2, <2>1 DEF Promise!TakeBack, Promise!orders
  <2> QED BY <2>2 DEF Promised, Promise!Next
<1>5. CASE s = line[l]
  <2>1. shown' = shown
    BY <1>1, <1>5
  <2> QED BY <1>2, <2>1 DEF Promised, Promise!deliveryVars, Promise!orders
<1> QED BY <1>3, <1>4, <1>5

\* An email that leaves, and the row that says so.
LEMMA MailKeepsPromise ==
  ASSUME Delivery, NEW w \in Worker, MailAccepted(w) \/ RecordMail(w)
  PROVE  Promised
<1>1. PICK l \in Line : l = job[w].ln /\ job[w].ord = OrderOf[l]
  BY DEF MailAccepted, RecordMail, At, Delivery, Typing, Calls, PlacedCalls, Placed, MailSteps
<1>2. sends \in [Line -> 0..2] /\ mailLog \subseteq Line
  BY DEF Delivery, Typing, Rows
<1>3. /\ {m \in Line : IsBound(m)}' = {m \in Line : IsBound(m)}
      /\ {m \in Line : \E k \in Key : keyLine'[k] = m /\ keySent'[k]}
           = {m \in Line : \E k \in Key : keyLine[k] = m /\ keySent[k]}
      /\ {o \in Order : status'[o] \in MoneyReleased} = {o \in Order : status[o] \in MoneyReleased}
      /\ {o \in Order : status'[o] \in {"FULFILLED", "COMPLETED"}}
           = {o \in Order : status[o] \in {"FULFILLED", "COMPLETED"}}
      /\ {m \in Line : line'[m] = "DELIVERED"} = {m \in Line : line[m] = "DELIVERED"}
  BY DEF MailAccepted, RecordMail, vaultVars, orderVars, IsBound
<1>4. CASE MailAccepted(w)
  <2>1. IsBound(l) /\ status[OrderOf[l]] \in MoneyReleased /\ OrderOf[l] \in Order
    BY <1>1, <1>4, FulfillmentAssumption DEF MailAccepted, At, Delivery, Backed, MailSteps
  <2>2. PICK n \in 1..2 : sends' = [sends EXCEPT ![l] = n]
    <3>1. CASE sends[l] = 0
      BY <1>1, <1>4, <3>1 DEF MailAccepted
    <3>2. CASE sends[l] # 0
      BY <1>1, <1>4, <3>2 DEF MailAccepted
    <3> QED BY <3>1, <3>2
  <2>3. {m \in Line : sends'[m] > 0} = {m \in Line : sends[m] > 0} \cup {l}
    BY <1>1, <1>2, <2>2
  <2>4. mailLog' = mailLog
    BY <1>4 DEF MailAccepted
  <2>5. Promise!Email(l)
    BY <1>1, <1>3, <2>1, <2>3, <2>4 DEF Promise!Email, Promise!orders
  <2> QED BY <1>1, <2>5 DEF Promised, Promise!Next
<1>5. CASE RecordMail(w)
  <2>1. sends[l] > 0
    BY <1>1, <1>5 DEF RecordMail, At, Delivery, Backed
  <2>2. sends' = sends /\ mailLog' = mailLog \cup {l}
    BY <1>1, <1>5 DEF RecordMail
  <2>3. Promise!Record(l)
    BY <1>1, <1>3, <2>1, <2>2 DEF Promise!Record, Promise!orders
  <2> QED BY <1>1, <2>3 DEF Promised, Promise!Next
<1> QED BY <1>4, <1>5

\* A key set aside, or stamped after its email is on record.
LEMMA KeysKeepPromise ==
  ASSUME Delivery, [Next]_vars, UNCHANGED <<status, lineVars>>
  PROVE  Promised
<1> DEFINE bound == {m \in Line : IsBound(m)}
           stamped == {m \in Line : \E k \in Key : keyLine[k] = m /\ keySent[k]}
<1>1. /\ {m \in Line : sends'[m] > 0} = {m \in Line : sends[m] > 0}
      /\ mailLog' = mailLog
      /\ {o \in Order : status'[o] \in MoneyReleased} = {o \in Order : status[o] \in MoneyReleased}
      /\ {o \in Order : status'[o] \in {"FULFILLED", "COMPLETED"}}
           = {o \in Order : status[o] \in {"FULFILLED", "COMPLETED"}}
      /\ {m \in Line : line'[m] = "DELIVERED"} = {m \in Line : line[m] = "DELIVERED"}
  BY DEF lineVars
<1>2. [VaultNext]_vaultVars /\ VaultTypeOK /\ StockIsUntouched
  BY StepKeepsVault DEF Delivery, Typing, Rows, Truth
<1>3. /\ \A k \in Key : keyLine[k] # NoLine => keyLine'[k] = keyLine[k]
      /\ \A k \in Key : keyLine'[k] # keyLine[k] => ~keySent'[k]
  BY <1>2, KeysStay
<1>4. CASE bound' = bound /\ stamped' = stamped
  BY <1>1, <1>4 DEF Promised, Promise!deliveryVars, Promise!orders
<1>5. ASSUME NEW w \in Worker, StampKey(w) PROVE Promised
  <2>1. PICK l \in Line : l = job[w].ln /\ l \in mailLog /\ IsBound(l) /\ MarkDelivered(l)
    BY <1>5 DEF StampKey, At, Delivery, Backed, Typing, Calls, PlacedCalls, Placed, MailSteps
  <2>2. keyLine' = keyLine /\ \A k \in Key : keySent'[k] <=> keySent[k] \/ keyLine[k] = l
    BY <2>1 DEF MarkDelivered, Unstamped
  <2>3. bound' = bound
    BY <2>2 DEF IsBound
  <2>4. stamped' = stamped \cup {l}
    BY <2>1, <2>2 DEF IsBound
  <2>5. Promise!Stamp(l)
    BY <1>1, <2>1, <2>3, <2>4 DEF Promise!Stamp, Promise!orders
  <2> QED BY <2>5 DEF Promised, Promise!Next
<1>6. CASE keySent' = keySent
  <2>1. keyLine' = keyLine \/ \E k \in Key, l \in Line : keyLine' = [keyLine EXCEPT ![k] = l]
    BY <1>2 DEF VaultNext, ClaimKey, StoreForLine, ImportKey, RevokeKey, RevokeUnsold, Lapse,
       MarkDelivered, ExpireStale, vaultVars
  <2>2. CASE keyLine' = keyLine
    BY <1>4, <1>6, <2>2 DEF IsBound
  <2>3. CASE \E k \in Key, l \in Line : keyLine' = [keyLine EXCEPT ![k] = l]
    <3>1. PICK k \in Key, l \in Line : keyLine' = [keyLine EXCEPT ![k] = l]
      BY <2>3
    <3>2. keyLine'[k] = l /\ \A j \in Key : j # k => keyLine'[j] = keyLine[j]
      BY <1>2, <3>1 DEF VaultTypeOK
    <3>3. keyLine[k] = NoLine \/ keyLine[k] = l
      BY <1>3, <3>2
    <3>4. bound' = bound \cup {l}
      BY <3>2, <3>3, VaultAssumption DEF IsBound
    <3>5. stamped' = stamped
      BY <1>3, <1>6, <3>2, <3>3, VaultAssumption
    <3>6. Promise!Bind(l)
      BY <1>1, <3>4, <3>5 DEF Promise!Bind, Promise!orders
    <3> QED BY <3>6 DEF Promised, Promise!Next
  <2> QED BY <2>1, <2>2, <2>3
<1> QED BY <1>5, <1>6, StampMoves DEF Delivery

\* A step writes one status, or one line, or the mail's rows, or none of them.
LEMMA OneRowMoves ==
  ASSUME Delivery, [Next]_vars
  PROVE  \/ \E o \in Order, s \in OrderStatuses :
              status' = [status EXCEPT ![o] = s] /\ UNCHANGED <<keyRows, lineVars>>
         \/ \E l \in Line, s \in LineStates :
              line' = [line EXCEPT ![l] = s] /\ UNCHANGED <<keyRows, status, sends, mailLog>>
         \/ \E w \in Worker : MailAccepted(w) \/ RecordMail(w)
         \/ UNCHANGED <<status, lineVars>>
<1> DEFINE StatusIsWritten ==
             \E o \in Order : \E s : status' = [status EXCEPT ![o] = s] /\ UNCHANGED <<keyRows, lineVars>>
           LineIsWritten ==
             \E l \in Line : \E s : line' = [line EXCEPT ![l] = s]
                                /\ UNCHANGED <<keyRows, status, sends, mailLog>>
<1>0. /\ status' \in [Order -> OrderStatuses] /\ line' \in [Line -> LineStates]
      /\ status \in [Order -> OrderStatuses] /\ line \in [Line -> LineStates]
  BY StatusMoves, LineMoves DEF Delivery, Typing, Rows
<1>1. ASSUME NEW w \in Worker, MoveOrder(w) PROVE StatusIsWritten
  <2>1. job[w].ord \in Order
    BY <1>1 DEF MoveOrder, At, Delivery, Typing, Calls, PlacedCalls, Placed
  <2> QED BY <1>1, <2>1 DEF MoveOrder, vaultVars, keyRows
<1>2. ASSUME NEW o \in Order, PaymentLands(o) \/ ReleaseHold(o) \/ CancelDraft(o) \/ Refund(o)
      PROVE  StatusIsWritten
  <2>1. \E s : status' = [status EXCEPT ![o] = s]
    BY <1>2 DEF PaymentLands, ReleaseHold, CancelDraft, Refund
  <2>2. UNCHANGED <<keyRows, lineVars>>
    BY <1>2 DEF PaymentLands, ReleaseHold, CancelDraft, Refund, vaultVars, keyRows
  <2> QED BY <2>1, <2>2
<1>3. ASSUME NEW w \in Worker, QueueShort(w) \/ AdoptKey(w) \/ FinishLine(w) \/ Requeue(w)
      PROVE  LineIsWritten
  <2>1. job[w].ln \in Line
    BY <1>3 DEF QueueShort, AdoptKey, FinishLine, Requeue, At, Delivery, Typing, Calls,
       PlacedCalls, Placed, AssignSteps, MailSteps
  <2>2. \E s : line' = [line EXCEPT ![job[w].ln] = s]
    BY <1>3 DEF QueueShort, AdoptKey, FinishLine, Requeue
  <2>3. UNCHANGED <<keyRows, status, sends, mailLog>>
    BY <1>3 DEF QueueShort, AdoptKey, FinishLine, Requeue, vaultVars, orderVars, keyRows
  <2> QED BY <2>1, <2>2, <2>3
<1>4. ASSUME NEW w \in Worker, NEW l \in Line, QueueMadeToOrder(w, l) \/ MarkFailed(w, l)
      PROVE  LineIsWritten
  BY <1>4 DEF QueueMadeToOrder, MarkFailed, vaultVars, orderVars, keyRows
<1>5. StatusIsWritten \/ LineIsWritten \/ (\E w \in Worker : MailAccepted(w) \/ RecordMail(w))
      \/ UNCHANGED <<status, lineVars>>
  <2>1. ASSUME NEW w \in Worker, Begin(w) PROVE LineIsWritten \/ UNCHANGED <<status, lineVars>>
    BY <1>4, <2>1 DEF Begin, OnOrderPaid, DeliverAssigned, FulfilManually, orderVars
  <2>2. ASSUME NEW w \in Worker, Fail(w) PROVE UNCHANGED <<status, lineVars>>
    BY <2>2 DEF Fail, Crash, SendThrows, orderVars
  <2>3. ASSUME NEW w \in Worker, Proceed(w), ~MailAccepted(w), ~RecordMail(w)
        PROVE  StatusIsWritten \/ LineIsWritten \/ UNCHANGED <<status, lineVars>>
    <3>1. \/ AssignPick(w) \/ AssignClaim(w) \/ LinesDone(w) \/ AutoDeliver(w) \/ Gate(w)
          \/ AskBound(w) \/ AskLogged(w) \/ MailRefused(w) \/ StampKey(w) \/ Unlock(w)
          \/ CountLines(w) \/ ReadStatus(w) \/ StorePasted(w) \/ (\E l \in Line : AssignLookup(w, l))
          => UNCHANGED <<status, lineVars>>
      BY DEF AssignPick, AssignClaim, LinesDone, AutoDeliver, Gate, AskBound, AskLogged,
         MailRefused, StampKey, Unlock, CountLines, ReadStatus, StorePasted, AssignLookup, orderVars
    <3> QED BY <1>1, <1>3, <1>4, <2>3, <3>1 DEF Proceed
  <2>4. CASE Environment
    <3>1. VaultMoves \/ (\E l \in Line : Overrun(l)) \/ (\E o \in Order : Dispute(o))
          => UNCHANGED <<status, lineVars>>
      BY DEF VaultMoves, Overrun, Dispute, orderVars
    <3> QED BY <1>2, <2>4, <3>1 DEF Environment
  <2>5. CASE UNCHANGED vars
    BY <2>5 DEF vars, orderVars
  <2> QED BY <2>1, <2>2, <2>3, <2>4, <2>5 DEF Next
<1>6. StatusIsWritten => \E o \in Order, s \in OrderStatuses :
                           status' = [status EXCEPT ![o] = s] /\ UNCHANGED <<keyRows, lineVars>>
  BY <1>0
<1>7. LineIsWritten => \E l \in Line, s \in LineStates :
                         line' = [line EXCEPT ![l] = s] /\ UNCHANGED <<keyRows, status, sends, mailLog>>
  BY <1>0
<1> QED BY <1>5, <1>6, <1>7

\* Delivery implements KeyDelivery, for any orders, lines, keys and calls, with
\* crashes, throws, overruns, refunds and disputes at any statement: a line's key
\* is bound and its money released before its email, the email on record before
\* the stamp, the stamp before the line is shown (fulfillment.service.ts:999).
THEOREM DeliveryKeepsPromise == Spec => DeliveryKept
<1>1. Init => Promise!Init
  BY VaultAssumption
  DEF Init, VaultInit, Promise!Init, IsBound, MoneyReleased, RefundOutcomes
<1>2. Delivery /\ Delivery' /\ FinishIsStamped /\ [Next]_vars => Promised
  BY OneRowMoves, StatusKeepsPromise, LineKeepsPromise, MailKeepsPromise, KeysKeepPromise
<1> QED
  BY <1>1, <1>2, DeliveryAlways, FinishIsStampedAlways, PTL
  DEF Spec, DeliveryKept, Promise!Spec, Promised
=============================================================================
