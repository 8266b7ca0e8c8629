--------------------------- MODULE SendLock_proofs ---------------------------
(***************************************************************************)
(* What the advisory lock around a send is worth, proved for any number of *)
(* lines and calls: with a lock that is never lost, one call at a time     *)
(* sends a line; with every send under the lock, none follows a recorded   *)
(* one; and without crashes no line is emailed twice.                      *)
(***************************************************************************)
EXTENDS Fulfillment_proofs

\* A call in the locked part of a send holds the lock of its line.
HoldsLock(w) ==
  LET c == job[w] IN
  c.ln \in Line /\ c.op \in {"paid", "send"} /\ c.at \notin AssignSteps => lock[c.ln] = w

Locked == Typing /\ \A w \in Worker : HoldsLock(w)

\* Without overruns a lock is only given up by the call that holds it.
LEMMA LockStays ==
  ASSUME LockOverruns = FALSE, Typing, [Next]_vars, NEW v \in Worker, NEW l \in Line, lock[l] = v
  PROVE  lock'[l] = v \/ Unlock(v) \/ Fail(v)
<1> USE FulfillmentAssumption DEF Typing, Rows
<1>1. ASSUME NEW w \in Worker, NEW m \in Line, DeliverAssigned(w, m) PROVE lock'[l] = v
  BY <1>1 DEF DeliverAssigned
<1>2. ASSUME NEW w \in Worker, AutoDeliver(w) PROVE lock'[l] = v
  BY <1>2 DEF AutoDeliver
<1>3. ASSUME NEW w \in Worker \ {v}, Unlock(w) \/ Fail(w) PROVE lock'[l] = v
  BY <1>3 DEF Unlock, Fail, Crash, SendThrows
<1>4. ASSUME NEW w \in Worker, Begin(w), \A m \in Line : ~DeliverAssigned(w, m)
      PROVE  lock' = lock
  BY <1>4 DEF Begin, OnOrderPaid, FulfilManually, MarkFailed
<1>5. ASSUME NEW w \in Worker, Proceed(w), ~AutoDeliver(w), ~Unlock(w) PROVE lock' = lock
  BY <1>5
  DEF Proceed, QueueMadeToOrder, AssignLookup, AssignPick, AssignClaim, QueueShort, AdoptKey,
      LinesDone, Gate, AskBound, AskLogged, MailAccepted, MailRefused, RecordMail, StampKey,
      FinishLine, CountLines, ReadStatus, MoveOrder, StorePasted, Requeue
<1>6. ASSUME Environment PROVE lock' = lock
  BY <1>6 DEF Environment, VaultMoves, Overrun, PaymentLands, ReleaseHold, CancelDraft, Refund,
     Dispute
<1> QED
  BY <1>1, <1>2, <1>3, <1>4, <1>5, <1>6 DEF Next, vars

LEMMA PickFields ==
  ASSUME Calls, NEW w \in Worker, AssignPick(w) PROVE job'[w].at \in AssignSteps
<1>1. job[w] \in Jobs
  BY DEF Calls, PlacedCalls
<1>2. ASSUME NEW k, Becomes(w, [job[w] EXCEPT !.at = "claim", !.key = k])
      PROVE  job'[w].at = "claim"
  BY <1>1, <1>2 DEF Becomes, Calls, Jobs
<1>3. ASSUME Goto(w, "short") PROVE job'[w].at = "short"
  BY <1>3, GotoFields
<1> QED
  BY <1>2, <1>3 DEF AssignPick, AssignSteps

\* A call keeps its lock through every step but the ones that end its send.
LEMMA MovingHoldsLock ==
  ASSUME Locked, NEW w \in Worker, Begin(w) \/ Proceed(w) \/ Fail(w)
  PROVE  HoldsLock(w)'
<1>0. Calls /\ job[w] \in Jobs /\ Placed(job[w]) /\ HoldsLock(w) /\ NoLine \notin Line
  BY VaultAssumption DEF Locked, Typing, Calls, PlacedCalls
<1>00. lock \in [Line -> Worker \cup {NoWorker}]
  BY DEF Locked, Typing, Rows
<1>1. ASSUME Return(w) PROVE HoldsLock(w)'
  <2>1. job'[w].ln = NoLine
    BY <1>0, <1>1 DEF Return, Becomes, Calls, Idle
  <2> QED BY <1>0, <2>1 DEF HoldsLock
<1>2. ASSUME NEW step \in Steps \ AssignSteps, Goto(w, step), job[w].at \notin AssignSteps,
             lock' = lock
      PROVE HoldsLock(w)'
  <2>1. job'[w].ln = job[w].ln /\ job'[w].op = job[w].op
    BY <1>0, <1>2, GotoFields
  <2> QED BY <1>0, <1>2, <2>1 DEF HoldsLock
<1>3. ASSUME job'[w].ln = NoLine PROVE HoldsLock(w)'
  BY <1>0, <1>3 DEF HoldsLock
<1>4. ASSUME job'[w].op \notin {"paid", "send"} \/ job'[w].at \in AssignSteps PROVE HoldsLock(w)'
  BY <1>4 DEF HoldsLock
<1>5. Idle \in Jobs /\ Idle.ln = NoLine
  BY IdleIsPlaced DEF PlacedCalls
<1>6. ASSUME NEW o \in Order, OnOrderPaid(w, o) PROVE HoldsLock(w)'
  <2>1. job'[w].ln = NoLine
    BY <1>0, <1>5, <1>6 DEF OnOrderPaid, Becomes, Calls, Jobs
  <2> QED BY <1>3, <2>1
<1>7. ASSUME NEW l \in Line, DeliverAssigned(w, l) PROVE HoldsLock(w)'
  <2>1. job'[w].ln = l /\ lock'[l] = w
    BY <1>0, <1>00, <1>5, <1>7 DEF DeliverAssigned, Becomes, Calls, Jobs
  <2> QED BY <2>1 DEF HoldsLock
<1>8. ASSUME NEW l \in Line, FulfilManually(w, l) \/ MarkFailed(w, l) PROVE HoldsLock(w)'
  <2>1. FulfilManually(w, l) => job'[w].op = "manual"
    BY <1>0, <1>5 DEF FulfilManually, Becomes, Calls, Jobs
  <2>2. MarkFailed(w, l) => job'[w].op = "fail"
    BY <1>0, <1>5 DEF MarkFailed, Becomes, Calls, Jobs
  <2> QED BY <1>4, <1>8, <2>1, <2>2
<1>9. ASSUME NEW l \in Line, QueueMadeToOrder(w, l) PROVE HoldsLock(w)'
  <2>1. job'[w].ln = NoLine
    BY <1>0, <1>9 DEF QueueMadeToOrder, At, Placed, Becomes, Calls, Jobs
  <2> QED BY <1>3, <2>1
<1>10. CASE (\E l \in Line : AssignLookup(w, l)) \/ AssignPick(w)
  <2>1. ASSUME NEW l \in Line, AssignLookup(w, l) PROVE job'[w].at \in AssignSteps
    BY <1>0, <2>1 DEF AssignLookup, Becomes, Calls, Jobs, AssignSteps
  <2>2. AssignPick(w) => job'[w].at \in AssignSteps
    BY <1>0, PickFields
  <2> QED BY <1>4, <1>10, <2>1, <2>2
<1>11. CASE AssignClaim(w)
  <2>1. CASE Return(w)
    BY <1>1, <2>1
  <2>2. ASSUME NEW step \in AssignSteps, Becomes(w, [job[w] EXCEPT !.at = step, !.key = NoKey])
        PROVE  HoldsLock(w)'
    <3>1. job'[w].at = step
      BY <1>0, <2>2 DEF Becomes, Calls, Jobs
    <3> QED BY <1>4, <3>1
  <2> QED BY <1>11, <2>1, <2>2 DEF AssignClaim, AssignSteps
<1>12. CASE QueueShort(w) \/ AdoptKey(w)
  <2>1. job'[w].ln = NoLine
    BY <1>0, <1>12 DEF QueueShort, AdoptKey, Becomes, Calls, Jobs
  <2> QED BY <1>3, <2>1
<1>13. CASE LinesDone(w)
  <2>1. job'[w].ln = NoLine
    BY <1>0, <1>13 DEF LinesDone, At, Placed, Becomes, Calls, Jobs
  <2> QED BY <1>3, <2>1
<1>14. CASE AutoDeliver(w)
  <2>1. CASE Return(w)
    BY <1>1, <2>1
  <2>2. ASSUME NEW l \in job[w].mine, lock' = [lock EXCEPT ![l] = w],
               Becomes(w, [job[w] EXCEPT !.at = "gate", !.ln = l, !.mine = job[w].mine \ {l}])
        PROVE  HoldsLock(w)'
    <3>1. job'[w].ln = l /\ l \in Line
      BY <1>0, <2>2 DEF Becomes, Calls, Jobs
    <3> QED BY <1>00, <2>2, <3>1 DEF HoldsLock
  <2>3. ASSUME NEW l \in job[w].mine, Becomes(w, [job[w] EXCEPT !.mine = job[w].mine \ {l}])
        PROVE  HoldsLock(w)'
    <3>1. job'[w].ln = NoLine
      BY <1>0, <1>14, <2>3 DEF AutoDeliver, At, Placed, Becomes, Calls, Jobs
    <3> QED BY <1>3, <3>1
  <2> QED BY <1>14, <2>1, <2>2, <2>3 DEF AutoDeliver
<1>15. CASE \/ Gate(w) \/ AskBound(w) \/ AskLogged(w) \/ MailAccepted(w) \/ MailRefused(w)
            \/ RecordMail(w) \/ StampKey(w)
  BY <1>2, <1>15 DEF Gate, AskBound, AskLogged, MailAccepted, MailRefused, RecordMail, StampKey,
     At, Steps, AssignSteps
<1>16. CASE FinishLine(w) \/ CountLines(w) \/ ReadStatus(w)
  <2>1. job[w].at \notin AssignSteps /\ lock' = lock
    BY <1>16 DEF FinishLine, CountLines, ReadStatus, At, AssignSteps
  <2>2. FinishLine(w) => job'[w].ln = job[w].ln /\ job'[w].op = job[w].op
    BY <1>0 DEF FinishLine, Becomes, Calls, Jobs
  <2>3. CountLines(w) => job'[w].ln = job[w].ln /\ job'[w].op = job[w].op
    BY <1>0 DEF CountLines, Becomes, Calls, Jobs
  <2>4. ReadStatus(w) => job'[w].ln = job[w].ln /\ job'[w].op = job[w].op
    BY <1>0 DEF ReadStatus, Becomes, Calls, Jobs
  <2> QED BY <1>0, <1>16, <2>1, <2>2, <2>3, <2>4 DEF HoldsLock
<1>17. CASE MoveOrder(w)
  <2>1. CASE Return(w)
    BY <1>1, <2>1
  <2>2. ASSUME Becomes(w, [job[w] EXCEPT !.at = AfterRefresh(w), !.done = "none",
                                         !.from = "PENDING_PAYMENT"])
        PROVE  job'[w].ln = job[w].ln /\ job'[w].op = job[w].op
    BY <1>0, <2>2 DEF Becomes, Calls, Jobs
  <2>3. job[w].at \notin AssignSteps /\ lock' = lock
    BY <1>17 DEF MoveOrder, At, AssignSteps
  <2> QED BY <1>0, <1>17, <2>1, <2>2, <2>3 DEF MoveOrder, HoldsLock
<1>18. CASE Unlock(w)
  <2>1. CASE Return(w)
    BY <1>1, <2>1
  <2>2. ASSUME Becomes(w, [job[w] EXCEPT !.at = "deliver", !.ln = NoLine])
        PROVE  job'[w].ln = NoLine
    BY <1>0, <2>2 DEF Becomes, Calls, Jobs
  <2> QED BY <1>3, <1>18, <2>1, <2>2 DEF Unlock
<1>19. CASE StorePasted(w)
  <2>1. job[w].op = "manual"
    BY <1>0, <1>19 DEF StorePasted, At, Placed
  <2>2. CASE Goto(w, "email")
    BY <1>0, <1>4, <2>1, <2>2, GotoFields
  <2> QED BY <1>1, <1>19, <2>2 DEF StorePasted
<1>20. CASE Requeue(w) \/ Crash(w)
  BY <1>1, <1>20 DEF Requeue, Crash
<1>21. CASE SendThrows(w)
  <2>1. job'[w].ln = job[w].ln /\ job'[w].op = job[w].op
    BY <1>0, <1>21, GotoFields DEF SendThrows
  <2>2. job[w].at \notin AssignSteps /\ lock' = lock
    BY <1>21 DEF SendThrows, AssignSteps
  <2> QED BY <1>0, <2>1, <2>2 DEF HoldsLock
<1> QED
  BY <1>6, <1>7, <1>8, <1>9, <1>10, <1>11, <1>12, <1>13, <1>14, <1>15, <1>16, <1>17, <1>18,
     <1>19, <1>20, <1>21 DEF Begin, Proceed, Fail

LEMMA LockedStep ==
  ASSUME LockOverruns = FALSE, Locked, [Next]_vars PROVE Locked'
<1>1. Typing' /\ Calls
  BY TypingStep DEF Locked, Typing
<1>2. ASSUME NEW v \in Worker, job'[v] = job[v], ~Unlock(v), ~Fail(v) PROVE HoldsLock(v)'
  <2>1. SUFFICES ASSUME job[v].ln \in Line, lock[job[v].ln] = v PROVE lock'[job[v].ln] = v
    BY <1>2 DEF Locked, HoldsLock
  <2> QED BY <1>2, <2>1, LockStays DEF Locked
<1>3. ASSUME NEW v \in Worker PROVE HoldsLock(v)'
  <2>1. CASE Begin(v) \/ Proceed(v) \/ Fail(v)
    BY <2>1, MovingHoldsLock
  <2>2. CASE ~(Begin(v) \/ Proceed(v) \/ Fail(v))
    <3>1. ~Unlock(v) /\ ~Fail(v)
      BY <2>2 DEF Proceed
    <3>2. job'[v] = job[v]
      <4>1. ASSUME NEW w \in Worker, Begin(w) \/ Proceed(w) \/ Fail(w) PROVE job'[v] = job[v]
        BY <1>1, <2>2, <4>1, OthersStay
      <4>2. ASSUME Environment PROVE job' = job
        BY <4>2 DEF Environment, VaultMoves, Overrun, PaymentLands, ReleaseHold, CancelDraft,
           Refund, Dispute
      <4> QED BY <4>1, <4>2 DEF Next, vars
    <3> QED BY <1>2, <3>1, <3>2
  <2> QED BY <2>1, <2>2
<1> QED
  BY <1>1, <1>3 DEF Locked

LEMMA LockedAlways == ASSUME LockOverruns = FALSE PROVE Spec => []Locked
<1>1. Init => Locked
  BY TypingInit, VaultAssumption DEF Init, Idle, Locked, HoldsLock
<1>2. Locked /\ [Next]_vars => Locked'
  BY LockedStep
<1> QED
  BY <1>1, <1>2, PTL DEF Spec

LEMMA LockedIsAlone ==
  ASSUME Locked, NEW l \in Line, NEW v \in Sending(l), NEW w \in Sending(l) PROVE v = w
  BY DEF Locked, HoldsLock, Sending, AssignSteps

\* While no lock is lost, one call at a time sends a line, through any crash.
THEOREM OneSender == ASSUME LockOverruns = FALSE PROVE Spec => []OneSenderPerLine
<1>1. Locked => OneSenderPerLine
  BY LockedIsAlone DEF OneSenderPerLine
<1> QED
  BY <1>1, LockedAlways, PTL

-----------------------------------------------------------------------------
(***************************************************************************)
(* Every send under the lock: no delivery by hand (HandLines = {}).        *)
(***************************************************************************)
\* A call about to email has read a log that still does not name the line.
FreshEmail == \A w \in Worker : At(w, "email") => job[w].ln \notin mailLog

LEMMA LockedSteps ==
  ASSUME HandLines = {}, Locked, NEW w \in Worker,
         job[w].at \in {"logged", "email", "record"}
  PROVE  job[w].ln \in Line /\ w \in Sending(job[w].ln)
<1>1. Placed(job[w])
  BY DEF Locked, Typing, Calls, PlacedCalls
<1> QED
  BY <1>1 DEF Placed, SendSteps, MailSteps, Sending

\* A call reaches the email from the log or from the vault, and the record from
\* the email.
LEMMA MailSources ==
  ASSUME Calls, NEW w \in Worker, Begin(w) \/ Proceed(w) \/ Fail(w)
  PROVE  /\ job'[w].at = "email" => AskLogged(w) \/ StorePasted(w)
         /\ job'[w].at = "record" => MailAccepted(w)
<1> DEFINE Elsewhere == job'[w].at \notin {"email", "record"}
<1>0. job[w] \in Jobs /\ Idle \in Jobs
  BY IdleIsPlaced DEF Calls, PlacedCalls
<1> USE DEF Calls, Becomes
<1>1. ASSUME Return(w) PROVE Elsewhere
  BY <1>1, ReturnFields
<1>2. ASSUME NEW o \in Order, OnOrderPaid(w, o) PROVE Elsewhere
  BY <1>0, <1>2 DEF OnOrderPaid, Jobs
<1>3. ASSUME NEW l \in Line, DeliverAssigned(w, l) PROVE Elsewhere
  BY <1>0, <1>3 DEF DeliverAssigned, Jobs
<1>4. ASSUME NEW l \in Line, FulfilManually(w, l) PROVE Elsewhere
  BY <1>0, <1>4 DEF FulfilManually, Jobs
<1>5. ASSUME NEW l \in Line, MarkFailed(w, l) PROVE Elsewhere
  BY <1>0, <1>5 DEF MarkFailed, Jobs
<1>6. ASSUME NEW l \in Line, QueueMadeToOrder(w, l) PROVE Elsewhere
  BY <1>0, <1>6 DEF QueueMadeToOrder, At, Jobs
<1>7. ASSUME NEW l \in Line, AssignLookup(w, l) PROVE Elsewhere
  BY <1>0, <1>7 DEF AssignLookup, Jobs
<1>8. ASSUME AssignPick(w) PROVE Elsewhere
  BY <1>8, PickFields DEF AssignSteps
<1>9. ASSUME AssignClaim(w) PROVE Elsewhere
  <2>1. ASSUME NEW step \in AssignSteps, job' = [job EXCEPT ![w] = [job[w] EXCEPT !.at = step, !.key = NoKey]]
        PROVE  Elsewhere
    BY <1>0, <2>1 DEF Jobs, AssignSteps
  <2> QED BY <1>1, <1>9, <2>1 DEF AssignClaim, AssignSteps
<1>10. ASSUME QueueShort(w) PROVE Elsewhere
  BY <1>0, <1>10 DEF QueueShort, Jobs
<1>11. ASSUME AdoptKey(w) PROVE Elsewhere
  BY <1>0, <1>11 DEF AdoptKey, Jobs
<1>12. ASSUME LinesDone(w) PROVE Elsewhere
  BY <1>0, <1>12 DEF LinesDone, Jobs
<1>13. ASSUME AutoDeliver(w) PROVE Elsewhere
  <2>1. ASSUME NEW l, job' = [job EXCEPT ![w] = [job[w] EXCEPT !.at = "gate", !.ln = l,
                                                              !.mine = job[w].mine \ {l}]]
        PROVE  Elsewhere
    BY <1>0, <2>1 DEF Jobs
  <2>2. ASSUME NEW l, job' = [job EXCEPT ![w] = [job[w] EXCEPT !.mine = job[w].mine \ {l}]]
        PROVE  Elsewhere
    <3>1. job[w].at = "deliver"
      BY <1>13 DEF AutoDeliver, At
    <3> QED BY <1>0, <2>2, <3>1 DEF Jobs
  <2> QED BY <1>1, <1>13, <2>1, <2>2 DEF AutoDeliver
<1>14. ASSUME Gate(w) \/ AskBound(w) \/ MailRefused(w) \/ RecordMail(w) \/ StampKey(w) PROVE Elsewhere
  BY <1>14, GotoFields DEF Gate, AskBound, MailRefused, RecordMail, StampKey
<1>15. ASSUME FinishLine(w) PROVE Elsewhere
  BY <1>0, <1>15 DEF FinishLine, Jobs
<1>16. ASSUME Unlock(w) PROVE Elsewhere
  BY <1>0, <1>1, <1>16 DEF Unlock, Jobs
<1>17. ASSUME CountLines(w) PROVE Elsewhere
  BY <1>0, <1>17 DEF CountLines, Jobs
<1>18. ASSUME ReadStatus(w) PROVE Elsewhere
  BY <1>0, <1>18 DEF ReadStatus, Jobs
<1>19. ASSUME MoveOrder(w) PROVE Elsewhere
  <2>1. ASSUME job' = [job EXCEPT ![w] = [job[w] EXCEPT !.at = AfterRefresh(w), !.done = "none",
                                                      !.from = "PENDING_PAYMENT"]]
        PROVE  job'[w].at = AfterRefresh(w)
    BY <1>0, <2>1 DEF Jobs
  <2>2. AfterRefresh(w) \notin {"email", "record"}
    BY DEF AfterRefresh
  <2> QED BY <1>1, <1>19, <2>1, <2>2 DEF MoveOrder
<1>20. ASSUME Requeue(w) \/ Fail(w) PROVE Elsewhere
  BY <1>1, <1>20, GotoFields DEF Requeue, Fail, Crash, SendThrows
<1>21. CASE AskLogged(w) \/ MailAccepted(w)
  BY <1>21, GotoFields DEF AskLogged, MailAccepted
<1>22. ASSUME StorePasted(w) PROVE job'[w].at # "record"
  BY <1>1, <1>22, GotoFields DEF StorePasted
<1> QED
  BY <1>2, <1>3, <1>4, <1>5, <1>6, <1>7, <1>8, <1>9, <1>10, <1>11, <1>12, <1>13, <1>14, <1>15,
     <1>16, <1>17, <1>18, <1>19, <1>20, <1>21, <1>22 DEF Begin, Proceed

\* In a step, a call moves by itself or keeps its record.
LEMMA MovesOrWaits ==
  ASSUME Calls, [Next]_vars, NEW w \in Worker
  PROVE  Begin(w) \/ Proceed(w) \/ Fail(w) \/ job'[w] = job[w]
<1>1. ASSUME NEW v \in Worker \ {w}, Begin(v) \/ Proceed(v) \/ Fail(v) PROVE job'[w] = job[w]
  BY <1>1, OthersStay
<1>2. ASSUME Environment PROVE job' = job
  BY <1>2 DEF Environment, VaultMoves, Overrun, PaymentLands, ReleaseHold, CancelDraft, Refund,
     Dispute
<1> QED
  BY <1>1, <1>2 DEF Next, vars

LEMMA EmailMoves ==
  ASSUME HandLines = {}, Locked, [Next]_vars, NEW w \in Worker, job'[w].at = "email"
  PROVE  job'[w] = job[w] \/ AskLogged(w)
<1>1. Calls /\ Placed(job[w])
  BY DEF Locked, Typing, Calls, PlacedCalls
<1>2. ~StorePasted(w)
  BY <1>1 DEF StorePasted, At, Placed
<1> QED
  BY <1>1, <1>2, MovesOrWaits, MailSources

LEMMA FreshStep ==
  ASSUME HandLines = {}, Locked, FreshEmail, [Next]_vars PROVE FreshEmail'
<1> SUFFICES ASSUME NEW w \in Worker, job'[w].at = "email" PROVE job'[w].ln \notin mailLog'
  BY DEF FreshEmail, At
<1>1. Typing /\ Calls
  BY DEF Locked, Typing
<1>2. CASE AskLogged(w)
  BY <1>1, <1>2, GotoFields DEF AskLogged, lineVars
<1>3. CASE job'[w] = job[w]
  <2>1. job[w].at = "email" /\ job[w].ln \notin mailLog
    BY <1>3 DEF FreshEmail, At
  <2>2. job[w].ln \in Line /\ w \in Sending(job[w].ln)
    BY <2>1, LockedSteps
  <2>3. ASSUME NEW v \in Worker, At(v, "record"), job[v].ln = job[w].ln PROVE FALSE
    BY <2>1, <2>2, <2>3, LockedSteps, LockedIsAlone DEF At
  <2> QED BY <1>1, <1>3, <2>1, <2>2, <2>3, MailMoves DEF MailStep
<1> QED
  BY <1>2, <1>3, EmailMoves

\* Once an email is on record, no call sends that line again: the log is asked
\* and written under the lock.
THEOREM RecordedIsNotResent ==
  ASSUME LockOverruns = FALSE, HandLines = {} PROVE Spec => NoSendAfterRecord
<1>1. Init => FreshEmail
  BY DEF Init, FreshEmail
<1>2. Locked /\ FreshEmail /\ [Next]_vars => FreshEmail'
  BY FreshStep
<1>3. Locked /\ FreshEmail /\ [Next]_vars => [\A l \in mailLog : sends'[l] = sends[l]]_vars
  <2> SUFFICES ASSUME Typing, FreshEmail, [Next]_vars, NEW l \in mailLog
               PROVE  sends'[l] = sends[l]
    BY DEF Locked
  <2>1. l \in Line
    BY DEF Typing, Rows
  <2>2. ~\E w \in Worker : At(w, "email") /\ job[w].ln = l
    BY DEF FreshEmail
  <2> QED BY <2>1, <2>2, MailMoves DEF MailStep
<1> QED
  BY <1>1, <1>2, <1>3, LockedAlways, PTL DEF Spec, NoSendAfterRecord

-----------------------------------------------------------------------------
(***************************************************************************)
(* And no call dies half-way (MaxCrashes = 0).                             *)
(***************************************************************************)
\* An email out is on record or about to be, and nobody is about to send again.
AllRecorded ==
  /\ \A w \in Worker : At(w, "email") => sends[job[w].ln] = 0
  /\ \A l \in Line : sends[l] > 0 =>
       l \in mailLog \/ \E w \in Worker : At(w, "record") /\ job[w].ln = l

Once == SentOnce /\ AllRecorded

\* Only a call at the email sends, and it is at the record afterwards.
LEMMA SendMoves ==
  ASSUME Typing, [Next]_vars, NEW l \in Line, sends'[l] # sends[l]
  PROVE  \E w \in Worker : /\ At(w, "email") /\ job[w].ln = l /\ mailLog' = mailLog
                          /\ job'[w].at = "record" /\ job'[w].ln = l
                          /\ sends'[l] = IF sends[l] = 0 THEN 1 ELSE 2
<1>1. ASSUME NEW w \in Worker, MailAccepted(w)
      PROVE  /\ At(w, "email") /\ job[w].ln = l /\ mailLog' = mailLog
             /\ job'[w].at = "record" /\ job'[w].ln = l
             /\ sends'[l] = IF sends[l] = 0 THEN 1 ELSE 2
  <2>1. job[w].ln = l /\ sends'[l] = IF sends[l] = 0 THEN 1 ELSE 2
    BY <1>1 DEF MailAccepted, Typing, Rows
  <2> QED BY <1>1, <2>1, GotoFields DEF MailAccepted, Typing
<1>2. ASSUME NEW w \in Worker, Begin(w) \/ Fail(w) PROVE FALSE
  BY <1>2 DEF Begin, OnOrderPaid, DeliverAssigned, FulfilManually, MarkFailed, Fail, Crash, SendThrows,
     lineVars
<1>3. ASSUME NEW w \in Worker, Proceed(w), ~MailAccepted(w) PROVE FALSE
  BY <1>3
  DEF Proceed, QueueMadeToOrder, AssignLookup, AssignPick, AssignClaim, QueueShort, AdoptKey,
      LinesDone, AutoDeliver, Gate, AskBound, AskLogged, MailRefused, RecordMail, StampKey,
      FinishLine, Unlock, CountLines, ReadStatus, MoveOrder, StorePasted, Requeue, lineVars
<1>4. ASSUME Environment PROVE FALSE
  BY <1>4 DEF Environment, VaultMoves, Overrun, PaymentLands, ReleaseHold, CancelDraft, Refund,
     Dispute, lineVars
<1> QED
  BY <1>1, <1>2, <1>3, <1>4 DEF Next, vars, lineVars

\* A call at the record can only write it.
LEMMA RecordMoves ==
  ASSUME MaxCrashes = 0, Typing, [Next]_vars, NEW w \in Worker, At(w, "record"),
         job'[w] # job[w]
  PROVE  RecordMail(w)
<1>1. ~Fail(w)
  BY DEF Fail, Crash, SendThrows, Typing, Rows
<1>2. ~Begin(w)
  BY DEF Begin, OnOrderPaid, DeliverAssigned, FulfilManually, MarkFailed, At
<1>3. Proceed(w)
  BY <1>1, <1>2, MovesOrWaits DEF Typing
<1> QED
  BY <1>3
  DEF Proceed, QueueMadeToOrder, AssignLookup, AssignPick, AssignClaim, QueueShort, AdoptKey,
      LinesDone, AutoDeliver, Gate, AskBound, AskLogged, MailAccepted, MailRefused, StampKey,
      FinishLine, Unlock, CountLines, ReadStatus, MoveOrder, StorePasted, Requeue, At

LEMMA OnceStep ==
  ASSUME HandLines = {}, MaxCrashes = 0, Locked, Once, [Next]_vars PROVE Once'
<1>0. Typing /\ Calls /\ SentOnce /\ AllRecorded
  BY DEF Locked, Typing, Once
<1>1. ASSUME NEW v \in Worker, NEW w \in Worker, job[v].ln = job[w].ln,
             job[v].at \in {"logged", "email", "record"},
             job[w].at \in {"logged", "email", "record"}
      PROVE  v = w
  BY <1>1, LockedSteps, LockedIsAlone
<1>2. SentOnce'
  <2> SUFFICES ASSUME NEW l \in Line PROVE sends'[l] <= 1
    BY DEF SentOnce
  <2>1. CASE sends'[l] = sends[l]
    BY <1>0, <2>1 DEF SentOnce
  <2>2. CASE sends'[l] # sends[l]
    BY <1>0, <2>2, SendMoves DEF AllRecorded
  <2> QED BY <2>1, <2>2
<1>3. ASSUME NEW w \in Worker, job'[w].at = "email" PROVE sends'[job'[w].ln] = 0
  <2>1. /\ job[w].at \in {"logged", "email"} /\ job'[w].ln = job[w].ln
        /\ job[w].ln \in Line /\ sends[job[w].ln] = 0
    <3>1. CASE job'[w] = job[w]
      BY <1>0, <1>3, <3>1, LockedSteps DEF AllRecorded, At
    <3>2. CASE AskLogged(w)
      <4>1. /\ job[w].at = "logged" /\ job'[w].ln = job[w].ln
            /\ job[w].ln \notin mailLog /\ job[w].ln \in Line
        BY <1>0, <1>3, <3>2, GotoFields, LockedSteps DEF AskLogged, At
      <4>2. ~\E v \in Worker : At(v, "record") /\ job[v].ln = job[w].ln
        BY <1>1, <4>1 DEF At
      <4>3. sends[job[w].ln] \in 0..2
        BY <1>0, <4>1 DEF Typing, Rows
      <4> QED BY <1>0, <4>1, <4>2, <4>3 DEF AllRecorded
    <3> QED BY <1>3, <3>1, <3>2, EmailMoves
  <2>2. sends'[job[w].ln] = sends[job[w].ln]
    <3>1. ASSUME NEW v \in Worker, At(v, "email"), job[v].ln = job[w].ln, job'[v].at = "record"
          PROVE  FALSE
      BY <1>1, <1>3, <2>1, <3>1 DEF At
    <3> QED BY <1>0, <2>1, <3>1, SendMoves
  <2> QED BY <2>1, <2>2
<1>4. ASSUME NEW l \in Line, sends'[l] > 0, l \notin mailLog'
      PROVE  \E w \in Worker : job'[w].at = "record" /\ job'[w].ln = l
  <2>1. CASE sends'[l] # sends[l]
    BY <1>0, <2>1, SendMoves
  <2>2. CASE sends'[l] = sends[l]
    <3>1. PICK w \in Worker : At(w, "record") /\ job[w].ln = l
      BY <1>0, <1>4, <2>2, MailMoves DEF AllRecorded, MailStep
    <3>2. ~RecordMail(w)
      BY <1>4, <3>1 DEF RecordMail
    <3>3. job'[w] = job[w]
      BY <1>0, <3>1, <3>2, RecordMoves
    <3> QED BY <3>1, <3>3 DEF At
  <2> QED BY <2>1, <2>2
<1>5. AllRecorded'
  BY <1>3, <1>4 DEF AllRecorded, At
<1> QED
  BY <1>2, <1>5 DEF Once

\* With every send under a lock that holds, and no crash between the email and
\* its record, no line is emailed twice.
THEOREM NobodyIsSentTwice ==
  ASSUME LockOverruns = FALSE, HandLines = {}, MaxCrashes = 0 PROVE Spec => []SentOnce
<1>1. Init => Once
  BY DEF Init, Idle, Once, SentOnce, AllRecorded, At
<1>2. Locked /\ Once /\ [Next]_vars => Once'
  BY OnceStep
<1> QED
  BY <1>1, <1>2, LockedAlways, PTL DEF Spec, Once
=============================================================================
