-------------------------- MODULE Payments_proofs --------------------------
(***************************************************************************)
(* Proofs about money, for any numbers of orders, attempts and calls, any  *)
(* number of events and any number of crashes.                             *)
(*                                                                         *)
(* Three layers: every row has its type and every call is where its        *)
(* arguments allow it to be (Typing); an order is never pending again, a   *)
(* recorded payment and a note to staff are never lost (Gains); what a row *)
(* or a call says of money is true (Books).                                *)
(***************************************************************************)
EXTENDS Payments, TLAPS

-----------------------------------------------------------------------------
(***************************************************************************)
(* Typing.                                                                 *)
(***************************************************************************)
PaidSteps == {"look", "mark", "commit", "closed"}
EventSteps == {"failed", "count", "refund", "credit", "block"}
DraftSteps == {"open", "record", "list", "cancel", "cancelled", "retire"}

\* What the place of a call says about its arguments.
Placed(c) ==
  /\ c.at \notin {"idle", "finish"} => c.ord \in Order
  /\ c.op \in Kinds => c.pay \in Payment
  /\ c.at \in PaidSteps \cup EventSteps \cup {"return"}
       => c.pay \in Payment /\ c.ord = OrderOf[c.pay]
  /\ c.at \in {"record", "cancelled"} => c.pay \in Payment
  /\ c.at = "finish" => c.op \in Kinds
  /\ c.at \in PaidSteps => c.op \in {"succeeded", "check", "confirm"}
  /\ c.at \in {"failed", "count"} => c.op = "failed"
  /\ c.at = "close" => c.op \in {"failed", "sweep"}
  /\ c.at \in {"refund", "credit"} => c.op \in {"part", "full"}
  /\ c.at = "block" => c.op = "dispute"
  /\ c.at = "return" => c.op = "return"
  /\ c.at = "lift" => c.op = "lift"
  /\ c.at \in DraftSteps => c.op \in {"pay", "draft", "sweep"}
  /\ c.op = "draft" => c.cost # 0

PlacedCalls == {c \in Jobs : Placed(c)}

\* Every call is placed, and a webhook works an event that was reported.
Calls == /\ job \in [Worker -> PlacedCalls]
         /\ \A w \in Worker : job[w].op \in Kinds => <<job[w].op, job[w].pay>> \in events

LEMMA IdleIsPlaced ==
  Idle \in PlacedCalls /\ Idle.op = "none" /\ Idle.at = "idle"
BY PaymentsAssumption DEF Idle, Call, Jobs, Steps, Ops, PlacedCalls, Placed, OrderStatuses, RiskLevels, Kinds,
   PaidSteps, EventSteps, DraftSteps

LEMMA CallChanges ==
  ASSUME Calls, NEW w \in Worker, NEW call \in PlacedCalls, Becomes(w, call),
         call.op \in Kinds => <<call.op, call.pay>> \in events, events \subseteq events'
  PROVE  Calls' /\ job'[w] = call /\ \A v \in Worker \ {w} : job'[v] = job[v]
<1>1. job'[w] = call /\ \A v \in Worker \ {w} : job'[v] = job[v]
  BY DEF Calls, Becomes
<1>2. job' \in [Worker -> PlacedCalls]
  BY DEF Calls, Becomes
<1>3. \A v \in Worker : job'[v].op \in Kinds => <<job'[v].op, job'[v].pay>> \in events'
  BY <1>1 DEF Calls
<1>4. PlacedCalls' = PlacedCalls
  BY DEF PlacedCalls, Placed
<1> QED BY <1>1, <1>2, <1>3, <1>4 DEF Calls

LEMMA CallsStay ==
  ASSUME Calls, UNCHANGED job, events \subseteq events' PROVE Calls'
BY DEF Calls, PlacedCalls, Placed

LEMMA CallReturns ==
  ASSUME Calls, NEW w \in Worker, Return(w), events \subseteq events' PROVE Calls'
<1>1. Idle.op \notin Kinds
  BY IdleIsPlaced DEF Kinds
<1> QED BY <1>1, IdleIsPlaced, CallChanges DEF Return

\* The record of a call as it begins.
LEMMA CallIsTyped ==
  ASSUME NEW step \in Steps, NEW op \in Ops,
         NEW p \in Payment \cup {NoPayment}, NEW o \in Order \cup {NoOrder}
  PROVE  /\ Call(step, op, p, o) \in Jobs
         /\ Call(step, op, p, o).at = step /\ Call(step, op, p, o).op = op
         /\ Call(step, op, p, o).pay = p /\ Call(step, op, p, o).ord = o
<1>1. /\ Call(step, op, p, o).at = step /\ Call(step, op, p, o).op = op
      /\ Call(step, op, p, o).pay = p /\ Call(step, op, p, o).ord = o
  BY DEF Call
<1>2. /\ "PENDING_PAYMENT" \in OrderStatuses /\ "LOW" \in RiskLevels /\ 0 \in 0..MaxCost
      /\ {} \in SUBSET Payment
  BY PaymentsAssumption DEF OrderStatuses, RiskLevels
<1>3. Call(step, op, p, o) \in Jobs
  BY <1>2 DEF Call, Jobs
<1> QED BY <1>1, <1>3

\* A webhook that has done its work goes on to mark its event.
LEMMA CallDone ==
  ASSUME Calls, NEW w \in Worker, Done(w), events \subseteq events'
  PROVE  /\ Calls'
         /\ job[w].op \in Kinds
              => job'[w] = Call("finish", job[w].op, job[w].pay, NoOrder)
         /\ job[w].op \notin Kinds => job'[w] = Idle
         /\ \A v \in Worker \ {w} : job'[v] = job[v]
<1>0. job[w] \in Jobs /\ Placed(job[w])
  BY DEF Calls, PlacedCalls
<1>1. CASE job[w].op \in Kinds
  <2> DEFINE call == Call("finish", job[w].op, job[w].pay, NoOrder)
  <2>1. job[w].pay \in Payment
    BY <1>0, <1>1 DEF Placed
  <2>2. /\ call \in Jobs /\ call.at = "finish" /\ call.op = job[w].op
        /\ call.pay = job[w].pay
    BY <1>1, <2>1, CallIsTyped DEF Steps, Ops
  <2> HIDE DEF call
  <2>3. call \in PlacedCalls
    BY <1>1, <2>1, <2>2 DEF PlacedCalls, Placed, PaidSteps, EventSteps, DraftSteps, Kinds
  <2>4. Becomes(w, call) /\ <<call.op, call.pay>> \in events
    BY <1>1, <2>2 DEF Done, Calls, call
  <2>5. Calls' /\ job'[w] = call /\ \A v \in Worker \ {w} : job'[v] = job[v]
    BY <2>3, <2>4, CallChanges
  <2> QED BY <1>1, <2>5 DEF call
<1>2. CASE job[w].op \notin Kinds
  <2>1. Becomes(w, Idle) /\ Idle.op \notin Kinds
    BY <1>2, IdleIsPlaced DEF Done, Return, Kinds
  <2> QED BY <1>2, <2>1, IdleIsPlaced, CallChanges
<1> QED BY <1>1, <1>2

-----------------------------------------------------------------------------
\* A call on a draft or on a held order begins.
LEMMA DraftCallBegins ==
  ASSUME Calls, NEW w \in Worker, NEW call \in Jobs, Becomes(w, call), events' = events,
         call.ord \in Order, call.at \in {"retire", "list", "lift", "open"},
         call.op \in {"draft", "lift", "pay", "sweep"}, call.at = "lift" <=> call.op = "lift",
         call.op = "draft" => call.cost # 0
  PROVE  Calls'
<1>1. call \in PlacedCalls /\ call.op \notin Kinds
  BY DEF Kinds, Placed, PlacedCalls, PaidSteps, EventSteps, DraftSteps
<1> QED BY <1>1, CallChanges

\* The calls that begin.
LEMMA BeginKeepsCalls ==
  ASSUME PayTypeOK, Calls, NEW w \in Worker, Begin(w) PROVE Calls'
<1>1. ASSUME NEW p \in Payment, NEW kind \in Kinds, Deliver(w, kind, p) PROVE Calls'
  <2> DEFINE step == FirstStep(kind, p)
             call == Call(step, kind, p, OrderOf[p])
  <2>1. /\ step \in {"look", "mark", "failed", "block", "refund"}
        /\ step \in {"look", "mark"} => kind = "succeeded"
        /\ step = "failed" => kind = "failed"
        /\ step = "block" => kind = "dispute"
        /\ step = "refund" => kind \in {"part", "full"}
    BY DEF FirstStep, Kinds
  <2>2. OrderOf[p] \in Order
    BY PaymentsAssumption
  <2> HIDE DEF step
  <2>. step \in Steps /\ kind \in Ops
    BY <2>1 DEF Steps, Ops
  <2>3. call \in Jobs /\ call.at = step /\ call.op = kind /\ call.pay = p /\ call.ord = OrderOf[p]
    BY <2>2, CallIsTyped
  <2>4. Becomes(w, call) /\ <<kind, p>> \in events /\ events' = events
    BY <1>1 DEF Deliver, step, remoteVars, PayTypeOK
  <2> HIDE DEF call
  <2>5. call \in PlacedCalls
    BY <2>1, <2>2, <2>3 DEF Kinds, Placed, PlacedCalls, PaidSteps, EventSteps, DraftSteps
  <2> QED BY <2>3, <2>4, <2>5, CallChanges
<1>2. ASSUME NEW p \in Payment, CheckStatus(w, p) \/ ConfirmPayment(w, p) PROVE Calls'
  <2>1. PICK step \in {"look", "mark"}, op \in {"check", "confirm"} :
          Becomes(w, Call(step, op, p, OrderOf[p])) /\ events' = events
    BY <1>2 DEF CheckStatus, ConfirmPayment, remoteVars
  <2> DEFINE call == Call(step, op, p, OrderOf[p])
  <2>2. OrderOf[p] \in Order
    BY PaymentsAssumption
  <2>. step \in Steps /\ op \in Ops
    BY DEF Steps, Ops
  <2>3. call \in Jobs /\ call.at = step /\ call.op = op /\ call.pay = p /\ call.ord = OrderOf[p]
    BY <2>2, CallIsTyped
  <2> HIDE DEF call
  <2>4. call \in PlacedCalls /\ call.op \notin Kinds
    BY <2>2, <2>3 DEF Kinds, Placed, PlacedCalls, PaidSteps, EventSteps, DraftSteps
  <2> QED BY <2>1, <2>4, CallChanges DEF call
<1>3. ASSUME NEW p \in Payment, AskReturn(w, p) PROVE Calls'
  <2> DEFINE first == Call("return", "return", p, OrderOf[p])
             call  == [first EXCEPT !.from = status[OrderOf[p]]]
  <2>1. OrderOf[p] \in Order /\ status[OrderOf[p]] \in OrderStatuses
    BY PaymentsAssumption DEF PayTypeOK
  <2>. "return" \in Steps /\ "return" \in Ops
    BY DEF Steps, Ops
  <2>2. /\ first \in Jobs /\ first.at = "return" /\ first.op = "return"
        /\ first.pay = p /\ first.ord = OrderOf[p]
    BY <2>1, CallIsTyped
  <2>3. Becomes(w, call) /\ events' = events
    BY <1>3 DEF AskReturn, remoteVars
  <2> HIDE DEF first
  <2>4. /\ call \in Jobs /\ call.at = "return" /\ call.op = "return"
        /\ call.pay = p /\ call.ord = OrderOf[p]
    BY <2>1, <2>2 DEF Jobs
  <2> HIDE DEF call
  <2>5. call \in PlacedCalls /\ call.op \notin Kinds
    BY <2>1, <2>4 DEF Kinds, Placed, PlacedCalls, PaidSteps, EventSteps, DraftSteps
  <2> QED BY <2>3, <2>5, CallChanges
<1>4. ASSUME NEW o \in Order, NEW c \in 1..MaxCost,
             \/ FindDraft(w, o, c) \/ AskLift(w, o) \/ Pay(w, o) \/ FindStale(w, o)
      PROVE  Calls'
  <2>0. c \in 0..MaxCost /\ c # 0 /\ cost[o] \in 0..MaxCost /\ status[o] \in OrderStatuses
        /\ risk[o] \in RiskLevels
    BY PaymentsAssumption DEF PayTypeOK
  <2>1. {"retire", "list", "lift", "open"} \subseteq Steps /\ {"draft", "lift", "pay", "sweep"} \subseteq Ops
    BY DEF Steps, Ops
  <2>2. CASE FindDraft(w, o, c)
    <3> DEFINE step == IF \E p \in OpenOn(o, Hosted) : amount[p] # c THEN "retire" ELSE "list"
               first == Call(step, "draft", NoPayment, o)
               call == [first EXCEPT !.cost = c]
    <3>1. step = "retire" \/ step = "list"
      OBVIOUS
    <3>2. Becomes(w, call) /\ events' = events
      BY <2>2 DEF FindDraft, remoteVars
    <3> HIDE DEF step
    <3>3. first \in Jobs /\ first.at = step /\ first.op = "draft" /\ first.ord = o
      BY <2>1, <3>1, CallIsTyped
    <3> HIDE DEF first
    <3>4. call \in Jobs /\ call.at = step /\ call.op = "draft" /\ call.ord = o /\ call.cost = c
      BY <2>0, <3>3 DEF Jobs
    <3> HIDE DEF call
    <3> QED BY <2>0, <3>1, <3>2, <3>4, DraftCallBegins
  <2>3. CASE AskLift(w, o)
    <3> DEFINE first == Call("lift", "lift", NoPayment, o)
               call == [first EXCEPT !.from = status[o], !.risk = risk[o]]
    <3>2. Becomes(w, call) /\ events' = events
      BY <2>3 DEF AskLift, remoteVars
    <3>3. first \in Jobs /\ first.at = "lift" /\ first.op = "lift" /\ first.ord = o
      BY <2>1, CallIsTyped
    <3> HIDE DEF first
    <3>4. call \in Jobs /\ call.at = "lift" /\ call.op = "lift" /\ call.ord = o
      BY <2>0, <3>3 DEF Jobs
    <3> HIDE DEF call
    <3> QED BY <3>2, <3>4, DraftCallBegins
  <2>4. CASE Pay(w, o)
    <3> DEFINE first == Call("open", "pay", NoPayment, o)
               call == [first EXCEPT !.cost = cost[o]]
    <3>2. Becomes(w, call) /\ events' = events
      BY <2>4 DEF Pay, remoteVars
    <3>3. first \in Jobs /\ first.at = "open" /\ first.op = "pay" /\ first.ord = o
      BY <2>1, CallIsTyped
    <3> HIDE DEF first
    <3>4. call \in Jobs /\ call.at = "open" /\ call.op = "pay" /\ call.ord = o
      BY <2>0, <3>3 DEF Jobs
    <3> HIDE DEF call
    <3> QED BY <3>2, <3>4, DraftCallBegins
  <2>5. CASE FindStale(w, o)
    <3> DEFINE call == Call("list", "sweep", NoPayment, o)
    <3>2. Becomes(w, call) /\ events' = events
      BY <2>5 DEF FindStale, remoteVars
    <3>3. call \in Jobs /\ call.at = "list" /\ call.op = "sweep" /\ call.ord = o
      BY <2>1, CallIsTyped
    <3> HIDE DEF call
    <3> QED BY <3>2, <3>3, DraftCallBegins
  <2> QED BY <1>4, <2>2, <2>3, <2>4, <2>5
<1>5. 1 \in 1..MaxCost
  BY PaymentsAssumption
<1> QED BY <1>1, <1>2, <1>3, <1>4, <1>5 DEF Begin

-----------------------------------------------------------------------------
\* A call goes on: it keeps its purpose, and its payment if it works an event.
LEMMA CallGoesOn ==
  ASSUME Calls, NEW w \in Worker, NEW call \in Jobs, Becomes(w, call), Placed(call),
         call.op = job[w].op, call.op \in Kinds => call.pay = job[w].pay, events \subseteq events'
  PROVE  Calls'
<1>1. call \in PlacedCalls
  BY DEF PlacedCalls
<1>2. call.op \in Kinds => <<call.op, call.pay>> \in events
  BY DEF Calls
<1> QED BY <1>1, <1>2, CallChanges

\* The same when only its place changes.
LEMMA CallStepsTo ==
  ASSUME Calls, NEW w \in Worker, NEW step \in Steps, Goto(w, step),
         Placed([job[w] EXCEPT !.at = step]), events \subseteq events'
  PROVE  Calls'
<1> DEFINE call == [job[w] EXCEPT !.at = step]
<1>1. job[w] \in Jobs
  BY DEF Calls, PlacedCalls
<1>2. call \in Jobs /\ call.op = job[w].op /\ call.pay = job[w].pay
  BY <1>1 DEF Jobs
<1>3. Becomes(w, call) /\ Placed(call)
  BY DEF Goto
<1> HIDE DEF call
<1> QED BY <1>2, <1>3, CallGoesOn

LEMMA PaidStepsKeepCalls ==
  ASSUME PayTypeOK, Calls, NEW w \in Worker,
         CompareHosted(w) \/ ReadOrder(w) \/ Commit(w) \/ FlagClosed(w)
  PROVE  Calls'
<1> DEFINE p == job[w].pay
           o == job[w].ord
<1>1. job[w] \in Jobs /\ Placed(job[w]) /\ events' = events
  BY DEF Calls, PlacedCalls, CompareHosted, ReadOrder, Commit, FlagClosed, remoteVars
<1>2. Done(w) => Calls'
  BY <1>1, CallDone
<1>3. CASE CompareHosted(w)
  <2>1. SUFFICES ASSUME NEW told \in BOOLEAN, NEW call,
                        call = [job[w] EXCEPT !.at = "mark",
                                  !.hold = told \/ row[p] = "REFUNDED" \/ p \in refunded],
                        Becomes(w, call)
                 PROVE  Calls'
    BY <1>2, <1>3 DEF CompareHosted
  <2>2. "mark" \in Steps /\ job[w].at = "look"
    BY <1>3 DEF Steps, CompareHosted, At
  <2>3. /\ call \in Jobs /\ call.at = "mark" /\ call.op = job[w].op
        /\ call.pay = p /\ call.ord = o
    BY <1>1, <2>1, <2>2 DEF Jobs
  <2>4. Placed(call)
    BY <1>1, <2>2, <2>3 DEF Placed, PaidSteps, EventSteps, DraftSteps
  <2> QED BY <1>1, <2>1, <2>3, <2>4, CallGoesOn
<1>4. CASE ReadOrder(w)
  <2>1. "commit" \in Steps /\ job[w].at = "mark"
    BY <1>4 DEF Steps, ReadOrder, At
  <2>2. p \in Payment /\ o \in Order
    BY <1>1, <2>1 DEF Placed, PaidSteps
  <2>3. /\ status[o] \in OrderStatuses
        /\ \A level \in IF p \in Card THEN {"LOW", "HIGH", "BLOCKED"} ELSE {risk[o]} :
             level \in RiskLevels
    BY <2>2 DEF PayTypeOK, RiskLevels
  <2>4. PICK level \in RiskLevels, hold \in BOOLEAN :
          Becomes(w, [job[w] EXCEPT !.at = "commit", !.from = status[o],
                        !.back = (row[p] = "REFUNDED"), !.risk = level, !.hold = hold])
    <3>1. PICK level \in RiskLevels, other \in BOOLEAN :
            Becomes(w, [job[w] EXCEPT !.at = "commit", !.from = status[o],
                       !.back = (row[p] = "REFUNDED"), !.risk = level,
                       !.hold = \/ @ \/ other \/ level \in Risky
                                \/ p \in Card \cup Hosted /\ amount[p] # cost[o]])
      BY <1>4, <2>3 DEF ReadOrder
    <3> DEFINE hold == \/ job[w].hold \/ other \/ level \in Risky
                       \/ p \in Card \cup Hosted /\ amount[p] # cost[o]
    <3>2. hold \in BOOLEAN
      OBVIOUS
    <3>3. Becomes(w, [job[w] EXCEPT !.at = "commit", !.from = status[o],
                       !.back = (row[p] = "REFUNDED"), !.risk = level, !.hold = hold])
      BY <3>1
    <3> HIDE DEF hold
    <3> QED BY <3>2, <3>3
  <2>5. SUFFICES ASSUME NEW call, Becomes(w, call),
                        call = [job[w] EXCEPT !.at = "commit", !.from = status[o],
                                  !.back = (row[p] = "REFUNDED"), !.risk = level, !.hold = hold]
                 PROVE  Calls'
    BY <2>4
  <2>6. /\ call \in Jobs /\ call.at = "commit" /\ call.op = job[w].op
        /\ call.pay = p /\ call.ord = o
    BY <1>1, <2>1, <2>3, <2>5 DEF Jobs
  <2>7. Placed(call)
    BY <1>1, <2>1, <2>6 DEF Placed, PaidSteps, EventSteps, DraftSteps
  <2> QED BY <1>1, <2>5, <2>6, <2>7, CallGoesOn
<1>5. CASE Commit(w)
  <2>1. SUFFICES ASSUME Goto(w, "closed") PROVE Calls'
    BY <1>2, <1>5 DEF Commit
  <2>2. "closed" \in Steps /\ job[w].at = "commit"
    BY <1>5 DEF Steps, Commit, At
  <2>3. Placed([job[w] EXCEPT !.at = "closed"])
    BY <1>1, <2>2 DEF Placed, PaidSteps, EventSteps, DraftSteps, Jobs
  <2> QED BY <1>1, <2>1, <2>2, <2>3, CallStepsTo
<1>6. CASE FlagClosed(w)
  BY <1>2, <1>6 DEF FlagClosed
<1> QED BY <1>3, <1>4, <1>5, <1>6

LEMMA OtherEventsKeepCalls ==
  ASSUME PayTypeOK, Calls, NEW w \in Worker,
         \/ Fail(w) \/ CountOthers(w) \/ CloseDraft(w) \/ ReadForRefund(w) \/ Credit(w)
         \/ RecordReturn(w) \/ Block(w) \/ Lift(w) \/ Finish(w) \/ Crash(w) \/ RetireDraft(w)
         \/ CommitFails(w)
  PROVE  Calls'
<1>1. job[w] \in Jobs /\ Placed(job[w]) /\ events' = events
  BY DEF Calls, PlacedCalls, Fail, CountOthers, CloseDraft, ReadForRefund, Credit, RecordReturn,
         Block, Lift, Finish, Crash, CommitFails, RetireDraft, remoteVars
<1>2. CASE Done(w) \/ Return(w)
  BY <1>1, <1>2, CallDone, CallReturns
<1>3. CASE (Fail(w) /\ Goto(w, "count")) \/ (CountOthers(w) /\ Goto(w, "close"))
  <2>1. PICK step \in {"count", "close"} :
          Goto(w, step) /\ job[w].at = IF step = "count" THEN "failed" ELSE "count"
    BY <1>3 DEF Fail, CountOthers, At
  <2>2. step \in Steps
    BY DEF Steps
  <2>3. Placed([job[w] EXCEPT !.at = step])
    BY <1>1, <2>1 DEF Placed, PaidSteps, EventSteps, DraftSteps, Jobs
  <2> QED BY <1>1, <2>1, <2>2, <2>3, CallStepsTo
<1>4. CASE ReadForRefund(w)
  <2> DEFINE call == [job[w] EXCEPT !.at = "credit", !.from = status[job[w].ord]]
  <2>1. "credit" \in Steps /\ job[w].at = "refund" /\ Becomes(w, call)
    BY <1>4 DEF Steps, ReadForRefund, At
  <2>2. status[job[w].ord] \in OrderStatuses
    BY <1>1, <2>1 DEF PayTypeOK, Placed
  <2>3. /\ call \in Jobs /\ call.at = "credit" /\ call.op = job[w].op
        /\ call.pay = job[w].pay /\ call.ord = job[w].ord
    BY <1>1, <2>1, <2>2 DEF Jobs
  <2> HIDE DEF call
  <2>4. Placed(call)
    BY <1>1, <2>1, <2>3 DEF Placed, PaidSteps, EventSteps, DraftSteps
  <2> QED BY <1>1, <2>1, <2>3, <2>4, CallGoesOn
<1>5. \/ Done(w) \/ Return(w) \/ ReadForRefund(w)
      \/ (Fail(w) /\ Goto(w, "count")) \/ (CountOthers(w) /\ Goto(w, "close"))
  BY DEF Fail, CountOthers, CloseDraft, Credit, RecordReturn, Block, Lift, Finish, Crash, CommitFails, RetireDraft
<1> QED BY <1>2, <1>3, <1>4, <1>5

LEMMA DraftStepsKeepCalls ==
  ASSUME PayTypeOK, Calls, NEW w \in Worker,
         \/ OpenIntent(w) \/ OpenSession(w) \/ RecordAttempt(w) \/ ListIntents(w)
         \/ (\E p \in Payment : CancelIntent(w, p)) \/ RecordCancel(w) \/ AfterCancel(w)
  PROVE  Calls'
<1>1. /\ job[w] \in Jobs /\ Placed(job[w]) /\ events' = events
      /\ job[w].at \in {"open", "record", "list", "cancel", "cancelled"}
  BY DEF Calls, PlacedCalls, OpenIntent, OpenSession, RecordAttempt, ListIntents, CancelIntent,
         RecordCancel, AfterCancel, remoteVars, At
<1>2. job[w].op \in {"pay", "draft", "sweep"} /\ job[w].op \notin Kinds /\ job[w].ord \in Order
  BY <1>1 DEF Placed, DraftSteps, Kinds
<1>3. {"record", "list", "cancel", "cancelled", "retire", "close"} \subseteq Steps
  BY DEF Steps
<1>4. CASE Return(w)
  BY <1>1, <1>4, CallReturns
<1>5. ASSUME NEW step \in {"list", "retire"}, Goto(w, step) PROVE Calls'
  <2>1. Placed([job[w] EXCEPT !.at = step])
    BY <1>1, <1>2 DEF Placed, PaidSteps, EventSteps, DraftSteps, Kinds, Jobs
  <2> QED BY <1>1, <1>3, <1>5, <2>1, CallStepsTo
<1>6. CASE Goto(w, "close") /\ job[w].op = "sweep"
  <2>1. Placed([job[w] EXCEPT !.at = "close"])
    BY <1>1, <1>2, <1>6 DEF Placed, PaidSteps, EventSteps, DraftSteps, Kinds, Jobs
  <2> QED BY <1>1, <1>3, <1>6, <2>1, CallStepsTo
<1>7. ASSUME NEW call \in Jobs, Becomes(w, call), call.op = job[w].op, call.ord = job[w].ord,
             call.cost = job[w].cost,
             \/ call.at \in {"record", "cancelled"} /\ call.pay \in Payment
             \/ call.at = "cancel"
      PROVE  Calls'
  <2>1. Placed(call)
    BY <1>1, <1>2, <1>7 DEF Placed, PaidSteps, EventSteps, DraftSteps, Kinds
  <2> QED BY <1>1, <1>2, <1>7, <2>1, CallGoesOn
<1>8. ASSUME NEW p \in Payment, Becomes(w, [job[w] EXCEPT !.at = "record", !.pay = p]) PROVE Calls'
  <2> DEFINE call == [job[w] EXCEPT !.at = "record", !.pay = p]
  <2>1. /\ call \in Jobs /\ call.at = "record" /\ call.op = job[w].op
        /\ call.pay = p /\ call.ord = job[w].ord /\ call.cost = job[w].cost
    BY <1>1, <1>3 DEF Jobs
  <2> QED BY <1>7, <1>8, <2>1
<1>9. CASE OpenIntent(w) \/ OpenSession(w)
  BY <1>5, <1>8, <1>9 DEF OpenIntent, OpenSession, Start, Reuse, AttemptsOn
<1>10. CASE RecordAttempt(w)
  BY <1>4, <1>5, <1>10 DEF RecordAttempt
<1>11. CASE ListIntents(w)
  <2> DEFINE todo == OpenOn(job[w].ord, Card) \ {job[w].pay}
             call == [job[w] EXCEPT !.at = "cancel", !.todo = todo, !.pay = NoPayment]
  <2>1. todo \in SUBSET Payment
    BY DEF OpenOn, AttemptsOn
  <2>2. Becomes(w, call)
    BY <1>11 DEF ListIntents
  <2> HIDE DEF todo
  <2>3. /\ call \in Jobs /\ call.at = "cancel" /\ call.op = job[w].op
        /\ call.ord = job[w].ord /\ call.cost = job[w].cost
    BY <1>1, <1>3, <2>1 DEF Jobs
  <2> QED BY <1>7, <2>2, <2>3
<1>12. ASSUME NEW p \in Payment, CancelIntent(w, p) PROVE Calls'
  <2> DEFINE todo == job[w].todo \ {p}
             asked == [job[w] EXCEPT !.at = "cancelled", !.pay = p, !.todo = todo]
             next  == [job[w] EXCEPT !.todo = todo]
  <2>1. todo \in SUBSET Payment
    BY <1>1 DEF Jobs
  <2>2. (Becomes(w, asked) \/ Becomes(w, next)) /\ job[w].at = "cancel"
    BY <1>12 DEF CancelIntent, At
  <2> HIDE DEF todo
  <2>3. /\ asked \in Jobs /\ asked.at = "cancelled" /\ asked.op = job[w].op
        /\ asked.ord = job[w].ord /\ asked.pay = p /\ asked.cost = job[w].cost
    BY <1>1, <1>3, <2>1 DEF Jobs
  <2>4. /\ next \in Jobs /\ next.at = "cancel" /\ next.op = job[w].op
        /\ next.ord = job[w].ord /\ next.cost = job[w].cost
    BY <1>1, <2>1, <2>2 DEF Jobs
  <2> QED BY <1>7, <2>2, <2>3, <2>4
<1>13. CASE RecordCancel(w)
  <2> DEFINE call == [job[w] EXCEPT !.at = "cancel", !.pay = NoPayment]
  <2>1. /\ call \in Jobs /\ call.at = "cancel" /\ call.op = job[w].op
        /\ call.ord = job[w].ord /\ call.cost = job[w].cost
    BY <1>1, <1>3 DEF Jobs
  <2> QED BY <1>7, <1>13, <2>1 DEF RecordCancel
<1>14. CASE AfterCancel(w)
  BY <1>4, <1>6, <1>14 DEF AfterCancel
<1> QED BY <1>9, <1>10, <1>11, <1>12, <1>13, <1>14

\* What happens elsewhere only adds events.
LEMMA OutsideKeepsCalls ==
  ASSUME Calls, Provider \/ (\E o \in Order : Fulfil(o)) PROVE Calls'
BY CallsStay DEF Provider, Capture, Decline, GiveBack, OpenDispute, Emits, Fulfil, remoteVars

LEMMA TransitionIsTyped ==
  ASSUME NEW s \in OrderStatuses, NEW from, NEW to \in OrderStatuses
  PROVE  AfterTransition(s, from, to) \in OrderStatuses
BY DEF AfterTransition

\* The rows, with the calls left out.
Rows == /\ status \in [Order -> OrderStatuses] /\ risk \in [Order -> RiskLevels]
        /\ cost \in [Order -> 1..MaxCost] /\ sales \in [Order -> Int] /\ flagged \subseteq Order
        /\ row \in [Payment -> RowStates] /\ refunded \subseteq Payment
Outside == /\ remote \in [Payment -> {"none", "open", "captured", "closed"}]
           /\ amount \in [Payment -> 0..MaxCost]
           /\ returned \in [Payment -> {"no", "part", "full"}]
           /\ events \subseteq Event /\ handled \subseteq events /\ crashes \in 0..MaxCrashes

LEMMA RowsAreTyped ==
  ASSUME PayTypeOK, Calls, NEW w \in Worker, Proceed(w) PROVE Rows'
<1> DEFINE o == job[w].ord
           p == job[w].pay
<1>1. /\ job[w] \in Jobs /\ Placed(job[w]) /\ Rows
      /\ job[w].risk \in RiskLevels /\ job[w].from \in OrderStatuses /\ job[w].cost \in 0..MaxCost
  BY DEF Calls, PlacedCalls, PayTypeOK, Rows, Jobs
<1>2. ASSUME NEW f, NEW to \in OrderStatuses
      PROVE  [status EXCEPT ![o] = AfterTransition(@, f, to)] \in [Order -> OrderStatuses]
  BY <1>1, TransitionIsTyped DEF Rows
<1>3. CASE CompareHosted(w) \/ FlagClosed(w)
  <2>1. o \in Order
    BY <1>1, <1>3 DEF CompareHosted, FlagClosed, At, Placed
  <2>2. /\ flagged' \in {flagged, flagged \cup {o}}
        /\ UNCHANGED <<status, risk, cost, sales, rowVars>>
    BY <1>3 DEF CompareHosted, FlagClosed
  <2> QED BY <1>1, <2>1, <2>2 DEF Rows, rowVars
<1>4. CASE Commit(w)
  <2>1. p \in Payment /\ o \in Order /\ sales[o] \in Int
    BY <1>1, <1>4 DEF Commit, At, Placed, PaidSteps, Rows
  <2>2. /\ \E s \in {"SUCCEEDED", "REFUNDED"} : row' = [row EXCEPT ![p] = s]
        /\ UNCHANGED <<cost, flagged, refunded>>
        /\ \/ UNCHANGED <<status, risk, sales>>
           \/ /\ \E s \in {"PAYMENT_REVIEW", "PAID"} : status' = [status EXCEPT ![o] = s]
              /\ risk' = [risk EXCEPT ![o] = job[w].risk]
              /\ sales' = [sales EXCEPT ![o] = @ + 1]
    BY <1>4 DEF Commit
  <2> QED BY <1>1, <2>1, <2>2 DEF Rows, RowStates, OrderStatuses
<1>5. CASE Fail(w)
  BY <1>1, <1>5 DEF Rows, Fail, FailRow, RowStates, orderVars
<1>6. CASE CloseDraft(w)
  BY <1>1, <1>2, <1>6 DEF Rows, CloseDraft, OrderStatuses, rowVars
<1>7. CASE Credit(w)
  <2>1. p \in Payment /\ o \in Order
    BY <1>1, <1>7 DEF Credit, At, Placed, EventSteps
  <2>2. Outcome(w) \in OrderStatuses /\ Returned(w) \in RowStates
    BY <1>1, <2>1 DEF Outcome, Returned, OrderStatuses, RowStates, Rows
  <2> DEFINE after == AfterTransition(status[o], job[w].from, Outcome(w))
  <2>3. after \in OrderStatuses
    BY <1>1, <2>1, <2>2, TransitionIsTyped DEF Rows
  <2>4. sales[o] \in Int
    BY <1>1, <2>1 DEF Rows
  <2>5. /\ refunded' = refunded \cup {p} /\ row' = [row EXCEPT ![p] = Returned(w)]
        /\ status' = [status EXCEPT ![o] = after]
        /\ \E n \in {sales[o], sales[o] - 1} : sales' = [sales EXCEPT ![o] = n]
        /\ UNCHANGED <<risk, cost, flagged>>
    BY <1>7 DEF Credit
  <2> HIDE DEF after
  <2> QED BY <1>1, <2>1, <2>2, <2>3, <2>4, <2>5 DEF Rows
<1>8. CASE RecordReturn(w)
  BY <1>1, <1>8 DEF Rows, RecordReturn, RowStates, OrderStatuses, At, Placed
<1>9. CASE Block(w) \/ Lift(w)
  BY <1>1, <1>9 DEF Rows, Block, Lift, RiskLevels, OrderStatuses, rowVars
<1>10. CASE RecordAttempt(w) \/ RecordCancel(w)
  BY <1>1, <1>10 DEF Rows, RecordAttempt, RecordCancel, RowStates, orderVars
<1>11. CASE RetireDraft(w)
  BY <1>1, <1>2, <1>11 DEF Rows, RetireDraft, OrderStatuses, RowStates
<1>12. CASE AfterCancel(w)
  <2>1. job[w].op = "draft" => job[w].cost \in 1..MaxCost
    BY <1>1, PaymentsAssumption DEF Placed
  <2>2. /\ cost' = IF job[w].op = "draft" THEN [cost EXCEPT ![o] = job[w].cost] ELSE cost
        /\ UNCHANGED <<status, risk, sales, flagged, rowVars>>
    BY <1>12 DEF AfterCancel
  <2> QED BY <1>1, <2>1, <2>2 DEF Rows, rowVars
<1>13. CASE \/ CommitFails(w) \/ ReadOrder(w) \/ CountOthers(w) \/ ReadForRefund(w) \/ OpenIntent(w) \/ OpenSession(w)
            \/ ListIntents(w) \/ (\E q \in Payment : CancelIntent(w, q)) \/ Finish(w)
  <2>1. UNCHANGED <<orderVars, rowVars>>
    BY <1>13 DEF CommitFails, ReadOrder, CountOthers, ReadForRefund, OpenIntent, OpenSession,
                 ListIntents, CancelIntent, Finish
  <2> QED BY <1>1, <2>1 DEF Rows, orderVars, rowVars
<1> QED BY <1>3, <1>4, <1>5, <1>6, <1>7, <1>8, <1>9, <1>10, <1>11, <1>12, <1>13 DEF Proceed

LEMMA OutsideIsTyped ==
  ASSUME PayTypeOK, Calls, Next PROVE Outside'
<1>1. Outside
  BY DEF PayTypeOK, Outside
<1>2. ASSUME NEW w \in Worker, Begin(w) \/ Crash(w) PROVE Outside'
  <2>1. UNCHANGED <<remoteVars, handled>> /\ crashes' \in {crashes, crashes + 1}
        /\ (crashes' = crashes \/ crashes < MaxCrashes)
    BY <1>2 DEF Begin, Crash, Deliver, CheckStatus, ConfirmPayment, AskReturn, FindDraft, AskLift,
                Pay, FindStale
  <2> QED BY <1>1, <2>1, PaymentsAssumption DEF Outside, remoteVars
<1>3. ASSUME NEW w \in Worker, Finish(w) PROVE Outside'
  <2>1. <<job[w].op, job[w].pay>> \in events
    BY <1>3 DEF Calls, PlacedCalls, Placed, Finish, At
  <2> QED BY <1>1, <1>3, <2>1 DEF Outside, Finish, remoteVars
<1>4. ASSUME NEW w \in Worker, OpenIntent(w) \/ OpenSession(w) PROVE Outside'
  <2>1. job[w].cost \in 0..MaxCost
    BY DEF Calls, PlacedCalls, Jobs
  <2>2. /\ \/ UNCHANGED <<remote, amount>>
           \/ \E p \in Payment : Start(w, p)
        /\ UNCHANGED <<returned, events, handled, crashes>>
    BY <1>4 DEF OpenIntent, OpenSession, Reuse, AttemptsOn
  <2> QED BY <1>1, <2>1, <2>2 DEF Outside, Start
<1>5. ASSUME NEW w \in Worker, NEW p \in Payment, CancelIntent(w, p) PROVE Outside'
  BY <1>1, <1>5 DEF Outside, CancelIntent
<1>6. ASSUME NEW w \in Worker, Proceed(w) PROVE \/ Outside'
                                                \/ UNCHANGED <<remoteVars, handled, crashes>>
  BY <1>3, <1>4, <1>5, <1>6 DEF Proceed, CompareHosted, ReadOrder, Commit, CommitFails, FlagClosed, Fail,
     CountOthers, CloseDraft, ReadForRefund, Credit, RecordReturn, Block, Lift, RecordAttempt,
     RetireDraft, ListIntents, RecordCancel, AfterCancel
<1>7. CASE UNCHANGED <<remoteVars, handled, crashes>>
  BY <1>1, <1>7 DEF Outside, remoteVars
<1>8. ASSUME NEW p \in Payment, Capture(p) \/ Decline(p) \/ GiveBack(p) \/ OpenDispute(p)
      PROVE  Outside'
  <2>1. PICK kind \in Kinds : Emits(kind, p)
    BY <1>8 DEF Capture, Decline, GiveBack, OpenDispute, Kinds
  <2>2. events' \subseteq Event /\ events \subseteq events'
    BY <1>1, <2>1 DEF Emits, Outside, Event
  <2>3. /\ remote' \in [Payment -> {"none", "open", "captured", "closed"}]
        /\ returned' \in [Payment -> {"no", "part", "full"}]
        /\ UNCHANGED <<amount, handled, crashes>>
    BY <1>1, <1>8 DEF Capture, Decline, GiveBack, OpenDispute, Outside
  <2> QED BY <1>1, <2>2, <2>3 DEF Outside
<1>9. CASE \E o \in Order : Fulfil(o)
  BY <1>7, <1>9 DEF Fulfil
<1> QED BY <1>2, <1>6, <1>7, <1>8, <1>9 DEF Next, Provider

LEMMA OtherRowsAreTyped ==
  ASSUME PayTypeOK, Next, ~(\E w \in Worker : Proceed(w)) PROVE Rows'
<1>1. Rows
  BY DEF PayTypeOK, Rows
<1>2. CASE \E o \in Order : Fulfil(o)
  BY <1>1, <1>2 DEF Rows, Fulfil, OrderStatuses, rowVars
<1>3. CASE Provider \/ (\E w \in Worker : Begin(w) \/ Crash(w))
  <2>1. UNCHANGED <<orderVars, rowVars>>
    BY <1>3 DEF Provider, Capture, Decline, GiveBack, OpenDispute, Begin, Crash, Deliver,
       CheckStatus, ConfirmPayment, AskReturn, FindDraft, AskLift, Pay, FindStale
  <2> QED BY <1>1, <2>1 DEF Rows, orderVars, rowVars
<1> QED BY <1>2, <1>3 DEF Next

\* Typed: every row has its type and every call is where its arguments allow.
Typed == PayTypeOK /\ Calls

LEMMA TypingStep == Typed /\ [Next]_vars => Typed'
<1> SUFFICES ASSUME Typed, [Next]_vars PROVE Typed'
  OBVIOUS
<1>1. CASE Next
  <2>1. Calls'
    BY <1>1, BeginKeepsCalls, PaidStepsKeepCalls, OtherEventsKeepCalls, DraftStepsKeepCalls,
       OutsideKeepsCalls DEF Typed, Next, Proceed
  <2>2. Rows' /\ Outside'
    BY <1>1, RowsAreTyped, OtherRowsAreTyped, OutsideIsTyped DEF Typed
  <2>3. job' \in [Worker -> Jobs]
    BY <2>1 DEF Calls, PlacedCalls
  <2> QED BY <2>1, <2>2, <2>3 DEF Typed, PayTypeOK, Rows, Outside
<1>2. CASE UNCHANGED vars
  BY <1>2 DEF Typed, Calls, PayTypeOK, vars, orderVars, rowVars, remoteVars, PlacedCalls, Placed
<1> QED BY <1>1, <1>2

LEMMA TypedAtFirst == Init => Typed
<1> SUFFICES ASSUME Init PROVE Typed
  OBVIOUS
<1>1. Calls
  BY IdleIsPlaced DEF Init, Calls, Kinds
<1>2. PayTypeOK
  BY IdleIsPlaced, PaymentsAssumption DEF Init, PayTypeOK, OrderStatuses, RiskLevels, RowStates,
     PlacedCalls
<1> QED BY <1>1, <1>2 DEF Typed

\* The state of the payments module is well typed (the rows of the orders, the
\* payments and their refunds, what the providers know, and every call).
THEOREM PaymentsTyping == Spec => []PayTypeOK
<1>1. Spec => []Typed
  BY TypedAtFirst, TypingStep, PTL DEF Spec
<1>2. Typed => PayTypeOK
  BY DEF Typed
<1> QED BY <1>1, <1>2, PTL

-----------------------------------------------------------------------------
(***************************************************************************)
(* Gains.                                                                  *)
(***************************************************************************)
\* The statuses of an order that was paid.
Live == Sold \cup {"REFUNDED"}

Received == {"SUCCEEDED", "REFUNDED"}
OnRecord(p) == row[p] \in Received

\* A step of one order, and what it counts.
OrderStep(o) ==
  \/ status'[o] = status[o] /\ sales'[o] = sales[o]
  \/ /\ status[o] = "PENDING_PAYMENT" /\ status'[o] \in {"PAID", "PAYMENT_REVIEW"}
     /\ sales'[o] = sales[o] + 1
  \/ /\ status[o] = "PENDING_PAYMENT" /\ status'[o] = "CANCELLED"
     /\ sales'[o] = sales[o]
  \/ status[o] \in Sold /\ status'[o] \in Sold /\ sales'[o] = sales[o]
  \/ status[o] \in Sold /\ status'[o] = "REFUNDED" /\ sales'[o] = sales[o] - 1

\* A step of one payment's row.
RowStep(p) ==
  /\ OnRecord(p) => row'[p] \in Received
  /\ row'[p] = "SUCCEEDED" => row[p] = "SUCCEEDED" \/ status'[OrderOf[p]] # "PENDING_PAYMENT"

\* What a call that has read something may rely on.
Told(w) ==
  /\ At(w, "return") => job[w].from \in Sold
  /\ At(w, "commit") =>
       /\ job[w].from # "PENDING_PAYMENT" => status[job[w].ord] # "PENDING_PAYMENT"
       /\ job[w].from \in Live => status[job[w].ord] \in Live
  /\ At(w, "closed") => OnRecord(job[w].pay)
  /\ At(w, "finish") /\ job[w].op = "succeeded" =>
       LET o == OrderOf[job[w].pay] IN
       /\ OnRecord(job[w].pay) \/ o \in flagged
       /\ job[w].pay \in Hosted => status[o] \in Live \/ o \in flagged

\* The order is sold or refunded, or staff were told, once hosted money is in.
HostedIsTold ==
  \A p \in Hosted : <<"succeeded", p>> \in handled =>
    status[OrderOf[p]] \in Live \/ OrderOf[p] \in flagged

Books == /\ SaleIsCounted /\ SucceededIsApplied /\ MoneyIsOnRecord /\ HostedIsTold
         /\ \A w \in Worker : Told(w)

LEMMA CallAt ==
  ASSUME Typed, NEW w \in Worker
  PROVE  /\ job[w] \in Jobs /\ Placed(job[w])
         /\ ~At(w, "idle") /\ ~At(w, "finish") => job[w].ord \in Order
         /\ \A step \in PaidSteps \cup EventSteps \cup {"return"} :
              At(w, step) => job[w].pay \in Payment /\ job[w].ord = OrderOf[job[w].pay]
BY DEF Typed, Calls, PlacedCalls, Placed, At

\* What a move out of a status can be.
LEMMA MapOfMoves ==
  /\ \A s, f \in OrderStatuses : \A t \in {"REFUNDED", "PARTIALLY_REFUNDED"} :
       AfterTransition(s, f, t) # s => s \in Sold /\ AfterTransition(s, f, t) = t
  /\ \A s \in OrderStatuses :
       AfterTransition(s, "PENDING_PAYMENT", "CANCELLED")
         = IF s = "PENDING_PAYMENT" THEN "CANCELLED" ELSE s
  /\ \A s \in OrderStatuses : \A t \in {"FULFILLING", "FULFILLED"} :
       CanTransition(s, t) => s \in Sold
BY DEF AfterTransition, CanTransition, OrderTransitions, RefundOutcomes, OrderStatuses, Sold

\* The steps that write a row of an order or a payment.
LEMMA WhoWrites ==
  ASSUME Next
  PROVE  \/ UNCHANGED <<orderVars, rowVars>>
         \/ \E o \in Order : Fulfil(o)
         \/ \E w \in Worker :
              \/ CompareHosted(w) \/ Commit(w) \/ FlagClosed(w) \/ Fail(w) \/ CloseDraft(w)
              \/ Credit(w) \/ RecordReturn(w) \/ Block(w) \/ Lift(w) \/ RecordAttempt(w)
              \/ RetireDraft(w) \/ RecordCancel(w) \/ AfterCancel(w)
<1>1. ASSUME Provider \/ (\E w \in Worker : Begin(w) \/ Crash(w))
      PROVE  UNCHANGED <<orderVars, rowVars>>
  BY <1>1 DEF Provider, Capture, Decline, GiveBack, OpenDispute, Begin, Crash, Deliver,
     CheckStatus, ConfirmPayment, AskReturn, FindDraft, AskLift, Pay, FindStale
<1>2. ASSUME NEW w \in Worker,
             \/ CommitFails(w) \/ ReadOrder(w) \/ CountOthers(w) \/ ReadForRefund(w)
             \/ OpenIntent(w) \/ OpenSession(w) \/ ListIntents(w) \/ (\E q \in Payment : CancelIntent(w, q)) \/ Finish(w)
      PROVE  UNCHANGED <<orderVars, rowVars>>
  BY <1>2 DEF CommitFails, ReadOrder, CountOthers, ReadForRefund, OpenIntent, OpenSession,
     ListIntents, CancelIntent, Finish
<1> QED BY <1>1, <1>2 DEF Next, Proceed

LEMMA OrderSteps ==
  ASSUME Typed, Books, Next PROVE \A o \in Order : OrderStep(o)
<1> SUFFICES ASSUME NEW o \in Order PROVE OrderStep(o)
  OBVIOUS
<1>1. /\ status \in [Order -> OrderStatuses] /\ sales \in [Order -> Int]
      /\ status[o] \in OrderStatuses
  BY DEF Typed, PayTypeOK
<1>2. ASSUME UNCHANGED <<status, sales>> PROVE OrderStep(o)
  BY <1>2 DEF OrderStep
<1>3. ASSUME NEW w \in Worker, Commit(w) PROVE OrderStep(o)
  <2>1. CASE Moves(w)
    BY <1>1, <1>3, <2>1 DEF Commit, Moves, OrderStep
  <2>2. CASE ~Moves(w)
    BY <1>2, <1>3, <2>2 DEF Commit
  <2> QED BY <2>1, <2>2
<1>4. ASSUME NEW w \in Worker, CloseDraft(w) \/ RetireDraft(w) PROVE OrderStep(o)
  <2>1. /\ status' = [status EXCEPT ![job[w].ord] = AfterTransition(@, "PENDING_PAYMENT", "CANCELLED")]
        /\ sales' = sales
    BY <1>4 DEF CloseDraft, RetireDraft
  <2> QED BY <1>1, <2>1, MapOfMoves DEF OrderStep
<1>5. ASSUME NEW w \in Worker, Credit(w) PROVE OrderStep(o)
  <2> DEFINE c == job[w].ord
             after == AfterTransition(status[c], job[w].from, Outcome(w))
  <2>1. c \in Order /\ job[w].from \in OrderStatuses /\ job[w].op \in {"part", "full"}
    BY <1>5, CallAt DEF Credit, At, Jobs, Placed
  <2>2. CASE o = c
    <3>1. /\ Outcome(w) = IF job[w].op = "full" THEN "REFUNDED" ELSE "PARTIALLY_REFUNDED"
          /\ status'[o] = after
          /\ sales'[o] = IF job[w].op = "full" /\ after # status[o] THEN sales[o] - 1 ELSE sales[o]
      BY <1>1, <1>5, <2>2 DEF Credit, Outcome, TakesBack
    <3>2. after # status[o] => status[o] \in Sold /\ after = Outcome(w)
      BY <1>1, <2>1, <2>2, <3>1, MapOfMoves
    <3>3. "PARTIALLY_REFUNDED" \in Sold
      BY DEF Sold
    <3> QED BY <2>1, <3>1, <3>2, <3>3 DEF OrderStep
  <2>3. CASE o # c
    BY <1>1, <1>5, <2>3 DEF Credit, OrderStep
  <2> QED BY <2>2, <2>3
<1>6. ASSUME NEW w \in Worker, RecordReturn(w) PROVE OrderStep(o)
  <2>1. job[w].from \in Sold
    BY <1>6 DEF RecordReturn, Books, Told
  <2> QED BY <1>1, <1>6, <2>1 DEF RecordReturn, OrderStep
<1>7. ASSUME NEW w \in Worker, Lift(w) PROVE OrderStep(o)
  BY <1>1, <1>7 DEF Lift, OrderStep, Sold
<1>8. ASSUME NEW c \in Order, Fulfil(c) PROVE OrderStep(o)
  <2>1. PICK to \in {"FULFILLING", "FULFILLED"} :
          CanTransition(status[c], to) /\ status' = [status EXCEPT ![c] = to]
    BY <1>8 DEF Fulfil
  <2>2. sales' = sales
    BY <1>8 DEF Fulfil
  <2>3. status[c] \in Sold /\ to \in Sold
    BY <2>1, MapOfMoves DEF Sold, Typed, PayTypeOK
  <2> QED BY <1>1, <2>1, <2>2, <2>3 DEF OrderStep
<1>9. ASSUME NEW w \in Worker,
             \/ CompareHosted(w) \/ FlagClosed(w) \/ Fail(w) \/ Block(w) \/ RecordAttempt(w)
             \/ RecordCancel(w) \/ AfterCancel(w)
      PROVE  UNCHANGED <<status, sales>>
  BY <1>9 DEF CompareHosted, FlagClosed, Fail, Block, RecordAttempt, RecordCancel, AfterCancel,
     orderVars
<1>10. UNCHANGED <<orderVars, rowVars>> => OrderStep(o)
  BY <1>2 DEF orderVars
<1> QED BY <1>2, <1>3, <1>4, <1>5, <1>6, <1>7, <1>8, <1>9, <1>10, WhoWrites

LEMMA RowSteps ==
  ASSUME Typed, Books, Next, \A o \in Order : OrderStep(o)
  PROVE  (\A p \in Payment : RowStep(p)) /\ flagged \subseteq flagged'
<1>1. row \in [Payment -> RowStates] /\ status \in [Order -> OrderStatuses]
  BY DEF Typed, PayTypeOK
<1>2. ASSUME UNCHANGED row PROVE \A p \in Payment : RowStep(p)
  BY <1>2 DEF RowStep, OnRecord, Received
<1>3. ASSUME NEW w \in Worker, Commit(w) PROVE \A p \in Payment : RowStep(p)
  <2> DEFINE q == job[w].pay
             o == job[w].ord
  <2>1. q \in Payment /\ o = OrderOf[q] /\ o \in Order
    BY <1>3, CallAt DEF Commit, PaidSteps, At
  <2>2. status'[o] # "PENDING_PAYMENT"
    <3>1. CASE Moves(w)
      BY <1>1, <1>3, <2>1, <3>1 DEF Commit
    <3>2. CASE ~Moves(w)
      <4>1. status' = status
        BY <1>3, <3>2 DEF Commit
      <4>2. job[w].from # "PENDING_PAYMENT" => status[o] # "PENDING_PAYMENT"
        BY <1>3 DEF Commit, Books, Told
      <4> QED BY <3>2, <4>1, <4>2 DEF Moves
    <3> QED BY <3>1, <3>2
  <2>3. \E s \in {"SUCCEEDED", "REFUNDED"} : row' = [row EXCEPT ![q] = s]
    BY <1>3 DEF Commit
  <2> QED BY <1>1, <2>1, <2>2, <2>3 DEF RowStep, OnRecord, Received
<1>4. ASSUME NEW w \in Worker,
             Fail(w) \/ RecordAttempt(w) \/ RecordCancel(w) \/ RetireDraft(w)
      PROVE  \A p \in Payment : RowStep(p)
  <2>1. \A p \in Payment : \/ row'[p] = row[p]
                           \/ /\ row[p] \in {"NONE", "PROCESSING"}
                              /\ row'[p] \notin {"SUCCEEDED", "REFUNDED"}
    BY <1>1, <1>4 DEF Fail, FailRow, RecordAttempt, RecordCancel, RetireDraft, Retired, OpenOn
  <2> QED BY <2>1 DEF RowStep, OnRecord, Received
<1>5. ASSUME NEW w \in Worker, Credit(w) \/ RecordReturn(w) PROVE \A p \in Payment : RowStep(p)
  <2>1. \A p \in Payment : row'[p] = row[p] \/ row'[p] = "REFUNDED"
    BY <1>1, <1>5 DEF Credit, Returned, RecordReturn
  <2> QED BY <2>1 DEF RowStep, OnRecord, Received
<1>6. ASSUME \/ UNCHANGED <<orderVars, rowVars>> \/ (\E o \in Order : Fulfil(o))
             \/ \E w \in Worker : \/ CompareHosted(w) \/ FlagClosed(w) \/ CloseDraft(w)
                                  \/ Block(w) \/ Lift(w) \/ AfterCancel(w)
      PROVE  UNCHANGED row
  BY <1>6 DEF rowVars, Fulfil, CompareHosted, FlagClosed, CloseDraft, Block, Lift, AfterCancel
<1>7. flagged \subseteq flagged'
  <2>1. ASSUME NEW w \in Worker, CompareHosted(w) \/ FlagClosed(w) PROVE flagged \subseteq flagged'
    BY <2>1 DEF CompareHosted, FlagClosed
  <2>2. ASSUME NEW w \in Worker,
               \/ Commit(w) \/ Fail(w) \/ CloseDraft(w) \/ Credit(w) \/ RecordReturn(w) \/ Block(w)
               \/ Lift(w) \/ RecordAttempt(w) \/ RetireDraft(w) \/ RecordCancel(w) \/ AfterCancel(w)
        PROVE  flagged' = flagged
    BY <2>2 DEF Commit, Fail, CloseDraft, Credit, RecordReturn, Block, Lift, RecordAttempt,
       RetireDraft, RecordCancel, AfterCancel, orderVars
  <2>3. ASSUME UNCHANGED <<orderVars, rowVars>> \/ (\E o \in Order : Fulfil(o))
        PROVE  flagged' = flagged
    BY <2>3 DEF orderVars, Fulfil
  <2> QED BY <2>1, <2>2, <2>3, WhoWrites
<1> QED BY <1>2, <1>3, <1>4, <1>5, <1>6, <1>7, WhoWrites

-----------------------------------------------------------------------------
(***************************************************************************)
(* Books.                                                                  *)
(***************************************************************************)
\* What OrderSteps and RowSteps establish of every step.
Grows == /\ \A o \in Order : OrderStep(o)
         /\ \A p \in Payment : RowStep(p)
         /\ flagged \subseteq flagged'

LEMMA StatusGrows ==
  ASSUME Typed, Grows, NEW o \in Order
  PROVE  /\ status[o] # "PENDING_PAYMENT" => status'[o] # "PENDING_PAYMENT"
         /\ status[o] \in Live => status'[o] \in Live
BY DEF Grows, OrderStep, Live, Sold

\* What a call was told stays true while others work.
LEMMA ToldStays ==
  ASSUME Typed, Grows, NEW w \in Worker, Told(w), job'[w] = job[w] PROVE Told(w)'
<1>1. At(w, "commit") => job[w].ord \in Order
  BY CallAt DEF At, PaidSteps
<1>2. At(w, "closed") \/ At(w, "finish") => job[w].pay \in Payment
  BY DEF Typed, Calls, PlacedCalls, Placed, At, PaidSteps
<1>3. \A p \in Payment : OrderOf[p] \in Order
  BY PaymentsAssumption
<1>4. \A p \in Payment : OnRecord(p) => row'[p] \in Received
  BY DEF Grows, RowStep
<1>5. \A s : At(w, s)' <=> At(w, s)
  BY DEF At
<1>6. At(w, "commit")' => /\ job'[w].from # "PENDING_PAYMENT" => status'[job'[w].ord] # "PENDING_PAYMENT"
                          /\ job'[w].from \in Live => status'[job'[w].ord] \in Live
  BY <1>1, <1>5, StatusGrows DEF Told
<1>7. At(w, "closed")' => row'[job[w].pay] \in Received
  BY <1>2, <1>4, <1>5 DEF Told
<1>8. At(w, "finish")' /\ job'[w].op = "succeeded" =>
        LET o == OrderOf[job[w].pay] IN
        /\ row'[job[w].pay] \in Received \/ o \in flagged'
        /\ job[w].pay \in Hosted => status'[o] \in Live \/ o \in flagged'
  <2> SUFFICES ASSUME At(w, "finish"), job[w].op = "succeeded"
               PROVE  LET o == OrderOf[job[w].pay] IN
                      /\ row'[job[w].pay] \in Received \/ o \in flagged'
                      /\ job[w].pay \in Hosted => status'[o] \in Live \/ o \in flagged'
    BY <1>5
  <2> DEFINE o == OrderOf[job[w].pay]
  <2>1. job[w].pay \in Payment /\ o \in Order
    BY <1>2, <1>3
  <2>2. /\ OnRecord(job[w].pay) \/ o \in flagged
        /\ job[w].pay \in Hosted => status[o] \in Live \/ o \in flagged
    BY DEF Told
  <2> HIDE DEF o
  <2>3. flagged \subseteq flagged'
    BY DEF Grows
  <2> QED BY <1>4, <2>1, <2>2, <2>3, StatusGrows DEF o
<1>9. At(w, "return")' => job'[w].from \in Sold
  BY <1>5 DEF Told
<1> QED BY <1>6, <1>7, <1>8, <1>9 DEF Told, OnRecord, Received

\* A call that has read nothing yet was told nothing.
LEMMA NothingTold ==
  ASSUME NEW w \in Worker, job'[w].at \notin {"return", "commit", "closed", "finish"} PROVE Told(w)'
BY DEF Told, At

LEMMA JobOf ==
  ASSUME Typed, NEW w \in Worker, NEW call, Becomes(w, call) PROVE job'[w] = call
BY DEF Typed, Calls, Becomes

LEMMA JobGoes ==
  ASSUME Typed, NEW w \in Worker, NEW step, Goto(w, step)
  PROVE  job'[w].at = step /\ job'[w].op = job[w].op /\ job'[w].pay = job[w].pay
<1>1. job[w] \in Jobs /\ job'[w] = [job[w] EXCEPT !.at = step]
  BY CallAt, JobOf DEF Goto
<1> QED BY <1>1 DEF Jobs

\* A call that is over, and what it has found out of hosted or carded money.
LEMMA ToldDone ==
  ASSUME Typed, NEW w \in Worker, Done(w), events \subseteq events',
         job[w].op = "succeeded" =>
           LET o == OrderOf[job[w].pay] IN
           /\ row'[job[w].pay] \in Received \/ o \in flagged'
           /\ job[w].pay \in Hosted => status'[o] \in Live \/ o \in flagged'
  PROVE  Told(w)'
<1>1. Calls /\ job[w] \in Jobs /\ Placed(job[w])
  BY CallAt DEF Typed
<1>2. CASE job[w].op \in Kinds
  <2>1. job[w].pay \in Payment
    BY <1>1, <1>2 DEF Placed
  <2>2. /\ job'[w].at = "finish" /\ job'[w].op = job[w].op /\ job'[w].pay = job[w].pay
    <3>1. job'[w] = Call("finish", job[w].op, job[w].pay, NoOrder)
      BY <1>1, <1>2, CallDone
    <3> QED BY <3>1 DEF Call
  <2> QED BY <2>2 DEF Told, At, OnRecord, Received
<1>3. CASE job[w].op \notin Kinds
  <2>1. job'[w].at = "idle"
    BY <1>1, <1>3, CallDone, IdleIsPlaced
  <2> QED BY <2>1, NothingTold
<1> QED BY <1>2, <1>3

LEMMA BeginTells ==
  ASSUME Typed, NEW w \in Worker, Begin(w) PROVE Told(w)'
<1>1. ASSUME NEW p \in Payment, NEW kind \in Kinds, Deliver(w, kind, p) PROVE Told(w)'
  <2>1. job'[w] = Call(FirstStep(kind, p), kind, p, OrderOf[p])
    BY <1>1, JobOf DEF Deliver
  <2>2. job'[w].at \in {"look", "mark", "failed", "block", "refund"}
    BY <2>1 DEF Call, FirstStep
  <2> QED BY <2>2, NothingTold
<1>2. ASSUME NEW p \in Payment, CheckStatus(w, p) \/ ConfirmPayment(w, p) PROVE Told(w)'
  <2>1. \/ job'[w] = Call("look", "check", p, OrderOf[p])
        \/ job'[w] = Call("mark", "confirm", p, OrderOf[p])
    BY <1>2, JobOf DEF CheckStatus, ConfirmPayment
  <2>2. job'[w].at \in {"look", "mark"}
    BY <2>1 DEF Call
  <2> QED BY <2>2, NothingTold
<1>3. ASSUME NEW p \in Payment, AskReturn(w, p) PROVE Told(w)'
  <2>1. /\ job'[w] = [Call("return", "return", p, OrderOf[p]) EXCEPT !.from = status[OrderOf[p]]]
        /\ status[OrderOf[p]] \in Sold
    BY <1>3, JobOf DEF AskReturn
  <2>2. job'[w].at = "return" /\ job'[w].from \in Sold
    BY <2>1 DEF Call
  <2> QED BY <2>2 DEF Told, At
<1>4. ASSUME NEW o \in Order, NEW c \in 1..MaxCost,
             \/ FindDraft(w, o, c) \/ AskLift(w, o) \/ Pay(w, o) \/ FindStale(w, o)
      PROVE  Told(w)'
  <2>1. CASE FindDraft(w, o, c)
    <3> DEFINE step == IF \E p \in OpenOn(o, Hosted) : amount[p] # c THEN "retire" ELSE "list"
    <3>1. job'[w] = [Call(step, "draft", NoPayment, o) EXCEPT !.cost = c]
      BY <2>1, JobOf DEF FindDraft
    <3>2. step = "retire" \/ step = "list"
      OBVIOUS
    <3> HIDE DEF step
    <3> QED BY <3>1, <3>2, NothingTold DEF Call
  <2>2. CASE AskLift(w, o)
    <3> DEFINE first == Call("lift", "lift", NoPayment, o)
    <3>1. job'[w] = [first EXCEPT !.from = status[o], !.risk = risk[o]]
      BY <2>2, JobOf DEF AskLift
    <3>2. first \in Jobs /\ first.at = "lift"
      BY CallIsTyped DEF Steps, Ops
    <3> HIDE DEF first
    <3>3. job'[w].at = "lift"
      BY <3>1, <3>2 DEF Jobs
    <3> QED BY <3>3, NothingTold
  <2>3. CASE Pay(w, o)
    <3>1. job'[w] = [Call("open", "pay", NoPayment, o) EXCEPT !.cost = cost[o]]
      BY <2>3, JobOf DEF Pay
    <3> QED BY <3>1, NothingTold DEF Call
  <2>4. CASE FindStale(w, o)
    <3>1. job'[w] = Call("list", "sweep", NoPayment, o)
      BY <2>4, JobOf DEF FindStale
    <3> QED BY <3>1, NothingTold DEF Call
  <2> QED BY <1>4, <2>1, <2>2, <2>3, <2>4
<1>5. 1 \in 1..MaxCost
  BY PaymentsAssumption
<1> QED BY <1>1, <1>2, <1>3, <1>4, <1>5 DEF Begin

\* markPaid: what the call read of the order still tells where the order is, and
\* when it is over the money is on record or with staff.
LEMMA PaidStepsTell ==
  ASSUME Typed, Books, Grows, NEW w \in Worker,
         CompareHosted(w) \/ ReadOrder(w) \/ Commit(w) \/ FlagClosed(w)
  PROVE  Told(w)'
<1> DEFINE p == job[w].pay
           o == job[w].ord
<1>1. /\ job[w] \in Jobs /\ events \subseteq events'
      /\ p \in Payment /\ o \in Order /\ o = OrderOf[p]
  BY CallAt DEF CompareHosted, ReadOrder, Commit, FlagClosed, remoteVars, PaidSteps, At, Jobs
<1>2. CASE CompareHosted(w)
  <2>1. CASE o \in flagged' /\ Done(w)
    BY <1>1, <2>1, ToldDone
  <2>2. ASSUME NEW told, Becomes(w, [job[w] EXCEPT !.at = "mark", !.hold = told]) PROVE Told(w)'
    <3>1. job'[w] = [job[w] EXCEPT !.at = "mark", !.hold = told]
      BY <2>2, JobOf
    <3>2. job'[w].at = "mark"
      BY <1>1, <3>1 DEF Jobs
    <3> QED BY <3>2, NothingTold
  <2> QED BY <1>2, <2>1, <2>2 DEF CompareHosted
<1>3. CASE ReadOrder(w)
  <2>1. PICK level, hold :
          Becomes(w, [job[w] EXCEPT !.at = "commit", !.from = status[o],
                        !.back = (row[p] = "REFUNDED"), !.risk = level, !.hold = hold])
    BY <1>3 DEF ReadOrder
  <2>2. job'[w] = [job[w] EXCEPT !.at = "commit", !.from = status[o],
                     !.back = (row[p] = "REFUNDED"), !.risk = level, !.hold = hold]
    BY <2>1, JobOf
  <2>3. job'[w].at = "commit" /\ job'[w].from = status[o] /\ job'[w].ord = o
    BY <1>1, <2>2 DEF Jobs
  <2>4. status' = status
    BY <1>3 DEF ReadOrder, orderVars
  <2> QED BY <2>3, <2>4 DEF Told, At
<1>4. CASE Commit(w)
  <2>1. row'[p] \in Received /\ At(w, "commit") /\ flagged' = flagged
    BY <1>1, <1>4 DEF Commit, OnRecord, Received, Typed, PayTypeOK
  <2>2. CASE Moves(w)
    <3>1. status'[o] \in Live /\ Done(w)
      BY <1>1, <1>4, <2>2 DEF Commit, Typed, PayTypeOK, Live, Sold
    <3> QED BY <1>1, <2>1, <3>1, ToldDone
  <2>3. CASE ~Moves(w) /\ Goto(w, "closed")
    BY <2>1, <2>3, JobGoes DEF Told, At, OnRecord, Received
  <2>4. CASE ~Moves(w) /\ Done(w) /\ ~(Found(w) \in {"CANCELLED", "FAILED"} /\ p \in Hosted)
    <3>1. /\ job[w].from # "PENDING_PAYMENT" => status[o] # "PENDING_PAYMENT"
          /\ job[w].from \in Live => status[o] \in Live
      BY <2>1 DEF Books, Told
    <3>2. status[o] \in OrderStatuses /\ job[w].from \in OrderStatuses /\ status' = status
      BY <1>1, <1>4, <2>4 DEF Typed, PayTypeOK, Commit, Jobs
    <3>3. p \in Hosted => status'[o] \in Live
      BY <2>4, <3>1, <3>2 DEF Moves, Found, Live, Sold, OrderStatuses
    <3> QED BY <1>1, <2>1, <2>4, <3>3, ToldDone
  <2> QED BY <1>4, <2>2, <2>3, <2>4 DEF Commit
<1>5. CASE FlagClosed(w)
  <2>1. o \in flagged' /\ row'[p] \in Received /\ Done(w)
    <3>1. OnRecord(p)
      BY <1>5 DEF FlagClosed, Books, Told
    <3> QED BY <1>1, <1>5, <3>1 DEF FlagClosed, OnRecord, rowVars
  <2> QED BY <1>1, <2>1, ToldDone
<1> QED BY <1>2, <1>3, <1>4, <1>5

LEMMA ToldReturn ==
  ASSUME Typed, NEW w \in Worker, Return(w) PROVE Told(w)'
BY JobOf, IdleIsPlaced, NothingTold DEF Return

\* The other calls: none of them works a success, so none owes anything.
LEMMA OtherStepsTell ==
  ASSUME Typed, NEW w \in Worker,
         \/ Fail(w) \/ CountOthers(w) \/ CloseDraft(w) \/ ReadForRefund(w) \/ Credit(w)
         \/ RecordReturn(w) \/ Block(w) \/ Lift(w) \/ Finish(w) \/ Crash(w) \/ RetireDraft(w)
         \/ CommitFails(w)
  PROVE  Told(w)'
<1>1. job[w] \in Jobs /\ Placed(job[w])
  BY CallAt
<1>2. CASE Fail(w) \/ CountOthers(w) \/ CloseDraft(w) \/ Credit(w) \/ Block(w)
  <2>1. job[w].op # "succeeded" /\ events \subseteq events'
    BY <1>1, <1>2 DEF Placed, At, Fail, CountOthers, CloseDraft, Credit, Block, remoteVars
  <2>2. Done(w) \/ Goto(w, "count") \/ Goto(w, "close")
    BY <1>2 DEF Fail, CountOthers, CloseDraft, Credit, Block
  <2> QED BY <2>1, <2>2, ToldDone, JobGoes, NothingTold
<1>3. CASE RecordReturn(w) \/ Lift(w) \/ Finish(w) \/ Crash(w) \/ CommitFails(w) \/ RetireDraft(w)
  BY <1>3, ToldReturn DEF RecordReturn, Lift, Finish, Crash, CommitFails, RetireDraft
<1>4. CASE ReadForRefund(w)
  <2>1. job'[w] = [job[w] EXCEPT !.at = "credit", !.from = status[job[w].ord]]
    BY <1>4, JobOf DEF ReadForRefund
  <2>2. job'[w].at = "credit"
    BY <1>1, <2>1 DEF Jobs
  <2> QED BY <2>2, NothingTold
<1> QED BY <1>2, <1>3, <1>4

LEMMA DraftStepsTell ==
  ASSUME Typed, NEW w \in Worker,
         \/ OpenIntent(w) \/ OpenSession(w) \/ RecordAttempt(w) \/ ListIntents(w)
         \/ (\E p \in Payment : CancelIntent(w, p)) \/ RecordCancel(w) \/ AfterCancel(w)
  PROVE  Told(w)'
<1>1. job[w] \in Jobs
  BY CallAt
<1>2. ASSUME NEW step \in {"list", "retire", "close"}, Goto(w, step) PROVE Told(w)'
  BY <1>2, JobGoes, NothingTold
<1>3. ASSUME NEW step \in {"record", "cancelled", "cancel"}, NEW call, Becomes(w, call),
             call.at = step
      PROVE  Told(w)'
  BY <1>3, JobOf, NothingTold
<1>4. CASE OpenIntent(w) \/ OpenSession(w)
  <2>1. ASSUME NEW p, Becomes(w, [job[w] EXCEPT !.at = "record", !.pay = p]) PROVE Told(w)'
    <3>1. [job[w] EXCEPT !.at = "record", !.pay = p].at = "record"
      BY <1>1 DEF Jobs
    <3> QED BY <1>3, <2>1, <3>1
  <2> QED BY <1>2, <1>4, <2>1 DEF OpenIntent, OpenSession, Start, Reuse
<1>5. CASE RecordAttempt(w) \/ AfterCancel(w)
  BY <1>2, <1>5, ToldReturn DEF RecordAttempt, AfterCancel
<1>6. CASE ListIntents(w)
  <2> DEFINE call == [job[w] EXCEPT !.at = "cancel",
                               !.todo = OpenOn(job[w].ord, Card) \ {job[w].pay}, !.pay = NoPayment]
  <2>1. call.at = "cancel"
    BY <1>1 DEF Jobs
  <2>2. Becomes(w, call)
    BY <1>6 DEF ListIntents
  <2> QED BY <1>3, <2>1, <2>2
<1>7. ASSUME NEW p \in Payment, CancelIntent(w, p) PROVE Told(w)'
  <2> DEFINE asked == [job[w] EXCEPT !.at = "cancelled", !.pay = p, !.todo = @ \ {p}]
             next  == [job[w] EXCEPT !.todo = @ \ {p}]
  <2>1. (Becomes(w, asked) \/ Becomes(w, next)) /\ job[w].at = "cancel"
    BY <1>7 DEF CancelIntent, At
  <2>2. asked.at = "cancelled" /\ next.at = "cancel"
    BY <1>1, <2>1 DEF Jobs
  <2> QED BY <1>3, <2>1, <2>2
<1>8. CASE RecordCancel(w)
  <2> DEFINE call == [job[w] EXCEPT !.at = "cancel", !.pay = NoPayment]
  <2>1. call.at = "cancel" /\ Becomes(w, call)
    BY <1>1, <1>8 DEF Jobs, RecordCancel
  <2> QED BY <1>3, <2>1
<1> QED BY <1>4, <1>5, <1>6, <1>7, <1>8

\* One call moves at a time, and none if the step is taken elsewhere.
LEMMA OneMoves ==
  ASSUME Typed, Next
  PROVE  \/ UNCHANGED <<job, handled>>
         \/ \E w \in Worker : /\ Begin(w) \/ Proceed(w) \/ Crash(w)
                              /\ \A v \in Worker \ {w} : job'[v] = job[v]
<1>1. ASSUME NEW w \in Worker, Begin(w) \/ Proceed(w) \/ Crash(w)
      PROVE  \A v \in Worker \ {w} : job'[v] = job[v]
  <2>1. ASSUME NEW call, Becomes(w, call) PROVE \A v \in Worker \ {w} : job'[v] = job[v]
    BY <2>1 DEF Becomes, Typed, Calls
  <2>2. CASE Begin(w) \/ Crash(w)
    BY <2>1, <2>2 DEF Begin, Crash, Return, Deliver, CheckStatus, ConfirmPayment, AskReturn,
       FindDraft, AskLift, Pay, FindStale
  <2>3. CASE Done(w) \/ Return(w) \/ (\E step : Goto(w, step))
    BY <2>1, <2>3 DEF Done, Return, Goto
  <2>4. CASE \/ CompareHosted(w) \/ ReadOrder(w) \/ Commit(w) \/ CommitFails(w) \/ FlagClosed(w)
    BY <2>1, <2>3, <2>4 DEF CompareHosted, ReadOrder, Commit, CommitFails, FlagClosed
  <2>5. CASE \/ Fail(w) \/ CountOthers(w) \/ CloseDraft(w) \/ ReadForRefund(w) \/ Credit(w)
             \/ RecordReturn(w) \/ Block(w) \/ Lift(w) \/ Finish(w) \/ RetireDraft(w)
    BY <2>1, <2>3, <2>5 DEF Fail, CountOthers, CloseDraft, ReadForRefund, Credit, RecordReturn,
       Block, Lift, Finish, RetireDraft
  <2>6. CASE \/ OpenIntent(w) \/ OpenSession(w) \/ RecordAttempt(w) \/ ListIntents(w)
             \/ (\E p \in Payment : CancelIntent(w, p)) \/ RecordCancel(w) \/ AfterCancel(w)
    BY <2>1, <2>3, <2>6 DEF OpenIntent, OpenSession, RecordAttempt, ListIntents, CancelIntent,
       RecordCancel, AfterCancel, Start, Reuse
  <2> QED BY <1>1, <2>2, <2>4, <2>5, <2>6 DEF Proceed
<1>2. CASE Provider \/ (\E o \in Order : Fulfil(o))
  BY <1>2 DEF Provider, Capture, Decline, GiveBack, OpenDispute, Fulfil
<1> QED BY <1>1, <1>2 DEF Next

LEMMA ToldStep ==
  ASSUME Typed, Books, Grows, Next PROVE \A w \in Worker : Told(w)'
<1>1. CASE UNCHANGED <<job, handled>>
  BY <1>1, ToldStays DEF Books
<1>2. ASSUME NEW w \in Worker, Begin(w) \/ Proceed(w) \/ Crash(w),
             \A v \in Worker \ {w} : job'[v] = job[v]
      PROVE  \A v \in Worker : Told(v)'
  <2>1. Told(w)'
    BY <1>2, BeginTells, PaidStepsTell, OtherStepsTell, DraftStepsTell DEF Proceed
  <2>2. \A v \in Worker \ {w} : Told(v)'
    BY <1>2, ToldStays DEF Books
  <2> QED BY <2>1, <2>2
<1> QED BY <1>1, <1>2, OneMoves

\* An event is marked handled by the call that has worked it.
LEMMA HandledGrows ==
  ASSUME Typed, Next, NEW p \in Payment, <<"succeeded", p>> \in handled', <<"succeeded", p>> \notin handled
  PROVE  \E w \in Worker : At(w, "finish") /\ job[w].op = "succeeded" /\ job[w].pay = p
<1>1. PICK w \in Worker : Begin(w) \/ Proceed(w) \/ Crash(w)
  BY OneMoves
<1>2. ~Finish(w) => handled' = handled
  <2>1. CASE Begin(w) \/ Crash(w)
    BY <2>1 DEF Begin, Crash, Deliver, CheckStatus, ConfirmPayment, AskReturn, FindDraft, AskLift,
       Pay, FindStale
  <2>2. CASE \/ CompareHosted(w) \/ ReadOrder(w) \/ Commit(w) \/ CommitFails(w) \/ FlagClosed(w)
             \/ Fail(w) \/ CountOthers(w) \/ CloseDraft(w) \/ ReadForRefund(w) \/ Credit(w)
    BY <2>2 DEF CompareHosted, ReadOrder, Commit, CommitFails, FlagClosed, Fail, CountOthers, CloseDraft,
       ReadForRefund, Credit
  <2>3. CASE \/ RecordReturn(w) \/ Block(w) \/ Lift(w) \/ RetireDraft(w)
             \/ OpenIntent(w) \/ OpenSession(w) \/ RecordAttempt(w) \/ ListIntents(w)
             \/ (\E q \in Payment : CancelIntent(w, q)) \/ RecordCancel(w) \/ AfterCancel(w)
    BY <2>3 DEF RecordReturn, Block, Lift, RetireDraft, OpenIntent, OpenSession, RecordAttempt,
       ListIntents, CancelIntent, RecordCancel, AfterCancel
  <2> QED BY <1>1, <2>1, <2>2, <2>3 DEF Proceed
<1>3. Finish(w) /\ handled' = handled \cup {<<job[w].op, job[w].pay>>}
  BY <1>2 DEF Finish
<1>4. <<"succeeded", p>> = <<job[w].op, job[w].pay>>
  BY <1>3
<1> QED BY <1>3, <1>4 DEF Finish

LEMMA BooksStep == Typed /\ Books /\ [Next]_vars => Books'
<1> SUFFICES ASSUME Typed, Books, [Next]_vars PROVE Books'
  OBVIOUS
<1>1. CASE Next
  <2>1. Grows
    BY <1>1, OrderSteps, RowSteps DEF Grows
  <2>2. SaleIsCounted'
    <3> SUFFICES ASSUME NEW o \in Order
                 PROVE  sales'[o] = IF status'[o] \in Sold THEN 1 ELSE 0
      BY DEF SaleIsCounted
    <3>1. OrderStep(o) /\ sales[o] = IF status[o] \in Sold THEN 1 ELSE 0
      BY <2>1 DEF Grows, Books, SaleIsCounted
    <3> QED BY <3>1 DEF OrderStep, Sold
  <2>3. \A p \in Payment : OrderOf[p] \in Order
    BY PaymentsAssumption
  <2>4. SucceededIsApplied'
    BY <2>1, <2>3, StatusGrows DEF SucceededIsApplied, Books, Grows, RowStep
  <2>5. ASSUME NEW p \in Payment, <<"succeeded", p>> \in handled'
        PROVE  /\ row'[p] \in Received \/ OrderOf[p] \in flagged'
               /\ p \in Hosted => status'[OrderOf[p]] \in Live \/ OrderOf[p] \in flagged'
    <3>1. /\ OnRecord(p) \/ OrderOf[p] \in flagged
          /\ p \in Hosted => status[OrderOf[p]] \in Live \/ OrderOf[p] \in flagged
      <4>1. CASE <<"succeeded", p>> \in handled
        BY <4>1 DEF Books, MoneyIsOnRecord, HostedIsTold, OnRecord, Received
      <4>2. CASE <<"succeeded", p>> \notin handled
        BY <1>1, <2>5, <4>2, HandledGrows DEF Books, Told
      <4> QED BY <4>1, <4>2
    <3>2. OnRecord(p) => row'[p] \in Received
      BY <2>1 DEF Grows, RowStep
    <3> QED BY <2>1, <2>3, <3>1, <3>2, StatusGrows DEF Grows
  <2>6. MoneyIsOnRecord' /\ HostedIsTold'
    BY <2>5, PaymentsAssumption DEF MoneyIsOnRecord, HostedIsTold, Received
  <2>7. \A w \in Worker : Told(w)'
    BY <1>1, <2>1, ToldStep
  <2> QED BY <2>2, <2>4, <2>6, <2>7 DEF Books
<1>2. CASE UNCHANGED vars
  BY <1>2 DEF Books, SaleIsCounted, SucceededIsApplied, MoneyIsOnRecord, HostedIsTold, Told, At,
     OnRecord, vars, orderVars, rowVars
<1> QED BY <1>1, <1>2

LEMMA BooksAtFirst == Init => Books
BY IdleIsPlaced, PaymentsAssumption DEF Init, Books, SaleIsCounted, SucceededIsApplied,
   MoneyIsOnRecord, HostedIsTold, Told, At, Sold

LEMMA BooksAreTrue == Spec => []Books
BY TypedAtFirst, TypingStep, BooksAtFirst, BooksStep, PTL DEF Spec

-----------------------------------------------------------------------------
\* Money whose event was dealt with stays on record, or is with staff: finishWebhook
\* runs after markPaid, and nothing that writes a row takes SUCCEEDED off it.
THEOREM MoneyStaysOnRecord == Spec => []MoneyIsOnRecord
<1>1. Books => MoneyIsOnRecord
  BY DEF Books
<1> QED BY <1>1, BooksAreTrue, PTL

\* No order awaits payment while one of its payments is recorded as received:
\* markPaid writes both in one transaction, and nothing makes an order pending.
THEOREM ReceivedIsApplied == Spec => []SucceededIsApplied
<1>1. Books => SucceededIsApplied
  BY DEF Books
<1> QED BY <1>1, BooksAreTrue, PTL

\* The sale is counted once while the order is sold and not otherwise, for any
\* number of payments, refunds, releases and crashes: every countSale is tied to
\* a compare-and-set that moved the order.
THEOREM SalesAreCounted == Spec => []SaleIsCounted
<1>1. Books => SaleIsCounted
  BY DEF Books
<1> QED BY <1>1, BooksAreTrue, PTL

\* Staff know of every payment through Final Processor that arrived for an order
\* that was closed: the answer of markPaid is the order's status, not a guess.
THEOREM ClosedOrdersAreFlagged == Spec => []ClosedOrderIsFlagged
<1>1. Books => ClosedOrderIsFlagged
  BY PaymentsAssumption DEF Books, HostedIsTold, ClosedOrderIsFlagged, Live, Sold
<1> QED BY <1>1, BooksAreTrue, PTL

\* A paid order that a dispute blocked is unblocked by staff who saw it blocked
\* and by nothing else: releaseHold compares the risk level too, and markPaid
\* writes it only with the move out of PENDING_PAYMENT.
THEOREM DisputesAreSeen == Spec => DisputeIsSeen
<1> DEFINE Seen == \A o \in Order :
       risk[o] = "BLOCKED" /\ risk'[o] # "BLOCKED" /\ status[o] # "PENDING_PAYMENT"
         => \E w \in Worker : /\ At(w, "lift") /\ job[w].ord = o /\ job[w].risk = "BLOCKED"
                              /\ job'[w] = Idle
<1>1. Typed /\ [Next]_vars => [Seen]_vars
  <2> SUFFICES ASSUME Typed, Next, NEW o \in Order, risk[o] = "BLOCKED", risk'[o] # "BLOCKED",
                      status[o] # "PENDING_PAYMENT"
               PROVE  \E w \in Worker : /\ At(w, "lift") /\ job[w].ord = o
                                        /\ job[w].risk = "BLOCKED" /\ job'[w] = Idle
    OBVIOUS
  <2>1. risk \in [Order -> RiskLevels]
    BY DEF Typed, PayTypeOK
  <2>2. PICK w \in Worker : Commit(w) \/ Block(w) \/ Lift(w)
    <3>1. ASSUME NEW w \in Worker,
                 \/ CompareHosted(w) \/ FlagClosed(w) \/ Fail(w) \/ CloseDraft(w) \/ Credit(w)
                 \/ RecordReturn(w) \/ RecordAttempt(w) \/ RetireDraft(w) \/ RecordCancel(w)
                 \/ AfterCancel(w)
          PROVE  risk' = risk
      BY <3>1 DEF CompareHosted, FlagClosed, Fail, CloseDraft, Credit, RecordReturn, RecordAttempt,
         RetireDraft, RecordCancel, AfterCancel, orderVars
    <3>2. UNCHANGED <<orderVars, rowVars>> \/ (\E c \in Order : Fulfil(c)) => risk' = risk
      BY DEF orderVars, Fulfil
    <3> QED BY <3>1, <3>2, WhoWrites
  <2>3. ~Commit(w)
    BY <2>1 DEF Commit, Moves
  <2>4. ~Block(w)
    BY <2>1 DEF Block
  <2>5. Lift(w)
    BY <2>2, <2>3, <2>4
  <2>6. /\ At(w, "lift") /\ job[w].ord = o /\ job[w].risk = "BLOCKED" /\ Return(w)
    BY <2>1, <2>5 DEF Lift, AsSeen
  <2>7. job'[w] = Idle
    BY <2>6, JobOf DEF Return
  <2> QED BY <2>6, <2>7
<1>2. Spec => []Typed
  BY TypedAtFirst, TypingStep, PTL DEF Spec
<1> QED BY <1>1, <1>2, PTL DEF Spec, DisputeIsSeen

-----------------------------------------------------------------------------
(***************************************************************************)
(* The order book.                                                         *)
(***************************************************************************)
OnBook == {p \in Payment : row[p] \in {"SUCCEEDED", "REFUNDED"}}

\* The book's map is checkout's, and so are the statuses that count as sold.
LEMMA BookHasTheMap ==
  /\ Book!Counted = Sold /\ Book!OrderStatuses = OrderStatuses
  /\ \A s, t : Book!CanTransition(s, t) <=> CanTransition(s, t)
<1>1. Book!Counted = Sold
  BY DEF Book!Counted, Book!MoneyReleased, Book!RefundOutcomes, Sold
<1>2. Book!OrderTransitions = OrderTransitions
  BY DEF Book!OrderTransitions, OrderTransitions, Book!RefundOutcomes, RefundOutcomes
<1> QED BY <1>1, <1>2 DEF Book!OrderStatuses, OrderStatuses, Book!CanTransition, CanTransition

\* Sales follow the status, so a step is known by what it does to the status.
LEMMA BookFollows ==
  ASSUME PayTypeOK, PayTypeOK', SaleIsCounted, SaleIsCounted', NEW o \in Order, NEW to,
         status' = [status EXCEPT ![o] = to]
  PROVE  Book!Becomes(o, to)
<1>1. /\ sales \in [Order -> Int] /\ sales' \in [Order -> Int] /\ status \in [Order -> OrderStatuses]
  BY DEF PayTypeOK
<1>2. Book!Counted = Sold
  BY BookHasTheMap
<1>3. \A q \in Order : sales'[q] = IF q = o THEN IF to \in Sold THEN 1 ELSE 0 ELSE sales[q]
  BY <1>1 DEF SaleIsCounted
<1>4. sales' = [sales EXCEPT ![o] = IF to \in Sold THEN 1 ELSE 0]
  BY <1>1, <1>3
<1> QED BY <1>2, <1>4 DEF Book!Becomes

LEMMA NothingIsBooked ==
  ASSUME PayTypeOK, PayTypeOK', SaleIsCounted, SaleIsCounted', status' = status, OnBook' = OnBook
  PROVE  UNCHANGED Book!bookVars
<1>1. /\ sales \in [Order -> Int] /\ sales' \in [Order -> Int]
  BY DEF PayTypeOK
<1>2. \A q \in Order : sales'[q] = sales[q]
  BY DEF SaleIsCounted
<1>3. sales' = sales
  BY <1>1, <1>2
<1> QED BY <1>3 DEF Book!bookVars, OnBook

\* A step of one order without a payment being put on record.
LEMMA BookMoves ==
  ASSUME PayTypeOK, PayTypeOK', SaleIsCounted, SaleIsCounted', OnBook' = OnBook,
         NEW o \in Order, NEW to \in OrderStatuses, status' = [status EXCEPT ![o] = to],
         \/ to = status[o]
         \/ CanTransition(status[o], to) /\ (status[o] = "PENDING_PAYMENT" => to \notin Sold)
  PROVE  [Book!Next]_(Book!bookVars)
<1>1. status \in [Order -> OrderStatuses]
  BY DEF PayTypeOK
<1>2. CASE to = status[o]
  <2>1. status' = status
    BY <1>1, <1>2
  <2> QED BY <2>1, NothingIsBooked
<1>3. CASE CanTransition(status[o], to) /\ (status[o] = "PENDING_PAYMENT" => to \notin Sold)
  <2>1. Book!Becomes(o, to)
    BY BookFollows
  <2>2. Book!Move(o, to)
    BY <1>3, <2>1, BookHasTheMap DEF Book!Move, OnBook
  <2> QED BY <2>2, BookHasTheMap DEF Book!Next
<1> QED BY <1>2, <1>3

\* A step of one order with a payment of it on record.
LEMMA BookRecords ==
  ASSUME PayTypeOK, PayTypeOK', SaleIsCounted, SaleIsCounted',
         NEW p \in Payment, OnBook' = OnBook \cup {p},
         NEW to \in OrderStatuses, status' = [status EXCEPT ![OrderOf[p]] = to],
         to = status[OrderOf[p]] \/ CanTransition(status[OrderOf[p]], to),
         status[OrderOf[p]] = "PENDING_PAYMENT" => to \in Sold \cup {"PENDING_PAYMENT"}
  PROVE  [Book!Next]_(Book!bookVars)
<1>1. OrderOf[p] \in Order
  BY PaymentsAssumption
<1>2. Book!Becomes(OrderOf[p], to)
  BY <1>1, BookFollows
<1>3. Book!Record(p, to)
  BY <1>2, BookHasTheMap DEF Book!Record, OnBook
<1> QED BY <1>3, BookHasTheMap DEF Book!Next

\* The moves of checkout are on the map.
LEMMA MapHasMoves ==
  /\ \A s \in OrderStatuses : AfterTransition(s, "PENDING_PAYMENT", "CANCELLED") # s
       => s = "PENDING_PAYMENT"
  /\ \A t \in {"PAID", "PAYMENT_REVIEW", "CANCELLED"} : CanTransition("PENDING_PAYMENT", t)
  /\ \A s \in Sold : CanTransition(s, "REFUNDED") /\ s # "PENDING_PAYMENT"
  /\ CanTransition("PAYMENT_REVIEW", "PAID")
  /\ \A s, f, t : AfterTransition(s, f, t) # s => CanTransition(s, t) /\ AfterTransition(s, f, t) = t
BY DEF AfterTransition, CanTransition, OrderTransitions, RefundOutcomes, OrderStatuses, Sold

\* A step of checkout is, to the book, nothing, a payment recorded or a move.
LEMMA StepKeepsBook == Typed /\ Books /\ [Next]_vars => [Book!Next]_(Book!bookVars)
<1> SUFFICES ASSUME Typed, Books, Next PROVE [Book!Next]_(Book!bookVars)
  <2>1. UNCHANGED vars => UNCHANGED Book!bookVars
    BY DEF vars, orderVars, rowVars, Book!bookVars
  <2> QED BY <2>1
<1>0. /\ PayTypeOK /\ PayTypeOK' /\ SaleIsCounted /\ SaleIsCounted'
      /\ row \in [Payment -> RowStates] /\ status \in [Order -> OrderStatuses]
  BY TypingStep, BooksStep DEF Typed, Books, PayTypeOK
<1>1. ASSUME status' = status, OnBook' = OnBook PROVE [Book!Next]_(Book!bookVars)
  BY <1>0, <1>1, NothingIsBooked
<1>2. ASSUME NEW w \in Worker, \/ CompareHosted(w) \/ FlagClosed(w) \/ Block(w) \/ AfterCancel(w)
      PROVE  [Book!Next]_(Book!bookVars)
  <2>1. status' = status /\ row' = row
    BY <1>2 DEF CompareHosted, FlagClosed, Block, AfterCancel, rowVars
  <2> QED BY <1>1, <2>1 DEF OnBook
<1>3. ASSUME NEW w \in Worker,
             Fail(w) \/ RecordAttempt(w) \/ RecordCancel(w) \/ RetireDraft(w) \/ CloseDraft(w)
      PROVE  OnBook' = OnBook
  <2>1. \A p \in Payment : \/ row'[p] = row[p]
                           \/ /\ row[p] \notin {"SUCCEEDED", "REFUNDED"}
                              /\ row'[p] \notin {"SUCCEEDED", "REFUNDED"}
    BY <1>0, <1>3 DEF Fail, FailRow, RecordAttempt, RecordCancel, RetireDraft, Retired, OpenOn,
                      CloseDraft, rowVars
  <2> QED BY <2>1 DEF OnBook
<1>4. ASSUME NEW w \in Worker, Fail(w) \/ RecordAttempt(w) \/ RecordCancel(w)
      PROVE  [Book!Next]_(Book!bookVars)
  <2>1. status' = status
    BY <1>4 DEF Fail, RecordAttempt, RecordCancel, orderVars
  <2> QED BY <1>1, <1>3, <1>4, <2>1
<1>5. ASSUME NEW w \in Worker, CloseDraft(w) \/ RetireDraft(w) PROVE [Book!Next]_(Book!bookVars)
  <2> DEFINE o == job[w].ord
             to == AfterTransition(status[o], "PENDING_PAYMENT", "CANCELLED")
  <2>1. o \in Order
    BY <1>5, CallAt DEF CloseDraft, RetireDraft, At
  <2>2. status' = [status EXCEPT ![o] = to]
    BY <1>0, <1>5, <2>1 DEF CloseDraft, RetireDraft
  <2>3. to \in OrderStatuses /\ (to = status[o] \/ (CanTransition(status[o], to) /\ to = "CANCELLED"))
    BY <1>0, <2>1, MapHasMoves, TransitionIsTyped DEF OrderStatuses
  <2>4. "CANCELLED" \notin Sold
    BY DEF Sold
  <2> HIDE DEF o, to
  <2> QED BY <1>0, <1>3, <1>5, <2>1, <2>2, <2>3, <2>4, BookMoves
<1>6. ASSUME NEW w \in Worker, Lift(w) PROVE [Book!Next]_(Book!bookVars)
  <2> DEFINE o == job[w].ord
             to == IF status[o] = "PAYMENT_REVIEW" THEN "PAID" ELSE status[o]
  <2>1. o \in Order
    BY <1>6, CallAt DEF Lift, At
  <2>2. OnBook' = OnBook
    BY <1>6 DEF Lift, OnBook, rowVars
  <2>3. CASE status' = status
    BY <1>1, <2>2, <2>3
  <2>4. CASE status' = [status EXCEPT ![o] = to]
    <3>1. to \in OrderStatuses /\ (to = status[o] \/ CanTransition(status[o], to))
          /\ (to # status[o] => status[o] = "PAYMENT_REVIEW")
      BY <1>0, <2>1, MapHasMoves DEF OrderStatuses
    <3> HIDE DEF o, to
    <3> QED BY <1>0, <2>1, <2>2, <2>4, <3>1, BookMoves
  <2> QED BY <1>0, <1>6, <2>1, <2>3, <2>4 DEF Lift
<1>7. ASSUME NEW o \in Order, Fulfil(o) PROVE [Book!Next]_(Book!bookVars)
  <2>1. PICK to \in {"FULFILLING", "FULFILLED"} :
          CanTransition(status[o], to) /\ status' = [status EXCEPT ![o] = to]
    BY <1>7 DEF Fulfil
  <2>2. to \in OrderStatuses /\ status[o] # "PENDING_PAYMENT"
    BY <1>0, <2>1, MapOfMoves DEF OrderStatuses, Sold
  <2>3. OnBook' = OnBook
    BY <1>7 DEF Fulfil, OnBook, rowVars
  <2> QED BY <1>0, <2>1, <2>2, <2>3, BookMoves
<1>8. ASSUME NEW w \in Worker, Commit(w) PROVE [Book!Next]_(Book!bookVars)
  <2> DEFINE p == job[w].pay
             o == job[w].ord
  <2>1. p \in Payment /\ o = OrderOf[p] /\ o \in Order
    BY <1>8, CallAt DEF Commit, PaidSteps, At
  <2>2. PICK s \in {"SUCCEEDED", "REFUNDED"} : row' = [row EXCEPT ![p] = s]
    BY <1>8 DEF Commit
  <2>3. OnBook' = OnBook \cup {p}
    BY <1>0, <2>1, <2>2 DEF OnBook
  <2>4. PICK to \in OrderStatuses :
          /\ status' = [status EXCEPT ![o] = to]
          /\ \/ to = status[o]
             \/ status[o] = "PENDING_PAYMENT" /\ to \in {"PAID", "PAYMENT_REVIEW"}
    <3>1. CASE Moves(w)
      BY <1>8, <2>1, <3>1 DEF Commit, Moves, OrderStatuses
    <3>2. CASE ~Moves(w)
      <4>1. status' = [status EXCEPT ![o] = status[o]] /\ status[o] \in OrderStatuses
        BY <1>0, <1>8, <2>1, <3>2 DEF Commit
      <4> QED BY <4>1
    <3> QED BY <3>1, <3>2
  <2>5. to = status[o] \/ CanTransition(status[o], to)
    BY <2>4, MapHasMoves
  <2>6. status[o] = "PENDING_PAYMENT" => to \in Sold \cup {"PENDING_PAYMENT"}
    BY <2>4 DEF Sold
  <2> HIDE DEF p, o
  <2> QED BY <1>0, <2>1, <2>3, <2>4, <2>5, <2>6, BookRecords
<1>9. ASSUME NEW w \in Worker, Credit(w) PROVE [Book!Next]_(Book!bookVars)
  <2> DEFINE p == job[w].pay
             o == job[w].ord
             to == AfterTransition(status[o], job[w].from, Outcome(w))
  <2>1. p \in Payment /\ o = OrderOf[p] /\ o \in Order /\ job[w].op \in {"part", "full"}
        /\ job[w].from \in OrderStatuses
    BY <1>9, CallAt DEF Credit, EventSteps, At, Placed, Jobs
  <2>2. status' = [status EXCEPT ![o] = to] /\ row' = [row EXCEPT ![p] = Returned(w)]
    BY <1>9 DEF Credit
  <2>3. status[o] \in OrderStatuses /\ Outcome(w) \in {"REFUNDED", "PARTIALLY_REFUNDED"}
    BY <1>0, <2>1 DEF Outcome
  <2>4. to \in OrderStatuses
    BY <2>3, TransitionIsTyped DEF OrderStatuses
  <2>5. \/ to = status[o]
        \/ CanTransition(status[o], to) /\ status[o] \in Sold
    BY <2>1, <2>3, MapHasMoves, MapOfMoves
  <2>6. "PENDING_PAYMENT" \notin Sold
    BY DEF Sold
  <2>7. CASE job[w].op = "full"
    <3>1. OnBook' = OnBook \cup {p}
      BY <1>0, <2>1, <2>2, <2>7 DEF OnBook, Returned
    <3> HIDE DEF p, o, to
    <3> QED BY <1>0, <2>1, <2>2, <2>4, <2>5, <2>6, <3>1, BookRecords
  <2>8. CASE job[w].op # "full"
    <3>1. OnBook' = OnBook
      BY <1>0, <2>1, <2>2, <2>8 DEF OnBook, Returned
    <3> HIDE DEF p, o, to
    <3> QED BY <1>0, <2>1, <2>2, <2>4, <2>5, <2>6, <3>1, BookMoves
  <2> QED BY <2>7, <2>8
<1>10. ASSUME NEW w \in Worker, RecordReturn(w) PROVE [Book!Next]_(Book!bookVars)
  <2> DEFINE p == job[w].pay
             o == job[w].ord
  <2>1. p \in Payment /\ o = OrderOf[p] /\ o \in Order /\ job[w].from \in Sold
    BY <1>10, CallAt DEF RecordReturn, At, Books, Told
  <2>2. CASE status[o] = job[w].from
    <3>1. status' = [status EXCEPT ![o] = "REFUNDED"] /\ OnBook' = OnBook \cup {p}
      BY <1>0, <1>10, <2>1, <2>2 DEF RecordReturn, OnBook
    <3>2. CanTransition(status[o], "REFUNDED") /\ status[o] # "PENDING_PAYMENT"
          /\ "REFUNDED" \in OrderStatuses
      BY <2>1, <2>2, MapHasMoves DEF OrderStatuses
    <3> HIDE DEF p, o
    <3> QED BY <1>0, <2>1, <3>1, <3>2, BookRecords
  <2>3. CASE status[o] # job[w].from
    BY <1>1, <1>10, <2>3 DEF RecordReturn, OnBook
  <2> QED BY <2>2, <2>3
<1>11. CASE UNCHANGED <<orderVars, rowVars>>
  BY <1>1, <1>11 DEF orderVars, rowVars, OnBook
<1> QED BY <1>2, <1>4, <1>5, <1>6, <1>7, <1>8, <1>9, <1>10, <1>11, WhoWrites

\* Checkout implements the order book, for any number of orders, payments, calls
\* and events: no order is released but by a payment recorded in that step, what
\* is on record stays there, and no refund, release, sweep or stale draft moves an
\* order off the map.
THEOREM CheckoutKeepsBook == Spec => OrderBookKept
<1>1. Init => Book!Init
  <2> SUFFICES ASSUME Init PROVE Book!Init
    OBVIOUS
  <2>1. {p \in Payment : row[p] \in {"SUCCEEDED", "REFUNDED"}} = {}
    BY DEF Init
  <2> QED BY <2>1 DEF Init, Book!Init
<1>2. Spec => []Typed
  BY TypedAtFirst, TypingStep, PTL DEF Spec
<1> QED BY <1>1, <1>2, BooksAreTrue, StepKeepsBook, PTL DEF Spec, OrderBookKept, Book!Spec

-----------------------------------------------------------------------------
(***************************************************************************)
(* Who moves an order where.                                               *)
(***************************************************************************)
\* The moves of the calls, as far as their own conditions say.
LEMMA MapIsShared ==
  /\ \A s \in OrderStatuses : AfterTransition(s, "PENDING_PAYMENT", "CANCELLED") # s
       => <<s, AfterTransition(s, "PENDING_PAYMENT", "CANCELLED")>> \in CheckoutMoves
  /\ \A s, f : \A t \in RefundOutcomes : AfterTransition(s, f, t) # s
       => <<s, AfterTransition(s, f, t)>> \in CheckoutMoves
  /\ \A s \in Sold : <<s, "REFUNDED">> \in CheckoutMoves
  /\ \A t \in {"PAID", "PAYMENT_REVIEW"} : <<"PENDING_PAYMENT", t>> \in CheckoutMoves
  /\ <<"PAYMENT_REVIEW", "PAID">> \in CheckoutMoves
  /\ \A s : \A t \in {"FULFILLING", "FULFILLED"} : CanTransition(s, t) => <<s, t>> \in DeliveryMoves
<1>1. \A s : \A t \in RefundOutcomes : CanTransition(s, t) => <<s, t>> \in CheckoutMoves
  <2> SUFFICES ASSUME NEW s, NEW t \in RefundOutcomes, CanTransition(s, t)
               PROVE  <<s, t>> \in {m \in OrderTransitions : m[2] \in RefundOutcomes}
    BY DEF CheckoutMoves
  <2> QED BY DEF CanTransition
<1>2. <<"PENDING_PAYMENT", "CANCELLED">> \in CheckoutMoves /\ <<"PAYMENT_REVIEW", "PAID">> \in CheckoutMoves
      /\ \A t \in {"PAID", "PAYMENT_REVIEW"} : <<"PENDING_PAYMENT", t>> \in CheckoutMoves
  BY DEF CheckoutMoves
<1>3. \A s : \A t \in {"FULFILLING", "FULFILLED"} : CanTransition(s, t) => <<s, t>> \in DeliveryMoves
  BY DEF CanTransition, OrderTransitions, RefundOutcomes, DeliveryMoves
<1>4. "REFUNDED" \in RefundOutcomes
  BY DEF RefundOutcomes
<1> QED BY <1>1, <1>2, <1>3, <1>4, MapHasMoves DEF AfterTransition

\* A call that goes on, or is over, is not where it was.
LEMMA MoversGoOn ==
  ASSUME Typed, NEW w \in Worker,
         \/ Commit(w) /\ Moves(w)
         \/ CloseDraft(w) \/ RetireDraft(w) \/ Credit(w) \/ RecordReturn(w) \/ Lift(w)
  PROVE  job' # job
<1>1. job \in [Worker -> Jobs]
  BY DEF Typed, PayTypeOK
<1>2. Done(w) \/ Return(w) => job'[w].at \in {"finish", "idle"}
  BY <1>1 DEF Done, Return, Becomes, Idle, Call
<1>3. Done(w) \/ Return(w)
  BY DEF Commit, CloseDraft, RetireDraft, Credit, RecordReturn, Lift
<1>4. job[w].at \notin {"finish", "idle"}
  BY DEF Commit, CloseDraft, RetireDraft, Credit, RecordReturn, Lift, At
<1> QED BY <1>2, <1>3, <1>4

LEMMA StepMovesItsOwn ==
  ASSUME Typed, Books, Next, NEW o \in Order, status'[o] # status[o]
  PROVE  <<status[o], status'[o]>> \in IF job' = job THEN DeliveryMoves ELSE CheckoutMoves
<1>0. status \in [Order -> OrderStatuses] /\ status[o] \in OrderStatuses
  BY DEF Typed, PayTypeOK
<1>1. ASSUME NEW w \in Worker, Commit(w)
      PROVE  job' # job /\ <<status[o], status'[o]>> \in CheckoutMoves
  <2>1. Moves(w)
    BY <1>1 DEF Commit
  <2>2. status[o] = "PENDING_PAYMENT" /\ status'[o] \in {"PAID", "PAYMENT_REVIEW"}
    BY <1>0, <1>1, <2>1 DEF Commit, Moves
  <2> QED BY <1>1, <2>1, <2>2, MoversGoOn, MapIsShared
<1>2. ASSUME NEW w \in Worker, CloseDraft(w) \/ RetireDraft(w)
      PROVE  job' # job /\ <<status[o], status'[o]>> \in CheckoutMoves
  <2>1. status'[o] = AfterTransition(status[o], "PENDING_PAYMENT", "CANCELLED")
    BY <1>0, <1>2 DEF CloseDraft, RetireDraft
  <2> QED BY <1>0, <1>2, <2>1, MoversGoOn, MapIsShared
<1>3. ASSUME NEW w \in Worker, Credit(w)
      PROVE  job' # job /\ <<status[o], status'[o]>> \in CheckoutMoves
  <2>1. status'[o] = AfterTransition(status[o], job[w].from, Outcome(w))
    BY <1>0, <1>3 DEF Credit
  <2>2. Outcome(w) \in RefundOutcomes
    BY DEF Outcome, RefundOutcomes
  <2> QED BY <1>3, <2>1, <2>2, MoversGoOn, MapIsShared
<1>4. ASSUME NEW w \in Worker, RecordReturn(w)
      PROVE  job' # job /\ <<status[o], status'[o]>> \in CheckoutMoves
  <2>1. status[o] = job[w].from /\ status'[o] = "REFUNDED" /\ job[w].from \in Sold
    BY <1>0, <1>4 DEF RecordReturn, Books, Told
  <2> QED BY <1>4, <2>1, MoversGoOn, MapIsShared
<1>5. ASSUME NEW w \in Worker, Lift(w)
      PROVE  job' # job /\ <<status[o], status'[o]>> \in CheckoutMoves
  <2>1. status[o] = "PAYMENT_REVIEW" /\ status'[o] = "PAID"
    BY <1>0, <1>5 DEF Lift
  <2> QED BY <1>5, <2>1, MoversGoOn, MapIsShared
<1>6. ASSUME NEW c \in Order, Fulfil(c)
      PROVE  job' = job /\ <<status[o], status'[o]>> \in DeliveryMoves
  <2>1. PICK to \in {"FULFILLING", "FULFILLED"} :
          CanTransition(status[c], to) /\ status' = [status EXCEPT ![c] = to]
    BY <1>6 DEF Fulfil
  <2>2. o = c /\ status'[o] = to
    BY <1>0, <2>1
  <2> QED BY <1>6, <2>1, <2>2, MapIsShared DEF Fulfil
<1>7. ASSUME NEW w \in Worker,
             \/ CompareHosted(w) \/ FlagClosed(w) \/ Fail(w) \/ Block(w) \/ RecordAttempt(w)
             \/ RecordCancel(w) \/ AfterCancel(w)
      PROVE  FALSE
  BY <1>7 DEF CompareHosted, FlagClosed, Fail, Block, RecordAttempt, RecordCancel, AfterCancel,
     orderVars
<1>8. ~UNCHANGED <<orderVars, rowVars>>
  BY DEF orderVars
<1> QED BY <1>1, <1>2, <1>3, <1>4, <1>5, <1>6, <1>7, <1>8, WhoWrites

\* Checkout moves an order only where delivery, in its own model, expects it to,
\* for any number of orders, attempts, calls and events; together with
\* Fulfillment's DeliveryMovesOnlyItsOwn each half keeps what the other assumes.
THEOREM CheckoutMovesOnlyItsOwn == Spec => CheckoutMovesItsOwn
<1>1. Typed /\ Books /\ [Next]_vars
        => [\A o \in Order : status'[o] # status[o] =>
              <<status[o], status'[o]>> \in IF job' = job THEN DeliveryMoves ELSE CheckoutMoves]_vars
  BY StepMovesItsOwn
<1>2. Spec => []Typed
  BY TypedAtFirst, TypingStep, PTL DEF Spec
<1> QED BY <1>1, <1>2, BooksAreTrue, PTL DEF Spec, CheckoutMovesItsOwn
=============================================================================
