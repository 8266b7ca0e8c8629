----------------------------- MODULE CartLadder -----------------------------
(***************************************************************************)
(* The abandoned-cart ladder (retention/cart-recovery.service.ts): a pass  *)
(* reads the carts that are due a reminder, then works them one at a time, *)
(* while their owner comes back through a link, pays, or starts anew.      *)
(*                                                                         *)
(* All carts belong to one address.  Time is counted two ways: in payments *)
(* of that address, for "paid since the cart went quiet", and, per cart,   *)
(* in the rungs whose delay has passed.                                    *)
(***************************************************************************)
EXTENDS Integers, Sequences, FiniteSets

CONSTANTS Cart, Worker, NoCart,
          Rungs,       \* how many steps the settings configure
          WithCode,    \* the steps that carry a discount code
          MaxClock,    \* bound on the address's paid orders
          MaxFaults    \* bound on calls that die, outlive their lock, lose an answer

ASSUME LadderAssumption ==
  /\ IsFiniteSet(Cart) /\ IsFiniteSet(Worker) /\ NoCart \notin Cart /\ MaxClock \in Nat
  /\ Rungs \in 1..4 /\ WithCode \subseteq 1..Rungs /\ MaxFaults \in Nat

VARIABLES stage,     \* stage[k]: Cart.stage
          idle,      \* idle[k]: the rungs that have come due since lastActivityAt
          quiet,     \* quiet[k]: lastActivityAt, in payments made before it
          clock,     \* orders of the address paid so far
          paid,      \* carts whose own order was paid
          counted,   \* the address's orders in PAID_STATUSES
          held,      \* those paid for and in PAYMENT_REVIEW
          heldOut,   \* carts in the measured holdout, which a hash decides
          events,    \* CartRecoveryEvent rows that are not held out: <<cart, rung>>
          codes,     \* codes[k][n]: active codes minted for cart k and rung n
          sent,      \* sent[k][n]: messages of rung n that went out for cart k
          late,      \* late[k]: messages while a purchase counted against k
          job,       \* job[w]: where pass w stands
          faults

orderVars == <<clock, paid, counted, held>>
cartVars == <<stage, idle, quiet, orderVars, heldOut>>
mailVars == <<events, codes, sent, late>>
vars == <<cartVars, mailVars, job, faults>>

Channels == {"email", "whatsapp"}

\* LADDER_STAGES, from the stage before the first rung.
Ladder == <<"ACTIVE", "NUDGE_1H", "REMINDER_24H", "URGENCY_72H", "OFFER_SENT">>
Stage(n) == Ladder[n + 1]
Off == {"RECOVERED", "CLOSED"}

\* An order of the address: when it was paid (paidAt), and the cart it was made from.
PaidOrder == [at : Nat, cart : Cart \cup {NoCart}]

\* A cart as the pass read it: its rung, the rung it is due, its last activity
\* and the channels it could be reached on.
Row == [cart : Cart, from : 0..Rungs, rung : 1..Rungs, quiet : Nat, reach : SUBSET Channels]
NoRow == [cart |-> NoCart, from |-> 0, rung |-> 1, quiet |-> 0, reach |-> {}]

Jobs == [at : {"idle", "pass", "check", "close", "hold", "mint", "whatsapp", "email",
               "withdraw", "advance"},
         row : Row \cup {NoRow}, rows : SUBSET Row, locked : BOOLEAN]
Idle == [at |-> "idle", row |-> NoRow, rows |-> {}, locked |-> FALSE]

LadderTypeOK ==
  /\ stage \in [Cart -> {Ladder[n] : n \in 1..5} \cup Off]
  /\ idle \in [Cart -> 0..Rungs] /\ quiet \in [Cart -> Nat] /\ clock \in Nat
  /\ paid \subseteq Cart /\ heldOut \subseteq Cart
  /\ counted \subseteq PaidOrder /\ held \subseteq PaidOrder
  /\ events \subseteq Cart \X (1..Rungs) /\ codes \in [Cart -> [1..Rungs -> Int]]
  /\ sent \in [Cart -> [1..Rungs -> Nat]] /\ late \in [Cart -> Nat]
  /\ job \in [Worker -> Jobs] /\ faults \in 0..MaxFaults

Init == /\ stage = [k \in Cart |-> "ACTIVE"] /\ idle = [k \in Cart |-> 0]
        /\ quiet = [k \in Cart |-> 0] /\ clock = 0 /\ paid = {}
        /\ counted = {} /\ held = {}
        /\ heldOut \in SUBSET Cart
        /\ events = {} /\ codes = [k \in Cart |-> [n \in 1..Rungs |-> 0]]
        /\ sent = [k \in Cart |-> [n \in 1..Rungs |-> 0]] /\ late = [k \in Cart |-> 0]
        /\ job = [w \in Worker |-> Idle] /\ faults = 0

-----------------------------------------------------------------------------
At(w, step) == job[w].at = step
Goto(w, step) == job' = [job EXCEPT ![w].at = step]
Working(w) == job[w].row.cart
Rung(w) == job[w].row.rung

-----------------------------------------------------------------------------
(***************************************************************************)
(* The shopper.                                                            *)
(***************************************************************************)
\* Hours pass.
Wait(k) ==
  /\ stage[k] \notin Off /\ idle[k] < Rungs
  /\ idle' = [idle EXCEPT ![k] = @ + 1]
  /\ UNCHANGED <<stage, quiet, orderVars, heldOut, mailVars, job, faults>>

\* Any touch of the cart, by the restore link too.
Return(k) ==
  /\ stage[k] \notin Off
  /\ idle' = [idle EXCEPT ![k] = 0]
  /\ quiet' = [quiet EXCEPT ![k] = clock]
  /\ late' = [late EXCEPT ![k] = 0]
  /\ UNCHANGED <<stage, orderVars, heldOut, events, codes, sent, job, faults>>

\* A payment lands, and its order is PAID or held for review.
Land(k) ==
  LET order == [at |-> clock + 1, cart |-> k] IN
  /\ clock < MaxClock /\ clock' = clock + 1
  /\ \/ counted' = counted \cup {order} /\ UNCHANGED held
     \/ held' = held \cup {order} /\ UNCHANGED counted

\* markPaid: the ladder is credited with the cart only if it wrote to it.
Pay(k) ==
  /\ k \notin paid /\ Land(k)
  /\ paid' = paid \cup {k}
  /\ stage' = [stage EXCEPT ![k] = IF \E n \in 1..Rungs : <<k, n>> \in events THEN "RECOVERED"
                                   ELSE "CLOSED"]
  /\ UNCHANGED <<idle, quiet, heldOut, mailVars, job, faults>>

\* The address pays for something else.
BuyElsewhere ==
  /\ Land(NoCart)
  /\ UNCHANGED <<stage, idle, quiet, paid, heldOut, mailVars, job, faults>>

\* Staff release a held order, or give part of it back.
Release(order) ==
  /\ order \in held
  /\ held' = held \ {order} /\ counted' = counted \cup {order}
  /\ UNCHANGED <<stage, idle, quiet, clock, paid, heldOut, mailVars, job, faults>>

\* An order counts for the ladder once it is paid for and not held, if it is the
\* cart's own or was paid since the cart went quiet.
Counts(k, since) == \E o \in counted : o.cart = k \/ o.at > since

\* An order is given back whole; a new count of late messages starts.
Refund(order) ==
  /\ order \in counted \cup held
  /\ held' = held \ {order} /\ counted' = counted \ {order}
  /\ UNCHANGED <<stage, idle, quiet, clock, paid, heldOut, events, codes, sent, job, faults>>
  /\ late' = [k \in Cart |-> IF Counts(k, quiet[k])' THEN late[k] ELSE 0]

-----------------------------------------------------------------------------
(***************************************************************************)
(* The pass.                                                               *)
(***************************************************************************)
\* ladderPosition.
Position(k) == CHOOSE n \in 0..Rungs : stage[k] = Stage(n)

\* Mutant: the rung the cart has reached is due again.
Due_Again(k) == stage[k] \notin Off /\ idle[k] >= Position(k)

\* nextCartStep: the latest rung that has come due is sent, if the cart is not
\* past it.
Due(k) == stage[k] \notin Off /\ idle[k] > Position(k)

\* Mutant: the pass runs without its lock.
Unlocked_Always == TRUE

\* withAdvisoryLock.
Unlocked == \A w \in Worker : ~job[w].locked

\* The carts with a rung due, as they are now, and the channels their owner has
\* agreed to.  One whose rung is too old to send is passed over, so any may be.
StartPass(w) ==
  /\ At(w, "idle") /\ Unlocked
  /\ \E reach \in SUBSET Channels \ {{}}, carts \in SUBSET {k \in Cart : Due(k)} :
       LET rows == {[cart |-> k, from |-> Position(k), rung |-> idle[k],
                     quiet |-> quiet[k], reach |-> reach] : k \in carts} IN
       job' = [job EXCEPT ![w] = [at |-> "pass", row |-> NoRow, rows |-> rows, locked |-> TRUE]]
  /\ UNCHANGED <<cartVars, mailVars, faults>>

Take(w) ==
  /\ At(w, "pass")
  /\ \E row \in job[w].rows :
       job' = [job EXCEPT ![w] =
                 [job[w] EXCEPT !.at = "check", !.row = row, !.rows = @ \ {row}]]
  /\ UNCHANGED <<cartVars, mailVars, faults>>

\* Mutant: only the cart's own order is looked for.
Bought_OwnOrder(row) == \E o \in counted : o.cart = row.cart

\* Paid for, or the address paid for anything since the cart went quiet.
Bought(row) == Counts(row.cart, row.quiet)

\* The consent is the row's, not asked for again.
Check(w) ==
  LET row == job[w].row IN
  /\ At(w, "check")
  /\ Goto(w, IF Bought(row) THEN "close"
             ELSE IF row.cart \in heldOut THEN "hold"
             ELSE IF row.rung \in WithCode THEN "mint"
             ELSE IF "whatsapp" \in row.reach THEN "whatsapp" ELSE "email")
  /\ UNCHANGED <<cartVars, mailVars, faults>>

Close(w) ==
  /\ At(w, "close")
  /\ stage' = [stage EXCEPT ![Working(w)] = "CLOSED"]
  /\ Goto(w, "pass")
  /\ UNCHANGED <<idle, quiet, orderVars, heldOut, mailVars, faults>>

Mint(w) ==
  /\ At(w, "mint")
  /\ codes' = [codes EXCEPT ![Working(w)][Rung(w)] = @ + 1]
  /\ Goto(w, IF "whatsapp" \in job[w].row.reach THEN "whatsapp" ELSE "email")
  /\ UNCHANGED <<cartVars, events, sent, late, faults>>

\* A message leaves.
Leaves(w) ==
  LET k == Working(w) IN
  /\ sent' = [sent EXCEPT ![k][Rung(w)] = @ + 1]
  /\ late' = IF Counts(k, quiet[k]) THEN [late EXCEPT ![k] = @ + 1] ELSE late

Accepted(w) ==
  /\ At(w, "whatsapp") \/ At(w, "email")
  /\ Leaves(w)
  /\ Goto(w, "advance")
  /\ UNCHANGED <<cartVars, events, codes, faults>>

\* Where a rung goes that a channel did not take: from WhatsApp to email, and
\* else its code is withdrawn.
AfterRefusal(w) ==
  IF At(w, "whatsapp") /\ "email" \in job[w].row.reach THEN "email"
  ELSE IF Rung(w) \in WithCode THEN "withdraw" ELSE "pass"

Refused(w) ==
  /\ At(w, "whatsapp") \/ At(w, "email")
  /\ Goto(w, AfterRefusal(w))
  /\ UNCHANGED <<cartVars, mailVars, faults>>

\* The message went, and the answer that says so is lost.
AnswerLost(w) ==
  /\ At(w, "whatsapp") \/ At(w, "email")
  /\ faults < MaxFaults /\ faults' = faults + 1
  /\ Leaves(w)
  /\ Goto(w, AfterRefusal(w))
  /\ UNCHANGED <<cartVars, events, codes>>

Withdraw(w) ==
  /\ At(w, "withdraw")
  /\ codes' = [codes EXCEPT ![Working(w)][Rung(w)] = @ - 1]
  /\ Goto(w, "pass")
  /\ UNCHANGED <<cartVars, events, sent, late, faults>>

\* Mutant: the stage is written without a condition.
Moves_Blind(w) == TRUE

\* The compare-and-set of advance: the cart is still where the pass read it.
Moves(w) == stage[Working(w)] = Stage(job[w].row.from)

\* advance: one rung on, and the event that says so, in one transaction.
Advance(w) ==
  /\ At(w, "advance") \/ At(w, "hold")
  /\ stage' = IF Moves(w) THEN [stage EXCEPT ![Working(w)] = Stage(Rung(w))] ELSE stage
  /\ events' = IF Moves(w) /\ At(w, "advance") THEN events \cup {<<Working(w), Rung(w)>>} ELSE events
  /\ Goto(w, "pass")
  /\ UNCHANGED <<idle, quiet, orderVars, heldOut, codes, sent, late, faults>>

EndPass(w) ==
  /\ At(w, "pass") /\ job[w].rows = {}
  /\ job' = [job EXCEPT ![w] = Idle]
  /\ UNCHANGED <<cartVars, mailVars, faults>>

-----------------------------------------------------------------------------
(***************************************************************************)
(* Faults: a statement throws and the loop goes on to the next cart, the   *)
(* process dies, or the pass outlives its lock and goes on.                *)
(***************************************************************************)
Throw(w) ==
  /\ job[w].at \notin {"idle", "pass"}
  /\ faults < MaxFaults /\ faults' = faults + 1
  /\ Goto(w, "pass")
  /\ UNCHANGED <<cartVars, mailVars>>

Crash(w) ==
  /\ ~At(w, "idle")
  /\ faults < MaxFaults /\ faults' = faults + 1
  /\ job' = [job EXCEPT ![w] = Idle]
  /\ UNCHANGED <<cartVars, mailVars>>

Overrun(w) ==
  /\ job[w].locked
  /\ faults < MaxFaults /\ faults' = faults + 1
  /\ job' = [job EXCEPT ![w].locked = FALSE]
  /\ UNCHANGED <<cartVars, mailVars>>

-----------------------------------------------------------------------------
Shopper == \/ \E k \in Cart : Wait(k) \/ Return(k) \/ Pay(k)
           \/ BuyElsewhere
           \/ \E order \in counted \cup held : Release(order) \/ Refund(order)

Proceed(w) == \/ Take(w) \/ Check(w) \/ Close(w) \/ Mint(w)
              \/ Accepted(w) \/ Refused(w) \/ Withdraw(w) \/ Advance(w) \/ EndPass(w)

Fault(w) == AnswerLost(w) \/ Throw(w) \/ Crash(w) \/ Overrun(w)

Next == Shopper \/ \E w \in Worker : StartPass(w) \/ Proceed(w) \/ Fault(w)

Spec == Init /\ [][Next]_vars
-----------------------------------------------------------------------------
(***************************************************************************)
(* Properties.                                                             *)
(***************************************************************************)
\* A rung is written once to a cart, on one channel, but for one more message at
\* most for every call that died, outlived its lock or lost an answer.  A rung on
\* record was written, and the code it promised is good.
RungIsSentOnce ==
  \A k \in Cart : \A n \in 1..Rungs :
    /\ sent[k][n] <= 1 + faults
    /\ <<k, n>> \in events => sent[k][n] > 0 /\ (n \in WithCode => codes[k][n] > 0)

\* While an order of its owner counts as paid, for this cart or another since, a
\* quiet cart gets at most the one message whose check had already passed, and one
\* more for each fault.  An order held for review does not count.  A cart whose own
\* payment landed is off the ladder for good, held or not, and counted as recovered
\* only if it was written to.
PaidIsLeftAlone ==
  \A k \in Cart :
    /\ late[k] <= 1 + faults
    /\ k \in paid => stage[k] \in Off
    /\ stage[k] = "RECOVERED" => \E n \in 1..Rungs : sent[k][n] > 0

(***************************************************************************)
(* The book this ladder implements.                                        *)
(***************************************************************************)
\* Where a cart stands, for the book: on its rung, or off the ladder.
Place(k) == IF stage[k] \in Off THEN Rungs + 1 ELSE Position(k)

Book == INSTANCE LadderBook WITH
  place <- [k \in Cart |-> Place(k)],
  told <- {r \in Cart \X (1..Rungs) : sent[r[1]][r[2]] > 0},
  recorded <- events,
  credited <- {k \in Cart : stage[k] = "RECOVERED"}

\* Passes that overlap, outlive their lock or die move a cart up the ladder only,
\* and put a rung on record with the move it made; what left the ladder stays off.
LadderIsClimbed == Book!Spec
=============================================================================
