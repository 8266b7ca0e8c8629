----------------------------- MODULE StockHolds -----------------------------
(***************************************************************************)
(* The shelf of one stocked variant: the holds carts take on it            *)
(* (apps/api/src/cart/reservations.ts), the sale that a payment makes of   *)
(* them (checkout/orders.ts, inside markPaid), the order draft, and the    *)
(* recount of the shelf from the vault.                                    *)
(*                                                                         *)
(* Transactions run at READ COMMITTED.  A worker is one request; each of   *)
(* its actions is a stretch between two moments at which what it has read  *)
(* can go stale.  What a transaction writes becomes visible in its last    *)
(* action; the rows it has locked until then are in its job.               *)
(***************************************************************************)
EXTENDS Integers, FiniteSets

CONSTANTS Cart, Order, Row, Worker,
          CartOf,            \* CartOf[o]: the cart order o is drafted from
          NoCart, NoOrder, NoRow,
          Initial,           \* onHand at the start
          MaxQty,            \* bound on the quantity of a line
          MaxTruth,          \* bound on the keys the vault reports to a recount, and
                             \* on the net units counted when another one starts
          Clears, Recounts   \* whether carts are emptied, the shelf recounted

ASSUME StockAssumption ==
  /\ IsFiniteSet(Row) /\ IsFiniteSet(Order) /\ CartOf \in [Order -> Cart]
  /\ NoCart \notin Cart /\ NoOrder \notin Order /\ NoRow \notin Row
  /\ Initial \in Nat /\ MaxQty \in Nat \ {0} /\ MaxTruth \in Nat
  /\ Clears \in BOOLEAN /\ Recounts \in BOOLEAN

VARIABLES onHand,     \* InventoryLevel.onHand
          reserved,   \* InventoryLevel.reserved, a cache of the ACTIVE holds
          holdState,  \* holdState[r]: StockReservation.state, "NONE" before the row
          holdCart,   \* holdCart[r]: its cart
          holdQty,    \* holdQty[r]: its quantity
          lapsed,     \* the holds whose expiresAt has passed
          basket,     \* basket[c]: CartItem.qty, 0 for no line
          order,      \* order[o]: status and quantity of the order's line
          sold,       \* sold[o]: units in the order's SALE movements
          counted,    \* net units in the recounts' movements
          job,        \* job[w]: where request w stands, and the rows it holds
          read        \* read[w]: the numbers it has read or worked out

holds == <<holdState, holdCart, holdQty, lapsed>>
shelf == <<onHand, reserved, sold, counted>>
vars == <<shelf, holds, basket, order, job, read>>

HoldStates == {"NONE", "ACTIVE", "RELEASED", "CONSUMED", "EXPIRED"}
OrderStates == {"NONE", "PENDING", "PAID"}    \* "PAID" also stands for review
Steps == {"idle", "count", "sum", "write", "find", "release", "empty", "lookup", "draft",
          "sell", "level", "log", "soldout", "refused"}

Jobs == [at   : Steps,
         op   : {"none", "add", "set", "clear", "draft", "pay", "recount"},
         cart : Cart \cup {NoCart},
         ord  : Order \cup {NoOrder},
         rows : SUBSET Row,              \* hold: those it has swept; else those it writes
         mine : Row \cup {NoRow},        \* hold: this cart's hold, as it was found
         sync : BOOLEAN]                 \* clear: something was held
Idle == [at |-> "idle", op |-> "none", cart |-> NoCart, ord |-> NoOrder,
         rows |-> {}, mine |-> NoRow, sync |-> FALSE]

\* num: the quantity asked, granted or drafted, the sum, the next level;
\* prev: the line's quantity or the level before; took: quantities of holds.
NoneRead == [num |-> 0, prev |-> 0, took |-> [r \in Row |-> 0]]

StockTypeOK == /\ onHand \in Nat /\ reserved \in 0..onHand
               /\ holdState \in [Row -> HoldStates]
               /\ holdCart \in [Row -> Cart \cup {NoCart}]
               /\ holdQty \in [Row -> 0..MaxQty]
               /\ lapsed \subseteq Row
               /\ basket \in [Cart -> 0..MaxQty]
               /\ order \in [Order -> [st : OrderStates, qty : 0..MaxQty]]
               /\ sold \in [Order -> Nat] /\ counted \in Int
               /\ job \in [Worker -> Jobs]
               /\ read \in [Worker -> [num : Nat, prev : Nat, took : [Row -> 0..MaxQty]]]

Init == /\ onHand = Initial /\ reserved = 0
        /\ holdState = [r \in Row |-> "NONE"]
        /\ holdCart = [r \in Row |-> NoCart]
        /\ holdQty = [r \in Row |-> 0]
        /\ lapsed = {}
        /\ basket = [c \in Cart |-> 0]
        /\ order = [o \in Order |-> [st |-> "NONE", qty |-> 0]]
        /\ sold = [o \in Order |-> 0]
        /\ counted = 0
        /\ job = [w \in Worker |-> Idle]
        /\ read = [w \in Worker |-> NoneRead]

-----------------------------------------------------------------------------
At(w, step) == job[w].at = step
Becomes(w, call) == job' = [job EXCEPT ![w] = call]
Notes(w, numbers) == read' = [read EXCEPT ![w] = numbers]
Ends(w, call) == Becomes(w, call) /\ Notes(w, NoneRead)
Return(w) == Ends(w, Idle)
Refuse(w) == Ends(w, [Idle EXCEPT !.at = "refused", !.op = job[w].op])

\* The CHECK constraints of InventoryLevel.
Legal(stock, promised) == 0 <= promised /\ promised <= stock

Active == {r \in Row : holdState[r] = "ACTIVE"}
HeldBy(c) == {r \in Active : holdCart[r] = c}

\* What the quantities f of the members of S add up to, counted unit by unit.
Units(f, S) == {u \in S \X (1..MaxQty) : u[2] <= f[u[1]]}
Sum(f, S) == Cardinality(Units(f, S))

\* Locks held between two actions: a hold keeps the inventory row and the holds
\* it has swept, an emptying cart the holds it has released, a payment its order.
Holds(w) == job[w].at \in {"sum", "write"}
InventoryFree(w) == \A v \in Worker \ {w} : ~Holds(v)
RowsFree(w, rows) ==
  \A v \in Worker \ {w} : Holds(v) \/ At(v, "empty") => job[v].rows \cap rows = {}
OrderFree(w, o) == \A v \in Worker \ {w} : ~(At(v, "sell") /\ job[v].ord = o)

\* A paid order closes its cart; a request for that token then starts a new one.
Closed(c) == \E o \in Order : CartOf[o] = c /\ order[o].st = "PAID"

-----------------------------------------------------------------------------
(***************************************************************************)
(* hold, in the transaction of add and of setQty.                          *)
(***************************************************************************)
\* Bound: no request starts that the rows left might not suffice for.
RowsLeft == Cardinality({r \in Row : holdState[r] = "NONE"})
              > Cardinality({v \in Worker : job[v].op \in {"add", "set"}})

\* add asks for more than the line has; setQty for anything, if there is a line.
AskHold(w, c, q) ==
  /\ At(w, "idle") /\ ~Closed(c) /\ RowsLeft
  /\ \E op \in {"add", "set"} :
       /\ IF op = "add" THEN q > basket[c] ELSE basket[c] > 0
       /\ Becomes(w, [Idle EXCEPT !.at = "count", !.op = op, !.cart = c])
  /\ Notes(w, [NoneRead EXCEPT !.num = q, !.prev = basket[c]])
  /\ UNCHANGED <<shelf, holds, basket, order>>

\* The holds in `gone` are swept, and this cart's hold is looked for: it is read,
\* not locked.
Look(w, gone) ==
  LET own == HeldBy(job[w].cart) \ gone IN
  /\ RowsFree(w, gone)
  /\ \E m \in IF own = {} THEN {NoRow} ELSE own :
       /\ Becomes(w, [job[w] EXCEPT !.at = "sum", !.mine = m, !.rows = gone])
       /\ Notes(w, [read[w] EXCEPT !.took = [r \in Row |-> IF r = m THEN holdQty[r] ELSE 0]])
  /\ UNCHANGED <<shelf, holds, basket, order>>

\* Mutant: no SELECT ... FOR UPDATE.
FindHold_NoLock(w) == At(w, "count") /\ Look(w, Active \cap lapsed)

\* The inventory row is locked, lapsed holds are swept, the cart's own is found.
FindHold(w) == At(w, "count") /\ InventoryFree(w) /\ Look(w, Active \cap lapsed)

\* The most that fits beside the live holds, `own` units of which do not compete.
Fitting(w, own) ==
  LET left == onHand - (Sum(holdQty, Active \ job[w].rows) - own) IN
  IF left <= 0 THEN 0 ELSE IF left < read[w].num THEN left ELSE read[w].num

\* The most that fits is granted; add, granted nothing, rolls back.
Decide(w, fits) ==
  /\ At(w, "sum")
  /\ \/ /\ fits = 0 /\ job[w].op = "add"
        /\ Ends(w, [job[w] EXCEPT !.at = "soldout"])
     \/ /\ fits > 0 \/ job[w].op = "set"
        /\ Becomes(w, [job[w] EXCEPT !.at = "write"])
        /\ Notes(w, [read[w] EXCEPT !.num = fits])
  /\ UNCHANGED <<shelf, holds, basket, order>>

\* Mutant: the cart's own hold competes with itself.
CountHolds_OwnCounts(w) == Decide(w, Fitting(w, 0))

\* What the cart's own hold stood for when it was found.
Own(w) == IF job[w].mine = NoRow THEN 0 ELSE read[w].took[job[w].mine]

\* The live holds are counted, less what was found of the cart's own.
CountHolds(w) == Decide(w, Fitting(w, Own(w)))

\* Where the grant is written: the hold found, else a new row if there is a grant.
Targets(w) == IF job[w].mine # NoRow THEN {job[w].mine}
              ELSE IF read[w].num = 0 THEN {NoRow}
              ELSE {r \in Row : holdState[r] = "NONE"}

\* A grant on the hold found leaves its state: one released meanwhile stays so.
Granted(w, target) ==
  IF read[w].num > 0 THEN IF target = job[w].mine THEN holdState[target] ELSE "ACTIVE"
  ELSE "RELEASED"

\* Mutant: a swept hold gets a state the column does not have.
StateAfter_WrongState(w, target) ==
  [r \in Row |-> IF r = target THEN Granted(w, target)
                 ELSE IF r \in job[w].rows THEN "LAPSED" ELSE holdState[r]]

\* The state each hold is left in: swept, granted, released.
StateAfter(w, target) ==
  [r \in Row |-> IF r = target THEN Granted(w, target)
                 ELSE IF r \in job[w].rows THEN "EXPIRED" ELSE holdState[r]]

Grant(w, target) ==
  LET granted == {target} \cap {r \in Row : read[w].num > 0} IN
  /\ holdState' = StateAfter(w, target)
  /\ holdCart' = [r \in Row |-> IF r \in granted THEN job[w].cart ELSE holdCart[r]]
  /\ holdQty' = [r \in Row |-> IF r \in granted THEN read[w].num ELSE holdQty[r]]
  /\ lapsed' = lapsed \ granted

\* The line that was read is updated by id, or created when there was none: a
\* line deleted or created meanwhile makes the statement fail (LineIsGone).
LineStands(w) == (read[w].prev = 0) <=> (basket[job[w].cart] = 0)

\* syncReserved, over the holds as this transaction leaves them.
SumAfter == Sum(holdQty', {r \in Row : holdState'[r] = "ACTIVE"})

\* Mutant: reserved is not recomputed.
WriteHold_NoSync(w) ==
  /\ At(w, "write") /\ RowsFree(w, {job[w].mine}) /\ LineStands(w)
  /\ \E target \in Targets(w) : Grant(w, target)
  /\ basket' = [basket EXCEPT ![job[w].cart] = read[w].num]
  /\ Return(w)
  /\ UNCHANGED <<shelf, order>>

\* The hold and the line are written by id, once nobody has the hold locked,
\* reserved is recomputed from the holds, and the transaction commits.
WriteHold(w) ==
  /\ At(w, "write") /\ RowsFree(w, {job[w].mine}) /\ LineStands(w)
  /\ \E target \in Targets(w) :
       /\ Grant(w, target)
       /\ Legal(onHand, SumAfter)
       /\ reserved' = SumAfter
  /\ basket' = [basket EXCEPT ![job[w].cart] = read[w].num]
  /\ Return(w)
  /\ UNCHANGED <<onHand, sold, counted, order>>

LineIsGone(w) ==
  /\ At(w, "write") /\ RowsFree(w, {job[w].mine}) /\ ~LineStands(w)
  /\ Return(w)
  /\ UNCHANGED <<shelf, holds, basket, order>>

\* The recomputed sum breaks a CHECK: everything is rolled back.
WriteHoldFails(w) ==
  /\ At(w, "write") /\ RowsFree(w, {job[w].mine})
  /\ \E target \in Targets(w) :
       ~Legal(onHand, Sum([holdQty EXCEPT ![target] = read[w].num],
                          {r \in Row : StateAfter(w, target)[r] = "ACTIVE"}))
  /\ Refuse(w)
  /\ UNCHANGED <<shelf, holds, basket, order>>

-----------------------------------------------------------------------------
(***************************************************************************)
(* releaseAll, in the transaction of clear.  It takes no inventory lock.   *)
(***************************************************************************)
Empty(w, c) ==
  /\ Clears /\ At(w, "idle") /\ ~Closed(c)
  /\ Becomes(w, [Idle EXCEPT !.at = "find", !.op = "clear", !.cart = c])
  /\ UNCHANGED <<shelf, holds, basket, order, read>>

FindHolds(w) ==
  /\ At(w, "find")
  /\ Becomes(w, [job[w] EXCEPT !.at = "release", !.sync = HeldBy(job[w].cart) # {}])
  /\ UNCHANGED <<shelf, holds, basket, order, read>>

\* The cart's holds are released (and locked), then the others' are summed.
ReleaseHolds(w) ==
  LET own == HeldBy(job[w].cart) IN
  /\ At(w, "release") /\ RowsFree(w, own)
  /\ Becomes(w, [job[w] EXCEPT !.at = "empty", !.rows = own])
  /\ Notes(w, [NoneRead EXCEPT !.num = Sum(holdQty, Active \ own)])
  /\ UNCHANGED <<shelf, holds, basket, order>>

\* The sum read before is written to reserved, and the lines are deleted.
EmptyCart(w) ==
  /\ At(w, "empty")
  /\ job[w].sync => InventoryFree(w) /\ Legal(onHand, read[w].num)
  /\ holdState' = [r \in Row |-> IF r \in job[w].rows THEN "RELEASED" ELSE holdState[r]]
  /\ reserved' = IF job[w].sync THEN read[w].num ELSE reserved
  /\ basket' = [basket EXCEPT ![job[w].cart] = 0]
  /\ Return(w)
  /\ UNCHANGED <<onHand, sold, counted, holdCart, holdQty, lapsed, order>>

EmptyCartFails(w) ==
  /\ At(w, "empty") /\ job[w].sync /\ InventoryFree(w)
  /\ ~Legal(onHand, read[w].num)
  /\ Refuse(w)
  /\ UNCHANGED <<shelf, holds, basket, order>>

-----------------------------------------------------------------------------
(***************************************************************************)
(* The draft (checkout start): the cart is read, a draft of it looked for, *)
(* and its line written.                                                   *)
(***************************************************************************)
ReadCart(w, c) ==
  /\ At(w, "idle") /\ ~Closed(c) /\ basket[c] > 0
  /\ \E o \in Order : CartOf[o] = c
  /\ Becomes(w, [Idle EXCEPT !.at = "lookup", !.op = "draft", !.cart = c])
  /\ Notes(w, [NoneRead EXCEPT !.num = basket[c]])
  /\ UNCHANGED <<shelf, holds, basket, order>>

FindDraft(w) ==
  LET open == {o \in Order : CartOf[o] = job[w].cart /\ order[o].st = "PENDING"} IN
  /\ At(w, "lookup")
  /\ \E o \in IF open = {} THEN {NoOrder} ELSE open :
       Becomes(w, [job[w] EXCEPT !.at = "draft", !.ord = o])
  /\ UNCHANGED <<shelf, holds, basket, order, read>>

\* A draft found is rewritten, whatever its status has become meanwhile.
WriteDraft(w) ==
  /\ At(w, "draft")
  /\ \/ /\ job[w].ord # NoOrder /\ OrderFree(w, job[w].ord)
        /\ order' = [order EXCEPT ![job[w].ord].qty = read[w].num]
     \/ /\ job[w].ord = NoOrder
        /\ \E o \in Order :
             /\ CartOf[o] = job[w].cart /\ order[o].st = "NONE"
             /\ order' = [order EXCEPT ![o] = [st |-> "PENDING", qty |-> read[w].num]]
  /\ Return(w)
  /\ UNCHANGED <<shelf, holds, basket>>

-----------------------------------------------------------------------------
(***************************************************************************)
(* markPaid: consumeHolds, sellUnheld and the closing of the cart.         *)
(***************************************************************************)
\* consumeHolds, first statement: the cart's live holds are read.
ReadHolds(w, o) ==
  LET own == HeldBy(CartOf[o]) IN
  /\ Becomes(w, [Idle EXCEPT !.at = "sell", !.op = "pay", !.ord = o, !.rows = own])
  /\ Notes(w, [NoneRead EXCEPT !.took = [r \in Row |-> IF r \in own THEN holdQty[r] ELSE 0]])
  /\ UNCHANGED <<shelf, holds, basket, order>>

\* Mutant: the status is not compared, so a repeated webhook sells again.
TakePayment_NoCAS(w, o) == At(w, "idle") /\ order[o].st # "NONE" /\ ReadHolds(w, o)

\* The compare-and-set keeps the order's row until commit, so a second delivery
\* waits and then finds the order paid.
TakePayment(w, o) ==
  At(w, "idle") /\ order[o].st = "PENDING" /\ OrderFree(w, o) /\ ReadHolds(w, o)

\* The units the holds that were read stand for.
Held(w) == Sum(read[w].took, job[w].rows)

\* sellUnheld: all that has no hold, or nothing if the shelf has fewer.
Unheld(w) ==
  LET rest == order[job[w].ord].qty - Held(w) IN
  IF rest > 0 /\ onHand - Held(w) >= rest THEN rest ELSE 0

\* Each statement's row must pass the CHECKs.
SaleIsLegal(w) == /\ Legal(onHand - Held(w), reserved - Held(w))
                  /\ Legal(onHand - Held(w) - Unheld(w), reserved - Held(w))

\* Mutant: the sale of an expired hold writes no movement.
Sell_NoMovement(w) ==
  LET o == job[w].ord IN
  /\ At(w, "sell") /\ InventoryFree(w) /\ RowsFree(w, job[w].rows)
  /\ SaleIsLegal(w)
  /\ onHand' = onHand - Held(w) - Unheld(w)
  /\ reserved' = reserved - Held(w)
  /\ holdState' = [r \in Row |-> IF r \in job[w].rows THEN "CONSUMED" ELSE holdState[r]]
  /\ sold' = [sold EXCEPT ![o] = @ + Held(w)]
  /\ order' = [order EXCEPT ![o].st = "PAID"]
  /\ Return(w)
  /\ UNCHANGED <<counted, holdCart, holdQty, lapsed, basket>>

\* The holds read become CONSUMED, whatever they are now; the units leave the
\* shelf, in one movement or two; the order is paid.
Sell(w) ==
  LET o == job[w].ord IN
  /\ At(w, "sell") /\ InventoryFree(w) /\ RowsFree(w, job[w].rows)
  /\ SaleIsLegal(w)
  /\ onHand' = onHand - Held(w) - Unheld(w)
  /\ reserved' = reserved - Held(w)
  /\ holdState' = [r \in Row |-> IF r \in job[w].rows THEN "CONSUMED" ELSE holdState[r]]
  /\ sold' = [sold EXCEPT ![o] = @ + Held(w) + Unheld(w)]
  /\ order' = [order EXCEPT ![o].st = "PAID"]
  /\ Return(w)
  /\ UNCHANGED <<counted, holdCart, holdQty, lapsed, basket>>

\* A CHECK that fails fails the whole payment; the provider will try again.
SellFails(w) ==
  /\ At(w, "sell") /\ InventoryFree(w) /\ RowsFree(w, job[w].rows)
  /\ ~SaleIsLegal(w)
  /\ Refuse(w)
  /\ UNCHANGED <<shelf, holds, basket, order>>

-----------------------------------------------------------------------------
(***************************************************************************)
(* recount, after keys were imported or revoked.  Not a transaction.       *)
(***************************************************************************)
\* The keys the vault has, and the level; nothing to do when they agree.
ReadLevel(w, truth) ==
  LET next == IF truth < reserved THEN reserved ELSE truth IN
  /\ Recounts /\ At(w, "idle") /\ counted \in -MaxTruth..MaxTruth
  /\ next # onHand
  /\ Becomes(w, [Idle EXCEPT !.at = "level", !.op = "recount"])
  /\ Notes(w, [NoneRead EXCEPT !.num = next, !.prev = onHand])
  /\ UNCHANGED <<shelf, holds, basket, order>>

WriteLevel(w) ==
  /\ At(w, "level") /\ InventoryFree(w)
  /\ Legal(read[w].num, reserved)
  /\ onHand' = read[w].num
  /\ Becomes(w, [job[w] EXCEPT !.at = "log"])
  /\ UNCHANGED <<reserved, sold, counted, holds, basket, order, read>>

WriteLevelFails(w) ==
  /\ At(w, "level") /\ InventoryFree(w)
  /\ ~Legal(read[w].num, reserved)
  /\ Refuse(w)
  /\ UNCHANGED <<shelf, holds, basket, order>>

LogRecount(w) ==
  /\ At(w, "log")
  /\ counted' = counted + (read[w].num - read[w].prev)
  /\ Return(w)
  /\ UNCHANGED <<onHand, reserved, sold, holds, basket, order>>

-----------------------------------------------------------------------------
\* The request has been answered: sold out, or an error after a CHECK failed.
Answered(w) ==
  /\ job[w].at \in {"soldout", "refused"}
  /\ Return(w)
  /\ UNCHANGED <<shelf, holds, basket, order>>

\* A request ends half-way (process killed, deadlock victim, time limit): its
\* transaction rolls back.
Abort(w) ==
  /\ job[w].at \notin {"idle", "soldout", "refused"}
  /\ Return(w)
  /\ UNCHANGED <<shelf, holds, basket, order>>

\* The clock passes a hold's expiresAt.
Lapse(r) ==
  /\ r \in Active \ lapsed
  /\ lapsed' = lapsed \cup {r}
  /\ UNCHANGED <<shelf, holdState, holdCart, holdQty, basket, order, job, read>>

\* A change to another line of the cart renews this hold too.
Renew(c) ==
  /\ HeldBy(c) \cap lapsed # {}
  /\ \A w \in Worker : Holds(w) \/ At(w, "empty") => job[w].rows \cap HeldBy(c) = {}
  /\ lapsed' = lapsed \ HeldBy(c)
  /\ UNCHANGED <<shelf, holdState, holdCart, holdQty, basket, order, job, read>>

Begin(w) ==
  \/ \E c \in Cart : \/ \E q \in 0..MaxQty : AskHold(w, c, q)
                     \/ Empty(w, c) \/ ReadCart(w, c)
  \/ \E o \in Order : TakePayment(w, o)
  \/ \E truth \in 0..MaxTruth : ReadLevel(w, truth)

Proceed(w) ==
  \/ FindHold(w) \/ CountHolds(w) \/ WriteHold(w) \/ WriteHoldFails(w) \/ LineIsGone(w)
  \/ FindHolds(w) \/ ReleaseHolds(w) \/ EmptyCart(w) \/ EmptyCartFails(w)
  \/ FindDraft(w) \/ WriteDraft(w)
  \/ Sell(w) \/ SellFails(w)
  \/ WriteLevel(w) \/ WriteLevelFails(w) \/ LogRecount(w)
  \/ Answered(w)

Clock == (\E r \in Row : Lapse(r)) \/ (\E c \in Cart : Renew(c))

Next == (\E w \in Worker : Begin(w) \/ Proceed(w) \/ Abort(w)) \/ Clock

Spec == Init /\ [][Next]_vars
-----------------------------------------------------------------------------
(***************************************************************************)
(* Safety.                                                                 *)
(***************************************************************************)
\* A cart has at most one live hold on the variant, although every request
\* first looks for it and then creates one: two tabs adding at once included.
OneHoldPerCart ==
  \A q, r \in Active : holdCart[q] = holdCart[r] => q = r

\* Carts racing for the shelf get an answer, never an error: while nothing is
\* sold, the database's CHECK constraints have nothing to reject.
RaceIsNoError ==
  (\A o \in Order : order[o].st # "PAID")
    => \A w \in Worker : ~(At(w, "refused") /\ job[w].op \in {"add", "set", "clear"})

\* The movements account for the shelf: no sale leaves it without one, whichever
\* of the holds and the remainder it was taken from.
LedgerBalances ==
  (\A w \in Worker : At(w, "idle")) => onHand = Initial + counted - Sum(sold, Order)

\* The cached counter is the sum of the live holds, though holds, sweeps, renewals
\* and recounts write it or beside it: only an emptied cart or a sale can make it
\* drift.
ReservedIsSum ==
  ~Clears /\ (\A o \in Order : order[o].st # "PAID") => reserved = Sum(holdQty, Active)

\* No payment is turned away by a CHECK of the stock counter.
PaymentIsTaken == \A w \in Worker : ~(At(w, "refused") /\ job[w].op = "pay")

(***************************************************************************)
(* Action properties.                                                      *)
(***************************************************************************)
\* What CartHolds speaks of: the live holds of each cart, what they stand for, and
\* those that lapsed.
Shelf == INSTANCE CartHolds WITH
  Hold <- Row, Most <- MaxQty, held <- [c \in Cart |-> HeldBy(c)],
  units <- [r \in Row |-> IF r \in Active THEN holdQty[r] ELSE 0],
  late <- Active \cap lapsed

\* A live hold is taken from its cart by nobody: however requests of other carts,
\* sweeps, payments and recounts overlap, it keeps its quantity and stands until
\* its own cart ends it or its time has passed, and the cart has no second one.
HoldsAreKept == Shelf!Spec

\* Whoever is told "sold out" is told the truth: at the moment of the count the
\* holds of the others, those swept as lapsed apart, take up the whole shelf,
\* whatever the cart itself was given or gave up while it asked.
SoldOutIsHonest ==
  [][\A w \in Worker : At(w, "sum") /\ job'[w].at = "soldout"
       => onHand <= Sum(holdQty, Active \ (job[w].rows \cup HeldBy(job[w].cart)))]_vars

\* A payment delivered any number of times, racing itself, takes its stock once:
\* nothing leaves the shelf for an order that has been sold.
StockTakenOnce ==
  [][\A o \in Order : order[o].st = "PAID" => sold'[o] = sold[o]]_vars
=============================================================================
