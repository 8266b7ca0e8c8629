------------------------------ MODULE OrderBook ------------------------------
(***************************************************************************)
(* What checkout promises of an order.  Its status moves along the map and *)
(* no other way; it is released, or brought before staff, only together    *)
(* with a payment of it that is put on record; a payment on record stays   *)
(* there; and the order is counted as sold exactly while its money is in.  *)
(* Nothing is said about calls, events, amounts or risk.                   *)
(***************************************************************************)
EXTENDS OrderStatus, Integers

CONSTANTS Order, Payment,
          OrderOf    \* OrderOf[p]: the order payment p is for

VARIABLES status,    \* status[o]: the order's status
          sales,     \* sales[o]: how often the order is counted as sold
          received   \* the payments on record, given back since or not

bookVars == <<status, sales, received>>

Counted == {"PAYMENT_REVIEW"} \cup (MoneyReleased \ {"REFUNDED"})

Init == /\ status = [o \in Order |-> "PENDING_PAYMENT"]
        /\ sales = [o \in Order |-> 0]
        /\ received = {}

Becomes(o, to) == /\ status' = [status EXCEPT ![o] = to]
                  /\ sales' = [sales EXCEPT ![o] = IF to \in Counted THEN 1 ELSE 0]

\* A payment is recorded: it releases an order that awaits it, or moves one that
\* was paid, or leaves the order where it is.
Record(p, to) ==
  LET o == OrderOf[p] IN
  /\ to = status[o] \/ CanTransition(status[o], to)
  /\ status[o] = "PENDING_PAYMENT" => to \in Counted \cup {"PENDING_PAYMENT"}
  /\ received' = received \cup {p}
  /\ Becomes(o, to)

\* Whatever else moves the order: a draft is closed, never released.
Move(o, to) ==
  /\ CanTransition(status[o], to)
  /\ status[o] = "PENDING_PAYMENT" => to \notin Counted
  /\ Becomes(o, to)
  /\ UNCHANGED received

Next == \E to \in OrderStatuses : \/ \E p \in Payment : Record(p, to)
                                  \/ \E o \in Order : Move(o, to)

Spec == Init /\ [][Next]_bookVars
=============================================================================
