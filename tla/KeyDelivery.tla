----------------------------- MODULE KeyDelivery -----------------------------
(***************************************************************************)
(* What delivery promises the buyer.  For every line of an order there is  *)
(* one order of events: a key is set aside, the licence is emailed, the    *)
(* email is on record, the key is stamped, the line is shown delivered.    *)
(* Nothing is emailed before the money of the order is released, an order  *)
(* is closed only when all its lines were emailed, and of all this only    *)
(* what is shown may be taken back.  Nothing is said about calls, locks,   *)
(* queues, crashes or how often an email goes.                             *)
(***************************************************************************)
CONSTANTS Order, Line,
          OrderOf     \* OrderOf[l]: the order line l belongs to

VARIABLES released,   \* orders whose money has been released to delivery
          closed,     \* orders reported as delivered in full
          bound,      \* lines that have a key
          emailed,    \* lines whose licence was emailed
          logged,     \* lines whose email is on record
          stamped,    \* lines whose key is stamped as sent
          shown       \* lines shown as delivered

orders == <<released, closed>>
deliveryVars == <<orders, bound, emailed, logged, stamped, shown>>

Init == /\ released = {} /\ closed = {}
        /\ bound = {} /\ emailed = {} /\ logged = {} /\ stamped = {} /\ shown = {}

Release(o) == /\ released' = released \cup {o}
              /\ UNCHANGED <<closed, bound, emailed, logged, stamped, shown>>

Close(o) == /\ o \in released
            /\ \A l \in Line : OrderOf[l] = o => l \in emailed
            /\ closed' = closed \cup {o}
            /\ UNCHANGED <<released, bound, emailed, logged, stamped, shown>>

Reopen(o) == /\ closed' = closed \ {o}
             /\ UNCHANGED <<released, bound, emailed, logged, stamped, shown>>

Bind(l) == /\ bound' = bound \cup {l}
           /\ UNCHANGED <<orders, emailed, logged, stamped, shown>>

Email(l) == /\ l \in bound /\ OrderOf[l] \in released
            /\ emailed' = emailed \cup {l}
            /\ UNCHANGED <<orders, bound, logged, stamped, shown>>

Record(l) == /\ l \in emailed
             /\ logged' = logged \cup {l}
             /\ UNCHANGED <<orders, bound, emailed, stamped, shown>>

Stamp(l) == /\ l \in logged
            /\ stamped' = stamped \cup {l}
            /\ UNCHANGED <<orders, bound, emailed, logged, shown>>

Show(l) == /\ l \in stamped
           /\ shown' = shown \cup {l}
           /\ UNCHANGED <<orders, bound, emailed, logged, stamped>>

TakeBack(l) == /\ shown' = shown \ {l}
               /\ UNCHANGED <<orders, bound, emailed, logged, stamped>>

Next == \/ \E o \in Order : Release(o) \/ Close(o) \/ Reopen(o)
        \/ \E l \in Line : \/ Bind(l) \/ Email(l) \/ Record(l) \/ Stamp(l)
                           \/ Show(l) \/ TakeBack(l)

Spec == Init /\ [][Next]_deliveryVars
=============================================================================
