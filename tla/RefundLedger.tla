---------------------------- MODULE RefundLedger ----------------------------
(***************************************************************************)
(* What the store promises of the money given back on one payment.  The    *)
(* processor gives back more and more; the books follow, each entry a      *)
(* larger total than the last one and no larger than what has really gone. *)
(* The entry that reaches the whole payment closes it.  The order follows  *)
(* each entry, unless the entry lost the order to somebody else's move; it *)
(* may then catch up later.  Its sale leaves the counters with its end, and*)
(* only then.  Nothing is said about requests, rows, answers or events.    *)
(***************************************************************************)
EXTENDS Integers

CONSTANT Paid

VARIABLES given,     \* what the processor has given back
          booked,    \* the total the payment shows
          payment,   \* the payment's state
          outcome,   \* the order's refund status, or "none" so far
          sales,     \* the order's sale on the counters
          lost       \* whether an entry ever lost the order

refundVars == <<given, booked, payment, outcome, sales, lost>>

Init == /\ given = 0 /\ booked = 0
        /\ payment = "SUCCEEDED" /\ outcome = "none" /\ sales = 1
        /\ lost = FALSE

GiveMore == /\ given' \in Nat /\ given' > given
            /\ UNCHANGED <<booked, payment, outcome, sales, lost>>

\* The order ends with the whole payment, and its sale with it.
Follow(n) == /\ outcome' = IF n >= Paid THEN "REFUNDED" ELSE "PARTIALLY_REFUNDED"
             /\ sales' = IF n >= Paid THEN 0 ELSE sales
             /\ lost' = lost

Miss == lost' = TRUE /\ UNCHANGED <<outcome, sales>>

Book == /\ booked' \in (booked + 1)..given
        /\ payment' = IF booked' >= Paid THEN "REFUNDED" ELSE payment
        /\ Follow(booked') \/ Miss
        /\ UNCHANGED given

\* A refund reported again finds the order behind.
CatchUp(n) == /\ lost /\ outcome # "REFUNDED"
              /\ Follow(n)
              /\ UNCHANGED <<given, booked, payment>>

Next == GiveMore \/ Book \/ \E n \in 1..booked : CatchUp(n)

Spec == Init /\ [][Next]_refundVars
=============================================================================
