----------------------------- MODULE OrderStatus -----------------------------
(***************************************************************************)
(* The status of an order and the map of its legal moves                   *)
(* (apps/api/src/checkout/order-status.ts).  Every writer of Order.status  *)
(* goes through this map: the payment webhooks, the sweeps, the delivery   *)
(* pipeline and the staff panel.                                           *)
(***************************************************************************)
OrderStatuses ==
  { "PENDING_PAYMENT", "PAYMENT_REVIEW", "PAID", "FULFILLING", "FULFILLED",
    "COMPLETED", "PARTIALLY_REFUNDED", "REFUNDED", "CANCELLED", "FAILED" }

RefundOutcomes == {"REFUNDED", "PARTIALLY_REFUNDED"}

\* ORDER_TRANSITIONS as a relation: <<from, to>> pairs.
OrderTransitions ==
  UNION { {"PENDING_PAYMENT"} \X {"PAID", "PAYMENT_REVIEW", "CANCELLED", "FAILED"},
          {"PAYMENT_REVIEW"} \X (RefundOutcomes \cup {"PAID", "CANCELLED"}),
          {"PAID"} \X (RefundOutcomes \cup {"FULFILLING", "FULFILLED"}),
          {"FULFILLING"} \X (RefundOutcomes \cup {"FULFILLED"}),
          {"FULFILLED"} \X (RefundOutcomes \cup {"COMPLETED"}),
          {"COMPLETED"} \X RefundOutcomes,
          {"PARTIALLY_REFUNDED"} \X {"REFUNDED"} }

CanTransition(from, to) == <<from, to>> \in OrderTransitions

\* transitionOrder: the status a row holds after a caller that believes it is
\* `from` asks for `to`.  A write that lost the race, or that the map forbids,
\* changes nothing (with ifIllegal 'throw' the caller's transaction rolls back).
AfterTransition(current, from, to) ==
  IF current = from /\ CanTransition(from, to) THEN to ELSE current

\* The statuses of an order whose money has been taken and released to delivery.
MoneyReleased == {"PAID", "FULFILLING", "FULFILLED", "COMPLETED"} \cup RefundOutcomes

\* The two statuses in which the delivery pipeline may send a line.
Deliverable == {"PAID", "FULFILLING"}

\* Who moves an order where: delivery once it is paid, checkout (payments, staff,
\* sweeps, refunds) before that and when money goes back.
DeliveryMoves == {<<"PAID", "FULFILLING">>, <<"PAID", "FULFILLED">>, <<"FULFILLING", "FULFILLED">>}

CheckoutMoves ==
  UNION { {"PENDING_PAYMENT"} \X {"PAID", "PAYMENT_REVIEW", "CANCELLED"},
          {<<"PAYMENT_REVIEW", "PAID">>},
          {m \in OrderTransitions : m[2] \in RefundOutcomes} }
=============================================================================
