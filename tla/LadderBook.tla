----------------------------- MODULE LadderBook -----------------------------
(***************************************************************************)
(* What the abandoned-cart ladder promises of its record.  A cart goes up  *)
(* the ladder rung by rung, never down and never onto a rung it has passed,*)
(* and stays off once it is off.  The record of a message is written with  *)
(* the climb it made, once, and only if the message went; and the ladder   *)
(* takes credit for a sale only if it is on record for the cart.  Nothing  *)
(* is said about passes, channels, codes or time.                          *)
(***************************************************************************)
EXTENDS Integers

CONSTANTS Cart, Rungs

VARIABLES place,      \* place[k]: the rung cart k has reached, or Off
          told,       \* <<cart, rung>>: a message of that rung went out
          recorded,   \* <<cart, rung>>: it is on record
          credited    \* carts the ladder takes credit for

bookVars == <<place, told, recorded, credited>>

Off == Rungs + 1

Init == /\ place = [k \in Cart |-> 0]
        /\ told = {} /\ recorded = {} /\ credited = {}

Tell(k, n) ==
  /\ told' = told \cup {<<k, n>>}
  /\ UNCHANGED <<place, recorded, credited>>

Climb(k, n) ==
  /\ place[k] < n
  /\ place' = [place EXCEPT ![k] = n]
  /\ \/ UNCHANGED recorded
     \/ <<k, n>> \in told /\ recorded' = recorded \cup {<<k, n>>}
  /\ UNCHANGED <<told, credited>>

\* The cart is paid for, or given up.
Leave(k) ==
  /\ place' = [place EXCEPT ![k] = Off]
  /\ \/ credited' = credited \ {k}
     \/ (\E n \in 1..Rungs : <<k, n>> \in recorded) /\ credited' = credited \cup {k}
  /\ UNCHANGED <<told, recorded>>

Next == \E k \in Cart : Leave(k) \/ \E n \in 1..Rungs : Tell(k, n) \/ Climb(k, n)

Spec == Init /\ [][Next]_bookVars
=============================================================================
