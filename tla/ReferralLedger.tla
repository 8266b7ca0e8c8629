--------------------------- MODULE ReferralLedger ---------------------------
(***************************************************************************)
(* What the referral programme promises.  An order uses one code; of the   *)
(* orders that use a code, only the first is released without a person;    *)
(* and a redemption is rewarded once, for an order that used its code and  *)
(* kept its money for the refund window.  A reward is never moved, taken   *)
(* back or given again.  Nothing is said about carts, sweeps, staff, flags *)
(* or expiry.                                                              *)
(***************************************************************************)
EXTENDS Naturals

CONSTANTS Code, Order, NoOrder

VARIABLES uses,       \* <<code, order>>: the order was paid with the code
          released,   \* orders released at once, by nobody
          kept,       \* orders whose money was there when the window passed
          rewarded,   \* rewarded[c]: the order c was rewarded for, or NoOrder
          thanks      \* thanks[c]: codes given to the referrer for it

ledgerVars == <<uses, released, kept, rewarded, thanks>>

Init == /\ uses = {} /\ released = {} /\ kept = {}
        /\ rewarded = [c \in Code |-> NoOrder]
        /\ thanks = [c \in Code |-> 0]

Unused(c) == \A k \in Order : <<c, k>> \notin uses
Paid(k) == \E c \in Code : <<c, k>> \in uses

Use(c, k) ==
  /\ ~Paid(k)
  /\ uses' = uses \cup {<<c, k>>}
  /\ \/ UNCHANGED released
     \/ Unused(c) /\ released' = released \cup {k}
  /\ UNCHANGED <<kept, rewarded, thanks>>

Keep(k) ==
  /\ Paid(k)
  /\ kept' = kept \cup {k}
  /\ UNCHANGED <<uses, released, rewarded, thanks>>

Reward(c, k) ==
  /\ <<c, k>> \in uses /\ k \in kept /\ rewarded[c] = NoOrder
  /\ rewarded' = [rewarded EXCEPT ![c] = k]
  /\ thanks' = [thanks EXCEPT ![c] = @ + 1]
  /\ UNCHANGED <<uses, released, kept>>

Next == \E k \in Order : Keep(k) \/ \E c \in Code : Use(c, k) \/ Reward(c, k)

Spec == Init /\ [][Next]_ledgerVars
=============================================================================
