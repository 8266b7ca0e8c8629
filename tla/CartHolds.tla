----------------------------- MODULE CartHolds -----------------------------
(***************************************************************************)
(* What the store promises of the holds carts have on a variant.  A cart   *)
(* has one hold at most, and what it stands for changes only when the cart *)
(* itself asks.  A hold ends when its own cart gives it up or buys it; to  *)
(* anyone else it is lost only once its time has passed.  Nothing is said  *)
(* about requests, locks, rows that are dead, or the counter.              *)
(***************************************************************************)
EXTENDS Integers

CONSTANTS Cart, Hold,
          Most     \* the units a hold stands for at most

VARIABLES held,     \* held[c]: the live holds of cart c
          units,    \* units[h]: what hold h stands for while it is live, else 0
          late      \* the live holds whose time has passed

cartHoldVars == <<held, units, late>>

Init == /\ held = [c \in Cart |-> {}]
        /\ units = [h \in Hold |-> 0]
        /\ late = {}

\* What cart c is left with, while the late holds in gone are swept.
Leave(c, mine, gone) ==
  /\ held' = [d \in Cart |-> IF d = c THEN mine ELSE held[d] \ gone]
  /\ late' = late \ (gone \cup held[c] \cup mine)

\* What the holds stand for once those of c and the swept ones have ended.
Left(c, gone) == [h \in Hold |-> IF h \in held[c] \cup gone THEN 0 ELSE units[h]]

Take(c, h, n) ==
  /\ \A d \in Cart \ {c} : h \notin held[d]
  /\ \E gone \in SUBSET late : /\ Leave(c, {h}, gone)
                               /\ units' = [Left(c, gone) EXCEPT ![h] = n]

GiveUp(c) ==
  \E gone \in SUBSET late : Leave(c, {}, gone) /\ units' = Left(c, gone)

Lapse(h) == /\ \E c \in Cart : h \in held[c]
            /\ late' = late \cup {h}
            /\ UNCHANGED <<held, units>>

Renew(c) == /\ late' = late \ held[c]
            /\ UNCHANGED <<held, units>>

Next == \/ \E c \in Cart : \/ GiveUp(c) \/ Renew(c)
                           \/ \E h \in Hold, n \in 1..Most : Take(c, h, n)
        \/ \E h \in Hold : Lapse(h)

Spec == Init /\ [][Next]_cartHoldVars
=============================================================================
