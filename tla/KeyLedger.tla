------------------------------ MODULE KeyLedger ------------------------------
(***************************************************************************)
(* What the vault promises the store: a licence key is sold at most once.  *)
(* A key becomes known, may be sold to one order line, and stays that      *)
(* line's for ever; a line is sold at most one key.  Nothing is said about *)
(* mail, revocation or expiry.                                             *)
(***************************************************************************)
CONSTANTS Key, Line, NoLine

VARIABLES known,   \* the keys the vault has ever held
          owner    \* owner[k]: the line key k was sold to, or NoLine

ledgerVars == <<known, owner>>

Init == /\ known = {}
        /\ owner = [k \in Key |-> NoLine]

Unsold(l) == \A k \in Key : owner[k] # l

Learn(k) == /\ k \in Key \ known
            /\ known' = known \cup {k}
            /\ UNCHANGED owner

Sell(k, l) == /\ owner[k] = NoLine
              /\ Unsold(l)
              /\ known' = known \cup {k}
              /\ owner' = [owner EXCEPT ![k] = l]

Next == \E k \in Key : \/ Learn(k)
                       \/ \E l \in Line : Sell(k, l)

Spec == Init /\ [][Next]_ledgerVars
=============================================================================
