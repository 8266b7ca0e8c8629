----------------------------- MODULE MCPayments -----------------------------
EXTENDS Payments, TLC
CONSTANT o1
\* Every attempt is on the one order.
MCOrderOf == [p \in Payment |-> o1]
Symmetry == Permutations(Worker)
=============================================================================
