---------------------------- MODULE MCStockHolds ----------------------------
EXTENDS StockHolds, TLC
CONSTANTS a, b
\* Every order is drafted from cart a.
MCCartOf == [o \in Order |-> a]
Symmetry == Permutations(Row) \cup Permutations(Worker) \cup Permutations(Order)
=============================================================================
