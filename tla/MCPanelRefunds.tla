--------------------------- MODULE MCPanelRefunds ---------------------------
EXTENDS PanelRefunds, TLC
Symmetry == Permutations(Worker) \cup Permutations(Refund)
=============================================================================
