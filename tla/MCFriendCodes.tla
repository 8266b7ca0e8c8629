---------------------------- MODULE MCFriendCodes ----------------------------
EXTENDS FriendCodes, TLC
Symmetry == Permutations(Worker) \cup Permutations(Code) \cup Permutations(Cart)
=============================================================================
