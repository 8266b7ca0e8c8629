---------------------------- MODULE MCFulfillment ----------------------------
EXTENDS Fulfillment, TLC
MCOrderOf == [l \in Line |-> CHOOSE o \in Order : TRUE]
=============================================================================
