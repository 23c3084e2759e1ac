-------------------------- MODULE MCOrderCreation --------------------------
(* Instances of OrderCreation for TLC: requests for the same amount.        *)
EXTENDS OrderCreation

MCAmount == [o \in Orders |-> 2]
=============================================================================
