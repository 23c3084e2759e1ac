------------------------------ MODULE MCSigning ------------------------------
(* An instance of Signing for TLC: two processes and three orders of which   *)
(* the limit admits two.                                                     *)
EXTENDS Signing, TLC

CONSTANT o1

MCKeys == {SequenceKey}
MCAmount == [o \in Orders |-> IF o = o1 THEN 2 ELSE 1]

ReplicaSymmetry == Permutations(Replicas)
=============================================================================
