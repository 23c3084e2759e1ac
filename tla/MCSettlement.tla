----------------------------- MODULE MCSettlement -----------------------------
(* Instances of Settlement for TLC: one or two worker replicas and one or    *)
(* two orders; each configuration switches on the faults it is about.        *)
EXTENDS Settlement, TLC

\* The keys of the two sweeps and one of each settlement.
MCKeys == Orders \union {SweepKey, DaemonKey}

ReplicaSymmetry == Permutations(Replicas)
=============================================================================
