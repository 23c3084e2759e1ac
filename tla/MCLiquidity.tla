----------------------------- MODULE MCLiquidity -----------------------------
(* Instances of Liquidity for TLC: two orders of different size against a   *)
(* pool that cannot serve both until it is replenished.                     *)
EXTENDS Liquidity

CONSTANT o1

MCAmount == [o \in Orders |-> IF o = o1 THEN 2 ELSE 3]
=============================================================================
