--------------------------------- MODULE Pool ---------------------------------
(***************************************************************************)
(* What LiquidityService promises to the code that calls it: a pool that   *)
(* serves one operation after the other.  An order claims its amount once; *)
(* the claim is either spent, which takes the amount out of the pool, or   *)
(* returned, and neither can be undone or done twice.                      *)
(*                                                                         *)
(* Liquidity implements it with overlapping database transactions.         *)
(***************************************************************************)
EXTENDS Integers

CONSTANTS
    Orders,         \* the orders that may claim an amount
    Amount,         \* the amount of each order
    InitialTotal,   \* what the pool starts with
    AdjustAmounts   \* amounts that may be added to or taken from the pool

VARIABLES
    total,     \* what the pool holds
    reserved,  \* the part of it that is claimed
    claim,     \* what became of each order's claim
    adjusted   \* what was added to the pool, net

vars == <<total, reserved, claim, adjusted>>

Init ==
    /\ total = InitialTotal
    /\ reserved = 0
    /\ claim = [o \in Orders |-> "none"]
    /\ adjusted = 0

\* What is left of x after y was taken from it: never less than nothing.
Less(x, y) == IF x < y THEN 0 ELSE x - y

Claim(o) ==
    /\ claim[o] = "none"
    /\ total - reserved >= Amount[o]
    /\ reserved' = reserved + Amount[o]
    /\ claim' = [claim EXCEPT ![o] = "held"]
    /\ UNCHANGED <<total, adjusted>>

Spend(o) ==
    /\ claim[o] = "held"
    /\ total' = Less(total, Amount[o])
    /\ reserved' = Less(reserved, Amount[o])
    /\ claim' = [claim EXCEPT ![o] = "spent"]
    /\ UNCHANGED adjusted

Return(o) ==
    /\ claim[o] = "held"
    /\ reserved' = Less(reserved, Amount[o])
    /\ claim' = [claim EXCEPT ![o] = "returned"]
    /\ UNCHANGED <<total, adjusted>>

\* What is claimed cannot be taken out.
Adjust(d) ==
    /\ total + d >= reserved
    /\ total' = total + d
    /\ adjusted' = adjusted + d
    /\ UNCHANGED <<reserved, claim>>

Next ==
    \/ \E o \in Orders : Claim(o) \/ Spend(o) \/ Return(o)
    \/ \E a \in AdjustAmounts : Adjust(a) \/ Adjust(-a)

Spec == Init /\ [][Next]_vars
=============================================================================
