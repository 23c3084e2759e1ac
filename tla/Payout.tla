-------------------------------- MODULE Payout --------------------------------
(***************************************************************************)
(* What settlement promises of a paid order: the liquidity that is claimed *)
(* for it leaves the vault once and is then spent, or it does not leave    *)
(* and is returned.  Never both, and neither is undone.                    *)
(***************************************************************************)
CONSTANT Orders

VARIABLES
    paid,   \* the orders whose amount has left the vault
    claim   \* what became of the liquidity claimed for each order

vars == <<paid, claim>>

Init == paid = {} /\ claim = [o \in Orders |-> "held"]

Pay(o) ==
    /\ claim[o] = "held" /\ o \notin paid
    /\ paid' = paid \union {o}
    /\ UNCHANGED claim

Spend(o) ==
    /\ claim[o] = "held" /\ o \in paid
    /\ claim' = [claim EXCEPT ![o] = "spent"]
    /\ UNCHANGED paid

Return(o) ==
    /\ claim[o] = "held" /\ o \notin paid
    /\ claim' = [claim EXCEPT ![o] = "returned"]
    /\ UNCHANGED paid

Next == \E o \in Orders : Pay(o) \/ Spend(o) \/ Return(o)

Spec == Init /\ [][Next]_vars
=============================================================================
