------------------------------- MODULE MCRefunds -------------------------------
(* Instances of Refunds for TLC.                                             *)
EXTENDS Refunds

CONSTANTS r1, r2, r3
Requests == {r1, r2, r3}
Two == {r1, r2}
=============================================================================
