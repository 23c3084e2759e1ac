\* Two requests of administrators against the settlement, no crash.
CONSTANTS
    r1 = r1
    r2 = r2
    r3 = r3
    Refunds <- Two
    Admins <- Two
    Captured = 1
    Nobody = Nobody
    MaxFaults = 0
SPECIFICATION Spec
INVARIANT
    NeverRefundedAndPaid
CHECK_DEADLOCK FALSE
