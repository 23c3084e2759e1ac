\* Two requests of administrators and one of the customer; any one crash.
CONSTANTS
    r1 = r1
    r2 = r2
    r3 = r3
    Refunds <- Requests
    Admins <- Two
    Captured = 2
    Nobody = Nobody
    MaxFaults = 1
SPECIFICATION Spec
INVARIANTS
    TypeOK
    FreshReads
    RefundedAtMostCaptured

    
\* Requests end and rejected ones change nothing.
CHECK_DEADLOCK FALSE
