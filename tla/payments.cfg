\* One payment, two requests at a time and the worker; any one job may be cut
\* short, and the reservation may expire.
CONSTANTS
    Payments = {p1}
    Requests = {q1, q2}
    Worker = Worker
    Nobody = Nobody
    NoPayment = NoPayment
    Outcomes <- AnyOutcome
    FalseFailures = TRUE
    MayExpire = TRUE
    MayFail <- AnyKind
    MaxFaults = 1
SPECIFICATION FairSpec
INVARIANTS
    TypeOK
    PaidIsCaptured
    ProcessedIsRecorded
PROPERTIES
    SuccessIsKept
    CaptureIsNoticed
