\* One payment, no failure, webhooks may not arrive.
CONSTANTS
    Payments = {p1}
    Requests = {q1}
    Worker = Worker
    Nobody = Nobody
    NoPayment = NoPayment
    Outcomes <- FullOrNothing
    FalseFailures = FALSE
    MayExpire = FALSE
    MayFail <- WebhookOnly
    MaxFaults = 0
SPECIFICATION FairSpec
PROPERTIES
    CaptureIsSettled
