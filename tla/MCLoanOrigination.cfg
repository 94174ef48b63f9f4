SPECIFICATION Spec
CONSTANTS
    Apps = {a1}
    Customers = {c1, c2}
    Requests = {r1, r2, r3}
    NoApp = NoApp
    NoCustomer = NoCustomer
    MaxInstalment = 2
    DebtCap = 2
    MayDie = TRUE
SYMMETRY Symmetry
INVARIANTS
    TypeOK
    PaidAtMostOnce
    
    DisbursedMeansFundedLoan
    WebhooksTellTheTruth
    AuditEndsAtStatus
PROPERTIES
    StatusMovesForward
    OnlyInFlightRequestsRevive
    ImplementsLedger
CHECK_DEADLOCK FALSE
