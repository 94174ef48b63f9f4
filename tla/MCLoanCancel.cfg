SPECIFICATION Spec
CONSTANTS
    Apps = {a1}
    Customers = {c1}
    Requests = {r1, r2}
    NoApp = NoApp
    NoCustomer = NoCustomer
    MaxInstalment = 1
    DebtCap = 1
    MayDie = FALSE
PROPERTY CancelledIsFinal
CHECK_DEADLOCK FALSE
