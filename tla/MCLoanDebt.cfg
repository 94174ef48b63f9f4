SPECIFICATION Spec
CONSTANTS
    Apps = {a1, a2}
    Customers = {c1}
    Requests = {r1, r2}
    NoApp = NoApp
    NoCustomer = NoCustomer
    MaxInstalment = 1
    DebtCap = 1
    MayDie = FALSE
INVARIANT DebtStaysUnderCap
CHECK_DEADLOCK FALSE
