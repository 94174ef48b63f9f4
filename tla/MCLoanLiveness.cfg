SPECIFICATION FairSpec
CONSTANTS
    Apps = {a1}
    Customers = {c1, c2}
    Requests = {r1, r2}
    NoApp = NoApp
    NoCustomer = NoCustomer
    MaxInstalment = 2
    DebtCap = 2
    MayDie = FALSE
PROPERTIES
    
    ContractIsSettled
CHECK_DEADLOCK FALSE
