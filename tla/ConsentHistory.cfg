SPECIFICATION Spec
CONSTANTS
    Consents = {c1}
    Customers = {u1}
    Validations = {v1}
    Sweepers = {w1}
    NoConsent = NoConsent
    NoCustomer = NoCustomer
    Asleep = Asleep
INVARIANT HistoryIsAPath
