SPECIFICATION FairSpec
CONSTANTS
    Consents = {c1, c2}
    Customers = {u1, u2}
    Validations = {v1}
    Sweepers = {w1, w2}
    NoConsent = NoConsent
    NoCustomer = NoCustomer
    Asleep = Asleep
INVARIANTS
    TypeOK
    
PROPERTIES
    ImplementsGrant
    StaleConsentsEnd
