SPECIFICATION FairSpec
CONSTANTS
    Devices = {"web", "phone"}
    Matters = {{"money"}, {"consent"}, {"loan"}, {"identity"}}
    Total = 1
    Refs = {"v1", "v2"}
INVARIANTS TypeOK MoneyIsConserved FinalScreensAreTrue  
PROPERTIES PendingLinksAreServed PayoutIsShown
CHECK_DEADLOCK FALSE
