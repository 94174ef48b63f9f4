SPECIFICATION FairSpec
CONSTANTS
    Clients = {"salalah-web", "sadad-web", "salalah-mobile"}
    Tabs = {t1, t2}
    MaxConsents = 2
    MaxTotal = 1
INVARIANTS TypeOK WebPaidOnce  
PROPERTIES CallbackEnds
CHECK_DEADLOCK FALSE
