SPECIFICATION Spec
CONSTANTS
    Clients = {"salalah-web"}
    Tabs = {t1}
    MaxConsents = 1
    MaxTotal = 1
INVARIANT ErrorMeansNotCharged
CHECK_DEADLOCK FALSE
