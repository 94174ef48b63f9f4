SPECIFICATION Spec
CONSTANTS
    StatementApps <- StatementClients
    Bookings <- MCBookings
    Matching <- MCMatching
    Booked = 3
    RowLimit = 2
    Today = 3
    DaysPerMonth = 2
    Months = 2
    Days = 2
    Top = 2
    Clients <- AllClients
    Households <- MCHouseholds
    Partners = {"partner"}
    Staff = {"staff"}
    WritesAtOnce = 2
    Apps = {"tpp-1"}
    Owners = {"partner"}
    Operators = {"operator"}
    PutsAtOnce = 2
    Applications = {"app1", "app2"}
    SdkKeys = {"key"}
    Bodies = {"order", "other"}
    CallsAtOnce = 2
VIEW Running
INVARIANTS
    ClientsTypeOK
    
    
    OnlyGrantedConsentsAreHeld
    AccessFollowsApproval
    
    
PROPERTY
    SignOutKeepsTheLink
CHECK_DEADLOCK FALSE
