SPECIFICATION Spec
CONSTANTS
    Old = Old
    New = New
    Home = Home
    None = None
    Account <- MCAccount
    Address = {Home, Work}
    Token = {t1, t2, t3}
    Request = {r1, r2}
    Registered <- MCRegistered
    Legacy <- MCRegistered
    Attached <- MCAttached
    MaxFailures = 2
    MaxPw = 2
    MaxStarted = 5
    Routes <- MCRoutes
    Faults = {"throw"}
SYMMETRY MCSymmetry
INVARIANTS
    OneRowPerName
    OneOwnerPerAddress
    LinkWorksOnce
    SessionMatchesPassword
    LockoutHolds
    
CHECK_DEADLOCK FALSE
