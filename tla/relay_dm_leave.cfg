CONSTANTS
    alice = alice  bob = bob
    a1 = a1  b1 = b1
    m1 = m1  m2 = m2
    None = None
    User <- MCUser
    Socket <- MCSocket
    Owner <- MCOwner
    Msg <- MCOneMsg
    From <- MCFromOne
    Dm = TRUE
    MaxQueue = 5
    FlushLimit = 2
    MaxWire = 2
    InitActive = {alice}
    InitPending = {bob}
    InitKeyed = {alice}
    InitOpen = {a1, b1}
    InitBlocks <- MCNoPairs
    DmPeers <- MCNoPairs
    InitQueue <- MCNoRows
    Offerers = {}
    Leavers = {alice, bob}
    Closers = {}
    Faults = {"db", "ttl"}
SPECIFICATION Spec
CHECK_DEADLOCK FALSE
INVARIANT DeletedMeansEmpty
