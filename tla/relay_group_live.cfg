CONSTANTS
    alice = alice  bob = bob  carol = carol
    a1 = a1  b1 = b1  b2 = b2  c1 = c1
    m1 = m1  m2 = m2
    None = None
    User <- MCUser
    Socket <- MCSocket
    Owner <- MCOwner
    Msg <- MCOneMsg
    From <- MCFromOne
    Dm = FALSE
    MaxQueue = 5
    FlushLimit = 2
    MaxWire = 2
    InitActive = {alice, bob, carol}
    InitPending = {}
    InitKeyed = {alice, bob, carol}
    InitOpen = {a1, c1}
    InitBlocks <- MCNoPairs
    DmPeers <- MCNoPairs
    InitQueue <- MCNoRows
    Offerers = {}
    Leavers = {}
    Closers = {b1, b2}
    Faults = {}
SPECIFICATION FairSpec
CHECK_DEADLOCK FALSE
PROPERTY EventuallyDelivered
