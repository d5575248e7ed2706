CONSTANTS
    alice = alice  bob = bob  carol = carol
    a1 = a1  b1 = b1  b2 = b2  c1 = c1
    m1 = m1  m2 = m2
    None = None
    User <- MCUser
    Socket <- MCSocket
    Owner <- MCOwner
    Msg <- MCOneMsg
    From <- MCFromOne
    Dm = FALSE
    MaxQueue = 1
    FlushLimit = 2
    MaxWire = 2
    InitActive = {alice, bob}
    InitPending = {}
    InitKeyed = {alice, bob}
    InitOpen = {a1}
    InitBlocks <- MCNoPairs
    DmPeers <- MCNoPairs
    InitQueue <- MCNoRows
    Offerers = {alice}
    Leavers = {}
    Closers = {b1, c1}
    Faults = {"ttl"}
SPECIFICATION Spec
CHECK_DEADLOCK FALSE
INVARIANTS NoneStranded NoKeyStranded
