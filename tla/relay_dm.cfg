CONSTANTS
    alice = alice  bob = bob
    a1 = a1  b1 = b1
    m1 = m1  m2 = m2
    None = None
    User <- MCUser
    Socket <- MCSocket
    Owner <- MCOwner
    Msg <- MCTwoMsgs
    From <- MCFromAlice
    Dm = TRUE
    MaxQueue = 1
    FlushLimit = 2
    MaxWire = 2
    InitActive = {alice}
    InitPending = {bob}
    InitKeyed = {alice}
    InitOpen = {a1}
    InitBlocks <- MCNoPairs
    DmPeers <- MCBobBlocksAlice
    InitQueue <- MCOldRow
    Offerers = {alice}
    Leavers = {}
    Closers = {b1}
    Faults = {"tab", "crash", "db"}
SPECIFICATION Spec
CHECK_DEADLOCK FALSE
INVARIANTS NoLoss WithheldUntilAccepted BlockedGetsNothing SentReachesMembers
