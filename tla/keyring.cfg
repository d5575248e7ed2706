SPECIFICATION FairSpec
CONSTANTS
    c1 = c1  c2 = c2  bob = bob  k1 = k1  k2 = k2
    w1 = w1  u1 = u1  f1 = f1  f2 = f2
    NoKey = NoKey
    Ch = {c1}
    Peers = {bob}
    SignKeys = {k1, k2}
    Frame = {w1}
    Ui = {u1}
    Fetcher = {f1}
    Hasty = FALSE
    MaxGestures = 2
    MaxTroubles = 1
INVARIANTS DiskFollowsMemory
PROPERTIES KeyLostOnlyByMenu AckedIsKept PinsStay SelfHeals
CHECK_DEADLOCK FALSE
