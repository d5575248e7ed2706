CONSTANTS
    t1 = t1  t2 = t2
    m1 = m1  m2 = m2
    alice = alice  bob = bob
    Tab = {t1}
    Msg = {m1, m2}
    From <- MCFrom
    Feed <- MCFeed
    Own <- MCOwn
    Burns = {m1}
    MaxParked = 2
    MaxHandlers = 1
    Faults = {"drop", "fail", "close"}
SPECIFICATION Spec
CHECK_DEADLOCK FALSE
INVARIANTS AckedIsKept ParkedLands
PROPERTIES  TombstoneStays
