SPECIFICATION Spec
CONSTANTS
    A = A  B = B  C = C
    a1 = a1  b1 = b1  b2 = b2  c1 = c1
    call1 = call1  call2 = call2
    None = None
    User = {A, B}
    Tab = {a1, b1}
    Owner <- PairOwners
    Call = {call1, call2}
    Video = {call1, call2}
    Premium = {A, B}
SYMMETRY MCSymmetry
INVARIANTS
    Released
    DescriptionsMatch
    RingIsTheOffer
PROPERTY BusyKeepsItsCall
CHECK_DEADLOCK FALSE
