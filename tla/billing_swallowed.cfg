CONSTANTS
    alice = alice
    s1 = s1  g1 = g1  g2 = g2
    r1 = r1  r2 = r2
    None = None
    User <- MCOneUser
    Sub = {s1}
    Gift = {g1, g2}
    Months <- MCMonths
    Period = 1
    Grace = 1
    Request = {r1, r2}
    InitSold = {g1, g2}
    MaxOutbox = 2
    MaxClock = 3
    Faults = {"throw"}
SPECIFICATION Spec
CHECK_DEADLOCK FALSE
INVARIANT PaymentIsNotSwallowed
