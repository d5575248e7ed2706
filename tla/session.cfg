CONSTANTS
    alice = alice  bob = bob
    None = None
    Accounts <- MCTwo
    Hasty = FALSE
    MaxGen = 3
    MaxGestures = 8
    MaxTroubles = 2
SYMMETRY MCSymmetry
SPECIFICATION Spec
CHECK_DEADLOCK FALSE
INVARIANTS  VaultReopens SaltsAgree 
