CONSTANTS
    b1 = b1  b2 = b2  b3 = b3
    r1 = r1  r2 = r2
    None = None
    Blob = {b1, b2, b3}
    Size <- MCSize
    Chunk = 2
    DmBlob = {b1}
    Quota = 3
    Request = {r1, r2}
    Faults = {"fail", "crash"}
SPECIFICATION Spec
CHECK_DEADLOCK FALSE
SYMMETRY Symmetry
INVARIANTS CountedIsOnDisk DownloadIsWhole QuotaHolds
PROPERTY KeepsThePromise
