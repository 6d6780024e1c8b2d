SPECIFICATION Spec
CONSTANTS
    k1 = k1  k2 = k2  bad = bad  f1 = f1  f2 = f2  f3 = f3
    alice = alice  nested = nested  a = a  b = b
    NoEntry = NoEntry
    None = None
    Threads = {t1, t2}
    Entries = {e1, e2, e3}
    RefModulus = 16
    Users = {alice}
    normalize_path <- Directories
    Keys <- TwoKeys
    Owner <- OwnerOfTwo
    Files = {f1, f2}
    FileOf <- FileOfTwo
    Scanned = {k1, k2}
    ValidKeys = {k1, k2}
    Chunks = {a, b}
    Payloads <- ShortOrLong
    InitialContents <- NoFiles
    Faults = {"net"}
    MaxCalls = 2
SYMMETRY Symmetry
INVARIANT IndexOnDisk
