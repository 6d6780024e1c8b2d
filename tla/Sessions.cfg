SPECIFICATION SessionSpec
CONSTANTS
    k1 = k1  k2 = k2  bad = bad  f1 = f1  f2 = f2  f3 = f3
    alice = alice  nested = nested  a = a  b = b
    NoEntry = NoEntry
    None = None
    Threads = {t1, t2}
    Entries = {e1, e2, e3}
    RefModulus = 16
    Users = {alice}
    normalize_path <- Directories
    Keys <- ThreeKeys
    Owner <- OwnerOfThree
    Files = {f1, f2, f3}
    FileOf <- FileOfThree
    Scanned = {k1, k2, bad}
    ValidKeys = {k1, k2}
    Chunks = {a, b}
    Payloads <- Other
    InitialContents <- OneFile
    Faults = {"net", "mkdir", "open", "alloc"}
    MaxCalls = 2
    MaxSessions = 2
SYMMETRY Symmetry
INVARIANT SessionTypeOK
INVARIANT RequestsAligned
INVARIANT WaitsWithoutLocks
INVARIANT ActiveExact
INVARIANT NoTornDownload
