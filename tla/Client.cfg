SPECIFICATION SystemSpec
CONSTANTS
    k1 = k1  k2 = k2  bad = bad  f1 = f1  f2 = f2  f3 = f3
    alice = alice  nested = nested  a = a  b = b  n1 = n1
    NoEntry = NoEntry
    None = None
    Threads = {t1}
    Entries = {e1}
    RefModulus = 16
    Users = {alice}
    normalize_path <- Directories
    Keys = {k1}
    Owner <- OwnerOfOne
    Files = {f1}
    FileOf <- FileOfOne
    Scanned = {k1}
    ValidKeys = {k1}
    Chunks = {a}
    Payloads <- OneOrThree
    InitialContents <- ThreeUnits
    Faults = {"net", "open", "write", "remove", "scan"}
    MaxCalls = 4
    MaxSessions = 2
    Clients = {t1}
    Logins = {alice}
    Names = {n1}
    KeyOf <- OnlyFile
    PoolSize = 1
    Nothing = None
    Unit = unit
    Text = text
    Sizes = {1, 3}
    Buffer = 2
    ClientFaults = {"change"}
    MaxCommands = 4
INVARIANT ClientTypeOK
INVARIANT FramesAligned
INVARIANT DownloadsWhole
PROPERTY CommandsEnd
