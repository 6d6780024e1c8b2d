SPECIFICATION SystemSpec
CONSTANTS
    k1 = k1  k2 = k2  bad = bad  f1 = f1  f2 = f2  f3 = f3
    alice = alice  nested = nested  a = a  b = b  n1 = n1
    NoEntry = NoEntry
    None = None
    Threads = {t1, t2}
    Entries = {e1, e2}
    RefModulus = 16
    Users = {alice, nested}
    normalize_path <- TwoDirectories
    Keys <- TwoKeys
    Owner <- OwnerOfNested
    Files = {f1, f2}
    FileOf <- FileOfTwo
    Scanned = {k1}
    ValidKeys = {k1, k2}
    Chunks = {a}
    Payloads <- OneUnit
    InitialContents <- ThreeUnits
    Faults = {"net"}
    MaxCalls = 4
    MaxSessions = 2
    Clients = {t1, t2}
    Logins = {alice, nested}
    Names = {n1}
    KeyOf <- FileOfEach
    PoolSize = 1
    Nothing = None
    Unit = unit
    Text = text
    Sizes = {1}
    Buffer = 2
    ClientFaults = {"mkdir", "create"}
    MaxCommands = 2
INVARIANT FramesAligned
INVARIANT LoginAgreed
PROPERTY CommandsEnd
