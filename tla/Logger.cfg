SPECIFICATION LoggerFairSpec
CONSTANTS
    Callers = {p1, p2}
    Messages = {m1, m2}
    NoMessage = NoMessage
INVARIANT LoggerTypeOK
INVARIANT LogFlushed
INVARIANT WrittenOnce
PROPERTY EventuallyWritten
