SPECIFICATION LoggerFairSpec
CONSTANTS
    Callers = {p1, p2}
    Messages = {m1}
    NoMessage = NoMessage
PROPERTY DestructorReturns
