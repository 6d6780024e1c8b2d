SPECIFICATION ServerPoliteSpec
CONSTANTS
    Workers = {w1, w2}
    Main = Main
    Handler = Handler
    Threads <- AllThreads
    Tasks = {c1, c2}
    NoTask = NoTask
    max_size_ = 1
INVARIANT ServerTypeOK
INVARIANT QueueInv
INVARIANT NoLostWakeup
INVARIANT OneOwner
INVARIANT ExitDrained
PROPERTY ShutdownEnds
PROPERTY ConnectionsServed
