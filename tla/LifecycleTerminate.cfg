SPECIFICATION ServerSpec
CONSTANTS
    Workers = {w1, w2}
    Main = Main
    Handler = Handler
    Threads <- AllThreads
    Tasks = {c1}
    NoTask = NoTask
    max_size_ = 1
SYMMETRY Symmetry
INVARIANT ShutdownClean
