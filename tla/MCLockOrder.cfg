CONSTANTS
    Thread = {t1, t2, t3, t4}
    Fresh = Fresh
    RaftThreads = 3
SPECIFICATION MCSpec
SYMMETRY Symmetry
CHECK_DEADLOCK FALSE
INVARIANTS DeadlocksAreKnown
