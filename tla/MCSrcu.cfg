CONSTANTS
    r1 = r1
    r2 = r2
    cb1 = cb1
    cb2 = cb2
    s1 = s1
    WORK = WORK
    Readers <- TwoReaders
    Callbacks <- TwoCallbacks
    Syncers <- None
    NR_CPUS = 2
    EntryCPUs <- FirstCPU
    ULONG = 3
    Trycounts <- Twice
    SRCU_CALLBACK_BATCH = 1
SPECIFICATION Spec
SYMMETRY Symmetry
INVARIANTS GracePeriod NothingLeaks
