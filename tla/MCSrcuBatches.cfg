CONSTANTS
    r1 = r1
    r2 = r2
    cb1 = cb1
    cb2 = cb2
    s1 = s1
    WORK = WORK
    Readers <- OneReader
    Callbacks <- TwoCallbacks
    Syncers <- OneSyncer
    NR_CPUS = 1
    EntryCPUs <- FirstCPU
    ULONG = 2
    Trycounts <- Twice
    SRCU_CALLBACK_BATCH = 1
INVARIANTS InOrder OneDriver NoUseAfterFree
SPECIFICATION FairSpec
PROPERTIES CallbacksAreInvoked
