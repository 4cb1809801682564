CONSTANTS
    w1 = w1
    w2 = w2
    cpu0 = cpu0
    cpu1 = cpu1
    task0 = task0
    task1 = task1
    nmi0 = nmi0
    NULL = NULL
    Works <- TwoWorks
    CPUs <- TwoCPUs
    Queuers <- TaskAndNmi
    home <- Home
    Nmi <- Nmi0
    Syncs <- OneWork
SPECIFICATION Spec
INVARIANTS TypeOK NodeOnce NoLostWork
PROPERTIES FailureMeansEnqueued SyncMeansUnused
