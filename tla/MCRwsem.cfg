SPECIFICATION FairSpec
CONSTANTS
    t1 = t1
    t2 = t2
    t3 = t3
    Nobody = Nobody
    Tasks <- MCTasks
    RWSEM_ACTIVE_MASK = 7
INVARIANTS TypeOK CountAccounts NoLostWakeup WaitersAreLive
PROPERTIES LockSpec NoOvertaking EveryLockIsGranted
