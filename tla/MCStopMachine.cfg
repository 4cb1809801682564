CONSTANTS
    t1 = t1
    t2 = t2
    NULL = NULL
    Cpus <- MCCpus
    Tasks <- MCTasks
    Calls <- MCCalls
SPECIFICATION FairSpec
INVARIANTS TypeOK Frozen NoUseAfterReturn ResultIsTrue
PROPERTIES EveryCallReturns
