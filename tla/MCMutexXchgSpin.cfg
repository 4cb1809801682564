CONSTANTS
    t1 = t1
    t2 = t2
    t3 = t3
    NULL = NULL
    Tasks <- ThreeTasks
    Calls <- MCCalls
    Builds <- XchgSpin
SPECIFICATION Spec
INVARIANTS NoLostWakeup
