CONSTANTS
    c1 = c1
    c2 = c2
    k1 = k1
    k2 = k2
    u1 = u1
    Cpus <- MCCpus
    Users <- MCUsers
    Tasklets <- MCTasklets
    Vec <- MCVec
    MAX_SOFTIRQ_RESTART = 2
    NULL = NULL
SPECIFICATION Spec
SYMMETRY Symmetry
INVARIANTS TypeOK ScheduledAtOnePlace Serialized NothingStranded
