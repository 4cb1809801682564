CONSTANTS
    t1 = t1
    t2 = t2
    NULL = NULL
    Cpus <- MCDrainCpus
    Tasks <- MCTasks
    Calls <- MCDrainCalls
SPECIFICATION Spec
INVARIANT DrainedIsUnlinked
