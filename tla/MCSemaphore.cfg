CONSTANTS
    t1 = t1
    t2 = t2
    t3 = t3
    Tasks <- ThreeTasks
    InitCount = 1
    MaxHeld = 1
    MaxExtra = 1
SPECIFICATION FairSpec
INVARIANTS WaitListOK
PROPERTIES FifoHandOver PermitSpec EventuallyReturns
