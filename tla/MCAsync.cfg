CONSTANTS
    a = a
    b = b
    async_running = async_running
    Threads <- TwoThreads
    Domains <- OneDomain
    Default = async_running
    MAX_WORK = 0
    MaxCookie = 3
SPECIFICATION FairSpec
INVARIANTS TypeOK ListsHoldLiveEntries
PROPERTIES WaitsUnlessOvertaken FullWaitsUnlessOvertaken EverythingFinishes
