CONSTANTS
    a = a
    b = b
    async_running = async_running
    Threads <- OneThread
    Domains <- OneDomain
    Default = async_running
    MAX_WORK = 2
    MaxCookie = 3
SPECIFICATION Spec
PROPERTIES SyncCookieWaits
