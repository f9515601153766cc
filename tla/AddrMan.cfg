SPECIFICATION AddrSpec
SYMMETRY Exchange
CONSTANTS
    host = host
    hostPort2 = hostPort2
    Plain = {h1, h2, h3}
    x = x
    y = y
    IPs <- MCIPs
    Services <- MCServices
    IP <- MCIP
    Sources <- MCSources
    GetNewBucket <- MCNew
    GetTriedBucket <- MCTried
    None = None
    NEW_BUCKET_COUNT = 2
    NEW_BUCKET_SIZE = 1
    NEW_BUCKETS_PER_ADDRESS = 2
    TRIED_BUCKET_COUNT = 1
    TRIED_BUCKET_SIZE = 2
    TRIED_ENTRIES_INSPECT_ON_EVICT = 2
    GETADDR_MAX_PCT = 50
    GETADDR_MAX = 2
    MaxIds = 4
    MaxTime = 1
INVARIANTS CheckOK BucketsBounded FileOK
PROPERTY ImplementsBook
