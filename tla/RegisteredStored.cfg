CONSTANTS
    a1 = a1
    a2 = a2
    l1 = l1
    l2 = l2
    l3 = l3
    r1 = r1
    Runs = {r1}
    CronRun = r1
    Logs <- TwoLogs
    Accounts = {a1}
    Registered = {a1}
    OwnerOf <- TwoOwnerOf
    BlockOf <- LateBlockOf
    DefaultBlock = 0
    BatchSize = 2
    ChunkSize = 1
    MaxHead = 4
    MaxFaults = 0
SPECIFICATION FairSpec
PROPERTY RegisteredEventsStored
