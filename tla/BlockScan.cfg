CONSTANTS
    a1 = a1
    a2 = a2
    l1 = l1
    l2 = l2
    l3 = l3
    r1 = r1
    r2 = r2
    Runs = {r1, r2}
    CronRun = r1
    Logs <- MCLogs
    Accounts = {a1, a2}
    Registered = {a1}
    OwnerOf <- MCOwnerOf
    BlockOf <- MCBlockOf
    DefaultBlock = 0
    BatchSize = 2
    ChunkSize = 1
    MaxHead = 3
    MaxFaults = 1
SPECIFICATION ScanSpec
SYMMETRY RunSymmetry
INVARIANTS
    ScanTypeOK
    ScanBeforeMark
    RowMeansScanned
