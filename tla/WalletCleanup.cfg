CONSTANTS
    a1 = a1
    a2 = a2
    lower = lower
    upper = upper
    w1 = w1
    w2 = w2
    Accounts = {a1, a2}
    Variants = {lower, upper}
    i1 = i1
    i2 = i2
    i3 = i3
    WalletIds = {i1, i2, i3}
    Workers = {w1, w2}
    CreatedAt <- MCCreatedAt
    Transactions = {"t"}
    StakingEvents = {"s"}
    LegacyColumns <- MCLegacyColumns
SPECIFICATION AuthSpec
SYMMETRY AuthSymmetry
INVARIANTS WalletTypeOK OneRowPerAccount RaceNeverRethrows EnsuredIsStored CleanupEnablesIndex TokenOrLogin
PROPERTIES HistoryStays MergeKeepsBest
