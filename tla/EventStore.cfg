CONSTANTS
    a1 = a1
    a2 = a2
    i1 = i1
    i2 = i2
    dep = dep
    bor = bor
    odd = odd
    liq = liq
    w1 = w1
    w2 = w2
    c1 = c1
    Accounts = {a1, a2}
    Variants = {"variant"}
    WalletIds = {i1, i2}
    Workers = {w1, w2, c1}
    Checkers = {c1}
    Logs <- MCLogs
    Blocks = {1, 2}
    Txs = {"tx1", "tx2", "tx3"}
    TxOf <- MCTxOf
    BlockOf <- MCBlockOf
    KindOf <- MCKindOf
    OwnerOf <- MCOwnerOf
    LiquidatorOf <- MCLiquidatorOf
    NamedAsset <- MCNamedAsset
    NoWallet = NoWallet
SPECIFICATION StoreSpec
SYMMETRY StoreSymmetry
INVARIANTS
    StoreTypeOK
    OneRowPerHash
    CreditedToOwner
    AlreadyEnsured
    BlockRowBacked
    HandledIsRecorded
PROPERTY LedgerSpec
