---------------------------- MODULE MCEventStore ----------------------------
(* Two accounts and four logs that meet every branch: a deposit and a       *)
(* borrow of one account in one transaction, in the same block a deposit by *)
(* the other of an asset getTokenName does not know, and a liquidation of   *)
(* the second account by the first.                                         *)
EXTENDS EventStore, TLC

CONSTANTS a1, a2, dep, bor, odd, liq, i1, i2

MCLogs == {dep, bor, odd, liq}
MCTxOf == dep :> "tx1" @@ bor :> "tx1" @@ odd :> "tx2" @@ liq :> "tx3"
MCBlockOf == dep :> 1 @@ bor :> 1 @@ odd :> 1 @@ liq :> 2
MCKindOf == dep :> "Deposit" @@ bor :> "Borrow" @@ odd :> "Deposit" @@ liq :> "Liquidation"
MCOwnerOf == dep :> a1 @@ bor :> a1 @@ odd :> a2 @@ liq :> a2
MCLiquidatorOf == [l \in MCLogs |-> a1]
MCNamedAsset == {dep, bor}

StoreSymmetry == Permutations(WalletIds) \cup Permutations(Workers \ Checkers)
=============================================================================
