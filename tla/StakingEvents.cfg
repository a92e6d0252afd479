SPECIFICATION Spec
CONSTANTS
  t1 = t1
  t2 = t2
  t3 = t3
  alice = alice
  bob = bob
  Txs = {t1, t2, t3}
  Users = {alice, bob}
  Chain <- TwoStakers
  Window = 1
  StartHead = 1
  MaxHead = 2
  MaxFaults = 1
  MaxCrashes = 1
CHECK_DEADLOCK FALSE
INVARIANTS StakingTypeOK SyncCatchesUp UnstakeFromOwnStake
PROPERTIES RowsKept Reconnects DeliveredIsStored
