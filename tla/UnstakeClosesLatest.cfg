SPECIFICATION Spec
CONSTANTS
  t1 = t1
  t2 = t2
  t3 = t3
  alice = alice
  bob = bob
  Txs = {t1, t2, t3}
  Users = {alice, bob}
  Chain <- TwoPeriods
  Window = 3
  StartHead = 3
  MaxHead = 3
  MaxFaults = 0
  MaxCrashes = 0
CHECK_DEADLOCK FALSE
INVARIANT UnstakeClosesLatestStake
