-------------------------- MODULE MCStakingEvents --------------------------
(* Instances of StakingEvents for TLC. *)
EXTENDS StakingEvents

CONSTANTS t1, t2, t3, alice, bob

Log(tx, user, event, block) == [tx |-> tx, user |-> user, event |-> event, block |-> block]

(* Two stakers: a stake of the past, and one that is closed within its      *)
(* block, which is mined while the server runs.                             *)
TwoStakers == <<Log(t1, bob, "Staked", 1), Log(t2, alice, "Staked", 2),
                Log(t3, alice, "Unstaked", 2)>>

(* Two periods of one staker.                                               *)
TwoPeriods == <<Log(t1, alice, "Staked", 1), Log(t2, alice, "Unstaked", 2),
                Log(t3, alice, "Staked", 3)>>
=============================================================================
