---------------------------- MODULE MCAuthTokens ----------------------------
(* Up to three rows of one account (three spellings), or two of one and one *)
(* of another; one row of each history table.  The columns: a wallet that   *)
(* never staked has the better points, one that stakes the fewer.           *)
EXTENDS AuthTokens, TLC

CONSTANTS i1, i2, i3

MCCreatedAt == i1 :> 1 @@ i2 :> 2 @@ i3 :> 3
MCLegacyColumns == {[points |-> 2, changed |-> 0, staking |-> FALSE],
                    [points |-> 1, changed |-> 1, staking |-> TRUE]}
AuthSymmetry == Permutations(Accounts) \cup Permutations(Variants) \cup Permutations(Workers)
=============================================================================
