----------------------------- MODULE MCBlockScan -----------------------------
(* Three logs: two of a registered account, one of them alone in its block, *)
(* and one, in the other's block, of an account that has no wallet yet.     *)
EXTENDS BlockScan, TLC

CONSTANTS a1, a2, l1, l2, l3

MCLogs == {l1, l2, l3}
MCOwnerOf == l1 :> a1 @@ l2 :> a1 @@ l3 :> a2
MCBlockOf == l1 :> 1 @@ l2 :> 2 @@ l3 :> 2

\* For the temporal properties: two logs in one block, of which the watcher
\* may see one and write the row that hides the other, and two in different
\* blocks, the later first.
TwoLogs == {l1, l2}
TwoOwnerOf == l1 :> a1 @@ l2 :> a1
SameBlockOf == l1 :> 2 @@ l2 :> 2
LateBlockOf == l1 :> 3 @@ l2 :> 2

RunSymmetry == Permutations(Runs)
=============================================================================
