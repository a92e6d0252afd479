------------------------- MODULE MCLiquidationList -------------------------
(* Two wallets: one that may become a borrower and one whose loan may be    *)
(* repaid.  A position is without debt (its health factor is beyond the     *)
(* column), a loan, or so small a rest of one that its factor is beyond the *)
(* cap, and of a still smaller one beyond the column, too: the UPDATE with  *)
(* it is refused in mid-loop.                                               *)
EXTENDS LiquidationList, TLC

NoDebt == [debt |-> 0, health |-> 9000]
Loan == [debt |-> 5, health |-> 120]
Dust == [debt |-> 2, health |-> 2000]
Speck == [debt |-> 1, health |-> 8000]

MCTable == <<"a", "b">>
MCPositions == {NoDebt, Loan, Dust, Speck}
MCStartChain == "a" :> NoDebt @@ "b" :> Loan
MCAssets == <<"BTC">>
MCRowsOf == "BTC" :> {"a"} @@ "USDC" :> {"a", "b"}
=============================================================================
