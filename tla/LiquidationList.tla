-------------------------- MODULE LiquidationList --------------------------
(***************************************************************************)
(* TransactionService.getLiquidations over the columns that WalletMetrics  *)
(* refreshes meanwhile: one query per collateral asset, then one for the   *)
(* USDC debt, put together by wallet, filtered and sorted.                 *)
(*                                                                         *)
(* A request asks for a page.  The queries say skip and take, which        *)
(* TypeORM drops from a raw query with a join (SkipTake), so that every    *)
(* page is the whole list, while the README speaks of paginated lists and  *)
(* the answer's paging counts pages.  The sums of collateral and that      *)
(* count decide nothing here and are left out, and so are the Borrow and   *)
(* Repay rows of a collateral asset, which the pool never emits: it lends  *)
(* USDC.                                                                   *)
(***************************************************************************)
EXTENDS WalletMetrics

CONSTANTS
    Assets,       \* the collateral assets, in the order they are queried
    RowsOf,       \* per asset, and for "USDC", the wallets with a row of it
    Pages         \* the pages a request may ask for

ASSUME ListAssumption ==
    /\ Assets \in Seq(Range(Assets))
    /\ "USDC" \notin Range(Assets)
    /\ RowsOf \in [Range(Assets) \cup {"USDC"} -> SUBSET Wallets]
    /\ Pages \subseteq Nat \ {0}

VARIABLES
    page,       \* the page asked for; 0 between requests
    pending,    \* the assets still to query; NoRequest between requests
    walletData  \* the entries so far, as walletData of the code

listVars == <<chain, column, run, had, moves, starts, faults, page, pending, walletData>>

NoRequest == <<"none">>

\* skip(offset).take(limit) on the rows of a query.
SkipTake(rows, asked) == rows

\* walletData as a list to which every result is appended.
KnownNever(data) == {}

Known(data) == {e.wallet : e \in data}

initializeWallet(w) == [wallet |-> w, healthFactor |-> column[w].health, usdcDebt |-> 0]

ListInit == MetricsInit /\ page = 0 /\ pending = NoRequest /\ walletData = {}

GetLiquidations ==
    /\ pending = NoRequest
    /\ page' \in Pages
    /\ pending' = Assets
    /\ walletData' = {}
    /\ UNCHANGED metricVars

\* A wallet keeps the health factor of the first query that met it.
PopulateCollateral ==
    /\ pending # NoRequest /\ pending # <<>>
    /\ walletData' = walletData \cup
           {initializeWallet(w) : w \in SkipTake(RowsOf[Head(pending)], page) \ Known(walletData)}
    /\ pending' = Tail(pending)
    /\ UNCHANGED <<metricVars, page>>

Owing == {w \in SkipTake(RowsOf["USDC"], page) : column[w].debt > 0}

\* The debt query as one that only completes the entries made before it.
WithDebtOfKnown(data) ==
    {IF e.wallet \in Owing THEN [e EXCEPT !.usdcDebt = column[e.wallet].debt] ELSE e : e \in data}

WithDebt(data) ==
    {IF e.wallet \in Owing THEN [e EXCEPT !.usdcDebt = column[e.wallet].debt] ELSE e : e \in data}
        \cup {[initializeWallet(w) EXCEPT !.usdcDebt = column[w].debt] : w \in Owing \ Known(data)}

\* The answer, before it is sorted by health factor.
Answer(data) == {e \in WithDebt(data) : e.usdcDebt > 0}

Respond ==
    /\ pending = <<>>
    /\ page' = 0
    /\ pending' = NoRequest
    /\ walletData' = {}
    /\ UNCHANGED metricVars

\* Any of the queries fails: the request ends with an error.
RequestFails ==
    /\ pending # NoRequest
    /\ Fault
    /\ page' = 0
    /\ pending' = NoRequest
    /\ walletData' = {}
    /\ UNCHANGED <<chain, column, run, had, moves, starts>>

ListNext ==
    \/ MetricsNext /\ UNCHANGED <<page, pending, walletData>>
    \/ GetLiquidations \/ PopulateCollateral \/ Respond \/ RequestFails

ListSpec == ListInit /\ [][ListNext]_listVars /\ MetricsFairness

-----------------------------------------------------------------------------
AnswerWasTrue ==
    \A e \in Answer(walletData) :
        /\ \E p \in had[e.wallet] : p.debt > 0 /\ p.debt = e.usdcDebt
        /\ e.healthFactor \in {0} \cup UNION {{p.health, CappedAt(p.health)} : p \in had[e.wallet]}
        /\ \A f \in Answer(walletData) : f.wallet = e.wallet => f = e

\* No answer shows a wallet that never borrowed, or one with another's
\* figures, and none shows a wallet twice, though its two figures come from
\* queries between which the columns change.
ListedWasTrue == [][Respond => AnswerWasTrue]_listVars

\* When the chain rests, the answer in the end names exactly the borrowers with
\* a USDC row, with their debts and, where they fit the column, their health
\* factors: that of a repaid loan, which no cron refreshes, is never shown, and
\* a refused UPDATE of one wallet leaves no other one stale.  It does so
\* whatever page was asked for: this is the code's promise and not that of
\* README.md:100, whose pages would each name some of the borrowers.
ListSettles ==
    <>[][Respond =>
           /\ {<<e.wallet, e.usdcDebt>> : e \in Answer(walletData)}
                = {<<w, chain[w].debt>> : w \in {v \in RowsOf["USDC"] : chain[v].debt > 0}}
           /\ \A e \in Answer(walletData) :
                  chain[e.wallet].health <= Limit =>
                      e.healthFactor \in {chain[e.wallet].health, CappedAt(chain[e.wallet].health)}]_listVars
=============================================================================
