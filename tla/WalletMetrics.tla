--------------------------- MODULE WalletMetrics ---------------------------
(***************************************************************************)
(* The two metric columns of wallets, usdcDebt and healthFactor, and those *)
(* who refresh them: the handlers of lending events, two crons that run    *)
(* every ten minutes, and GET requests that start the same two loops.      *)
(*                                                                         *)
(* Every refresher is a list of jobs done one after the other; a job reads *)
(* the chain and then writes a column.  Nothing orders one refresher's     *)
(* read and write against those of another.  The lookup of a wallet by its *)
(* address finds the row the handler ensured, whose id never changes, and  *)
(* is a step of its own only where it fails.                               *)
(***************************************************************************)
EXTENDS Naturals, Sequences, SequencesExt

CONSTANTS
    Table,        \* the wallets, in the order a query without ORDER BY lists them
    Positions,    \* what the lending pool may say of an account
    StartChain,   \* what it says of each wallet when the server starts
    Cap,          \* the bound of updateHealthFactorByTransaction (1e9)
    Limit,        \* the largest number healthFactor holds (18 digits)
    Workers,      \* event handlers and GET requests under way
    MaxMoves,     \* bound: changes on the chain
    MaxStarts,    \* bound: handlers and requests started
    MaxFaults     \* bound: failed calls

Wallets == Range(Table)

ASSUME MetricsAssumption ==
    /\ Table \in Seq(Wallets)
    /\ StartChain \in [Wallets -> Positions]
    /\ Positions \subseteq [debt : Nat, health : Nat]
    /\ Cap \in Nat /\ Limit \in Nat /\ Cap <= Limit
    /\ MaxMoves \in Nat /\ MaxStarts \in Nat /\ MaxFaults \in Nat
    /\ {"healthCron", "debtCron"} \cap Workers = {}

VARIABLES
    chain,     \* per wallet, its position in the lending pool
    column,    \* per wallet, its usdcDebt and healthFactor
    run,       \* per refresher, its jobs and how far the first one is
    had,       \* history: the positions a wallet has had
    moves, starts, faults

metricVars == <<chain, column, run, had, moves, starts, faults>>

Refreshers == Workers \cup {"healthCron", "debtCron"}

\* "health" is the loop of the cron: it asks for the debt first, and does not
\* cap; "capped" is updateHealthFactorByTransaction.
Job == [metric : {"health", "capped", "debt"}, wallet : Wallets]

Stage == {"ask", "read", "write"}

FirstStage(jobs) == IF jobs # <<>> /\ Head(jobs).metric = "health" THEN "ask" ELSE "read"

Frame(jobs) == [jobs |-> jobs, stage |-> FirstStage(jobs), value |-> 0]

Idle == Frame(<<>>)

Jobs(metric, order) == [i \in DOMAIN order |-> [metric |-> metric, wallet |-> order[i]]]

\* A factor beyond the cap as an overflow leaves it.
CappedAtWrapped(n) == IF n > Cap THEN Cap - n ELSE n

CappedAt(n) == IF n > Cap THEN Cap ELSE n

MetricsInit ==
    /\ chain = StartChain
    /\ column = [w \in Wallets |-> [debt |-> 0, health |-> 0]]
    /\ run = [r \in Refreshers |-> Idle]
    /\ had = [w \in Wallets |-> {chain[w]}]
    /\ moves = 0 /\ starts = 0 /\ faults = 0

\* A loan, a repayment, interest or a price changes a position.
Move(w) ==
    /\ moves < MaxMoves
    /\ \E p \in Positions \ {chain[w]} :
           /\ chain' = [chain EXCEPT ![w] = p]
           /\ had' = [had EXCEPT ![w] = @ \cup {p}]
    /\ moves' = moves + 1
    /\ UNCHANGED <<column, run, starts, faults>>

-----------------------------------------------------------------------------
Start(r, jobs) ==
    /\ run[r] = Idle
    /\ run' = [run EXCEPT ![r] = Frame(jobs)]

BySpare(r) == starts < MaxStarts /\ starts' = starts + 1

\* handleEvent of a live or replayed event, as far as it refreshes.
HandleTransfer(r, w) ==
    /\ BySpare(r)
    /\ Start(r, Jobs("capped", <<w>>))
    /\ UNCHANGED <<chain, column, had, moves, faults>>

HandleLoan(r, w) ==
    /\ BySpare(r)
    /\ Start(r, Jobs("capped", <<w>>) \o Jobs("debt", <<w>>))
    /\ UNCHANGED <<chain, column, had, moves, faults>>

HandleLiquidation(r, liquidated, liquidator) ==
    /\ BySpare(r)
    /\ Start(r, Jobs("capped", <<liquidated, liquidator>>)
                    \o Jobs("debt", <<liquidated, liquidator>>))
    /\ UNCHANGED <<chain, column, had, moves, faults>>

\* The loops over all wallets.
updateHealthFactor(r) ==
    /\ Start(r, Jobs("health", Table))
    /\ UNCHANGED <<chain, column, had, moves, faults>>

updateUsdcDebtByTransaction(r) ==
    /\ Start(r, Jobs("debt", Table))
    /\ UNCHANGED <<chain, column, had, moves, faults>>

GetUpdateHealth(r) == BySpare(r) /\ updateHealthFactor(r)
GetUpdateUsdcDebt(r) == BySpare(r) /\ updateUsdcDebtByTransaction(r)

HealthCron == updateHealthFactor("healthCron") /\ UNCHANGED starts
DebtCron == updateUsdcDebtByTransaction("debtCron") /\ UNCHANGED starts

-----------------------------------------------------------------------------
JobOf(r) == Head(run[r].jobs)

At(r, stage) == run[r].jobs # <<>> /\ run[r].stage = stage

NextJob(r) == run' = [run EXCEPT ![r] = Frame(Tail(@.jobs))]

\* if (debt <= 0) continue
AskDebt(r) ==
    /\ At(r, "ask")
    /\ IF chain[JobOf(r).wallet].debt = 0 THEN NextJob(r)
       ELSE run' = [run EXCEPT ![r].stage = "read"]
    /\ UNCHANGED <<chain, column, had, moves, starts, faults>>

AnswerOf(job) ==
    CASE job.metric = "debt" -> chain[job.wallet].debt
      [] job.metric = "capped" -> CappedAt(chain[job.wallet].health)
      [] job.metric = "health" -> chain[job.wallet].health

ReadChain(r) ==
    /\ At(r, "read")
    /\ run' = [run EXCEPT ![r].stage = "write", ![r].value = AnswerOf(JobOf(r))]
    /\ UNCHANGED <<chain, column, had, moves, starts, faults>>

ColumnOf(job) == IF job.metric = "debt" THEN "debt" ELSE "health"

\* The UPDATE without its WHERE clause.
WriteColumnEverywhere(r) ==
    /\ At(r, "write")
    /\ column' = [w \in Wallets |-> [column[w] EXCEPT ![ColumnOf(JobOf(r))] = run[r].value]]
    /\ NextJob(r)
    /\ UNCHANGED <<chain, had, moves, starts, faults>>

\* A refused UPDATE that ends the loop.
WriteColumnOrStop(r) ==
    /\ At(r, "write")
    /\ IF ColumnOf(JobOf(r)) = "health" /\ run[r].value > Limit
       THEN column' = column /\ run' = [run EXCEPT ![r] = Idle]
       ELSE /\ column' = [column EXCEPT ![JobOf(r).wallet][ColumnOf(JobOf(r))] = run[r].value]
            /\ NextJob(r)
    /\ UNCHANGED <<chain, had, moves, starts, faults>>

\* A health factor the column cannot hold is refused, and the loop goes on;
\* usdcDebt is text.
WriteColumn(r) ==
    /\ At(r, "write")
    /\ column' = IF ColumnOf(JobOf(r)) = "health" /\ run[r].value > Limit THEN column
                 ELSE [column EXCEPT ![JobOf(r).wallet][ColumnOf(JobOf(r))] = run[r].value]
    /\ NextJob(r)
    /\ UNCHANGED <<chain, had, moves, starts, faults>>

Fault == faults < MaxFaults /\ faults' = faults + 1

\* A call inside the try of a job fails: the job is given up.
JobFails(r) ==
    /\ run[r].jobs # <<>>
    /\ Fault
    /\ NextJob(r)
    /\ UNCHANGED <<chain, column, had, moves, starts>>

\* getWalletByAddress stands outside the try of the debt refreshes: the
\* rejection ends the handler or the loop.
LookupRejects(r) ==
    /\ At(r, "read")
    /\ JobOf(r).metric = "debt"
    /\ Fault
    /\ run' = [run EXCEPT ![r] = Idle]
    /\ UNCHANGED <<chain, column, had, moves, starts>>

RefreshStep(r) == AskDebt(r) \/ ReadChain(r) \/ WriteColumn(r)

MetricsNext ==
    \/ \E w \in Wallets : Move(w)
    \/ \E r \in Workers, w \in Wallets : HandleTransfer(r, w) \/ HandleLoan(r, w)
    \/ \E r \in Workers, v, w \in Wallets : v # w /\ HandleLiquidation(r, v, w)
    \/ \E r \in Workers : GetUpdateHealth(r) \/ GetUpdateUsdcDebt(r)
    \/ HealthCron \/ DebtCron
    \/ \E r \in Refreshers : RefreshStep(r) \/ JobFails(r) \/ LookupRejects(r)

\* The crons start when their time comes, and every awaited call answers.
MetricsFairness ==
    /\ WF_metricVars(HealthCron) /\ WF_metricVars(DebtCron)
    /\ \A r \in Refreshers : WF_metricVars(RefreshStep(r))

MetricsSpec == MetricsInit /\ [][MetricsNext]_metricVars /\ MetricsFairness

-----------------------------------------------------------------------------
MetricsTypeOK ==
    /\ chain \in [Wallets -> Positions]
    /\ column \in [Wallets -> [debt : Nat, health : Nat]]
    /\ run \in [Refreshers -> [jobs : Seq(Job), stage : Stage, value : Nat]]
    /\ had \in [Wallets -> SUBSET Positions]
    /\ moves \in Nat /\ starts \in Nat /\ faults \in Nat

\* What the columns show was true of this very wallet at some time (or is the
\* column's default): however refreshers overlap, fail and go on, no wallet
\* gets the figure of another.
ColumnsWereTrue ==
    \A w \in Wallets :
        /\ column[w].debt \in {0} \cup {p.debt : p \in had[w]}
        /\ column[w].health \in {0} \cup UNION {{p.health, CappedAt(p.health)} : p \in had[w]}

\* The columns settle: when the chain rests, the last refresh to finish may
\* have read an old debt or health factor, but the next cron puts it right,
\* and for good; the health factor that of a borrower, if it fits the column.
ColumnsSettle ==
    \A w \in Wallets :
        <>[](/\ column[w].debt = chain[w].debt
             /\ chain[w].debt > 0 /\ chain[w].health <= Limit
                   => column[w].health \in {chain[w].health, CappedAt(chain[w].health)})
=============================================================================
