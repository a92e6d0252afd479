----------------------- MODULE LiquidationListProofs -----------------------
(***************************************************************************)
(* Proofs about WalletMetrics and about LiquidationList, which extends it: *)
(* for any table of wallets, any positions, any collateral assets and any  *)
(* number of refreshers, moves, starts and failed calls.                   *)
(*                                                                         *)
(* ColumnsWereTrue is not inductive by itself: a column is written from    *)
(* what a refresher read steps ago.  MetricsInv adds that such a value is  *)
(* a figure of the very wallet whose job is at hand (ReadFigures).         *)
(*                                                                         *)
(* EntriesTrue is what makes ListedWasTrue inductive: the entries put      *)
(* together so far have health factors of their wallets and no debt yet,   *)
(* one entry per wallet, and stay true because had only grows.             *)
(***************************************************************************)
EXTENDS LiquidationList, TLAPS

FrameType == [jobs : Seq(Job), stage : Stage, value : Nat]

DebtFigures(w) == {p.debt : p \in had[w]}

HealthFigures(w) == UNION {{p.health, CappedAt(p.health)} : p \in had[w]}

Figures(job) == IF job.metric = "debt" THEN DebtFigures(job.wallet) ELSE HealthFigures(job.wallet)

HoldsFigure(frame) ==
    frame.jobs # <<>> /\ frame.stage = "write" => frame.value \in Figures(Head(frame.jobs))

\* The history has the position of now.
HadNow == \A w \in Wallets : chain[w] \in had[w]

ReadFigures == \A r \in Refreshers : HoldsFigure(run[r])

MetricsInv == MetricsTypeOK /\ HadNow /\ ReadFigures /\ ColumnsWereTrue

-----------------------------------------------------------------------------
\* A fresh frame is typed and holds no figure.
LEMMA FrameTyped ==
    ASSUME NEW jobs \in Seq(Job)
    PROVE  Frame(jobs) \in FrameType /\ Frame(jobs).stage # "write"
BY DEF Frame, FirstStage, FrameType, Stage

LEMMA IdleTyped == Idle \in FrameType /\ Idle.stage # "write"
<1>1. <<>> \in Seq(Job)
      OBVIOUS
<1> QED BY <1>1, FrameTyped DEF Idle

LEMMA TailTyped ==
    ASSUME NEW r \in Refreshers, MetricsTypeOK, run[r].jobs # <<>>
    PROVE  Frame(Tail(run[r].jobs)) \in FrameType /\ Frame(Tail(run[r].jobs)).stage # "write"
<1>1. Tail(run[r].jobs) \in Seq(Job)
      BY DEF MetricsTypeOK
<1> QED BY <1>1, FrameTyped

\* One job per wallet of a list, for each of the three metrics.
LEMMA JobsTyped ==
    ASSUME NEW metric \in {"health", "capped", "debt"}, NEW order \in Seq(Wallets)
    PROVE  Jobs(metric, order) \in Seq(Job)
<1>1. DOMAIN order = 1 .. Len(order) /\ Len(order) \in Nat
      OBVIOUS
<1>2. \A i \in 1 .. Len(order) : [metric |-> metric, wallet |-> order[i]] \in Job
      BY DEF Job
<1> QED BY <1>1, <1>2 DEF Jobs

LEMMA PositionTyped ==
    ASSUME MetricsTypeOK, NEW w \in Wallets
    PROVE  chain[w] \in Positions /\ chain[w].debt \in Nat /\ chain[w].health \in Nat
BY MetricsAssumption DEF MetricsTypeOK, MetricsAssumption

LEMMA CapTyped == ASSUME NEW n \in Nat PROVE CappedAt(n) \in Nat
BY MetricsAssumption DEF CappedAt, MetricsAssumption

\* What a job reads is a figure its wallet has.
LEMMA AnswerIsFigure ==
    ASSUME MetricsTypeOK, HadNow, NEW job \in Job
    PROVE  AnswerOf(job) \in Nat /\ AnswerOf(job) \in Figures(job)
<1>1. job.wallet \in Wallets /\ job.metric \in {"health", "capped", "debt"}
      BY DEF Job
<1>2. chain[job.wallet] \in had[job.wallet]
      BY <1>1 DEF HadNow
<1>3. CASE job.metric = "debt"
      BY <1>1, <1>2, <1>3, PositionTyped DEF AnswerOf, Figures, DebtFigures
<1>4. CASE job.metric = "capped"
  <2>1. AnswerOf(job) = CappedAt(chain[job.wallet].health)
        BY <1>4 DEF AnswerOf
  <2>2. CappedAt(chain[job.wallet].health) \in HealthFigures(job.wallet)
        BY <1>2 DEF HealthFigures
  <2> QED BY <1>1, <1>4, <2>1, <2>2, PositionTyped, CapTyped DEF Figures
<1>5. CASE job.metric = "health"
  <2>1. AnswerOf(job) = chain[job.wallet].health
        BY <1>5 DEF AnswerOf
  <2>2. chain[job.wallet].health \in HealthFigures(job.wallet)
        BY <1>2 DEF HealthFigures
  <2> QED BY <1>1, <1>5, <2>1, <2>2, PositionTyped DEF Figures
<1> QED BY <1>1, <1>3, <1>4, <1>5

LEMMA InitMetrics == MetricsInit => MetricsInv
<1> SUFFICES ASSUME MetricsInit
             PROVE  MetricsInv
    OBVIOUS
<1> USE MetricsAssumption DEF MetricsInit
<1>1. run \in [Refreshers -> FrameType] /\ \A r \in Refreshers : run[r] = Idle
      BY IdleTyped
<1>2. MetricsTypeOK
      BY <1>1 DEF MetricsTypeOK, FrameType, MetricsAssumption
<1>3. HadNow
      BY DEF HadNow
<1>4. ReadFigures
      BY <1>1, IdleTyped DEF ReadFigures, HoldsFigure
<1>5. ColumnsWereTrue
      BY DEF ColumnsWereTrue
<1> QED BY <1>2, <1>3, <1>4, <1>5 DEF MetricsInv

-----------------------------------------------------------------------------
\* A step that moves one refresher and leaves the columns true.
LEMMA RunStep ==
    ASSUME MetricsInv, NEW r \in Refreshers, NEW frame \in FrameType, HoldsFigure(frame),
           run' = [run EXCEPT ![r] = frame], UNCHANGED <<chain, had>>,
           column' \in [Wallets -> [debt : Nat, health : Nat]], ColumnsWereTrue',
           moves' \in Nat, starts' \in Nat, faults' \in Nat
    PROVE  MetricsInv'
<1>1. run \in [Refreshers -> FrameType] /\ run' \in [Refreshers -> FrameType]
      BY DEF MetricsInv, MetricsTypeOK, FrameType
<1>2. MetricsTypeOK'
      BY <1>1 DEF MetricsInv, MetricsTypeOK, FrameType
<1>3. HadNow'
      BY DEF MetricsInv, HadNow
<1>4. ReadFigures'
  <2>1. \A job : Figures(job)' = Figures(job)
        BY DEF Figures, DebtFigures, HealthFigures
  <2>2. \A q \in Refreshers : HoldsFigure(run'[q])
        BY <1>1 DEF MetricsInv, ReadFigures
  <2> QED BY <2>1, <2>2 DEF ReadFigures, HoldsFigure
<1> QED BY <1>2, <1>3, <1>4 DEF MetricsInv

\* A step that moves one refresher, and neither the chain nor a column.
LEMMA FrameStep ==
    ASSUME MetricsInv, NEW r \in Refreshers, NEW frame \in FrameType, HoldsFigure(frame),
           run' = [run EXCEPT ![r] = frame], UNCHANGED <<chain, column, had>>,
           moves' \in Nat, starts' \in Nat, faults' \in Nat
    PROVE  MetricsInv'
<1>1. column' \in [Wallets -> [debt : Nat, health : Nat]] /\ ColumnsWereTrue'
      BY DEF MetricsInv, MetricsTypeOK, ColumnsWereTrue
<1> QED BY <1>1, RunStep

\* A refresher that begins: by a handler, a request or a cron.
LEMMA StartStep ==
    ASSUME MetricsInv, NEW r \in Refreshers, NEW jobs \in Seq(Job), Start(r, jobs),
           UNCHANGED <<chain, column, had, moves, faults>>, starts' \in Nat
    PROVE  MetricsInv'
<1>1. HoldsFigure(Frame(jobs)) /\ Frame(jobs) \in FrameType
      BY FrameTyped DEF HoldsFigure
<1>2. run' = [run EXCEPT ![r] = Frame(jobs)]
      BY DEF Start
<1> QED BY <1>1, <1>2, FrameStep DEF MetricsInv, MetricsTypeOK

\* A position changes: the wallet has had it from now on.
LEMMA MoveStep ==
    ASSUME MetricsInv, NEW w \in Wallets, Move(w)
    PROVE  MetricsInv'
<1>1. PICK p \in Positions : /\ chain' = [chain EXCEPT ![w] = p]
                             /\ had' = [had EXCEPT ![w] = @ \cup {p}]
      BY DEF Move
<1>2. UNCHANGED <<column, run, starts, faults>> /\ moves' = moves + 1
      BY DEF Move
<1>3. chain \in [Wallets -> Positions] /\ had \in [Wallets -> SUBSET Positions]
      BY DEF MetricsInv, MetricsTypeOK
<1>4. \A v \in Wallets : had[v] \subseteq had'[v] /\ had'[v] \subseteq Positions
      BY <1>1, <1>3
<1>5. MetricsTypeOK'
  <2>1. chain' \in [Wallets -> Positions] /\ had' \in [Wallets -> SUBSET Positions]
        BY <1>1, <1>3
  <2> QED BY <1>2, <2>1 DEF MetricsInv, MetricsTypeOK
<1>6. HadNow'
      BY <1>1, <1>3 DEF MetricsInv, HadNow
<1>7. \A v \in Wallets : DebtFigures(v) \subseteq DebtFigures(v)' /\ HealthFigures(v) \subseteq HealthFigures(v)'
      BY <1>4 DEF DebtFigures, HealthFigures
<1>8. ColumnsWereTrue'
      BY <1>2, <1>4 DEF MetricsInv, ColumnsWereTrue
<1>9. ReadFigures'
  <2> SUFFICES ASSUME NEW r \in Refreshers, run[r].jobs # <<>>, run[r].stage = "write"
               PROVE  run[r].value \in Figures(Head(run[r].jobs))'
      BY <1>2 DEF ReadFigures, HoldsFigure
  <2>1. Head(run[r].jobs) \in Job
        BY DEF MetricsInv, MetricsTypeOK
  <2>2. run[r].value \in Figures(Head(run[r].jobs))
        BY DEF MetricsInv, ReadFigures, HoldsFigure
  <2>3. Head(run[r].jobs).wallet \in Wallets
        BY <2>1 DEF Job
  <2> QED BY <1>2, <1>7, <2>2, <2>3 DEF Figures
<1> QED BY <1>5, <1>6, <1>8, <1>9 DEF MetricsInv

\* A job asks for the debt, is given up, or ends the loop.
LEMMA IdleStep ==
    ASSUME MetricsInv, NEW r \in Refreshers, AskDebt(r) \/ JobFails(r) \/ LookupRejects(r)
    PROVE  MetricsInv'
<1>0. MetricsTypeOK /\ run[r] \in FrameType
      BY DEF MetricsInv, MetricsTypeOK, FrameType
<1>1. /\ UNCHANGED <<chain, column, had>>
      /\ moves' \in Nat /\ starts' \in Nat /\ faults' \in Nat
      BY <1>0 DEF AskDebt, JobFails, LookupRejects, Fault, MetricsTypeOK
<1>2. run[r].jobs # <<>>
      BY DEF AskDebt, JobFails, LookupRejects, At
<1>3. CASE NextJob(r)
  <2>1. HoldsFigure(Frame(Tail(run[r].jobs))) /\ Frame(Tail(run[r].jobs)) \in FrameType
        BY <1>0, <1>2, TailTyped DEF HoldsFigure
  <2>2. run' = [run EXCEPT ![r] = Frame(Tail(run[r].jobs))]
        BY <1>3 DEF NextJob
  <2> QED BY <1>1, <2>1, <2>2, FrameStep
<1>4. CASE run' = [run EXCEPT ![r].stage = "read"]
  <2>1. [run[r] EXCEPT !.stage = "read"] \in FrameType
        BY <1>0 DEF FrameType, Stage
  <2>2. HoldsFigure([run[r] EXCEPT !.stage = "read"])
        BY <1>0 DEF HoldsFigure, FrameType
  <2>3. run' = [run EXCEPT ![r] = [run[r] EXCEPT !.stage = "read"]]
        BY <1>4
  <2> QED BY <1>1, <2>1, <2>2, <2>3, FrameStep
<1>5. CASE run' = [run EXCEPT ![r] = Idle]
  <2>1. HoldsFigure(Idle)
        BY IdleTyped DEF HoldsFigure
  <2> QED BY <1>1, <1>5, <2>1, IdleTyped, FrameStep
<1> QED BY <1>3, <1>4, <1>5 DEF AskDebt, JobFails, LookupRejects

LEMMA ReadStep ==
    ASSUME MetricsInv, NEW r \in Refreshers, ReadChain(r)
    PROVE  MetricsInv'
<1> DEFINE job == Head(run[r].jobs)
           frame == [run[r] EXCEPT !.stage = "write", !.value = AnswerOf(job)]
<1>0. MetricsTypeOK /\ HadNow /\ run[r] \in FrameType /\ run[r].jobs # <<>>
      BY DEF MetricsInv, MetricsTypeOK, FrameType, ReadChain, At
<1>1. job \in Job
      BY <1>0 DEF FrameType
<1>2. AnswerOf(job) \in Nat /\ AnswerOf(job) \in Figures(job)
      BY <1>0, <1>1, AnswerIsFigure
<1>3. frame \in FrameType /\ frame.jobs = run[r].jobs /\ frame.value = AnswerOf(job)
      BY <1>0, <1>2 DEF FrameType, Stage
<1>4. HoldsFigure(frame)
      BY <1>2, <1>3 DEF HoldsFigure
<1>5. run' = [run EXCEPT ![r] = frame]
      BY DEF ReadChain, JobOf
<1>6. UNCHANGED <<chain, column, had, moves, starts, faults>>
      BY DEF ReadChain
<1> QED BY <1>0, <1>3, <1>4, <1>5, <1>6, FrameStep DEF MetricsTypeOK

\* The UPDATE: the figure the refresher holds goes to the wallet it is of, or
\* nowhere.
LEMMA WriteStep ==
    ASSUME MetricsInv, NEW r \in Refreshers, WriteColumn(r)
    PROVE  MetricsInv'
<1> DEFINE job == Head(run[r].jobs)
           w == job.wallet
           value == run[r].value
<1>0. /\ MetricsTypeOK /\ ColumnsWereTrue
      /\ run[r] \in FrameType /\ run[r].jobs # <<>> /\ run[r].stage = "write"
      /\ column \in [Wallets -> [debt : Nat, health : Nat]]
      BY DEF MetricsInv, MetricsTypeOK, FrameType, WriteColumn, At
<1>1. job \in Job /\ w \in Wallets /\ job.metric \in {"health", "capped", "debt"} /\ value \in Nat
  <2>1. job \in Job /\ value \in Nat
        BY <1>0 DEF FrameType
  <2> QED BY <2>1 DEF Job
<1>2. value \in Figures(job)
      BY <1>0 DEF MetricsInv, ReadFigures, HoldsFigure
<1>3. UNCHANGED <<chain, had, moves, starts, faults>> /\ NextJob(r)
      BY DEF WriteColumn
<1>4. HoldsFigure(Frame(Tail(run[r].jobs))) /\ Frame(Tail(run[r].jobs)) \in FrameType
      BY <1>0, TailTyped DEF HoldsFigure
<1>5. run' = [run EXCEPT ![r] = Frame(Tail(run[r].jobs))]
      BY <1>3 DEF NextJob
<1>6. column' \in [Wallets -> [debt : Nat, health : Nat]] /\ ColumnsWereTrue'
  <2>1. CASE column' = column
        BY <1>0, <1>3, <2>1 DEF ColumnsWereTrue
  <2>2. CASE job.metric = "debt" /\ column' # column
    <3>1. column' = [column EXCEPT ![w].debt = value]
          BY <2>2 DEF WriteColumn, ColumnOf, JobOf
    <3>2. /\ \A v \in Wallets \ {w} : column'[v] = column[v]
          /\ column'[w].debt = value /\ column'[w].health = column[w].health
          /\ column' \in [Wallets -> [debt : Nat, health : Nat]]
          BY <1>0, <1>1, <3>1
    <3>3. value \in {p.debt : p \in had[w]}
          BY <1>2, <2>2 DEF Figures, DebtFigures
    <3> QED BY <1>0, <1>1, <1>3, <3>2, <3>3 DEF ColumnsWereTrue
  <2>3. CASE job.metric # "debt" /\ column' # column
    <3>1. column' = [column EXCEPT ![w].health = value]
          BY <2>3 DEF WriteColumn, ColumnOf, JobOf
    <3>2. /\ \A v \in Wallets \ {w} : column'[v] = column[v]
          /\ column'[w].health = value /\ column'[w].debt = column[w].debt
          /\ column' \in [Wallets -> [debt : Nat, health : Nat]]
          BY <1>0, <1>1, <3>1
    <3>3. value \in UNION {{p.health, CappedAt(p.health)} : p \in had[w]}
          BY <1>2, <2>3 DEF Figures, HealthFigures
    <3> QED BY <1>0, <1>1, <1>3, <3>2, <3>3 DEF ColumnsWereTrue
  <2> QED BY <2>1, <2>2, <2>3
<1> QED BY <1>0, <1>3, <1>4, <1>5, <1>6, RunStep DEF MetricsTypeOK

\* Handlers, requests and crons: each begins with jobs of the right type.
LEMMA BeginStep ==
    ASSUME MetricsInv,
           \/ \E r \in Workers, w \in Wallets : HandleTransfer(r, w) \/ HandleLoan(r, w)
           \/ \E r \in Workers, v, w \in Wallets : v # w /\ HandleLiquidation(r, v, w)
           \/ \E r \in Workers : GetUpdateHealth(r) \/ GetUpdateUsdcDebt(r)
           \/ HealthCron \/ DebtCron
    PROVE  MetricsInv'
<1>0. starts \in Nat /\ (starts + 1) \in Nat
      BY DEF MetricsInv, MetricsTypeOK
<1>1. Jobs("health", Table) \in Seq(Job) /\ Jobs("debt", Table) \in Seq(Job)
      BY MetricsAssumption, JobsTyped DEF MetricsAssumption
<1>2. ASSUME NEW r \in Refreshers, updateHealthFactor(r) \/ updateUsdcDebtByTransaction(r), starts' \in Nat
      PROVE  MetricsInv'
      BY <1>1, <1>2, StartStep DEF updateHealthFactor, updateUsdcDebtByTransaction
<1>3. ASSUME NEW r \in Workers, GetUpdateHealth(r) \/ GetUpdateUsdcDebt(r)
      PROVE  MetricsInv'
  <2>1. r \in Refreshers /\ starts' \in Nat
        BY <1>0, <1>3 DEF Refreshers, GetUpdateHealth, GetUpdateUsdcDebt, BySpare
  <2> QED BY <1>2, <1>3, <2>1 DEF GetUpdateHealth, GetUpdateUsdcDebt
<1>4. CASE HealthCron \/ DebtCron
  <2>1. {"healthCron", "debtCron"} \subseteq Refreshers /\ starts' \in Nat
        BY <1>0, <1>4 DEF Refreshers, HealthCron, DebtCron
  <2> QED BY <1>2, <1>4, <2>1 DEF HealthCron, DebtCron
<1>5. ASSUME NEW r \in Workers, NEW w \in Wallets, HandleTransfer(r, w) \/ HandleLoan(r, w)
      PROVE  MetricsInv'
  <2>1. <<w>> \in Seq(Wallets)
        OBVIOUS
  <2>2. Jobs("capped", <<w>>) \in Seq(Job) /\ Jobs("debt", <<w>>) \in Seq(Job)
        BY <2>1, JobsTyped
  <2>3. Jobs("capped", <<w>>) \o Jobs("debt", <<w>>) \in Seq(Job)
        BY <2>2
  <2>4. r \in Refreshers /\ starts' \in Nat
        BY <1>0, <1>5 DEF Refreshers, HandleTransfer, HandleLoan, BySpare
  <2> QED BY <1>5, <2>2, <2>3, <2>4, StartStep DEF HandleTransfer, HandleLoan
<1>6. ASSUME NEW r \in Workers, NEW v \in Wallets, NEW w \in Wallets, HandleLiquidation(r, v, w)
      PROVE  MetricsInv'
  <2>1. <<v, w>> \in Seq(Wallets)
        OBVIOUS
  <2>2. Jobs("capped", <<v, w>>) \in Seq(Job) /\ Jobs("debt", <<v, w>>) \in Seq(Job)
        BY <2>1, JobsTyped
  <2>3. Jobs("capped", <<v, w>>) \o Jobs("debt", <<v, w>>) \in Seq(Job)
        BY <2>2
  <2>4. r \in Refreshers /\ starts' \in Nat
        BY <1>0, <1>6 DEF Refreshers, HandleLiquidation, BySpare
  <2> QED BY <1>6, <2>3, <2>4, StartStep DEF HandleLiquidation
<1> QED BY <1>3, <1>4, <1>5, <1>6

LEMMA MetricsStep == MetricsInv /\ [MetricsNext]_metricVars => MetricsInv'
<1> SUFFICES ASSUME MetricsInv, [MetricsNext]_metricVars
             PROVE  MetricsInv'
    OBVIOUS
<1>1. CASE UNCHANGED metricVars
      BY <1>1 DEF metricVars, MetricsInv, MetricsTypeOK, HadNow, ReadFigures, HoldsFigure, Figures,
                  DebtFigures, HealthFigures, ColumnsWereTrue
<1>2. CASE \E w \in Wallets : Move(w)
      BY <1>2, MoveStep
<1>3. CASE \E r \in Refreshers : RefreshStep(r) \/ JobFails(r) \/ LookupRejects(r)
      BY <1>3, IdleStep, ReadStep, WriteStep DEF RefreshStep
<1> QED BY <1>1, <1>2, <1>3, BeginStep DEF MetricsNext

LEMMA MetricsInvHolds == MetricsSpec => []MetricsInv
BY InitMetrics, MetricsStep, PTL DEF MetricsSpec

\* Type correctness of the columns and of every refresher, however many run.
THEOREM MetricsTypes == MetricsSpec => []MetricsTypeOK
<1>1. MetricsInv => MetricsTypeOK
      BY DEF MetricsInv
<1> QED BY MetricsInvHolds, <1>1, PTL

\* For any number of wallets and of handlers, requests and crons that
\* interleave and fail: a wallet's usdcDebt and healthFactor are figures the
\* lending pool gave for this wallet, or still the column's default.
THEOREM ColumnsWereTrueHolds == MetricsSpec => []ColumnsWereTrue
<1>1. MetricsInv => ColumnsWereTrue
      BY DEF MetricsInv
<1> QED BY MetricsInvHolds, <1>1, PTL

-----------------------------------------------------------------------------
(* The answer of the liquidation list.                                      *)

Entry == [wallet : Wallets, healthFactor : Nat, usdcDebt : {0}]

HealthShown(w) == {0} \cup HealthFigures(w)

PendingOK == page \in Nat /\ pending \in Seq(Range(Assets)) \cup {NoRequest}

EntriesTrue ==
    /\ walletData \subseteq Entry
    /\ \A e \in walletData : e.healthFactor \in HealthShown(e.wallet)
    /\ \A e, f \in walletData : e.wallet = f.wallet => e = f

ListInv == MetricsInv /\ PendingOK /\ EntriesTrue

-----------------------------------------------------------------------------
LEMMA InitList == ListInit => ListInv
BY InitMetrics DEF ListInit, ListInv, PendingOK, EntriesTrue

\* The history never loses a position.
LEMMA HadGrows ==
    ASSUME MetricsInv, [MetricsNext]_metricVars
    PROVE  \A w \in Wallets : had[w] \subseteq had'[w]
<1>0. had \in [Wallets -> SUBSET Positions]
      BY DEF MetricsInv, MetricsTypeOK
<1>1. ASSUME NEW w \in Wallets, Move(w)
      PROVE  \A v \in Wallets : had[v] \subseteq had'[v]
      BY <1>0, <1>1 DEF Move
<1>2. CASE \E r \in Refreshers : RefreshStep(r) \/ JobFails(r) \/ LookupRejects(r)
      BY <1>2 DEF RefreshStep, AskDebt, ReadChain, WriteColumn, JobFails, LookupRejects
<1>3. ASSUME NEW r \in Workers, NEW v \in Wallets, NEW w \in Wallets,
             HandleTransfer(r, w) \/ HandleLoan(r, w) \/ HandleLiquidation(r, v, w)
      PROVE  had' = had
      BY <1>3 DEF HandleTransfer, HandleLoan, HandleLiquidation
<1>4. ASSUME NEW r, updateHealthFactor(r) \/ updateUsdcDebtByTransaction(r)
      PROVE  had' = had
      BY <1>4 DEF updateHealthFactor, updateUsdcDebtByTransaction
<1>5. CASE UNCHANGED metricVars
      BY <1>5 DEF metricVars
<1> QED BY <1>1, <1>2, <1>3, <1>4, <1>5
        DEF MetricsNext, GetUpdateHealth, GetUpdateUsdcDebt, HealthCron, DebtCron

LEMMA EntriesStay ==
    ASSUME EntriesTrue, walletData' \subseteq walletData, \A w \in Wallets : had[w] \subseteq had'[w]
    PROVE  EntriesTrue'
BY DEF EntriesTrue, Entry, HealthShown, HealthFigures

\* An entry that a query of collateral makes.
LEMMA NewEntry ==
    ASSUME MetricsInv, NEW w \in Wallets
    PROVE  /\ initializeWallet(w) \in Entry
           /\ initializeWallet(w).wallet = w
           /\ initializeWallet(w).healthFactor \in HealthShown(w)
BY DEF MetricsInv, MetricsTypeOK, ColumnsWereTrue, initializeWallet, Entry, HealthShown, HealthFigures

LEMMA PopulateStep ==
    ASSUME ListInv, PopulateCollateral
    PROVE  ListInv'
<1> USE DEF ListInv
<1>1. pending \in Seq(Range(Assets)) /\ pending # <<>> /\ pending' = Tail(pending) /\ page' = page
      BY DEF PopulateCollateral, PendingOK
<1>2. RowsOf[Head(pending)] \subseteq Wallets
      BY <1>1, ListAssumption DEF ListAssumption
<1>3. MetricsInv'
      BY MetricsStep DEF PopulateCollateral, metricVars
<1>4. had' = had
      BY DEF PopulateCollateral, metricVars
<1>5. walletData' = walletData \cup {initializeWallet(w) : w \in RowsOf[Head(pending)] \ Known(walletData)}
      BY DEF PopulateCollateral, SkipTake
<1>6. EntriesTrue'
  <2>1. walletData' \subseteq Entry
        BY <1>2, <1>5, NewEntry DEF EntriesTrue
  <2>2. \A e \in walletData' : e.healthFactor \in HealthShown(e.wallet)'
        BY <1>2, <1>4, <1>5, NewEntry DEF EntriesTrue, HealthShown, HealthFigures
  <2>3. ASSUME NEW e \in walletData', NEW f \in walletData', e.wallet = f.wallet
        PROVE  e = f
    <3>1. CASE e \in walletData /\ f \in walletData
          BY <2>3, <3>1 DEF EntriesTrue
    <3>2. ASSUME NEW d \in walletData' \ walletData
          PROVE  d.wallet \notin Known(walletData) /\ d = initializeWallet(d.wallet)
          BY <1>2, <1>5, <3>2, NewEntry
    <3> QED BY <2>3, <3>1, <3>2 DEF Known
  <2> QED BY <2>1, <2>2, <2>3 DEF EntriesTrue
<1> QED BY <1>1, <1>3, <1>6 DEF PendingOK

LEMMA ListStep == ListInv /\ [ListNext]_listVars => ListInv'
<1> SUFFICES ASSUME ListInv, [ListNext]_listVars
             PROVE  ListInv'
    OBVIOUS
<1> USE DEF ListInv
<1>1. CASE [MetricsNext]_metricVars /\ UNCHANGED <<page, pending, walletData>>
  <2>1. MetricsInv'
        BY <1>1, MetricsStep
  <2>2. EntriesTrue'
        BY <1>1, HadGrows, EntriesStay
  <2> QED BY <1>1, <2>1, <2>2 DEF PendingOK
<1>2. CASE GetLiquidations \/ Respond
  <2>1. UNCHANGED metricVars /\ walletData' = {}
        BY <1>2 DEF GetLiquidations, Respond
  <2>2. pending' \in Seq(Range(Assets)) \cup {NoRequest}
        BY <1>2, ListAssumption DEF GetLiquidations, Respond, ListAssumption
  <2>4. page' \in Nat
    <3>1. CASE GetLiquidations
          BY <3>1, ListAssumption DEF GetLiquidations, ListAssumption
    <3>2. CASE Respond
          BY <3>2 DEF Respond
    <3> QED BY <1>2, <3>1, <3>2
  <2>3. MetricsInv'
        BY <2>1, MetricsStep
  <2> QED BY <2>1, <2>2, <2>3, <2>4 DEF PendingOK, EntriesTrue
<1>3. CASE RequestFails
  <2>1. /\ UNCHANGED <<chain, column, run, had, moves, starts>> /\ faults' = faults + 1
        /\ walletData' = {} /\ pending' = NoRequest /\ page' = 0
        BY <1>3 DEF RequestFails, Fault
  <2>2. MetricsInv'
    <3>1. MetricsTypeOK'
          BY <2>1 DEF MetricsInv, MetricsTypeOK
    <3>2. HadNow' /\ ColumnsWereTrue'
          BY <2>1 DEF MetricsInv, HadNow, ColumnsWereTrue
    <3>3. \A job : Figures(job)' = Figures(job)
          BY <2>1 DEF Figures, DebtFigures, HealthFigures
    <3>4. ReadFigures'
          BY <2>1, <3>3 DEF MetricsInv, ReadFigures, HoldsFigure
    <3> QED BY <3>1, <3>2, <3>4 DEF MetricsInv
  <2> QED BY <2>1, <2>2 DEF PendingOK, EntriesTrue
<1>4. CASE UNCHANGED listVars
      BY <1>1, <1>4 DEF listVars, metricVars
<1> QED BY <1>1, <1>2, <1>3, <1>4, PopulateStep DEF ListNext

-----------------------------------------------------------------------------
\* Where an entry of the answer comes from.
LEMMA AnswerEntry ==
    ASSUME ListInv, NEW e \in Answer(walletData)
    PROVE  /\ e.wallet \in Wallets
           /\ e.usdcDebt = column[e.wallet].debt /\ e.usdcDebt > 0
           /\ \/ \E d \in walletData : d.wallet = e.wallet /\ d.healthFactor = e.healthFactor
                                       /\ e = [d EXCEPT !.usdcDebt = column[e.wallet].debt]
              \/ /\ e.wallet \notin Known(walletData)
                 /\ e = [initializeWallet(e.wallet) EXCEPT !.usdcDebt = column[e.wallet].debt]
<1>0. e \in WithDebt(walletData) /\ e.usdcDebt > 0
      BY DEF Answer
<1>1. Owing \subseteq Wallets /\ walletData \subseteq Entry
      BY ListAssumption DEF ListAssumption, Owing, SkipTake, ListInv, EntriesTrue
<1>2. CASE \E d \in walletData :
               e = IF d.wallet \in Owing THEN [d EXCEPT !.usdcDebt = column[d.wallet].debt] ELSE d
  <2>1. PICK d \in walletData :
               e = IF d.wallet \in Owing THEN [d EXCEPT !.usdcDebt = column[d.wallet].debt] ELSE d
        BY <1>2
  <2>2. d \in Entry
        BY <1>1
  <2>3. d.wallet \in Owing
        BY <1>0, <2>1, <2>2 DEF Entry
  <2>4. e = [d EXCEPT !.usdcDebt = column[d.wallet].debt]
        BY <2>1, <2>3
  <2>5. e.wallet = d.wallet /\ e.healthFactor = d.healthFactor /\ e.usdcDebt = column[d.wallet].debt
        BY <2>2, <2>4 DEF Entry
  <2> QED BY <1>0, <1>1, <2>3, <2>4, <2>5
<1>3. CASE \E w \in Owing \ Known(walletData) :
               e = [initializeWallet(w) EXCEPT !.usdcDebt = column[w].debt]
  <2>1. PICK w \in Owing \ Known(walletData) :
               e = [initializeWallet(w) EXCEPT !.usdcDebt = column[w].debt]
        BY <1>3
  <2>2. e.wallet = w /\ e.usdcDebt = column[w].debt
        BY <2>1 DEF initializeWallet
  <2> QED BY <1>0, <1>1, <2>1, <2>2
<1> QED BY <1>0, <1>2, <1>3 DEF WithDebt

LEMMA AnswerTrue == ListInv => AnswerWasTrue
<1> SUFFICES ASSUME ListInv, NEW e \in Answer(walletData)
             PROVE  /\ \E p \in had[e.wallet] : p.debt > 0 /\ p.debt = e.usdcDebt
                    /\ e.healthFactor \in HealthShown(e.wallet)
                    /\ \A f \in Answer(walletData) : f.wallet = e.wallet => f = e
    BY DEF AnswerWasTrue, HealthShown, HealthFigures
<1>0. e.wallet \in Wallets /\ e.usdcDebt = column[e.wallet].debt /\ e.usdcDebt > 0
      BY AnswerEntry
<1>1. \E p \in had[e.wallet] : p.debt > 0 /\ p.debt = e.usdcDebt
  <2>1. column[e.wallet].debt \in {0} \cup {p.debt : p \in had[e.wallet]}
        BY <1>0 DEF ListInv, MetricsInv, ColumnsWereTrue
  <2> QED BY <1>0, <2>1
<1>2. e.healthFactor \in HealthShown(e.wallet)
  <2>1. CASE \E d \in walletData : d.wallet = e.wallet /\ d.healthFactor = e.healthFactor
        BY <2>1 DEF ListInv, EntriesTrue
  <2>2. CASE e = [initializeWallet(e.wallet) EXCEPT !.usdcDebt = column[e.wallet].debt]
    <3>1. e.healthFactor = initializeWallet(e.wallet).healthFactor
          BY <2>2 DEF initializeWallet
    <3> QED BY <1>0, <3>1, NewEntry DEF ListInv
  <2> QED BY <2>1, <2>2, AnswerEntry
<1>3. ASSUME NEW f \in Answer(walletData), f.wallet = e.wallet
      PROVE  f = e
  <2>1. CASE e.wallet \in Known(walletData)
    <3>1. PICK d \in walletData : d.wallet = e.wallet /\ e = [d EXCEPT !.usdcDebt = column[e.wallet].debt]
          BY <2>1, AnswerEntry
    <3>2. PICK c \in walletData : c.wallet = f.wallet /\ f = [c EXCEPT !.usdcDebt = column[f.wallet].debt]
          BY <1>3, <2>1, AnswerEntry
    <3>3. c = d
          BY <1>3, <3>1, <3>2 DEF ListInv, EntriesTrue
    <3> QED BY <1>3, <3>1, <3>2, <3>3
  <2>2. CASE e.wallet \notin Known(walletData)
        BY <1>3, <2>2, AnswerEntry DEF Known
  <2> QED BY <2>1, <2>2
<1> QED BY <1>1, <1>2, <1>3

LEMMA ListInvHolds == ListSpec => []ListInv
BY InitList, ListStep, PTL DEF ListSpec

\* The columns stay true also while requests read them: what WalletMetrics
\* promises holds of the composed system.
THEOREM ColumnsWereTrueUnderRequests == ListSpec => [](MetricsTypeOK /\ ColumnsWereTrue)
<1>1. ListInv => MetricsTypeOK /\ ColumnsWereTrue
      BY DEF ListInv, MetricsInv
<1> QED BY ListInvHolds, <1>1, PTL

\* For any wallets and assets, whatever is written between the queries: the
\* list shows a wallet once, with a debt it had and a health factor it had.
THEOREM ListedWasTrueHolds == ListSpec => ListedWasTrue
BY ListInvHolds, AnswerTrue, PTL DEF ListedWasTrue
=============================================================================
