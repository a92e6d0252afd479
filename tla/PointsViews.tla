---------------------------- MODULE PointsViews ----------------------------
(***************************************************************************)
(* The views wallet_points_detailed, wallet_current_staking_boost and      *)
(* points_leaderboard, for the rows of one wallet: every window of the SQL *)
(* is partitioned by wallet.                                               *)
(*                                                                         *)
(* A view is a function of the stored rows and of now(), so the views are  *)
(* operators.  The state is the table as it grows: time passes, and a row  *)
(* is stored at any time after its block, by the watcher, by the hourly    *)
(* checker or by the sync of a restart.  Time is counted in weeks (the     *)
(* locks of the code are 2, 4 and 8 weeks); a boost is a percentage, and   *)
(* points are per dollar and week, times 100.                              *)
(***************************************************************************)
EXTENDS Integers, Sequences, FiniteSetsExt, SequencesExt, Functions

CONSTANTS
    ProgramStart, ProgramEnd,   \* the two timestamps of the view
    MinLending,                 \* dollars to lend before anything is earned (85)
    Times,                      \* the weeks of the blocks, and of the views
    Amounts,                    \* dollars of a loan operation
    StakeAmounts,               \* GLOOP of a stake or an unstake
    Locks,                      \* lock durations a stake may name
    Interest,                   \* what a full repayment adds to the recorded debt
    MaxLoanRows, MaxStakeRows,  \* bounds: rows of each table
    MaxRows                     \* bound: rows of both

ASSUME PointsAssumption ==
    /\ ProgramStart \in Nat /\ ProgramEnd \in Nat /\ ProgramStart < ProgramEnd
    /\ MinLending \in Nat \ {0} /\ Interest \in Nat
    /\ Times \subseteq Nat /\ Locks \subseteq Nat
    /\ Amounts \subseteq Nat \ {0} /\ StakeAmounts \subseteq Nat \ {0}
    /\ MaxLoanRows \in Nat /\ MaxStakeRows \in Nat /\ MaxRows \in Nat

VARIABLES
    now,   \* the database's NOW()
    rows   \* the wallet's rows of each table, by block time, then by id

pointsVars == <<now, rows>>

Null == -1

Transaction == [event : {"Deposit", "Withdraw", "Borrow", "Repay"},
                token : {"USDC", "other"}, amount : Nat \ {0}, time : Nat]

StakingEvent == [event : {"STAKE", "UNSTAKE"}, amount : Nat \ {0}, lock : Nat, time : Nat]

-----------------------------------------------------------------------------
(* What a row adds to each balance; only USDC counts as lent or borrowed.   *)
LendingDelta(r) ==
    IF r.token = "USDC" /\ r.event = "Deposit" THEN r.amount
    ELSE IF r.token = "USDC" /\ r.event = "Withdraw" THEN -r.amount ELSE 0

BorrowingDelta(r) ==
    IF r.token = "USDC" /\ r.event = "Borrow" THEN r.amount
    ELSE IF r.token = "USDC" /\ r.event = "Repay" THEN -r.amount ELSE 0

StakingDelta(r) ==
    IF r.event = "STAKE" THEN r.amount ELSE IF r.event = "UNSTAKE" THEN -r.amount ELSE 0

\* The sum of a delta over the rows of a table that satisfy a condition.
SumIf(delta(_), table, cond(_)) ==
    SumFunction([i \in {j \in DOMAIN table : cond(table[j])} |-> delta(table[i])])

SumUpto(delta(_), table, t) == SumIf(delta, table, LAMBDA r : r.time <= t)

IsStake(r) == r.event = "STAKE"

LockedStake(r) == IsStake(r) /\ r.lock > 0

Clamped(n) == Max({n, 0})

EffectiveEnd(t) == Min({t, ProgramEnd})

-----------------------------------------------------------------------------
(* wallet_points_detailed: the timeline.                                    *)

\* The type column orders the entries of one moment as text.
Rank(type) == CASE type = "INITIAL" -> 0 [] type = "LOCK_EXPIRY" -> 1
                [] type = "STAKING" -> 2 [] type = "TRANSACTION" -> 3

Before(e, f) ==
    \/ e.at < f.at
    \/ e.at = f.at /\ Rank(e.type) < Rank(f.type)
    \/ e.at = f.at /\ e.type = f.type /\ e.src < f.src

\* ORDER BY "blockTimestamp" DESC LIMIT 1 over the stakes before the program.
InitialStakes(hist) ==
    {i \in DOMAIN hist.stakes : IsStake(hist.stakes[i]) /\ hist.stakes[i].time < ProgramStart}

InitialEntry(hist) ==
    LET old(r) == r.time < ProgramStart
        one(field(_)) == IF InitialStakes(hist) = {} THEN Null
                         ELSE field(hist.stakes[Max(InitialStakes(hist))])
    IN  [at |-> ProgramStart, type |-> "INITIAL", src |-> 0,
         lending |-> SumIf(LendingDelta, hist.loans, old),
         borrowing |-> SumIf(BorrowingDelta, hist.loans, old),
         staking |-> SumIf(StakingDelta, hist.stakes, old),
         lock |-> one(LAMBDA r : r.lock), start |-> one(LAMBDA r : r.time)]

InProgram(r) == ProgramStart <= r.time /\ r.time < ProgramEnd

TransactionEntries(hist) ==
    {LET r == hist.loans[i]
     IN  [at |-> r.time, type |-> "TRANSACTION", src |-> i, lending |-> LendingDelta(r),
          borrowing |-> BorrowingDelta(r), staking |-> 0, lock |-> Null, start |-> Null] :
        i \in {j \in DOMAIN hist.loans : hist.loans[j].token = "USDC" /\ InProgram(hist.loans[j])}}

StakingEntries(hist) ==
    {LET r == hist.stakes[i]
     IN  [at |-> r.time, type |-> "STAKING", src |-> i, lending |-> 0, borrowing |-> 0,
          staking |-> StakingDelta(r), lock |-> IF IsStake(r) THEN r.lock ELSE Null,
          start |-> IF IsStake(r) THEN r.time ELSE Null] :
        i \in {j \in DOMAIN hist.stakes : InProgram(hist.stakes[j])}}

ExpiryAt(r) == r.time + r.lock

\* The view without the synthetic entries.
NoExpiryEntries(hist, t) == {}

ExpiryEntries(hist, t) ==
    {LET r == hist.stakes[i]
     IN  [at |-> ExpiryAt(r), type |-> "LOCK_EXPIRY", src |-> i, lending |-> 0,
          borrowing |-> 0, staking |-> 0, lock |-> 0, start |-> r.time] :
        i \in {j \in DOMAIN hist.stakes :
                   /\ LockedStake(hist.stakes[j])
                   /\ ProgramStart <= ExpiryAt(hist.stakes[j])
                   /\ ExpiryAt(hist.stakes[j]) < EffectiveEnd(t)}}

Timeline(hist, t) ==
    {InitialEntry(hist)} \cup TransactionEntries(hist)
        \cup StakingEntries(hist) \cup ExpiryEntries(hist, t)

(* The windows ORDER BY event_time, event_type, source_id: the rows up to   *)
(* an entry, a sum over them, the last value that is not null, and LEAD.    *)
UpTo(line, e) == {f \in line : f = e \/ Before(f, e)}

RunningSum(field(_), line, e) == SumFunction([f \in UpTo(line, e) |-> field(f)])

\* SUM(...) OVER without the GREATEST around it.
BorrowingUnclamped(line, e) == RunningSum(LAMBDA f : f.borrowing, line, e)

BorrowingBalance(line, e) == Clamped(RunningSum(LAMBDA f : f.borrowing, line, e))

LastKnown(field(_), line, e) ==
    LET known == {f \in UpTo(line, e) : field(f) # Null}
    IN  IF known = {} THEN Null
        ELSE field(CHOOSE f \in known : \A g \in known : g = f \/ Before(g, f))

get_staking_boost_multiplier(lock) ==
    IF lock >= 8 THEN 100 ELSE IF lock >= 4 THEN 50 ELSE IF lock >= 2 THEN 25 ELSE 10

PeriodBoost(staked, lending, lock, start, at) ==
    IF staked <= 0 \/ lending < MinLending THEN 0
    ELSE IF lock \in {Null, 0} \/ start = Null \/ start + lock < at THEN 10
    ELSE get_staking_boost_multiplier(lock)

\* The last entry opens a period up to the program's end: points to come.
PeriodEndProjected(line, e, t) == Min({ProgramEnd} \cup {f.at : f \in {g \in line : Before(e, g)}})

\* LEAD partitioned by the type of the entry: periods run past each other.
PeriodEndOfType(line, e, t) ==
    Min({EffectiveEnd(t)} \cup {f.at : f \in {g \in line : Before(e, g) /\ g.type = e.type}})

PeriodEnd(line, e, t) ==
    Min({EffectiveEnd(t)} \cup {f.at : f \in {g \in line : Before(e, g)}})

Period(line, e, t) ==
    LET lending == RunningSum(LAMBDA f : f.lending, line, e)
        staked == RunningSum(LAMBDA f : f.staking, line, e)
    IN  [from |-> e.at, to |-> PeriodEnd(line, e, t),
         lending |-> lending, borrowing |-> BorrowingBalance(line, e), staked |-> staked,
         boost |-> PeriodBoost(staked, lending, LastKnown(LAMBDA f : f.lock, line, e),
                               LastKnown(LAMBDA f : f.start, line, e), e.at)]

wallet_points_detailed(hist, t) ==
    LET line == Timeline(hist, t)
    IN  {p \in {Period(line, e, t) : e \in line} : p.from < EffectiveEnd(t) /\ p.from < p.to}

Earns(p) == p.lending >= MinLending

LendingPoints(p) ==
    IF Earns(p) THEN (p.to - p.from) * (200 * p.lending + 2 * Min({p.staked, p.lending}) * p.boost)
    ELSE 0

BorrowingPoints(p) ==
    IF Earns(p) THEN (p.to - p.from) * (100 * p.borrowing + Min({p.staked, p.borrowing}) * p.boost)
    ELSE 0

total_period_points(p) == LendingPoints(p) + BorrowingPoints(p)

-----------------------------------------------------------------------------
(* wallet_current_staking_boost and points_leaderboard.                     *)

\* The newest STAKE; of two in one block the one with the lower id.
NewestStake(stakes) ==
    {i \in DOMAIN stakes : /\ IsStake(stakes[i])
                           /\ \A j \in DOMAIN stakes : IsStake(stakes[j]) =>
                                  \/ stakes[j].time < stakes[i].time
                                  \/ stakes[j].time = stakes[i].time /\ i <= j}

\* The position of the newest STAKE itself, whatever came after it.
PositionIgnored(stakes, i) == 1

\* From the newest row back to row i, a STAKE counts 1 and an UNSTAKE -1.
running_position(stakes, i) ==
    LET newer == {j \in DOMAIN stakes : \/ stakes[j].time > stakes[i].time
                                        \/ stakes[j].time = stakes[i].time /\ j <= i}
    IN  SumFunction([j \in newer |-> IF IsStake(stakes[j]) THEN 1 ELSE -1])

current_staking_boost(stakes, t) ==
    LET active == {i \in NewestStake(stakes) : running_position(stakes, i) = 1}
    IN  IF active = {} THEN 0
        ELSE LET r == stakes[CHOOSE i \in active : TRUE]
             IN  IF ExpiryAt(r) < t THEN 10 ELSE get_staking_boost_multiplier(r.lock)

SumOver(points(_), hist, t) ==
    SumFunction([p \in wallet_points_detailed(hist, t) |-> Clamped(points(p))])

total_points(hist, t) == SumOver(total_period_points, hist, t)
total_lending_points(hist, t) == SumOver(LendingPoints, hist, t)
total_borrowing_points(hist, t) == SumOver(BorrowingPoints, hist, t)

\* DISTINCT ON (wallet_id) ... ORDER BY period_end DESC
current_states(hist, t) ==
    {p \in wallet_points_detailed(hist, t) :
        \A q \in wallet_points_detailed(hist, t) : q.to <= p.to}

-----------------------------------------------------------------------------
(* The tables as they fill.  A row is stored after its block, how long      *)
(* after is not bounded, and rows of other blocks may be stored first or    *)
(* still be missing.  So no row depends on the rows that are there: every   *)
(* set of rows is what has arrived so far of some history the contracts     *)
(* allow (a Withdraw before its Deposit, two stakes without the unstake     *)
(* between them).                                                           *)

PointsInit == now = 0 /\ rows = [loans |-> <<>>, stakes |-> <<>>]

TimePasses == (\E t \in Times : t > now /\ now' = t) /\ UNCHANGED rows

Room(table, max) == Len(table) < max /\ Len(rows.loans) + Len(rows.stakes) < MaxRows

\* Place p of a table is one for a row of time t.  The id of a row is a random
\* uuid: it falls anywhere among the rows of its time.
PlaceOf(table, t, p) ==
    /\ \A i \in 1 .. p - 1 : table[i].time <= t
    /\ \A i \in p .. Len(table) : t <= table[i].time

StoreLoan(event, token, amount) ==
    /\ Room(rows.loans, MaxLoanRows)
    /\ \E t \in Times, p \in 1 .. Len(rows.loans) + 1 :
           /\ t <= now /\ PlaceOf(rows.loans, t, p)
           /\ rows' = [rows EXCEPT !.loans =
                          InsertAt(@, p, [event |-> event, token |-> token,
                                          amount |-> amount, time |-> t])]
    /\ UNCHANGED now

StoreStake(event, amount, lock) ==
    /\ Room(rows.stakes, MaxStakeRows)
    /\ \E t \in Times, p \in 1 .. Len(rows.stakes) + 1 :
           /\ t <= now /\ PlaceOf(rows.stakes, t, p)
           /\ rows' = [rows EXCEPT !.stakes =
                          InsertAt(@, p, [event |-> event, amount |-> amount,
                                          lock |-> lock, time |-> t])]
    /\ UNCHANGED now

Deposit == \E a \in Amounts : StoreLoan("Deposit", "USDC", a)

DepositCollateral == \E a \in Amounts : StoreLoan("Deposit", "other", a)

Withdraw == \E a \in Amounts : StoreLoan("Withdraw", "USDC", a)

Borrow == \E a \in Amounts : StoreLoan("Borrow", "USDC", a)

\* The interest of a repayment is in no Borrow.
Repay == \E a \in Amounts : StoreLoan("Repay", "USDC", a + Interest)

Stake == \E a \in StakeAmounts, lock \in Locks : StoreStake("STAKE", a, lock)

Unstake == \E a \in StakeAmounts : StoreStake("UNSTAKE", a, 0)

PointsNext ==
    \/ TimePasses
    \/ Deposit \/ DepositCollateral \/ Withdraw \/ Borrow \/ Repay
    \/ Stake \/ Unstake

PointsSpec == PointsInit /\ [][PointsNext]_pointsVars

-----------------------------------------------------------------------------
(* The rule of the GM points program as README.md:61-70 states it, week by  *)
(* week: two points per dollar lent and one per dollar borrowed, boosted up *)
(* to the lesser of the stake and the balance.                              *)

RuleBoost(stakes, week) ==
    LET running == {i \in DOMAIN stakes : /\ LockedStake(stakes[i]) /\ stakes[i].time <= week
                                          /\ week < ExpiryAt(stakes[i])}
    IN  IF running = {} THEN 10
        ELSE get_staking_boost_multiplier(Max({stakes[i].lock : i \in running}))

LentIn(hist, week) == Clamped(SumUpto(LendingDelta, hist.loans, week))

RuleOfWeek(hist, week) ==
    LET lent == LentIn(hist, week)
        owed == Clamped(SumUpto(BorrowingDelta, hist.loans, week))
        staked == Clamped(SumUpto(StakingDelta, hist.stakes, week))
        boost == RuleBoost(hist.stakes, week)
    IN  200 * lent + 100 * owed + 2 * Min({staked, lent}) * boost + Min({staked, owed}) * boost

Weeks(t) == ProgramStart .. EffectiveEnd(t) - 1

RuleOver(hist, weeks) == SumFunction([week \in weeks |-> RuleOfWeek(hist, week)])

\* The minimum of lending is the view's own (:185-191); README.md has none.
EarningWeeks(hist, t) == {week \in Weeks(t) : LentIn(hist, week) >= MinLending}

\* A lock was over when the next stake was made: always so, unless the owner
\* of the contract forced an unstake.
LocksDisjoint(stakes) ==
    \A i, j \in DOMAIN stakes :
        LockedStake(stakes[i]) /\ IsStake(stakes[j]) /\ stakes[i].time < stakes[j].time
            => ExpiryAt(stakes[i]) <= stakes[j].time

\* No two staking rows of one block.
StakesApart(stakes) ==
    \A i, j \in DOMAIN stakes : stakes[i].time = stakes[j].time => i = j

PlainHistory(stakes) == LocksDisjoint(stakes) /\ StakesApart(stakes)

\* No unstake is stored whose stake is still missing.
Backed(stakes) ==
    \A n \in DOMAIN stakes :
        SumFunction([i \in 1 .. n |-> StakingDelta(stakes[i])]) >= 0

AllRows(r) == TRUE

Staked == SumIf(StakingDelta, rows.stakes, AllRows)

\* The newest staking row.
EndsWithUnstake(stakes) == stakes # <<>> /\ Last(stakes).event = "UNSTAKE"

\* What is stored of the blocks before t.
RowsBefore(table, t) == Restrict(table, {i \in DOMAIN table : table[i].time < t})

Settled(hist, t) ==
    [loans |-> RowsBefore(hist.loans, t), stakes |-> RowsBefore(hist.stakes, t)]

-----------------------------------------------------------------------------
\* The periods of wallet_points_detailed tile the program up to now: no week is
\* paid twice or not at all, whatever entries share a moment and however many
\* locks expire, and nothing is paid outside the program or in the future.
PeriodsTile ==
    LET periods == wallet_points_detailed(rows, now)
    IN  /\ \A p \in periods : ProgramStart <= p.from /\ p.to <= EffectiveEnd(now)
        /\ \A week \in Weeks(now) :
               Cardinality({p \in periods : p.from <= week /\ week < p.to}) = 1

\* The view's total is what the rule of README.md gives over the weeks in which
\* the wallet lends enough, for every history without two staking rows in one
\* block and without a stake inside the lock of an earlier one.
PointsFollowRule ==
    PlainHistory(rows.stakes) =>
        total_points(rows, now) = RuleOver(rows, EarningWeeks(rows, now))

\* README.md:61-70 as it stands: every week counts.
PointsFollowReadme ==
    PlainHistory(rows.stakes) => total_points(rows, now) = RuleOver(rows, Weeks(now))

\* The columns of the leaderboard add up: each is clamped and summed by
\* itself, and no period has a negative part that the clamps would hide.
TotalIsSum ==
    total_points(rows, now) = total_lending_points(rows, now) + total_borrowing_points(rows, now)

\* points_leaderboard shows two boosts, computed by two views in two ways.
\* While the program runs and the wallet earns, they agree, unless an unstake
\* is stored before its stake, or the last staking row is an unstake of a part
\* (the second view then shows none).
CurrentBoostsAgree ==
    now <= ProgramEnd /\ PlainHistory(rows.stakes) /\ Backed(rows.stakes) =>
        \A p \in current_states(rows, now) :
            \/ ~Earns(p)
            \/ p.staked # Staked     \* a row of this very week, in no period yet
            \/ p.staked > 0 /\ EndsWithUnstake(rows.stakes)
            \/ p.boost = current_staking_boost(rows.stakes, now)

PastStays ==
    /\ now' > now => total_points(rows', now') >= total_points(rows, now)
    /\ \A t \in Times :
           /\ t <= now
           /\ Settled(rows', EffectiveEnd(t)) = Settled(rows, EffectiveEnd(t))
           => total_points(rows', t) = total_points(rows, t)

\* Time alone takes no points away, and a row stored late rewrites nothing of
\* the time up to its block: the total up to a moment changes only with a row
\* of a block before it, and never with one of a block after the program.
\* What such a row changes later is no error: it is what was missing.
PastPointsStay == [][PastStays]_pointsVars
=============================================================================
