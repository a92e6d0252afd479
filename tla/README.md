# A verification development for gloop-backend

gloop-backend is the NestJS server behind the Gloop lending platform. It
watches the lending pool and the staking contracts on Arbitrum, caches their
events in PostgreSQL, refreshes per-wallet metrics, and serves points,
leaderboards and liquidation lists from SQL views. Its hard part is the cache:
several asynchronous actors write the same four tables, over a chain that can
only be asked again and a database whose constraints are the only locks.

Paths below are relative to the repository. The server is one Node process:
code between two `await`s runs without interruption, and every `await` (a
query, a call to the RPC node) is a point where the other actors run. The
models take exactly these points as their steps.

## Inventory

| Component | State | Operations | Who calls it |
|---|---|---|---|
| Wallet registry (`src/app/wallet/wallet.service.ts`) | table `wallets`: an id, an address, metrics | `findOrCreateByAddress`, `create`, `findByAddress`, metric updates, the cleanup of duplicates | both watchers, the checker, the login; the cleanup by hand |
| Event watcher (`src/app/watcher/watcher.service.ts`) | a provider, a contract and its listeners | `onModuleInit`, historical sync, `handleEvent`, reconnect | the node's events, start-up |
| Transaction store (`src/app/transaction/transaction.service.ts`) | table `transactions` | `isExists`, `create` | the watcher and the checker |
| Block table (`src/app/block/block.service.ts`) | table `blocks`: a number and a mark `checkedTillHere` | `create`, `createBlocks`, `findMissingBlocks`, `markLatestBlockAsChecked`, the midnight `removeOldBlocks` | the watcher, the checker, a cron |
| Block checker (`src/app/block-checker/block-checker.service.ts`) | none of its own | hourly `checkMissingBlocks`, health factor and debt refreshes every ten minutes | crons, public GET requests, the watcher |
| Staking watcher and events (`src/app/staking-watcher`, `src/app/staking-event`) | table `staking_events` | sync, listeners, `create`, boosted points of an unstake | the node's events, start-up |
| Points views (`src/database/migrations/1758766450000-AddPointsLeaderboardViews.ts`) | none (views) | points, current boost, leaderboard | dashboard, leaderboard |
| Liquidation list and user queries (`src/app/liquidation`, `src/app/wallet/wallet.controller.ts`) | none of their own | `getLiquidations`, `getLeaderboardList`, `getUserDashboard` | requests |
| Authentication (`src/app/auth`) | the client's tokens | login, refresh, guard | requests |
| Pagination, HTTP shell, configuration, ABIs | none | paging, formatting | requests |

How they interact. `main.ts` runs the migrations, then listens; the watcher's
`onModuleInit` attaches listeners and replays about six months of events
through the same `handleEvent` the listeners use. `handleEvent` ensures the
wallets, refreshes metrics, then checks, inserts a transaction and inserts a
block row. The checker reads the `blocks` table to decide which blocks nobody
looked at, asks the chain for the events of the known wallets in them, stores
these, adds block rows and moves the mark. The midnight cleanup deletes every
block row but the marked one. The views sum what is in `transactions` per
wallet.

What is hard, and what makes each component correct:

* **Wallet registry.** Concurrent find-then-create on one account. Correct
  when an account has one row, the loser of a race gets the winner's row, and
  an ensured wallet is found again by the exact lookup the store uses.
* **Watcher and transaction store.** The same log arrives several times and
  at several workers; the check is far from the insert; either insert may
  fail, commit without an answer, or be cut off by a crash. Correct when a
  hash has one row, a row is credited to the account of its event, an
  undisturbed handler leaves its transaction recorded, and the table is, to
  its readers, an append-only ledger.
* **Block checker and block table.** Overlapping runs, a failing run whose
  tasks live on, a mark moved by two statements, a cleanup that deletes what a
  run has just written. Correct when a block row of a run means that the
  block's events are stored (the watcher's own row means less), and an event
  ahead of the cursor is stored in the end.
* **Connection.** A reconnect and subscriptions that are not awaited, answers
  that come after the provider they were asked of is gone, a sync that may
  break off. Correct when only the contract in use has listeners, and the
  start leaves no gap between sync and listeners but what is mined while a
  subscription is in flight.
* **Metrics and the list.** Read-the-chain-then-write with no order between
  refreshers, and a list put together from several queries meanwhile. Correct
  when no wallet is shown another's figures, and the columns and the list
  settle when the chain rests.
* **Cleanup and tokens.** A merge of wallets in single statements that may
  stop anywhere, and tokens that name wallets it deletes. Correct when no
  history changes its account, nothing merged is lost, a finished cleanup
  lets the migration run, and a client can always get back to its account.
* **Staking.** A row inserted first and completed by a second statement;
  boosted points computed from whatever is stored so far.
* **Views.** Pure functions of the stored rows and of `now()`, over rows that
  arrive late and in any order. Correct when they give what the published rule
  gives over the weeks that earn, pay no week twice, and a late row changes
  only what follows its block.

`PROJECT.json` lists the hazards line by line, with the properties that
would catch each.

## The modules

| Module | Models |
|---|---|
| `WalletRegistry` | table `wallets`, `findOrCreateByAddress` and its callees statement by statement, the migration of the unique index |
| `WalletCleanup` (extends `WalletRegistry`) | `cleanupDuplicateWallets` and the merge, statement by statement |
| `AuthTokens` (extends `WalletCleanup`) | login, token payload, refresh and expiry |
| `EventLedger` | abstract: what readers of `transactions` may rely on |
| `EventStore` (extends `WalletRegistry`) | `handleEvent` and the checker's `processTransactionLogs`, from delivery to the block row |
| `WatcherLifecycle` | the lending watcher's providers, subscriptions, reconnects and historical sync |
| `BlockScan` | `checkMissingBlocks`, the `blocks` table, the cleanup, and the watcher as far as it writes these tables |
| `WalletMetrics` | the columns `usdcDebt` and `healthFactor` and everything that refreshes them |
| `LiquidationList` (extends `WalletMetrics`) | `getLiquidations`, query by query |
| `StakingEvents` | the staking watcher: connection, listeners, historical sync, `handleStakingEvent`, and the table `staking_events` |
| `PointsViews` | the three SQL views and the SQL function, over the stored rows of one wallet |
| `Leaderboard` (extends `PointsViews`) | ranks, pages and the dashboard's rank |
| `WalletRegistryProofs`, `WalletCleanupProofs`, `EventStoreProofs`, `WatcherLifecycleProofs`, `BlockScanProofs`, `LiquidationListProofs`, `StakingEventsProofs`, `PointsViewsProofs` | theorems |
| `MCAuthTokens`, `MCEventStore`, `MCWatcherLifecycle`, `MCBlockScan`, `MCLiquidationList`, `MCStakingEvents`, `MCPointsViews` | instances for TLC |

**WalletRegistry.** An address is an account and a spelling; "checksum" is
what `normalizeAddress` yields, "variant" every other letter case.
`wallets` starts as any table the first schema allowed (unique on the exact
text), `schema` turns "new" when `Migrate` creates the index on
`LOWER(address)`; over two spellings of one account it cannot, and the server
does not start. `call[w]` is the program counter of worker w's
`findOrCreateByAddress`: `find`, `insert`, the refetch in `create`'s catch,
the refetch in the outer catch. Each statement may fail; an INSERT may commit
and lose its reply. The migration's UPDATE assigns each address to itself
(its comments, lines 7 and 22, say it normalises): a row that stands alone in
another spelling stays, and `findOrCreateByAddress` then rethrows for its
account for ever. `RaceNeverRethrows` excludes exactly these accounts.

**WalletCleanup.** `job` is the cleanup between two of its statements: the
UPDATE of the kept wallet's address, the two UPDATEs of the history tables,
the merge, the DELETE, then the next duplicate or the next group, as the one
query at its beginning listed them. `CleanupStops` may come at any of these
points; the next call starts from what it finds. A group of one row is not
normalised, as in the code. Two columns stand for the merged ones: `points`,
of which the greater is kept, and the staking status, of which the later one is.

**AuthTokens** adds what one client holds. A login is a `findOrCreateByAddress`
call that ends by signing a token with the wallet's id; a refresh looks that
id up. Access and refresh tokens carry the same payload.

**EventStore.** A worker is one asynchronous chain: a listener callback, the
sync, or a task of the checker. `task[w]` goes through `ensure` (twice for a
Liquidation, a Borrow and a Repay), `getBlock`, `exists`, `lookup`,
`insertTx`, `insertBlock`; the checker's tasks read the block after the check
and write no block row. `Crash` drops every task and keeps the tables.
`NullColumn` is the NOT NULL constraints on `asset` and `tokenName` against
what each path passes. Rows are abstracted to the log and the wallet id; the
health-factor and debt columns, amounts and timestamps are not in this state.

**EventLedger** has two actions: an account becomes known, and an event of a
known account, whose transaction has no entry, is entered with its own
account. `EventStore` maps `known` to the accounts with a checksum-spelled
row and `entries` to the join of the two tables.

**WatcherLifecycle.** Providers are numbered; `provider` is `this.provider`
and, as a contract is made with each, `this.contract`. `probing` holds the
providers whose `getNetwork` is in flight: when one answers, `watchOnline`
calls `contract.on` for every name on the contract that is current then. It
does not await these calls. In ethers 6 (modelled from outside, as the
library is not in the repository) `on` is asynchronous, and the first listener
of a name makes the provider send one `eth_subscribe`; `subs` is where each of
them is: not asked, in flight, answered, refused. Only an answered one
delivers. What is mined while it is in flight is delivered to nobody, and when
`getBlockNumber` has answered by then, the sync does not ask for it either
(`unheard`). A refusal ends in `main.ts`'s log of unhandled rejections: the
provider lives, nothing listens to that name, and nothing reconnects.
`reconnectProvider` does not await the initialisation it starts (line 118), so
its back-off is never reached and several may overlap; old providers are never
destroyed; `handleProviderClose` has no caller, so a socket that closes
silently is noticed by nothing. `boot` is `onModuleInit`: the awaited first
`getNetwork`, `getBlockNumber`, then per event name `queryFilter` and its logs.
A failure ends the name at hand (`SyncBreaksOff`); a failed `getBlockNumber`
leaves a process without HTTP server and crons whose listeners work, because
`main.ts` logs the rejection and goes on (`rejected`). Nothing is synced after
a reconnect. What a handler does with its event is `EventStore`.

**BlockScan.** `unchecked` and `checked` are the block numbers with a row
without and with the mark; `watched` are those whose row the watcher wrote (its
`blockHash` tells). A run is a record: while it looks for the missing
blocks, the head it read and its cursor; after that, the missing blocks, its
snapshot of the wallets, the blocks left to query or insert, and the logs its
current batch is processing. Storing one log, `EventStore`'s subject, is one
step here. The watcher appears as what it may write, in the order it writes
it: a wallet, a transaction, a block row; it may miss any event, so every
behaviour of its connection is covered. A row of the watcher stands for one
event of its block and hides the others from every later run;
`RowMeansScanned` and `CatchableIsStored` excuse exactly these rows, and no row
that a run inserted. `AbortRun` is a rejection at any
await: the tasks become `strays` and go on, as `Promise.all` lets them.

**WalletMetrics.** A refresher is the list of jobs of one handler, cron run or
GET request; a job reads the chain and then writes one column, so two
refreshers of one wallet may write in the other order than they read. The
cron's health job asks for the debt first and does not cap; the handlers cap at
1e9; a health factor beyond `numeric(18,0)` is refused (`usdcDebt` is text and
takes anything), and the loop goes on to the next wallet. A failure inside the
`try` skips a wallet, one of the lookup outside it ends the loop
(`LookupRejects`).

**LiquidationList.** A request queries the borrowers of each collateral asset,
then those of USDC, and keeps per wallet the health factor of the query that
met it first and the debt of the last one. `page` is the page it asks for.
TypeORM ignores `skip` and `take` for `getRawMany` with a join (`SkipTake`), so
every page is the whole list, which is not what the repository's README
promises: a finding. The rows of Borrow and Repay of a collateral asset do not
occur, as the pool lends USDC only.

**StakingEvents.** `tasks[l]` is the handler the listener starts for log l,
`tasks[SyncTask]` the one the sync awaits; both go through `ensure`, `exists`,
`read`, `create`, `insert` and, for a Staked, `update`. The table is a sequence
in the order of the INSERTs, which is the order of `createdAt`. Points are a
clock: the contract's answer grows by one a block, so a stored figure tells
when it was read. `sync` steps through the two event names; it runs once per
start, after the listeners are asked for. `alive` is the socket of
`this.provider`, `subs` the two subscriptions: `Initialize` opens the one and
asks for the others, which `stakingContract.on` does not wait for. Each is
answered (`Subscribed`) or refused (`SubscribeFails`), and a socket may die, or
never open, in silence (`Drop`): nothing answers either. `timers` are the
`setTimeout`s of `handleProviderError`, and of an initialisation that throws
(`ReconnectFails`, `BootFails`). When `getBlockNumber` rejects, so does
`onModuleInit`: the process stays, with its listeners and without sync and HTTP
server (`rejected`). Finding or creating the wallet, `WalletRegistry`'s
subject, is one step. A row's `period` is a history field: the code copies
figures of the STAKE row it found, not its id. Balances, locks, multipliers and
the boost formula are left out: with `totalEarnedPoints` never written, the
formula is never reached.

**PointsViews.** The views are operators over the stored rows and `now`; the
state is the two tables as they fill. A row is stored at any time after its
block, as the watcher, the hourly checker and the sync of a restart do, and in
any order: a Withdraw may be there before its Deposit, a late row may fall
between two old ones, and rows of one block are ordered by ids that are random
(`PlaceOf`). So every set of rows is reached that is part of some history. The
windows of the SQL (running sums, the last non-null value, LEAD) are written as
sets of earlier and later entries in the order of the views' ORDER BY,
including the synthetic `LOCK_EXPIRY` entries.

The reference is `RuleOfWeek`, the rule of the repository's README.md (lines
61-70), summed week by week. That rule has no minimum of lending; the view pays
nothing, for the borrowed part either, while less than $85 is lent. With every
week counted the two differ (`PointsFollowReadme`, violated, a finding); over
the weeks that reach the view's minimum (`EarningWeeks`) they are equal
(`PointsFollowRule`). Two kinds of rows are left out of that. When the owner
forces an unstake and a new lock starts inside the old one, the old lock's
expiry entry resets the new one to 10 % (`LocksDisjoint`); and two staking rows
of one block are ordered by their uuids (`StakesApart`). `PastPointsStay` says
what is final: time takes nothing away, and the total up to a moment changes
only when a row of an earlier block arrives. Then it may also fall: a Withdraw,
a Repay or an UNSTAKE that comes late lowers a total that was already shown,
also after the program's end. Other facts of the views, by design or not:
`wallet_current_staking_boost` shows 0 after an unstake of a part, where the
detailed view goes on with a boost; and interest paid back beyond the recorded
loans makes the sum negative until new loans make up for it.

**Leaderboard.** One wallet with stored rows among rivals with fixed totals.
`ORDER BY rank` does not break ties, so pages of a leaderboard with equal
totals may repeat or lose a wallet: the property is for totals without ties.

## The runs

| Run | Shows |
|---|---|
| `wallet_registry` | types, `OneRowPerAccount`, `RaceNeverRethrows`, `EnsuredIsStored`; with the cleanup `CleanupEnablesIndex`, `HistoryStays` and `MergeKeepsBest`; with a client `TokenOrLogin` |
| `event_store` | one row per hash, `CreditedToOwner`, `AlreadyEnsured`, `BlockRowBacked`, `HandledIsRecorded`, and `LedgerSpec`, the refinement of `EventLedger` |
| `liquidations_recorded` (violation) | a Liquidation's row has a null asset, which the table refuses |
| `watcher_lifecycle` | `OneContractListens`, `StartLeavesNoGap`, and `ListensAgain` (liveness) |
| `block_scan` | types, `ScanBeforeMark`, `RowMeansScanned`, with the cleanup, a failure and two runs |
| `block_scan_day` | `CatchableIsStored` (liveness) between two midnights, with two events in one block, of which the watcher may see one |
| `registered_stored` (violation) | an empty run loses the mark and the cleanup the cursor: an event of a registered wallet is never looked for |
| `liquidation_list` | types, `ColumnsWereTrue`, `ListedWasTrue`, and `ColumnsSettle` and `ListSettles` (liveness), for a request of the second page |
| `staking_events` | types, `SyncCatchesUp`, `UnstakeFromOwnStake`, `RowsKept`, and `Reconnects` and `DeliveredIsStored` (liveness), with live handlers, a crash and a failure |
| `unstake_closes_latest` (violation) | a replayed unstake is computed from a stake made after it |
| `points` | `PeriodsTile`, `PointsFollowRule`, `TotalIsSum`, `CurrentBoostsAgree`, `PagesCoverLeaderboard`, `PastPointsStay` |
| `points_readme` (violation) | a wallet that borrows and lends less than $85 gets nothing, and by the README one point per borrowed dollar |

The four violations are disagreements between the code and its documents, and
are listed with the lines under "findings" in `PROJECT.json`. So is a fifth:
`ListSettles` holds of the code for any page asked for, because every page is
the whole list, while README.md:100 promises paginated lists. Further
facts the models show and no run states:

* An event mined while its `eth_subscribe` is in flight, after `getBlockNumber`
  has answered, is in neither the sync nor the listeners. The checker finds
  it, if its account is known and its block lies after the cursor and has no row.
* A refused subscription, and a socket that closes in silence, leave a process
  that hears nothing and does not reconnect.
* Points once shown may fall when a row arrives late.
* An event whose block has a row of the watcher, for another event, is never
  looked for by the checker.
* A second event of one transaction is dropped: the hash is unique and both
  watchers look it up before they insert.
* A process that ends between the INSERT and the UPDATE of a STAKE row
  (`staking-watcher.service.ts:170`) leaves base points 0 for ever.
* A staking log replayed by the sync gets the points of the latest block
  (`PointsAt(head)` in `ReadChain`), and the points at the end of a period are
  read from `totalEarnedPoints`, a column no statement writes: what a period
  earned is never positive.
* The watcher's `calculateStakingMultiplier` returns 1 for a stake without a
  lock, where the views give 10 %.
* The cron skips a wallet without debt, so its last health factor stays in the
  column; the list's filter hides it (`ListSettles`). A new borrower whose
  health job failed is listed with 0 until the next cron.

**Bounds.** *Registry, cleanup and tokens:* two accounts in three spellings,
three ids, two workers, one row in each history table, two settings of the
columns that disagree in both. Two workers make a race (a third behaves like the
second once the first is through); three rows of one account make the merge
compare the third with the result of the second; two accounts show that they
do not disturb each other. *Store:* two watcher workers and one checker worker,
two accounts and four logs that meet every branch: two of one transaction, one
of an unknown asset in their block, a liquidation. Handlers are idempotent
rows-only writers and interact through a hash, an account or a block, so two
of a kind and one of the other cover each pair of paths. *Watcher:* four
events, one before the window, one in it, two mined while the server starts
or runs; two of the five names, so that one subscription is answered before
the other and the sync can break off at one and go on with the next; three
faults make two overlapping reconnects and a lost socket, a refused
subscription or a broken sync; five providers are enough for those and one
restart. *Scan:* two runs, three
logs, blocks 0 to 3, a batch of 2 and a chunk of 1, so that a run makes two
queries and three inserts and can be interrupted between any of them; one
failure or crash (`MaxFaults`), one chain of at most `MaxHead` blocks. The
temporal runs use two logs: in one block, so that the watcher's row for one
hides the other (`block_scan_day`), or in two (`registered_stored`). *Staking:*
`TwoStakers` has two users, so that figures can go astray, and an unstake next
to its stake, so that its handler can overtake; one failure of any kind and one
crash, so that a sync meets the live handlers and what an earlier process left.
`ReconnectFails` is not counted: a reconnect may throw any number of times.
`unstake_closes_latest` starts at the end of a finished history, so that the
sync alone shows it. *Metrics and list:* two wallets, one that may become a
borrower and one that may stop being one, four positions (no debt with a factor
no column holds, a loan, a rest so small that its factor is capped, and one so
small that the column refuses it in the middle of a loop), both crons and one
handler or GET request, one collateral asset, one change on the chain, one
failed call, and a request for the second page, which would be empty if the
queries were paged. The change may fall between any read and write, which is
what the properties are about; more changes only add other figures the wallet
had. *Points:* at most two loan rows and three staking rows, four in all, of
blocks before, at the start of, in and after a program of ten weeks, stored
then or later in any order, with locks of 2 and 8 weeks: enough for a lock that
expires between two rows, at a row, and after the end, for an unstake without
its stake, and for a balance below the minimum (a deposit that is withdrawn, or
none yet). Two rivals, one of which a single late deposit ties with, fill two
pages of two.

Deadlock is checked except in `StakingEvents`, which is at rest when all
blocks are mined and every log is handled; in `watcher_lifecycle`, where a
call that waits on a closed socket never answers; and in the runs on the
points, where time and rows run out.

**Fairness.** `Progress` of `BlockScan` asks that blocks keep coming, that the
hourly cron starts a run when the previous one it started is over
(`WF(BeginRun(CronRun))`), and that a run that is not rejected takes its next
step: the event loop and the answers of the database and the node. A rejection
is one of the bounded faults. Nothing is assumed of the watcher, of the
requests or of the cleanup. `block_scan_day` leaves the cleanup out, because
with it the property is false: that is `registered_stored`. `StakingEvents`
assumes that a timer fires and does not throw for ever, and that over a working
socket an awaited call of a handler or of the sync returns and a subscription
is answered; errors count against `MaxFaults`, and neither new blocks nor
restarts are assumed. `MetricsFairness` asks that the two crons start again
when their previous run is over (the model lets a cron overlap with every
refresher but itself) and that the awaited calls of a refresher answer; the
requests for the list need none. `LifeFairness` asks that a call on a working
socket, a subscription among them, is answered and that an ended process is
started again; that the provider emits an error, that a closed socket is
noticed and that blocks are mined is not assumed. Sets of interchangeable
accounts, spellings, workers, ids and runs are symmetric in runs without
liveness only.

## The proofs

`WalletRegistryProofs` proves the four invariants of the
registry for any accounts, ids and workers. They are not inductive by
themselves; `WalletInv` adds that ids are unique, that rows only appear, and
what each stage of a call knows (a call beyond a refused insert knows that its
account has a row).

`WalletCleanupProofs` proves the same four on what the cleanup and its failures
leave (before the migration no login or handler runs beside it, and after it
there is nothing to merge: `IdleBeforeMigration`), and with them
`CleanupEnablesIndex`, `TokenOrLogin` and the action properties `HistoryStays`
and `MergeKeepsBest`, for any number of accounts and spellings and any old
table. The cleanup reads its duplicates once and then works through that list
while it changes the tables, so the question is what that list still says about
the tables. The invariant is `CleanupInv`. Its core is `JobInv`: the job is
off, or done with a table the unique index fits, or the one `JobFor` computes
from its stage, the row it keeps and the rows and columns it still meets.
`StageOK` adds what a stage has done: the kept row has its checksum spelling
before any other is deleted, and the data of a row is merged before that row
goes. `CleanupInv` joins `WalletInv`, unique addresses, history that names
wallets that exist (`HistoryReferences`), ids that never come back once removed
(`RemovedStayAway`), and that before the migration nothing runs beside it
(`IdleBeforeMigration`). `AuthInv` joins to it what a token may still name
(`TokenInv`): a row of its account, or a removed id while a login would find
another row of that account. TLC checked `AuthInv` within the bounds of
`WalletCleanup.cfg`.

`EventStoreProofs` extends it. `StoreInv` joins `WalletInv`, the properties of
the tables and, per worker, `Knows(w, stage)`: after the ensure stage the
owner's wallet is there (and the liquidator's), at `insertTx` the id held is
that of the owner's row, at `insertBlock` the event is stored, at the refused
ends why it was refused. Tables only grow, so what one handler knows outlives
the steps of the others (`TaskKept`); each action then needs only its own
worker's new knowledge. From `StoreInv` follow all invariants of the run and
`StoreImplementsLedger`, where a wallet insert maps to `Register`, a
transaction insert to `Record`, and every other step to a stutter.

`BlockScanProofs` proves the three invariants of the scan. `ScanInv` adds
what a run in its scan owes (every visible event of a missing block is stored,
in a task or in a block left to query), that its snapshot holds the registered
accounts, and `OwedBacked`: a block row the watcher owes is one of a stored
event. `RowMeansScanned` says of a registered account's event in a block with a
row that it is stored, unless the row is the watcher's; so the proof has to
carry every row a run inserts back to the scan before it.

`StakingEventsProofs` proves the three invariants of the table and the action
property `RowsKept`. None of them is inductive. `StakingInv` adds `FrameOK`,
what a handler knows (before its INSERT an unstake's figures are those of an
earlier row of its user, or 0; before its UPDATE the row is there with base
points 0), `OneUpdate` (no two handlers have an UPDATE of one log ahead of
them, since the second INSERT was refused), and `SyncOK`: every log of the
window that was queried and is not waiting any more is stored, in the sync's
hands, or a call has failed. The steps fall into few kinds (a quiet step, the
INSERT, the UPDATE, a start), each with one lemma.

`WatcherLifecycleProofs` proves `OneContractListens` and `StartLeavesNoGap` for
any events, names, window, number of reconnects, failures and restarts.
`LifeInv` adds `Listening` (while nothing failed since the start, the
getNetwork call that `onModuleInit` awaits is the only one, and from its answer
on the current contract has a subscription in flight or answered for every
name, on a working socket), `HeardSince` (what was mined since `getBlockNumber`
answered has been handled, or was mined while its subscription was in flight),
`Passed` and `InLoop` (the names behind the sync are handled or broken off; of
the name at hand, each log of the window is handled or still in the list) and
`AtFirstName` (the sync begins with the first name). `HeardSince` is where the
order of the code matters: the subscriptions are sent before the sync asks for
the head, though not answered.

`LiquidationListProofs` first proves `ColumnsWereTrue`, of `WalletMetrics`
alone, for any number of wallets and refreshers. What a refresher writes it
read some steps ago, so `MetricsInv` adds `ReadFigures`: the value it holds at
its write is a figure of the wallet of its present job. The module then carries
this invariant through the requests and adds `EntriesTrue` (the entries so far
hold figures of their wallets, one entry each); from it follows
`ListedWasTrue`.

`PointsViewsProofs` proves everything the run `points` checks, for every
program, threshold, set of amounts and locks, and for tables of any length.
It has four layers.

* *Sums.* The views add up over finite sets, and the library's induction over
  them takes an operator the provers cannot instantiate. Each lemma on sums
  argues by a smallest counterexample instead: among the subsets that violate
  it there is one without a violating subset (`SmallestSet`, from the
  well-foundedness of the library), and taking one element out of it
  contradicts. In this way: a sum takes its elements in any order, sums add,
  compare and rename, and a sum over a partition is the sum of its parts
  (`SumOfCells`).
* *The tables.* `InsertKeepsTable`: a row put at its place leaves a table
  ordered by time, and the rows of the blocks before it what they were; with
  `StepKeeps`, every step keeps `RowsOK`. `PastPointsStay` rests on it: entries
  of the timeline up to a moment come from rows of blocks before it
  (`SettledIsSame`, `TotalIsFinal`), and time alone only adds expiry entries at
  its end, so every period stays or grows longer, with the same rate, and no
  period loses points (`TotalGrows`, `SumsCompare`).
* *The rule.* `PointsFollowRule`: the entries of a timeline are totally ordered
  (`EntriesOrdered`), each week of the program lies in one period
  (`WeekHasPeriod`, `OnePeriodPerWeek`), and in it the entries up to the
  period's are those of the weeks so far (`UpToIsSofar`), so the running sums
  are the rule's (`LentSofar`, `StakedSofar`). For the boost: both columns of
  the window come from one entry (`LastKnownLock`); if no lock runs, that entry
  knows a lock which is over (`NoLockRuns`: otherwise its expiry entry would
  come later); if one runs it is the only one, and its stake's entry is the last
  (`OwnEntryIsLast`). Both need `PlainHistory`, which the property assumes.
  `WeekFollowsRule` is the rule of one week; `PeriodsCoverWeeks` says that the
  weeks of the periods are disjoint and together those of the program so far.
  From the two, and as periods below the minimum hold the weeks that do not
  earn, follows `PointsFollowRule`; `WeekHasPeriod` and `OnePeriodPerWeek` are
  also what `PeriodsTile` is made of. `CurrentBoostsAgree` assumes
  `Backed`, no unstake without its stake, from which the last row is a STAKE
  only while something is staked (`BackedStaked`).
* *The leaderboard.* `PagesCoverLeaderboard` is arithmetic of `createMeta` and
  `calculateOffset` (`PageArithmetic`, `PageFacts`), the fold over the pages
  (`PagesGiveAll`, again by a smallest counterexample), and that without ties
  the wallets above the i-th are the i - 1 before it (`RankIsPlace`).

Assumptions: `EventAssumption`, `ScanAssumption`, `ChainAssumption`,
`BoundAssumption`, `VariantsAssumption`, `CleanupAssumption`,
`LifecycleAssumption`, `MetricsAssumption`, `ListAssumption`,
`PointsAssumption` and `LeaderboardAssumption`, which type the constants, say
that logs come in block order and that the tables are finite; TLC evaluates
them in every run that uses them.

Only model-checked: the liveness properties (`CatchableIsStored`, `Reconnects`,
`DeliveredIsStored`, `ListensAgain`, `ColumnsSettle`, `ListSettles`), which need
fairness and ENABLED, and the four violations, which are counterexamples. Every
invariant and every other action property that a passing run checks is a theorem.

## Not modelled, and the plan

* *Dead code.* `getCurrentBoostedPoints`, `getTotalBoostedPointsForWallet`,
  `handleBalanceChange` and `WalletService.remove` have no caller. The boost
  formula of `calculateBoostedPointsForUnstake` multiplies what a period
  earned, which is never positive as `totalEarnedPoints` is never written;
  nothing after its early return runs. No controller offers the query that
  `FilteringService` builds a WHERE clause for. Seeding is empty.
* *Formatting and libraries.* HTTP responses, filters, Swagger, CORS,
  configuration, the debug route of the list, and the verification of a
  signature, which asks a chain and changes nothing.
* *The contracts.* Their ABIs are data. `PointsViews` and `StakingEvents` take
  from them what the contracts refuse and what the code reads.
* *Data abstracted away.* The sums of collateral of the list, rows whose
  `blockTimestamp` is NULL (the views leave them out), the unmerged `usdcDebt`
  of the cleanup (the next cron refreshes it), and fractions of weeks and tokens.

What is left to prove is what liveness rests on and needs no fairness: that a
message in flight is not lost but by the faults the models name, for the scan,
the staking watcher and the refreshers.
