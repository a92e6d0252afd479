------------------------------ MODULE BlockScan ------------------------------
(***************************************************************************)
(* The hourly search for missed events: BlockCheckerService.               *)
(* checkMissingBlocks and the blocks table it shares with the watcher and  *)
(* with BlockService's midnight cleanup.                                   *)
(*                                                                         *)
(* A run takes the highest block marked checkedTillHere as its cursor,     *)
(* collects the blocks after it that have no row, queries the chain for    *)
(* the events of the wallets it knows, adds a row per block and moves the  *)
(* mark.  Runs overlap: one is started by the hourly cron, others by a GET *)
(* request.  Every await is a step.                                        *)
(*                                                                         *)
(* Here each log has a transaction of its own, and what a handler does to  *)
(* store it, EventStore's subject, is one step; Liquidation events, which  *)
(* no run queries, are not among the logs.                                 *)
(***************************************************************************)
EXTENDS Integers, FiniteSets

CONSTANTS
    Runs,          \* concurrent checkMissingBlocks calls
    CronRun,       \* the one the hourly cron starts; GET requests start others
    Logs,          \* Deposit, Withdraw, Borrow and Repay events
    Accounts,      \* Ethereum accounts
    Registered,    \* the accounts that have a wallet from the start
    OwnerOf,       \* log -> account
    BlockOf,       \* log -> block number
    DefaultBlock,  \* the cursor over an empty table (43666680)
    BatchSize,     \* blocks per query (10000)
    ChunkSize,     \* block rows per INSERT (500)
    MaxHead,       \* bound: the last block mined
    MaxFaults      \* bound: failures and crashes

ASSUME ScanAssumption ==
    /\ CronRun \in Runs
    /\ Registered \subseteq Accounts
    /\ OwnerOf \in [Logs -> Accounts]
    /\ DefaultBlock \in Nat /\ MaxHead \in Nat /\ MaxFaults \in Nat
    /\ BlockOf \in [Logs -> DefaultBlock + 1 .. MaxHead - 1]
    /\ BatchSize \in Nat \ {0} /\ ChunkSize \in Nat \ {0}

Blocks == DefaultBlock .. MaxHead

VARIABLES
    head,       \* the chain's latest block
    unchecked,  \* block numbers with a row that is not marked
    checked,    \* block numbers with a row marked checkedTillHere
    watched,    \* block numbers with a row the watcher wrote (its blockHash tells)
    known,      \* accounts with a wallet
    stored,     \* logs with a transactions row
    owed,       \* blocks of stored logs whose row the watcher has yet to write
    run,        \* per call, the progress of checkMissingBlocks
    strays,     \* log tasks that outlive their run
    faults      \* failures so far

vars == <<head, unchecked, checked, watched, known, stored, owed, run, strays, faults>>

rows == <<unchecked, checked, watched>>
tables == <<rows, known, stored>>

\* While the run looks for missing blocks.  latest: the block number it read
\* first.
ReadFrame == [stage : {"readChecked", "readFirst", "readExisting"},
              latest : Blocks, cursor : Blocks]

\* Once it has them.  wallets: the snapshot of getAllWallets; left: blocks to
\* query or to insert; tasks: the logs of the current batch in processing.
ScanFrame == [stage : {"readWallets", "scan", "insert", "set"},
              missing : SUBSET Blocks, wallets : SUBSET Accounts,
              left : SUBSET Blocks, tasks : SUBSET Logs]

NoRun == [stage |-> "idle"]

\* The highest and the lowest member of S, as a set: empty when S is.
Highest(S) == {b \in S : \A c \in S : c <= b}

Lowest(S) == {b \in S : \A c \in S : b <= c}

\* From Math.min to Math.max of the block numbers.
Span(S) == {n \in Blocks : \E b, c \in S : b <= n /\ n <= c}

\* The n smallest members of S: one slice of the ascending array.
FirstOf(S, n) == {b \in S : Cardinality({c \in S : c < b}) < n}

BlockRows == unchecked \cup checked

\* The RPC node's topic filter; an empty list of addresses restricts nothing.
Matches(l, wallets) == wallets = {} \/ OwnerOf[l] \in wallets

\* A query that takes the end of its range to be exclusive.
QueryFilterExclusive(batch, wallets) ==
    {l \in Logs : BlockOf[l] \in Span(batch) \ Highest(batch) /\ Matches(l, wallets)}

\* The logs of one batch, by the range of its block numbers.
QueryFilter(batch, wallets) ==
    {l \in Logs : BlockOf[l] \in Span(batch) /\ Matches(l, wallets)}

ScanInit ==
    /\ head \in Blocks
    /\ unchecked = {} /\ checked = {} /\ watched = {}
    /\ known = Registered
    /\ stored = {} /\ owed = {} /\ strays = {}
    /\ run = [r \in Runs |-> NoRun]
    /\ faults = 0

Mine ==
    /\ head < MaxHead
    /\ head' = head + 1
    /\ UNCHANGED <<tables, owed, run, strays, faults>>

(***************************************************************************)
(* The watcher: it may see any mined event, or none.                       *)
(***************************************************************************)
WatcherEnsures(l) ==
    /\ BlockOf[l] <= head
    /\ known' = known \cup {OwnerOf[l]}
    /\ UNCHANGED <<head, rows, stored, owed, run, strays, faults>>

WatcherStores(l) ==
    /\ BlockOf[l] <= head /\ OwnerOf[l] \in known
    /\ l \notin stored
    /\ stored' = stored \cup {l}
    /\ owed' = owed \cup {BlockOf[l]}
    /\ UNCHANGED <<head, rows, known, run, strays, faults>>

WatcherWritesBlock(b) ==
    /\ b \in owed
    /\ owed' = owed \ {b}
    /\ unchecked' = unchecked \cup {b}
    /\ watched' = watched \cup {b}
    /\ UNCHANGED <<head, checked, known, stored, run, strays, faults>>

(***************************************************************************)
(* checkMissingBlocks.                                                     *)
(***************************************************************************)
Becomes(r, frame) == run' = [run EXCEPT ![r] = frame]

Advance(r, stage) == Becomes(r, [run[r] EXCEPT !.stage = stage])

BeginRun(r) ==
    /\ run[r].stage = "idle"
    /\ Becomes(r, [stage |-> "readChecked", latest |-> head, cursor |-> DefaultBlock])
    /\ UNCHANGED <<head, tables, owed, strays, faults>>

CursorFound(r, b) ==
    Becomes(r, [run[r] EXCEPT !.stage = "readExisting", !.cursor = b])

FindChecked(r) ==
    /\ run[r].stage = "readChecked"
    /\ \/ checked = {} /\ Advance(r, "readFirst")
       \/ \E b \in Highest(checked) : CursorFound(r, b)
    /\ UNCHANGED <<head, tables, owed, strays, faults>>

FindFirst(r) ==
    /\ run[r].stage = "readFirst"
    /\ \/ BlockRows = {} /\ CursorFound(r, DefaultBlock)
       \/ \E b \in Lowest(BlockRows) : CursorFound(r, b)
    /\ UNCHANGED <<head, tables, owed, strays, faults>>

\* A block beyond the latest counted as missing.
FindExistingNext(r) ==
    /\ run[r].stage = "readExisting"
    /\ LET missing == (run[r].cursor + 1 .. run[r].latest + 1) \ BlockRows
       IN  Becomes(r, [stage |-> "readWallets", missing |-> missing,
                       wallets |-> {}, left |-> missing, tasks |-> {}])
    /\ UNCHANGED <<head, tables, owed, strays, faults>>

\* The search starts one block late.
FindExistingSkip(r) ==
    /\ run[r].stage = "readExisting"
    /\ LET missing == (run[r].cursor + 2 .. run[r].latest - 1) \ BlockRows
       IN  Becomes(r, [stage |-> "readWallets", missing |-> missing,
                       wallets |-> {}, left |-> missing, tasks |-> {}])
    /\ UNCHANGED <<head, tables, owed, strays, faults>>

FindExisting(r) ==
    /\ run[r].stage = "readExisting"
    /\ LET missing == (run[r].cursor + 1 .. run[r].latest - 1) \ BlockRows
       IN  Becomes(r, [stage |-> "readWallets", missing |-> missing,
                       wallets |-> {}, left |-> missing, tasks |-> {}])
    /\ UNCHANGED <<head, tables, owed, strays, faults>>

ReadWallets(r) ==
    /\ run[r].stage = "readWallets"
    /\ Becomes(r, [run[r] EXCEPT !.stage = "scan", !.wallets = known])
    /\ UNCHANGED <<head, tables, owed, strays, faults>>

QueryBatch(r) ==
    /\ run[r].stage = "scan" /\ run[r].tasks = {} /\ run[r].left # {}
    /\ LET batch == FirstOf(run[r].left, BatchSize)
       IN  Becomes(r, [run[r] EXCEPT !.tasks = QueryFilter(batch, run[r].wallets),
                                      !.left = run[r].left \ batch])
    /\ UNCHANGED <<head, tables, owed, strays, faults>>

\* One task of processTransactionLogs ends well: the log was stored already,
\* or is now, with its wallet.
ProcessLog(r, l) ==
    /\ run[r].stage = "scan" /\ l \in run[r].tasks
    /\ known' = known \cup {OwnerOf[l]}
    /\ stored' = stored \cup {l}
    /\ Becomes(r, [run[r] EXCEPT !.tasks = run[r].tasks \ {l}])
    /\ UNCHANGED <<head, rows, owed, strays, faults>>

\* Not waiting for the tasks of the last batch.
ScanEndsUnawaited(r) ==
    /\ run[r].stage = "scan" /\ run[r].left = {}
    /\ Becomes(r, [run[r] EXCEPT !.stage = "insert", !.left = run[r].missing, !.tasks = {}])
    /\ UNCHANGED <<head, tables, owed, strays, faults>>

ScanEnds(r) ==
    /\ run[r].stage = "scan" /\ run[r].tasks = {} /\ run[r].left = {}
    /\ Becomes(r, [run[r] EXCEPT !.stage = "insert", !.left = run[r].missing])
    /\ UNCHANGED <<head, tables, owed, strays, faults>>

InsertChunk(r) ==
    /\ run[r].stage = "insert" /\ run[r].left # {}
    /\ LET chunk == FirstOf(run[r].left, ChunkSize)
       IN  /\ unchecked' = unchecked \cup chunk
           /\ Becomes(r, [run[r] EXCEPT !.left = run[r].left \ chunk])
    /\ UNCHANGED <<head, checked, watched, known, stored, owed, strays, faults>>

\* When all rows are there, markLatestBlockAsChecked's first UPDATE clears
\* every mark.
MarkClear(r) ==
    /\ run[r].stage = "insert" /\ run[r].left = {}
    /\ unchecked' = unchecked \cup checked
    /\ checked' = {}
    /\ Advance(r, "set")
    /\ UNCHANGED <<head, watched, known, stored, owed, strays, faults>>

\* Its second UPDATE marks the rows of one block number.  No row has it when
\* the midnight cleanup came in between, or when there was no missing block:
\* the number is then undefined, which compares as NULL.
MarkSet(r) ==
    /\ run[r].stage = "set"
    /\ LET marked == BlockRows \cap Highest(run[r].missing)
       IN  /\ checked' = checked \cup marked
           /\ unchecked' = unchecked \ marked
    /\ Becomes(r, NoRun)
    /\ UNCHANGED <<head, watched, known, stored, owed, strays, faults>>

\* Any await of the run rejects: the run ends, and the log tasks it started
\* go on by themselves (Promise.all does not stop the others).
AbortRun(r) ==
    /\ run[r].stage # "idle"
    /\ faults < MaxFaults
    /\ faults' = faults + 1
    /\ strays' = strays \cup (IF run[r].stage = "scan" THEN run[r].tasks ELSE {})
    /\ Becomes(r, NoRun)
    /\ UNCHANGED <<head, tables, owed>>

StrayEnds(l) ==
    /\ l \in strays
    /\ strays' = strays \ {l}
    /\ \/ known' = known \cup {OwnerOf[l]} /\ stored' = stored \cup {l}
       \/ UNCHANGED <<known, stored>>
    /\ UNCHANGED <<head, rows, owed, run, faults>>

RunStep(r) ==
    \/ FindChecked(r) \/ FindFirst(r) \/ FindExisting(r) \/ ReadWallets(r)
    \/ QueryBatch(r) \/ (\E l \in Logs : ProcessLog(r, l)) \/ ScanEnds(r)
    \/ InsertChunk(r) \/ MarkClear(r) \/ MarkSet(r)

\* BlockService.removeOldBlocks, at midnight.
RemoveOldBlocks ==
    /\ unchecked' = {}
    /\ watched' = watched \cap checked
    /\ UNCHANGED <<head, checked, known, stored, owed, run, strays, faults>>

Crash ==
    /\ faults < MaxFaults
    /\ faults' = faults + 1
    /\ run' = [r \in Runs |-> NoRun]
    /\ owed' = {} /\ strays' = {}
    /\ UNCHANGED <<head, tables>>

\* Everything that happens between two midnights.
DayNext ==
    \/ Mine \/ Crash
    \/ \E l \in Logs : WatcherEnsures(l) \/ WatcherStores(l) \/ StrayEnds(l)
    \/ \E b \in Blocks : WatcherWritesBlock(b)
    \/ \E r \in Runs : BeginRun(r) \/ RunStep(r) \/ AbortRun(r)

ScanNext == DayNext \/ RemoveOldBlocks

ScanSpec == ScanInit /\ [][ScanNext]_vars

\* The chain grows, the cron starts a run every hour, and a run whose calls
\* all answer goes on to its end.  Nothing is assumed of the watcher, which
\* may be disconnected for good, nor of the requests.
Progress ==
    /\ WF_vars(Mine)
    /\ WF_vars(BeginRun(CronRun))
    /\ \A r \in Runs : WF_vars(RunStep(r))

FairSpec == ScanSpec /\ Progress

FairDaySpec == ScanInit /\ [][DayNext]_vars /\ Progress

-----------------------------------------------------------------------------
\* The types of the tables and of the runs.
ScanTypeOK ==
    /\ head \in Blocks
    /\ unchecked \subseteq Blocks /\ checked \subseteq Blocks /\ owed \subseteq Blocks
    /\ watched \subseteq BlockRows
    /\ known \subseteq Accounts
    /\ stored \subseteq Logs /\ strays \subseteq Logs
    /\ run \in [Runs -> {NoRun} \cup ReadFrame \cup ScanFrame]
    /\ faults \in 0 .. MaxFaults

\* A run that has begun to add block rows has stored every event of its
\* missing blocks that its wallet snapshot lets it see, whatever the other
\* runs, the watcher and the cleanup did meanwhile: a scan that a failure
\* cut short never moves the mark.
ScanBeforeMark ==
    \A r \in Runs : run[r].stage \in {"insert", "set"} =>
        \A l \in Logs : BlockOf[l] \in run[r].missing /\ Matches(l, run[r].wallets) => l \in stored

\* findMissingBlocks takes a row for a block as "nothing to look for here".
\* For the accounts that have a wallet from the start that is right, unless
\* the row is the watcher's own: it stands for one stored event of the block
\* and hides the others, of which nothing here says that they are stored.
RowMeansScanned ==
    \A l \in Logs :
        BlockOf[l] \in BlockRows /\ OwnerOf[l] \in Registered =>
            \/ l \in stored
            \/ BlockOf[l] \in watched /\ \E m \in stored : BlockOf[m] = BlockOf[l]

\* Where the next run starts, as a set: empty over an empty table.
Cursor == IF checked # {} THEN Highest(checked) ELSE Lowest(BlockRows)

\* An event the next run will see: its owner is known, its block lies after
\* the cursor and has no row, and no run is under way.
Catchable(l) ==
    /\ \A r \in Runs : run[r].stage = "idle"
    /\ OwnerOf[l] \in known
    /\ (\E b \in Cursor : b < BlockOf[l]) /\ BlockOf[l] \notin BlockRows

\* Between two midnights the runs store every such event, however they
\* overlap, fail (finitely often) and lose the mark, unless the watcher
\* writes the row of that block, for another event or for this one.
CatchableIsStored ==
    \A l \in Logs : Catchable(l) ~> (l \in stored \/ BlockOf[l] \in watched)

\* The README: "All on-chain events are stored in PostgreSQL tables", and the
\* checker looks for the missed ones every hour.  Here of an event that its
\* filter and its cursor do let it see: the account has had a wallet all along
\* and the next run starts before the event's block.
RegisteredEventsStored ==
    \A l \in Logs : OwnerOf[l] \in Registered => (Catchable(l) ~> (l \in stored))
=============================================================================
