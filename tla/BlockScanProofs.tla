--------------------------- MODULE BlockScanProofs ---------------------------
(***************************************************************************)
(* Proofs about BlockScan for any number of runs, logs and blocks: its     *)
(* types, ScanBeforeMark and RowMeansScanned.                              *)
(*                                                                         *)
(* ScanInv joins what holds of the tables and, per run, RunOK: what the    *)
(* stage of a run tells about its own record and the stored logs.  Wallets *)
(* and stored logs are never removed, so RunOK of one run outlives the     *)
(* steps of every other actor, the midnight cleanup included: it speaks of *)
(* stored logs, not of block rows.                                         *)
(***************************************************************************)
EXTENDS BlockScan, TLAPS

RunType == {NoRun} \cup ReadFrame \cup ScanFrame

\* The logs a run with record f is to store.
Sees(f, l) == BlockOf[l] \in f.missing /\ Matches(l, f.wallets)

\* What the record f tells when the logs are stored.
FrameOK(f, logs) ==
    /\ f.stage = "readWallets" => f.left = f.missing
    /\ f.stage = "insert" => f.left \subseteq f.missing
    /\ f.stage \in {"scan", "insert", "set"} => Registered \subseteq f.wallets
    /\ f.stage = "scan" =>
           \A l \in Logs : Sees(f, l) => l \in logs \/ l \in f.tasks \/ BlockOf[l] \in f.left
    /\ f.stage \in {"insert", "set"} => \A l \in Logs : Sees(f, l) => l \in logs

RunOK(r) == FrameOK(run[r], stored)

OwedBacked == \A b \in owed : \E m \in stored : BlockOf[m] = b

TableTypes ==
    /\ head \in Blocks
    /\ unchecked \subseteq Blocks /\ checked \subseteq Blocks /\ owed \subseteq Blocks
    /\ watched \subseteq BlockRows
    /\ known \subseteq Accounts
    /\ stored \subseteq Logs /\ strays \subseteq Logs
    /\ faults \in 0 .. MaxFaults

TablesOK ==
    /\ TableTypes
    /\ Registered \subseteq known
    /\ OwedBacked
    /\ RowMeansScanned

ScanInv ==
    /\ TablesOK
    /\ run \in [Runs -> RunType]
    /\ \A r \in Runs : RunOK(r)

-----------------------------------------------------------------------------
\* A run's record stays good while the stored logs only grow.
LEMMA FrameKept ==
    ASSUME NEW f, NEW logs, FrameOK(f, logs), NEW more, logs \subseteq more
    PROVE  FrameOK(f, more)
BY DEF FrameOK

\* A step that moves one run to a good record, or none at all.
LEMMA RunMoves ==
    ASSUME ScanInv, TablesOK', stored \subseteq stored', NEW r \in Runs,
           NEW f \in RunType, Becomes(r, f), FrameOK(f, stored')
    PROVE  ScanInv'
<1>1. run' \in [Runs -> RunType] /\ run'[r] = f
      BY DEF ScanInv, Becomes
<1>2. ASSUME NEW s \in Runs, s # r PROVE RunOK(s)'
  <2>1. run'[s] = run[s]
        BY <1>2 DEF ScanInv, Becomes
  <2> QED BY <2>1, FrameKept DEF ScanInv, RunOK
<1> QED BY <1>1, <1>2 DEF ScanInv, RunOK

LEMMA RunsStay ==
    ASSUME ScanInv, TablesOK', stored \subseteq stored', UNCHANGED run
    PROVE  ScanInv'
BY FrameKept DEF ScanInv, RunOK

\* A run that only reads or moves on keeps the tables.
LEMMA QuietTables ==
    ASSUME TablesOK, UNCHANGED <<head, tables, owed, strays, faults>>
    PROVE  TablesOK' /\ stored \subseteq stored'
BY DEF TablesOK, TableTypes, OwedBacked, RowMeansScanned, BlockRows, tables, rows

LEMMA ScanInitInv == ScanInit => ScanInv
<1> SUFFICES ASSUME ScanInit PROVE ScanInv
    OBVIOUS
<1>1. TableTypes
      BY ScanAssumption DEF ScanInit, TableTypes, BlockRows
<1>2. TablesOK
      BY <1>1 DEF ScanInit, TablesOK, OwedBacked, RowMeansScanned, BlockRows
<1>3. \A r \in Runs : run[r] = NoRun /\ FrameOK(NoRun, stored)
      BY DEF ScanInit, NoRun, FrameOK
<1> QED BY <1>2, <1>3 DEF ScanInv, ScanInit, RunOK, RunType

-----------------------------------------------------------------------------
\* The steps of the chain, the watcher and the cleanup touch no run.
LEMMA OthersInv ==
    ASSUME ScanInv,
           \/ Mine \/ RemoveOldBlocks
           \/ \E l \in Logs : WatcherEnsures(l) \/ WatcherStores(l) \/ StrayEnds(l)
           \/ \E b \in Blocks : WatcherWritesBlock(b)
    PROVE  ScanInv'
<1> USE DEF ScanInv, TablesOK, TableTypes, OwedBacked, RowMeansScanned, BlockRows, tables, rows
<1>1. CASE Mine
      BY <1>1, ScanAssumption, RunsStay DEF Mine, Blocks
<1>2. CASE RemoveOldBlocks
      BY <1>2, RunsStay DEF RemoveOldBlocks
<1>3. ASSUME NEW l \in Logs, WatcherEnsures(l) PROVE ScanInv'
      BY <1>3, ScanAssumption, RunsStay DEF WatcherEnsures
<1>4. ASSUME NEW l \in Logs, WatcherStores(l) PROVE ScanInv'
  <2>1. BlockOf[l] \in Blocks
        BY ScanAssumption DEF Blocks
  <2>2. TablesOK'
        BY <1>4, <2>1 DEF WatcherStores
  <2> QED BY <1>4, <2>2, RunsStay DEF WatcherStores
<1>5. ASSUME NEW l \in Logs, StrayEnds(l) PROVE ScanInv'
      BY <1>5, ScanAssumption, RunsStay DEF StrayEnds
<1>6. ASSUME NEW b \in Blocks, WatcherWritesBlock(b) PROVE ScanInv'
      BY <1>6, RunsStay DEF WatcherWritesBlock
<1> QED BY <1>1, <1>2, <1>3, <1>4, <1>5, <1>6

-----------------------------------------------------------------------------
\* A run at one of the stages of a frame has that frame.
LEMMA FrameAt ==
    ASSUME ScanInv, NEW r \in Runs
    PROVE  /\ FrameOK(run[r], stored)
           /\ run[r].stage \in {"readChecked", "readFirst", "readExisting"} => run[r] \in ReadFrame
           /\ run[r].stage \in {"readWallets", "scan", "insert", "set"} => run[r] \in ScanFrame
BY DEF ScanInv, RunOK, RunType, NoRun, ReadFrame, ScanFrame

LEMMA BeginRunInv ==
    ASSUME ScanInv, NEW r \in Runs, BeginRun(r)
    PROVE  ScanInv'
<1> DEFINE f == [stage |-> "readChecked", latest |-> head, cursor |-> DefaultBlock]
<1>1. f \in RunType /\ FrameOK(f, stored')
      BY ScanAssumption DEF RunType, ReadFrame, Blocks, FrameOK, ScanInv, TablesOK, TableTypes
<1>2. TablesOK' /\ stored \subseteq stored'
      BY QuietTables DEF ScanInv, BeginRun
<1>3. Becomes(r, f)
      BY DEF BeginRun
<1> HIDE DEF f
<1> QED BY <1>1, <1>2, <1>3, RunMoves

\* While it reads, a run moves to the next question or to its cursor.
LEMMA AdvanceInv ==
    ASSUME ScanInv, NEW r \in Runs, run[r] \in ReadFrame, Advance(r, "readFirst"),
           UNCHANGED <<head, tables, owed, strays, faults>>
    PROVE  ScanInv'
<1> DEFINE f == [stage |-> "readFirst", latest |-> run[r].latest, cursor |-> run[r].cursor]
<1>1. f \in RunType /\ FrameOK(f, stored')
      BY DEF RunType, ReadFrame, FrameOK
<1>2. f = [run[r] EXCEPT !.stage = "readFirst"]
      BY DEF ReadFrame
<1>8. Becomes(r, f)
      BY <1>2 DEF Advance
<1>3. TablesOK' /\ stored \subseteq stored'
      BY QuietTables DEF ScanInv
<1> HIDE DEF f
<1> QED BY <1>1, <1>8, <1>3, RunMoves

LEMMA CursorInv ==
    ASSUME ScanInv, NEW r \in Runs, run[r] \in ReadFrame, NEW b \in Blocks, CursorFound(r, b),
           UNCHANGED <<head, tables, owed, strays, faults>>
    PROVE  ScanInv'
<1> DEFINE f == [stage |-> "readExisting", latest |-> run[r].latest, cursor |-> b]
<1>1. f \in RunType /\ FrameOK(f, stored')
      BY DEF RunType, ReadFrame, FrameOK
<1>2. f = [[run[r] EXCEPT !.stage = "readExisting"] EXCEPT !.cursor = b]
  <2> DEFINE g == [stage |-> "readExisting", latest |-> run[r].latest, cursor |-> run[r].cursor]
  <2>1. g = [run[r] EXCEPT !.stage = "readExisting"]
        BY DEF ReadFrame
  <2>2. f = [g EXCEPT !.cursor = b]
        OBVIOUS
  <2> QED BY <2>1, <2>2
<1>8. Becomes(r, f)
      BY <1>2 DEF CursorFound
<1>3. TablesOK' /\ stored \subseteq stored'
      BY QuietTables DEF ScanInv
<1> HIDE DEF f
<1> QED BY <1>1, <1>8, <1>3, RunMoves

LEMMA FindCursorInv ==
    ASSUME ScanInv, NEW r \in Runs, FindChecked(r) \/ FindFirst(r)
    PROVE  ScanInv'
<1>1. run[r] \in ReadFrame /\ UNCHANGED <<head, tables, owed, strays, faults>>
      BY FrameAt DEF FindChecked, FindFirst
<1>2. Highest(checked) \subseteq Blocks /\ Lowest(BlockRows) \subseteq Blocks
      BY DEF Highest, Lowest, BlockRows, ScanInv, TablesOK, TableTypes
<1>5. DefaultBlock \in Blocks
      BY ScanAssumption DEF ScanInv, TablesOK, TableTypes, Blocks
<1>3. CASE FindChecked(r)
      BY <1>1, <1>2, <1>3, AdvanceInv, CursorInv DEF FindChecked
<1>4. CASE FindFirst(r)
      BY <1>1, <1>2, <1>4, <1>5, CursorInv DEF FindFirst
<1> QED BY <1>3, <1>4

LEMMA FindExistingInv ==
    ASSUME ScanInv, NEW r \in Runs, FindExisting(r)
    PROVE  ScanInv'
<1> DEFINE missing == (run[r].cursor + 1 .. run[r].latest - 1) \ BlockRows
           f == [stage |-> "readWallets", missing |-> missing, wallets |-> {},
                 left |-> missing, tasks |-> {}]
<1>1. missing \subseteq Blocks
      BY ScanAssumption, FrameAt DEF FindExisting, ReadFrame, Blocks
<1>2. f \in RunType /\ FrameOK(f, stored')
      BY <1>1 DEF RunType, ScanFrame, FrameOK
<1>3. Becomes(r, f)
      BY DEF FindExisting
<1>4. TablesOK' /\ stored \subseteq stored'
      BY QuietTables DEF ScanInv, FindExisting
<1> HIDE DEF f
<1> QED BY <1>2, <1>3, <1>4, RunMoves

\* The scan starts owing everything: left holds all missing blocks.
LEMMA ReadWalletsInv ==
    ASSUME ScanInv, NEW r \in Runs, ReadWallets(r)
    PROVE  ScanInv'
<1> DEFINE f == [stage |-> "scan", missing |-> run[r].missing, wallets |-> known,
                 left |-> run[r].left, tasks |-> run[r].tasks]
<1>1. run[r] \in ScanFrame /\ run[r].left = run[r].missing
      BY FrameAt DEF ReadWallets, FrameOK
<1>2. f \in RunType /\ FrameOK(f, stored')
      BY <1>1 DEF RunType, ScanFrame, FrameOK, Sees, ScanInv, TablesOK, TableTypes
<1>3. f = [[run[r] EXCEPT !.stage = "scan"] EXCEPT !.wallets = known]
  <2> DEFINE g == [stage |-> "scan", missing |-> run[r].missing, wallets |-> run[r].wallets,
                   left |-> run[r].left, tasks |-> run[r].tasks]
  <2>1. g = [run[r] EXCEPT !.stage = "scan"]
        BY <1>1 DEF ScanFrame
  <2>2. f = [g EXCEPT !.wallets = known]
        OBVIOUS
  <2> QED BY <2>1, <2>2
<1>8. Becomes(r, f)
      BY <1>3 DEF ReadWallets
<1>4. TablesOK' /\ stored \subseteq stored'
      BY QuietTables DEF ScanInv, ReadWallets
<1> HIDE DEF f
<1> QED BY <1>2, <1>8, <1>4, RunMoves

\* A query returns every visible log of the blocks it takes out of left.
LEMMA QueryBatchInv ==
    ASSUME ScanInv, NEW r \in Runs, QueryBatch(r)
    PROVE  ScanInv'
<1> DEFINE batch == FirstOf(run[r].left, BatchSize)
           f == [stage |-> "scan", missing |-> run[r].missing, wallets |-> run[r].wallets,
                 left |-> run[r].left \ batch, tasks |-> QueryFilter(batch, run[r].wallets)]
<1>1. run[r] \in ScanFrame /\ FrameOK(run[r], stored) /\ run[r].stage = "scan" /\ run[r].tasks = {}
      BY FrameAt DEF QueryBatch
<1>2. batch \subseteq run[r].left
      BY DEF FirstOf
<1>3. ASSUME NEW l \in Logs, Sees(run[r], l), BlockOf[l] \in batch
      PROVE  l \in QueryFilter(batch, run[r].wallets)
  <2>1. BlockOf[l] \in Blocks /\ BlockOf[l] <= BlockOf[l]
        BY ScanAssumption DEF Blocks
  <2>2. BlockOf[l] \in Span(batch)
        BY <1>3, <2>1 DEF Span
  <2> QED BY <1>3, <2>2 DEF QueryFilter, Sees
<1>4. FrameOK(f, stored')
  <2>1. \A l \in Logs : Sees(f, l) => l \in stored \/ l \in f.tasks \/ BlockOf[l] \in f.left
        BY <1>1, <1>2, <1>3 DEF FrameOK, Sees
  <2>2. UNCHANGED stored
        BY DEF QueryBatch, tables
  <2> QED BY <1>1, <2>1, <2>2 DEF FrameOK, Sees, Matches
<1>5. f \in RunType
      BY <1>1, <1>2 DEF RunType, ScanFrame, QueryFilter
<1>6. f = [[run[r] EXCEPT !.tasks = QueryFilter(batch, run[r].wallets)]
               EXCEPT !.left = run[r].left \ batch]
  <2> DEFINE g == [stage |-> "scan", missing |-> run[r].missing, wallets |-> run[r].wallets,
                   left |-> run[r].left, tasks |-> QueryFilter(batch, run[r].wallets)]
  <2>1. g = [run[r] EXCEPT !.tasks = QueryFilter(batch, run[r].wallets)]
        BY <1>1 DEF ScanFrame
  <2>2. f = [g EXCEPT !.left = run[r].left \ batch]
        OBVIOUS
  <2> QED BY <2>1, <2>2
<1>8. Becomes(r, f)
      BY <1>6 DEF QueryBatch
<1>7. TablesOK' /\ stored \subseteq stored'
      BY QuietTables DEF ScanInv, QueryBatch
<1> HIDE DEF f
<1> QED BY <1>4, <1>5, <1>8, <1>7, RunMoves

LEMMA ProcessLogInv ==
    ASSUME ScanInv, NEW r \in Runs, NEW l \in Logs, ProcessLog(r, l)
    PROVE  ScanInv'
<1> DEFINE f == [stage |-> "scan", missing |-> run[r].missing, wallets |-> run[r].wallets,
                 left |-> run[r].left, tasks |-> run[r].tasks \ {l}]
<1>1. run[r] \in ScanFrame /\ FrameOK(run[r], stored) /\ run[r].stage = "scan"
      BY FrameAt DEF ProcessLog
<1>2. stored' = stored \cup {l}
      BY DEF ProcessLog
<1>3. f \in RunType /\ FrameOK(f, stored')
      BY <1>1, <1>2 DEF RunType, ScanFrame, FrameOK, Sees, Matches
<1>4. f = [run[r] EXCEPT !.tasks = run[r].tasks \ {l}]
      BY <1>1 DEF ScanFrame
<1>8. Becomes(r, f)
      BY <1>4 DEF ProcessLog
<1>5. TablesOK'
      BY ScanAssumption DEF ProcessLog, ScanInv, TablesOK, TableTypes, OwedBacked,
                            RowMeansScanned, BlockRows, rows
<1> HIDE DEF f
<1> QED BY <1>2, <1>3, <1>8, <1>5, RunMoves

\* With no task and no block left, everything the run saw is stored.
LEMMA ScanEndsInv ==
    ASSUME ScanInv, NEW r \in Runs, ScanEnds(r)
    PROVE  ScanInv'
<1> DEFINE f == [stage |-> "insert", missing |-> run[r].missing, wallets |-> run[r].wallets,
                 left |-> run[r].missing, tasks |-> run[r].tasks]
<1>1. /\ run[r] \in ScanFrame /\ FrameOK(run[r], stored)
      /\ run[r].stage = "scan" /\ run[r].tasks = {} /\ run[r].left = {}
      BY FrameAt DEF ScanEnds
<1>2. UNCHANGED stored
      BY DEF ScanEnds, tables
<1>3. f \in RunType /\ FrameOK(f, stored')
      BY <1>1, <1>2 DEF RunType, ScanFrame, FrameOK, Sees, Matches
<1>4. f = [[run[r] EXCEPT !.stage = "insert"] EXCEPT !.left = run[r].missing]
  <2> DEFINE g == [stage |-> "insert", missing |-> run[r].missing, wallets |-> run[r].wallets,
                   left |-> run[r].left, tasks |-> run[r].tasks]
  <2>1. g = [run[r] EXCEPT !.stage = "insert"]
        BY <1>1 DEF ScanFrame
  <2>2. f = [g EXCEPT !.left = run[r].missing]
        OBVIOUS
  <2> QED BY <2>1, <2>2
<1>8. Becomes(r, f)
      BY <1>4 DEF ScanEnds
<1>5. TablesOK' /\ stored \subseteq stored'
      BY QuietTables DEF ScanInv, ScanEnds
<1> HIDE DEF f
<1> QED BY <1>3, <1>8, <1>5, RunMoves

\* The rows a run adds are of blocks it has scanned.
LEMMA InsertChunkInv ==
    ASSUME ScanInv, NEW r \in Runs, InsertChunk(r)
    PROVE  ScanInv'
<1> DEFINE chunk == FirstOf(run[r].left, ChunkSize)
           f == [stage |-> "insert", missing |-> run[r].missing, wallets |-> run[r].wallets,
                 left |-> run[r].left \ chunk, tasks |-> run[r].tasks]
<1>1. run[r] \in ScanFrame /\ FrameOK(run[r], stored) /\ run[r].stage = "insert"
      BY FrameAt DEF InsertChunk
<1>2. chunk \subseteq run[r].missing /\ run[r].missing \subseteq Blocks
      BY <1>1 DEF FirstOf, FrameOK, ScanFrame
<1>3. \A l \in Logs : BlockOf[l] \in chunk /\ OwnerOf[l] \in Registered => l \in stored
      BY <1>1, <1>2 DEF FrameOK, Sees, Matches
<1>4. unchecked' = unchecked \cup chunk /\ UNCHANGED <<head, checked, watched, known, stored, owed, strays, faults>>
      BY DEF InsertChunk
<1>5. TablesOK'
      BY <1>2, <1>3, <1>4 DEF ScanInv, TablesOK, TableTypes, OwedBacked, RowMeansScanned, BlockRows
<1>6. f \in RunType /\ FrameOK(f, stored')
      BY <1>1, <1>4 DEF RunType, ScanFrame, FrameOK, Sees, Matches
<1>7. f = [run[r] EXCEPT !.left = run[r].left \ chunk]
      BY <1>1 DEF ScanFrame
<1>8. Becomes(r, f)
      BY <1>7 DEF InsertChunk
<1> HIDE DEF f
<1> QED BY <1>4, <1>5, <1>6, <1>8, RunMoves

LEMMA MarkClearInv ==
    ASSUME ScanInv, NEW r \in Runs, MarkClear(r)
    PROVE  ScanInv'
<1> DEFINE f == [stage |-> "set", missing |-> run[r].missing, wallets |-> run[r].wallets,
                 left |-> run[r].left, tasks |-> run[r].tasks]
<1>1. run[r] \in ScanFrame /\ FrameOK(run[r], stored) /\ run[r].stage = "insert"
      BY FrameAt DEF MarkClear
<1>2. TablesOK' /\ UNCHANGED stored
      BY DEF MarkClear, ScanInv, TablesOK, TableTypes, OwedBacked, RowMeansScanned, BlockRows
<1>3. f \in RunType /\ FrameOK(f, stored')
      BY <1>1, <1>2 DEF RunType, ScanFrame, FrameOK, Sees, Matches
<1>4. f = [run[r] EXCEPT !.stage = "set"]
      BY <1>1 DEF ScanFrame
<1>8. Becomes(r, f)
      BY <1>4 DEF MarkClear, Advance
<1> HIDE DEF f
<1> QED BY <1>2, <1>3, <1>8, RunMoves

\* A run that ends, by its last UPDATE or by a rejection.
LEMMA RunEndsInv ==
    ASSUME ScanInv, NEW r \in Runs, MarkSet(r) \/ AbortRun(r)
    PROVE  ScanInv'
<1>1. NoRun \in RunType /\ FrameOK(NoRun, stored')
      BY DEF RunType, NoRun, FrameOK
<1>2. Becomes(r, NoRun) /\ UNCHANGED stored
      BY DEF MarkSet, AbortRun, tables
<1>3. CASE MarkSet(r)
  <2>1. TablesOK'
        BY <1>3 DEF MarkSet, ScanInv, TablesOK, TableTypes, OwedBacked, RowMeansScanned, BlockRows
  <2> QED BY <1>1, <1>2, <2>1, RunMoves
<1>4. CASE AbortRun(r)
  <2>1. run[r].stage = "scan" => run[r].tasks \subseteq Logs
        BY FrameAt DEF ScanFrame
  <2>2. TablesOK'
        BY <1>4, <2>1, ScanAssumption DEF AbortRun, tables, rows, ScanInv, TablesOK, TableTypes,
                                          OwedBacked, RowMeansScanned, BlockRows
  <2> QED BY <1>1, <1>2, <2>2, RunMoves
<1> QED BY <1>3, <1>4

LEMMA CrashInv ==
    ASSUME ScanInv, Crash
    PROVE  ScanInv'
<1>1. TablesOK'
      BY ScanAssumption DEF Crash, tables, rows, ScanInv, TablesOK, TableTypes, OwedBacked,
                            RowMeansScanned, BlockRows
<1>2. FrameOK(NoRun, stored') /\ NoRun \in RunType
      BY DEF FrameOK, NoRun, RunType
<1> QED BY <1>1, <1>2 DEF Crash, ScanInv, RunOK

-----------------------------------------------------------------------------
\* The invariant holds in every state.
LEMMA ScanInvHolds == ScanSpec => []ScanInv
<1>1. ScanInv /\ [ScanNext]_vars => ScanInv'
  <2> SUFFICES ASSUME ScanInv, [ScanNext]_vars PROVE ScanInv'
      OBVIOUS
  <2>1. CASE \/ Mine \/ RemoveOldBlocks
             \/ \E l \in Logs : WatcherEnsures(l) \/ WatcherStores(l) \/ StrayEnds(l)
             \/ \E b \in Blocks : WatcherWritesBlock(b)
        BY <2>1, OthersInv
  <2>2. CASE Crash
        BY <2>2, CrashInv
  <2>3. ASSUME NEW r \in Runs, BeginRun(r) \/ RunStep(r) \/ AbortRun(r) PROVE ScanInv'
        BY <2>3, BeginRunInv, FindCursorInv, FindExistingInv, ReadWalletsInv, QueryBatchInv,
           ProcessLogInv, ScanEndsInv, InsertChunkInv, MarkClearInv, RunEndsInv DEF RunStep
  <2>4. CASE UNCHANGED vars
        BY <2>4, QuietTables, RunsStay DEF vars, tables, rows, ScanInv
  <2> QED BY <2>1, <2>2, <2>3, <2>4 DEF ScanNext, DayNext
<1> QED BY <1>1, ScanInitInv, PTL DEF ScanSpec

\* The types of the tables and of the runs' records: the block numbers a run
\* computes from a cursor and a latest block stay within the chain.
THEOREM ScanTypes == ScanSpec => []ScanTypeOK
<1>1. ScanInv => ScanTypeOK
      BY DEF ScanInv, TablesOK, TableTypes, RunType, ScanTypeOK, BlockRows
<1> QED BY <1>1, ScanInvHolds, PTL

\* checkMissingBlocks adds rows and moves the mark only after every event its
\* filter showed it in the missing blocks is stored, for any number of
\* overlapping runs, failures, crashes and cleanups.
THEOREM ScanBeforeMarkHolds == ScanSpec => []ScanBeforeMark
<1>1. ScanInv => ScanBeforeMark
      BY DEF ScanInv, RunOK, FrameOK, Sees, ScanBeforeMark
<1> QED BY <1>1, ScanInvHolds, PTL

\* A block row is a reason not to look: every event of a registered account in
\* that block is stored, or the row is the watcher's, for a stored event.
THEOREM RowMeansScannedHolds == ScanSpec => []RowMeansScanned
<1>1. ScanInv => RowMeansScanned
      BY DEF ScanInv, TablesOK
<1> QED BY <1>1, ScanInvHolds, PTL
=============================================================================
