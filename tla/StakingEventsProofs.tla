------------------------ MODULE StakingEventsProofs ------------------------
(***************************************************************************)
(* Proofs about StakingEvents for any chain of staking logs and any number *)
(* of failures and crashes.                                                *)
(*                                                                         *)
(* The invariant StakingInv adds to the properties what a handler's stage  *)
(* tells about the table (FrameOK), that no two handlers are between the   *)
(* INSERT and the UPDATE of one row (OneUpdate), and what the sync has     *)
(* dealt with so far (SyncOK).                                             *)
(***************************************************************************)
EXTENDS StakingEvents, TLAPS

USE DEF conn

Active(t) == tasks[t].stage # "none"

\* The STAKE row of the same user a handler of an Unstaked has copied from.
PeriodKnown(t) ==
  LET f == tasks[t]
  IN /\ ~IsStake(f.log) /\ IsStake(f.period)
     /\ Chain[f.period].user = Chain[f.log].user
     /\ \E j \in DOMAIN table : table[j].log = f.period /\ f.base \in {0, table[j].base}

FrameOK(t) ==
  /\ Active(t) => tasks[t].log \in Logs
  /\ tasks[t].stage \notin {"insert", "update"} => tasks[t].period = 0
  /\ tasks[t].stage = "insert" /\ tasks[t].period # 0 => PeriodKnown(t)
  /\ tasks[t].stage = "update" =>
       /\ IsStake(tasks[t].log) /\ Stored(tasks[t].log)
       /\ \A i \in DOMAIN table : table[i].log = tasks[t].log => table[i].base = 0

OneUpdate ==
  \A s, t \in Tasks :
    s # t /\ tasks[s].stage = "update" /\ tasks[t].stage = "update"
      => tasks[s].log # tasks[t].log

\* The event names whose logs the sync has queried.
Queried(event) ==
  \/ sync.stage = "done"
  \/ sync.event = "Unstaked" /\ event = "Staked"
  \/ sync.stage = "loop" /\ event = sync.event

Handled(l) == Stored(l) \/ failed \/ (Active(SyncTask) /\ tasks[SyncTask].log = l)

SyncOK ==
  /\ Active(SyncTask) => sync.stage = "loop"
  /\ sync.stage # "loop" => sync.left = {}
  /\ sync.stage = "head" => sync.event = "Staked"
  /\ \A l \in Logs :
       Queried(Chain[l].event) /\ Chain[l].block \in sync.upto - Window .. sync.upto
         /\ l \notin sync.left => Handled(l)

StakingInv ==
  /\ StakingTypeOK
  /\ UnstakeFromOwnStake
  /\ \A t \in Tasks : FrameOK(t)
  /\ OneUpdate
  /\ SyncOK

-----------------------------------------------------------------------------
(* The table.                                                               *)

LEMMA LogFacts ==
  /\ DOMAIN Chain = Logs
  /\ 0 \notin Logs
  /\ \A l \in Logs : /\ Chain[l].tx \in Txs /\ Chain[l].user \in Users
                     /\ Chain[l].event \in EventNames /\ Chain[l].block \in Nat
<1>1. Chain \in Seq([tx : Txs, user : Users, event : EventNames, block : Nat \ {0}])
      BY ChainAssumption
<1>2. DOMAIN Chain = Logs /\ 0 \notin Logs
      BY <1>1 DEF Logs
<1>3. \A R : \A s \in Seq(R) : \A l \in 1 .. Len(s) : s[l] \in R
      OBVIOUS
<1>4. \A l \in Logs : Chain[l] \in [tx : Txs, user : Users, event : EventNames, block : Nat \ {0}]
      BY <1>1, <1>3 DEF Logs
<1> QED BY <1>2, <1>4

LEMMA RowFacts ==
  ASSUME StakingTypeOK, NEW i \in DOMAIN table
  PROVE  table[i] \in StakingRow /\ i \in Nat /\ i >= 1
BY DEF StakingTypeOK

\* An INSERT keeps every row at its place and adds one behind them.
LEMMA AppendFacts ==
  ASSUME StakingTypeOK, NEW r \in StakingRow, table' = Append(table, r)
  PROVE  /\ table' \in Seq(StakingRow)
         /\ DOMAIN table' = DOMAIN table \cup {Len(table) + 1}
         /\ \A i \in DOMAIN table : table'[i] = table[i]
         /\ table'[Len(table) + 1] = r
         /\ \A l : Stored(l) => Stored(l)'
<1>1. /\ table' \in Seq(StakingRow)
      /\ DOMAIN table' = DOMAIN table \cup {Len(table) + 1}
      /\ \A i \in DOMAIN table : table'[i] = table[i]
      /\ table'[Len(table) + 1] = r
      BY DEF StakingTypeOK
<1> QED BY <1>1 DEF Stored

\* The UPDATE rewrites the base points of the rows of one log.
LEMMA UpdateFacts ==
  ASSUME StakingTypeOK, NEW l \in Logs, NEW b \in Nat,
         table' = [i \in DOMAIN table |-> IF table[i].log = l
                                          THEN [table[i] EXCEPT !.base = b]
                                          ELSE table[i]]
  PROVE  /\ table' \in Seq(StakingRow)
         /\ DOMAIN table' = DOMAIN table
         /\ \A i \in DOMAIN table :
              /\ table'[i].log = table[i].log
              /\ table'[i].period = table[i].period
              /\ table[i].log = l => table'[i] = [table[i] EXCEPT !.base = b]
                                     /\ table'[i].base = b
              /\ table[i].log # l => table'[i] = table[i]
         /\ \A m : Stored(m) <=> Stored(m)'
<1>1. \A i \in DOMAIN table : table[i] \in StakingRow
      BY RowFacts
<1>2. /\ DOMAIN table' = DOMAIN table
      /\ \A i \in DOMAIN table :
           /\ table'[i].log = table[i].log
           /\ table'[i].period = table[i].period
           /\ table[i].log = l => table'[i] = [table[i] EXCEPT !.base = b]
                                  /\ table'[i].base = b
           /\ table[i].log # l => table'[i] = table[i]
      BY <1>1 DEF StakingRow
<1>3. table' \in Seq(StakingRow)
  <2>1. \A i \in DOMAIN table : table'[i] \in StakingRow
        BY <1>1, <1>2 DEF StakingRow
  <2>2. DOMAIN table' = 1 .. Len(table) /\ Len(table) \in Nat
        BY <1>2 DEF StakingTypeOK
  <2>3. table' \in [1 .. Len(table) -> StakingRow]
        BY <1>2, <2>1, <2>2
  <2> QED BY <2>2, <2>3
<1> QED BY <1>2, <1>3 DEF Stored

-----------------------------------------------------------------------------
(* Steps of one handler.                                                    *)

\* What a handler knows outlives steps that keep the rows and their base points.
LEMMA FrameKept ==
  ASSUME NEW s \in Tasks, FrameOK(s), tasks'[s] = tasks[s], UNCHANGED table
  PROVE  FrameOK(s)'
BY DEF FrameOK, Active, PeriodKnown, Stored, IsStake

\* The sync's account of the logs survives a handler's step when the handler
\* goes on with its log, or leaves it stored or failed.
LEMMA SyncKept ==
  ASSUME SyncOK, StakingTypeOK, NEW t \in Tasks, Active(t), UNCHANGED sync,
         NEW k \in Logs, k = tasks[t].log,
         \A l \in Logs : Stored(l) => Stored(l)', failed => failed',
         NEW f, tasks' = [tasks EXCEPT ![t] = f],
         \/ f.stage # "none" /\ f.log = k
         \/ f.stage = "none" /\ (failed' \/ Stored(k)')
  PROVE  SyncOK'
<1>1. SyncTask \in Tasks /\ tasks \in [Tasks -> HandlerFrame]
      BY DEF Tasks, StakingTypeOK
<1>2. t = SyncTask => tasks'[SyncTask] = f
      BY <1>1
<1>3. t # SyncTask => tasks'[SyncTask] = tasks[SyncTask]
      BY <1>1
<1>4. Active(SyncTask)' => Active(SyncTask)
      BY <1>2, <1>3 DEF Active
<1>5. ASSUME NEW l \in Logs, Handled(l) PROVE Handled(l)'
  <2>1. CASE t = SyncTask
        BY <1>2, <1>5, <2>1 DEF Handled, Active
  <2>2. CASE t # SyncTask
        BY <1>3, <1>5, <2>2 DEF Handled, Active
  <2> QED BY <2>1, <2>2
<1>6. \A e : Queried(e)' <=> Queried(e)
      BY DEF Queried
<1> QED BY <1>4, <1>5, <1>6 DEF SyncOK

\* A step that leaves the table alone and does not bring its handler to the UPDATE.
LEMMA QuietStep ==
  ASSUME StakingInv, NEW t \in Tasks, Active(t), UNCHANGED <<head, conn, sync, crashes>>,
         UNCHANGED table, wallets' \subseteq Users, failed' \in BOOLEAN, failed => failed',
         faults' \in 0 .. MaxFaults,
         NEW f \in HandlerFrame, tasks' = [tasks EXCEPT ![t] = f], f.stage # "update",
         \/ f.stage # "none" /\ f.log = tasks[t].log
         \/ f.stage = "none" /\ (failed' \/ Stored(tasks[t].log)),
         FrameOK(t)'
  PROVE  StakingInv'
<1>1. tasks' \in [Tasks -> HandlerFrame] /\ tasks'[t] = f
      BY DEF StakingInv, StakingTypeOK
<1>2. StakingTypeOK'
      BY <1>1 DEF StakingInv, StakingTypeOK
<1>3. UnstakeFromOwnStake'
      BY DEF StakingInv, UnstakeFromOwnStake, IsStake
<1>4. ASSUME NEW s \in Tasks PROVE FrameOK(s)'
  <2>1. CASE s = t
        BY <2>1
  <2>2. CASE s # t
    <3>1. tasks'[s] = tasks[s]
          BY <2>2 DEF StakingInv, StakingTypeOK
    <3> QED BY <3>1, FrameKept DEF StakingInv
  <2> QED BY <2>1, <2>2
<1>5. OneUpdate'
      BY <1>1 DEF StakingInv, StakingTypeOK, OneUpdate
<1>6. SyncOK'
  <2>1. \A l : Stored(l) <=> Stored(l)'
        BY DEF Stored
  <2>2. tasks[t].log \in Logs
        BY DEF StakingInv, FrameOK
  <2>3. PICK k \in Logs : k = tasks[t].log
        BY <2>2
  <2> QED BY <2>1, <2>3, SyncKept DEF StakingInv
<1> QED BY <1>2, <1>3, <1>4, <1>5, <1>6 DEF StakingInv

\* Goto and EndHandler written as one update of the handler's frame.
LEMMA GotoFrame ==
  ASSUME StakingTypeOK, NEW t \in Tasks, NEW stage \in HandlerStage, Goto(t, stage)
  PROVE  \E f \in HandlerFrame :
           /\ f.stage = stage /\ f.log = tasks[t].log
           /\ f.base = tasks[t].base /\ f.period = tasks[t].period
           /\ tasks' = [tasks EXCEPT ![t] = f] /\ tasks'[t] = f
<1> DEFINE f == [log |-> tasks[t].log, stage |-> stage, base |-> tasks[t].base,
                 period |-> tasks[t].period]
<1>1. tasks[t] \in HandlerFrame /\ tasks \in [Tasks -> HandlerFrame]
      BY DEF StakingTypeOK
<1>2. f \in HandlerFrame /\ f = [tasks[t] EXCEPT !.stage = stage]
      BY <1>1 DEF HandlerFrame
<1>3. tasks' = [tasks EXCEPT ![t] = f]
      BY <1>2 DEF Goto
<1> QED BY <1>1, <1>2, <1>3

LEMMA IdleFrame == Idle \in HandlerFrame /\ Idle.stage = "none" /\ Idle.period = 0
BY DEF Idle, HandlerFrame, HandlerStage

\* A handler that ends, with its log stored or with a failure on record.
LEMMA EndStep ==
  ASSUME StakingInv, NEW t \in Tasks, Active(t), UNCHANGED <<head, conn, sync, crashes>>,
         UNCHANGED <<wallets, table>>, failed' \in BOOLEAN, failed => failed',
         faults' \in 0 .. MaxFaults, EndHandler(t), failed' \/ Stored(tasks[t].log)
  PROVE  StakingInv'
<1>1. tasks' = [tasks EXCEPT ![t] = Idle] /\ tasks'[t] = Idle
      BY DEF EndHandler, StakingInv, StakingTypeOK
<1>2. FrameOK(t)'
      BY <1>1, IdleFrame DEF FrameOK, Active
<1>3. wallets' \subseteq Users
      BY DEF StakingInv, StakingTypeOK
<1> QED BY <1>1, <1>2, <1>3, IdleFrame, QuietStep

\* The constants' types, and what a handler step leaves alone.
LEMMA FrameTypes ==
  ASSUME StakingInv, NEW t \in Tasks, Active(t)
  PROVE  /\ tasks[t] \in HandlerFrame /\ tasks[t].log \in Logs
         /\ wallets \subseteq Users /\ failed \in BOOLEAN
         /\ faults \in 0 .. MaxFaults /\ MaxFaults \in Nat /\ head \in Nat
BY BoundAssumption DEF StakingInv, StakingTypeOK, FrameOK

\* A handler moves to a stage that claims nothing about the table.
LEMMA MoveStep ==
  ASSUME StakingInv, NEW t \in Tasks, Active(t), UNCHANGED <<head, conn, sync, crashes>>,
         UNCHANGED table, wallets' \subseteq Users, failed' \in BOOLEAN, failed => failed',
         faults' \in 0 .. MaxFaults,
         NEW f \in HandlerFrame, tasks' = [tasks EXCEPT ![t] = f],
         f.stage \notin {"none", "update"}, f.log = tasks[t].log, f.period = 0
  PROVE  StakingInv'
<1>1. tasks'[t] = f
      BY DEF StakingInv, StakingTypeOK
<1>2. f.log \in Logs
      BY DEF StakingInv, FrameOK
<1>3. FrameOK(t)'
      BY <1>1, <1>2 DEF FrameOK, Active
<1> QED BY <1>3, QuietStep

LEMMA EnsureInv ==
  ASSUME StakingInv, NEW t \in Tasks, ensureWalletExists(t),
         UNCHANGED <<head, conn, sync, crashes>>
  PROVE  StakingInv'
<1>1. Active(t)
      BY DEF ensureWalletExists, Active
<1>2. PICK f \in HandlerFrame :
           f.stage = "exists" /\ f.log = tasks[t].log /\ f.period = tasks[t].period
           /\ tasks' = [tasks EXCEPT ![t] = f]
      BY GotoFrame DEF ensureWalletExists, StakingInv, HandlerStage
<1>3. tasks[t].period = 0
      BY DEF ensureWalletExists, StakingInv, FrameOK
<1>4. wallets' \subseteq Users
      BY <1>1, FrameTypes, LogFacts DEF ensureWalletExists
<1> QED BY <1>1, <1>2, <1>3, <1>4, FrameTypes, MoveStep DEF ensureWalletExists

LEMMA ExistsInv ==
  ASSUME StakingInv, NEW t \in Tasks, eventExists(t),
         UNCHANGED <<head, conn, sync, crashes>>
  PROVE  StakingInv'
<1>1. Active(t) /\ UNCHANGED <<wallets, table, failed, faults>>
      BY DEF eventExists, Active
<1>2. CASE Stored(tasks[t].log)
  <2>1. EndHandler(t)
        BY <1>2 DEF eventExists
  <2> QED BY <1>1, <1>2, <2>1, FrameTypes, EndStep
<1>3. CASE ~Stored(tasks[t].log)
  <2>1. Goto(t, "read")
        BY <1>3 DEF eventExists
  <2>2. PICK f \in HandlerFrame :
             f.stage = "read" /\ f.log = tasks[t].log /\ f.period = tasks[t].period
             /\ tasks' = [tasks EXCEPT ![t] = f]
        BY <2>1, GotoFrame DEF StakingInv, HandlerStage
  <2>3. tasks[t].period = 0
        BY DEF eventExists, StakingInv, FrameOK
  <2> QED BY <1>1, <2>2, <2>3, FrameTypes, MoveStep
<1> QED BY <1>2, <1>3

\* The two ways out of the calls that read the chain: points, or 0.
LEMMA ReadInv ==
  ASSUME StakingInv, NEW t \in Tasks, tasks[t].stage = "read", NEW b \in Nat,
         Hold(t, "create", b, 0),
         UNCHANGED <<head, conn, wallets, table, sync, crashes>>,
         failed' \in BOOLEAN, failed => failed', faults' \in 0 .. MaxFaults
  PROVE  StakingInv'
<1> DEFINE f == [log |-> tasks[t].log, stage |-> "create", base |-> b, period |-> 0]
<1>1. Active(t)
      BY DEF Active
<1>2. f \in HandlerFrame
      BY <1>1, FrameTypes DEF HandlerFrame, HandlerStage
<1>3. tasks' = [tasks EXCEPT ![t] = f]
      BY DEF Hold
<1>4. f.stage \notin {"none", "update"} /\ f.log = tasks[t].log /\ f.period = 0
      BY <1>1
<1> HIDE DEF f
<1> QED BY <1>1, <1>2, <1>3, <1>4, FrameTypes, MoveStep

LEMMA CopyInv ==
  ASSUME StakingInv, NEW t \in Tasks, tasks[t].stage = "create", CopiesStake(t), CopyStake(t),
         UNCHANGED <<head, conn, wallets, table, sync, failed, faults, crashes>>
  PROVE  StakingInv'
<1>1. Active(t)
      BY DEF Active
<1>2. PICK i \in DOMAIN table :
           /\ i \in StakesOf(Chain[tasks[t].log].user)
           /\ Hold(t, "insert", table[i].base, table[i].log)
      BY DEF CopyStake, IsLastStake
<1>3. table[i] \in StakingRow
      BY RowFacts DEF StakingInv
<1> DEFINE f == [log |-> tasks[t].log, stage |-> "insert", base |-> table[i].base,
                 period |-> table[i].log]
<1>4. f \in HandlerFrame
      BY <1>1, <1>3, FrameTypes DEF HandlerFrame, HandlerStage, StakingRow
<1>5. tasks' = [tasks EXCEPT ![t] = f] /\ tasks'[t] = f
      BY <1>2 DEF Hold, StakingInv, StakingTypeOK
<1>6. PeriodKnown(t)'
  <2>1. ~IsStake(f.log) /\ IsStake(f.period) /\ Chain[f.period].user = Chain[f.log].user
        BY <1>2 DEF CopiesStake, StakesOf
  <2>2. table[i].log = f.period /\ f.base \in {0, table[i].base}
        OBVIOUS
  <2> HIDE DEF f
  <2>3. i \in DOMAIN table' /\ table'[i] = table[i]
        OBVIOUS
  <2> QED BY <1>5, <2>1, <2>2, <2>3 DEF PeriodKnown, IsStake
<1>7. FrameOK(t)'
  <2>1. f.log \in Logs /\ f.stage = "insert"
        BY <1>1, FrameTypes
  <2> HIDE DEF f
  <2> QED BY <1>5, <1>6, <2>1 DEF FrameOK, Active
<1>8. f.stage = "insert" /\ f.log = tasks[t].log
      OBVIOUS
<1> HIDE DEF f
<1> QED BY <1>1, <1>4, <1>5, <1>7, <1>8, FrameTypes, QuietStep

LEMMA CreateInv ==
  ASSUME StakingInv, NEW t \in Tasks, BeginCreate(t),
         UNCHANGED <<head, conn, sync, crashes>>
  PROVE  StakingInv'
<1>1. Active(t) /\ tasks[t].stage = "create" /\ UNCHANGED <<wallets, table, failed, faults>>
      BY DEF BeginCreate, Active
<1>2. CASE CopiesStake(t)
  <2>1. CopyStake(t)
        BY <1>2 DEF BeginCreate
  <2> QED BY <1>1, <1>2, <2>1, CopyInv
<1>3. CASE ~CopiesStake(t)
  <2>1. PICK f \in HandlerFrame :
             f.stage = "insert" /\ f.log = tasks[t].log /\ f.period = tasks[t].period
             /\ tasks' = [tasks EXCEPT ![t] = f]
        BY <1>3, GotoFrame DEF BeginCreate, StakingInv, HandlerStage
  <2>2. tasks[t].period = 0
        BY <1>1 DEF StakingInv, FrameOK
  <2> QED BY <1>1, <2>1, <2>2, FrameTypes, MoveStep
<1> QED BY <1>2, <1>3

LEMMA SavedRowType ==
  ASSUME StakingInv, NEW t \in Tasks, Active(t)
  PROVE  /\ SavedRow(tasks[t]) \in StakingRow
         /\ SavedRow(tasks[t]).log = tasks[t].log
         /\ SavedRow(tasks[t]).period = tasks[t].period
         /\ IsStake(tasks[t].log) => SavedRow(tasks[t]).base = 0
         /\ ~IsStake(tasks[t].log) => SavedRow(tasks[t]).base = tasks[t].base
<1>1. tasks[t] \in HandlerFrame /\ tasks[t].log \in Logs
      BY FrameTypes
<1>2. /\ tasks[t].base \in Nat /\ tasks[t].period \in Logs \cup {0}
      BY <1>1 DEF HandlerFrame
<1> QED BY <1>1, <1>2 DEF SavedRow, StakingRow, TotalEarnedPoints

\* The INSERT: other handlers' rows are of other transactions, the new row's
\* STAKE is the one its handler has found, and its own UPDATE is to come.
LEMMA InsertInv ==
  ASSUME StakingInv, NEW t \in Tasks, Inserts(t), UNCHANGED <<head, conn, sync, crashes>>,
         UNCHANGED wallets, failed' \in BOOLEAN, failed => failed', faults' \in 0 .. MaxFaults,
         NEW f \in HandlerFrame, tasks' = [tasks EXCEPT ![t] = f], f.period = 0 \/ f.stage = "update",
         \/ f.stage = "none"
         \/ f.stage = "update" /\ f.log = tasks[t].log /\ IsStake(f.log)
  PROVE  StakingInv'
<1> DEFINE r == SavedRow(tasks[t])
<1>1. Active(t) /\ tasks[t].stage = "insert" /\ ~Stored(tasks[t].log)
      BY DEF Inserts, Active
<1>2. PICK k \in Logs : k = tasks[t].log
      BY <1>1, FrameTypes
<1>3. /\ r \in StakingRow /\ r.log = k /\ r.period = tasks[t].period
      /\ IsStake(k) => r.base = 0
      /\ ~IsStake(k) => r.base = tasks[t].base
      BY <1>1, <1>2, SavedRowType
<1>4. ~Stored(k) /\ table' = Append(table, r)
      BY <1>1, <1>2 DEF Inserts
<1> HIDE DEF r
<1>5. /\ table' \in Seq(StakingRow)
      /\ DOMAIN table' = DOMAIN table \cup {Len(table) + 1}
      /\ \A i \in DOMAIN table : table'[i] = table[i]
      /\ table'[Len(table) + 1] = r
      /\ \A l \in Logs : Stored(l) => Stored(l)'
      /\ Stored(k)'
  <2>1. DOMAIN table' = DOMAIN table \cup {Len(table) + 1} /\ table'[Len(table) + 1] = r
        BY <1>3, <1>4, AppendFacts DEF StakingInv
  <2>2. Stored(k)'
        BY <1>3, <2>1 DEF Stored
  <2> QED BY <1>3, <1>4, <2>2, AppendFacts DEF StakingInv
<1>6. tasks' \in [Tasks -> HandlerFrame] /\ tasks'[t] = f
      /\ \A s \in Tasks : s # t => tasks'[s] = tasks[s]
      BY DEF StakingInv, StakingTypeOK
<1>7. StakingTypeOK'
      BY <1>5, <1>6 DEF StakingInv, StakingTypeOK
<1>8. \A i \in DOMAIN table : i \in Nat /\ i <= Len(table) /\ table[i].log # k
      BY <1>4 DEF StakingInv, StakingTypeOK, Stored
<1>9. UnstakeFromOwnStake'
  <2>1. ASSUME NEW i \in DOMAIN table', table'[i].period # 0
        PROVE  \E j \in 1 .. i - 1 :
                 /\ table'[j].log = table'[i].period
                 /\ IsStake(table'[j].log) /\ ~IsStake(table'[i].log)
                 /\ Chain[table'[j].log].user = Chain[table'[i].log].user
                 /\ table'[i].base \in {0, table'[j].base}
    <3>1. CASE i \in DOMAIN table
      <4>1. PICK j \in 1 .. i - 1 :
                 /\ table[j].log = table[i].period
                 /\ IsStake(table[j].log) /\ ~IsStake(table[i].log)
                 /\ Chain[table[j].log].user = Chain[table[i].log].user
                 /\ table[i].base \in {0, table[j].base}
            BY <1>5, <2>1, <3>1 DEF StakingInv, UnstakeFromOwnStake
      <4>2. j \in DOMAIN table
            BY <3>1 DEF StakingInv, StakingTypeOK
      <4> QED BY <1>5, <3>1, <4>1, <4>2
    <3>2. CASE i = Len(table) + 1
      <4>1. PeriodKnown(t) /\ ~IsStake(k)
            BY <1>1, <1>2, <1>3, <1>5, <2>1, <3>2 DEF StakingInv, FrameOK, PeriodKnown
      <4>2. PICK j \in DOMAIN table :
                 /\ table[j].log = tasks[t].period /\ tasks[t].base \in {0, table[j].base}
            BY <4>1 DEF PeriodKnown
      <4>3. j \in 1 .. i - 1 /\ table'[j] = table[j]
            BY <1>5, <3>2, <4>2 DEF StakingInv, StakingTypeOK
      <4> QED BY <1>2, <1>3, <1>5, <3>2, <4>1, <4>2, <4>3 DEF PeriodKnown
    <3> QED BY <1>5, <2>1, <3>1, <3>2
  <2> QED BY <2>1 DEF UnstakeFromOwnStake, IsStake
<1>10. ASSUME NEW s \in Tasks, s # t PROVE FrameOK(s)'
  <2>1. tasks'[s] = tasks[s] /\ FrameOK(s)
        BY <1>6, <1>10 DEF StakingInv
  <2>2. ASSUME tasks[s].stage = "insert", tasks[s].period # 0 PROVE PeriodKnown(s)'
    <3>1. PeriodKnown(s)
          BY <2>1, <2>2 DEF FrameOK
    <3> QED BY <1>5, <2>1, <3>1 DEF PeriodKnown, IsStake
  <2>3. ASSUME tasks[s].stage = "update"
        PROVE  /\ \E i \in DOMAIN table' : Chain[table'[i].log].tx = Chain[tasks[s].log].tx
               /\ \A i \in DOMAIN table' : table'[i].log = tasks[s].log => table'[i].base = 0
    <3>1. tasks[s].log # k /\ Stored(tasks[s].log)
          BY <1>4, <2>1, <2>3 DEF FrameOK
    <3> QED BY <1>3, <1>5, <2>1, <2>3, <3>1 DEF FrameOK, Stored
  <2> QED BY <2>1, <2>2, <2>3 DEF FrameOK, Active, Stored, IsStake
<1>11. FrameOK(t)'
  <2>1. CASE f.stage = "none"
        BY <1>6, <2>1 DEF FrameOK, Active
  <2>2. CASE f.stage = "update" /\ f.log = tasks[t].log /\ IsStake(f.log)
    <3>1. f.log = k /\ IsStake(k)
          BY <1>2, <2>2
    <3>2. \A i \in DOMAIN table' : table'[i].log = k => table'[i].base = 0
          BY <1>3, <1>5, <1>8, <3>1
    <3>3. \E i \in DOMAIN table' : Chain[table'[i].log].tx = Chain[k].tx
          BY <1>5 DEF Stored
    <3> QED BY <1>6, <2>2, <3>1, <3>2, <3>3 DEF FrameOK, Active, Stored, IsStake
  <2> QED BY <2>1, <2>2
<1>12. OneUpdate'
  <2>1. ASSUME NEW s \in Tasks, s # t, tasks[s].stage = "update" PROVE tasks[s].log # k
        BY <1>4, <2>1 DEF StakingInv, FrameOK
  <2> QED BY <1>2, <1>6, <2>1 DEF StakingInv, OneUpdate
<1>13. SyncOK'
      BY <1>1, <1>2, <1>5, SyncKept DEF StakingInv
<1> QED BY <1>7, <1>9, <1>10, <1>11, <1>12, <1>13 DEF StakingInv

\* The UPDATE: it reaches the one row of its handler, whose base points were 0.
LEMMA UpdateInv ==
  ASSUME StakingInv, NEW t \in Tasks, UpdateBase(t),
         UNCHANGED <<head, conn, sync, crashes>>
  PROVE  StakingInv'
<1>1. Active(t) /\ tasks[t].stage = "update" /\ UNCHANGED <<wallets, failed, faults>>
      BY DEF UpdateBase, Active
<1>2. PICK k \in Logs : k = tasks[t].log
      BY <1>1, FrameTypes
<1>3. PICK b \in Nat : b = tasks[t].base
      BY <1>1, FrameTypes DEF HandlerFrame
<1>4. /\ IsStake(k) /\ Stored(k)
      /\ \A i \in DOMAIN table : table[i].log = k => table[i].base = 0
      BY <1>1, <1>2 DEF StakingInv, FrameOK
<1>5. /\ table' \in Seq(StakingRow)
      /\ DOMAIN table' = DOMAIN table
      /\ \A i \in DOMAIN table :
           /\ table'[i].log = table[i].log
           /\ table'[i].period = table[i].period
           /\ table[i].log # k => table'[i] = table[i]
      /\ \A l \in Logs : Stored(l) => Stored(l)'
  <2>1. table' = [i \in DOMAIN table |-> IF table[i].log = k
                                         THEN [table[i] EXCEPT !.base = b]
                                         ELSE table[i]]
        BY <1>2, <1>3 DEF UpdateBase
  <2> QED BY <2>1, UpdateFacts DEF StakingInv
<1>6. tasks' = [tasks EXCEPT ![t] = Idle] /\ tasks'[t] = Idle
      /\ \A s \in Tasks : s # t => tasks'[s] = tasks[s]
      BY DEF UpdateBase, EndHandler, StakingInv, StakingTypeOK
<1>7. StakingTypeOK'
      BY <1>1, <1>5, <1>6, IdleFrame DEF StakingInv, StakingTypeOK
<1>8. UnstakeFromOwnStake'
  <2>1. ASSUME NEW i \in DOMAIN table, table[i].period # 0
        PROVE  \E j \in 1 .. i - 1 :
                 /\ table'[j].log = table'[i].period
                 /\ IsStake(table'[j].log) /\ ~IsStake(table'[i].log)
                 /\ Chain[table'[j].log].user = Chain[table'[i].log].user
                 /\ table'[i].base \in {0, table'[j].base}
    <3>1. PICK j \in 1 .. i - 1 :
               /\ table[j].log = table[i].period
               /\ IsStake(table[j].log) /\ ~IsStake(table[i].log)
               /\ Chain[table[j].log].user = Chain[table[i].log].user
               /\ table[i].base \in {0, table[j].base}
          BY <2>1 DEF StakingInv, UnstakeFromOwnStake
    <3>2. j \in DOMAIN table
          BY DEF StakingInv, StakingTypeOK
    <3>3. table'[i] = table[i]
          BY <1>4, <1>5, <3>1
    <3> QED BY <1>4, <1>5, <3>1, <3>2, <3>3
  <2> QED BY <1>5, <2>1 DEF UnstakeFromOwnStake, IsStake
<1>9. ASSUME NEW s \in Tasks, s # t PROVE FrameOK(s)'
  <2>1. tasks'[s] = tasks[s] /\ FrameOK(s)
        BY <1>6, <1>9 DEF StakingInv
  <2>2. ASSUME tasks[s].stage = "insert", tasks[s].period # 0 PROVE PeriodKnown(s)'
    <3>1. PeriodKnown(s)
          BY <2>1, <2>2 DEF FrameOK
    <3>2. PICK j \in DOMAIN table :
               table[j].log = tasks[s].period /\ tasks[s].base \in {0, table[j].base}
          BY <3>1 DEF PeriodKnown
    <3>3. tasks[s].base \in {0, table'[j].base}
          BY <1>4, <1>5, <3>2
    <3> QED BY <1>5, <2>1, <3>1, <3>2, <3>3 DEF PeriodKnown, IsStake
  <2>3. ASSUME tasks[s].stage = "update"
        PROVE  /\ \E i \in DOMAIN table' : Chain[table'[i].log].tx = Chain[tasks[s].log].tx
               /\ \A i \in DOMAIN table' : table'[i].log = tasks[s].log => table'[i].base = 0
    <3>1. tasks[s].log # k
          BY <1>1, <1>2, <1>9, <2>3 DEF StakingInv, OneUpdate
    <3> QED BY <1>5, <2>1, <2>3, <3>1 DEF FrameOK, Stored
  <2> QED BY <2>1, <2>2, <2>3 DEF FrameOK, Active, Stored, IsStake
<1>10. FrameOK(t)'
      BY <1>6, IdleFrame DEF FrameOK, Active
<1>11. OneUpdate'
      BY <1>6, IdleFrame DEF StakingInv, OneUpdate
<1>12. SyncOK'
  <2>1. Stored(k)'
        BY <1>4, <1>5
  <2> QED BY <1>1, <1>2, <1>5, <1>6, <2>1, IdleFrame, SyncKept DEF StakingInv
<1> QED BY <1>7, <1>8, <1>9, <1>10, <1>11, <1>12 DEF StakingInv

LEMMA HandlerStepInv ==
  ASSUME StakingInv, NEW t \in Tasks, HandlerStep(t)
  PROVE  StakingInv'
<1> USE DEF HandlerStep
<1>1. CASE ensureWalletExists(t)
      BY <1>1, EnsureInv
<1>2. CASE eventExists(t)
      BY <1>2, ExistsInv
<1>3. CASE ReadChain(t)
  <2>1. Active(t)
        BY <1>3 DEF ReadChain, Active
  <2>2. PICK b \in Nat : Hold(t, "create", b, 0)
        BY <1>3, <2>1, FrameTypes DEF ReadChain, PointsAt
  <2> QED BY <1>3, <2>1, <2>2, FrameTypes, ReadInv DEF ReadChain
<1>4. CASE BeginCreate(t)
      BY <1>4, CreateInv
<1>5. CASE InsertEvent(t)
  <2>1. Active(t) /\ Inserts(t) /\ UNCHANGED <<wallets, failed, faults>>
        BY <1>5 DEF InsertEvent, Inserts, Active
  <2>2. CASE IsStake(tasks[t].log)
    <3>1. PICK f \in HandlerFrame : /\ f.stage = "update" /\ f.log = tasks[t].log
                                    /\ tasks' = [tasks EXCEPT ![t] = f]
          BY <1>5, <2>2, GotoFrame DEF InsertEvent, StakingInv, HandlerStage
    <3> QED BY <2>1, <2>2, <3>1, FrameTypes, InsertInv
  <2>3. CASE ~IsStake(tasks[t].log)
    <3>1. tasks' = [tasks EXCEPT ![t] = Idle]
          BY <1>5, <2>3 DEF InsertEvent, EndHandler
    <3> QED BY <2>1, <3>1, FrameTypes, IdleFrame, InsertInv
  <2> QED BY <2>2, <2>3
<1>6. CASE InsertRefused(t)
  <2>1. Active(t)
        BY <1>6 DEF InsertRefused, Active
  <2> QED BY <1>6, <2>1, FrameTypes, EndStep DEF InsertRefused
<1>7. CASE UpdateBase(t)
      BY <1>7, UpdateInv
<1> QED BY <1>1, <1>2, <1>3, <1>4, <1>5, <1>6, <1>7

LEMMA HandlerFaultsInv ==
  ASSUME StakingInv, NEW t \in Tasks, HandlerFaults(t)
  PROVE  StakingInv'
<1> USE DEF HandlerFaults
<1>1. Active(t) /\ failed' = TRUE /\ UNCHANGED <<head, conn, wallets, sync, crashes>>
      BY DEF HandlerThrows, BasePointsFail, PeriodFails, InsertReplyLost, Inserts, Active
<1>2. faults' \in 0 .. MaxFaults
  <2>1. Fault
        BY DEF HandlerThrows, BasePointsFail, PeriodFails, InsertReplyLost
  <2> QED BY <1>1, <2>1, FrameTypes DEF Fault
<1>3. CASE HandlerThrows(t)
      BY <1>1, <1>2, <1>3, EndStep DEF HandlerThrows
<1>4. CASE BasePointsFail(t)
      BY <1>1, <1>2, <1>4, ReadInv DEF BasePointsFail
<1>5. CASE PeriodFails(t)
  <2>1. PICK f \in HandlerFrame :
             f.stage = "insert" /\ f.log = tasks[t].log /\ f.period = tasks[t].period
             /\ tasks' = [tasks EXCEPT ![t] = f]
        BY <1>5, GotoFrame DEF PeriodFails, StakingInv, HandlerStage
  <2>2. tasks[t].period = 0
        BY <1>5 DEF PeriodFails, StakingInv, FrameOK
  <2> QED BY <1>1, <1>2, <1>5, <2>1, <2>2, FrameTypes, MoveStep DEF PeriodFails
<1>6. CASE InsertReplyLost(t)
  <2>1. tasks' = [tasks EXCEPT ![t] = Idle] /\ Inserts(t)
        BY <1>6 DEF InsertReplyLost, EndHandler
  <2> QED BY <1>1, <1>2, <2>1, IdleFrame, InsertInv
<1> QED BY <1>3, <1>4, <1>5, <1>6

-----------------------------------------------------------------------------
(* Steps of the sync, the connection and the process.                       *)

\* Steps that touch neither the table nor a handler only have the types and
\* the sync's account to show.
LEMMA OutsideStep ==
  ASSUME StakingInv, UNCHANGED <<table, tasks>>, StakingTypeOK', SyncOK'
  PROVE  StakingInv'
<1>1. UnstakeFromOwnStake'
      BY DEF StakingInv, UnstakeFromOwnStake, IsStake
<1>2. \A t \in Tasks : FrameOK(t)'
      BY FrameKept DEF StakingInv
<1>3. OneUpdate'
      BY DEF StakingInv, OneUpdate
<1> QED BY <1>1, <1>2, <1>3 DEF StakingInv

\* A handler is started for a log: it claims nothing yet.
LEMMA StartStep ==
  ASSUME StakingInv, UNCHANGED table, StakingTypeOK', SyncOK',
         \A t \in Tasks : tasks'[t] = tasks[t] \/ \E l \in Logs : tasks'[t] = Start(l)
  PROVE  StakingInv'
<1>1. UnstakeFromOwnStake'
      BY DEF StakingInv, UnstakeFromOwnStake, IsStake
<1>2. ASSUME NEW l PROVE Start(l) = [log |-> l, stage |-> "ensure", base |-> 0, period |-> 0]
      BY DEF Start
<1>3. ASSUME NEW t \in Tasks PROVE FrameOK(t)'
  <2>1. CASE tasks'[t] = tasks[t]
        BY <2>1, FrameKept DEF StakingInv
  <2>2. CASE \E l \in Logs : tasks'[t] = Start(l)
        BY <1>2, <2>2 DEF FrameOK, Active
  <2> QED BY <2>1, <2>2
<1>4. \A t \in Tasks : tasks'[t].stage = "update" => tasks'[t] = tasks[t]
      BY <1>2
<1>5. OneUpdate'
      BY <1>4 DEF StakingInv, OneUpdate
<1> QED BY <1>1, <1>3, <1>5 DEF StakingInv

LEMMA StartFrame ==
  ASSUME NEW l \in Logs
  PROVE  Start(l) \in HandlerFrame /\ Start(l).stage = "ensure" /\ Start(l).log = l
<1>1. Start(l) = [log |-> l, stage |-> "ensure", base |-> 0, period |-> 0]
      BY DEF Start
<1> QED BY <1>1 DEF HandlerFrame, HandlerStage

LEMMA MineInv ==
  ASSUME StakingInv, Mine
  PROVE  StakingInv'
<1>1. /\ tasks \in [Tasks -> HandlerFrame] /\ head' \in Nat
      /\ tasks' = [t \in Tasks |-> IF t \in Logs /\ Hears(t) /\ Chain[t].block = head + 1
                                   THEN Start(t) ELSE tasks[t]]
      /\ UNCHANGED <<conn, wallets, table, sync, failed, faults, crashes>>
      BY DEF Mine, StakingInv, StakingTypeOK
<1>2. \A t \in Tasks : tasks'[t] = tasks[t] \/ \E l \in Logs : tasks'[t] = Start(l)
      BY <1>1
<1>3. \A t \in Tasks : tasks'[t] \in HandlerFrame
      BY <1>1, <1>2, StartFrame
<1>4. StakingTypeOK'
      BY <1>1, <1>3 DEF StakingInv, StakingTypeOK
<1>5. tasks'[SyncTask] = tasks[SyncTask]
      BY <1>1, LogFacts DEF SyncTask, Tasks
<1>6. SyncOK'
  <2>1. \A l \in Logs : Handled(l) => Handled(l)'
        BY <1>1, <1>5 DEF Handled, Stored, Active
  <2>2. \A e : Queried(e)' <=> Queried(e)
        BY <1>1 DEF Queried
  <2> QED BY <1>1, <1>5, <2>1, <2>2 DEF StakingInv, SyncOK, Active
<1> QED BY <1>1, <1>2, <1>4, <1>6, StartStep

LEMMA SyncUntouched ==
  ASSUME SyncOK, UNCHANGED <<table, tasks, sync, failed>>
  PROVE  SyncOK'
<1>1. \A l \in Logs : Handled(l) => Handled(l)'
      BY DEF Handled, Stored, Active
<1>2. \A e : Queried(e)' <=> Queried(e)
      BY DEF Queried
<1> QED BY <1>1, <1>2 DEF SyncOK, Active

LEMMA AllSubsTyped ==
  ASSUME NEW stage \in SubStage
  PROVE  AllSubs(stage) \in [EventNames -> SubStage]
BY DEF AllSubs

\* The steps of the connection: they change alive, subs, timers and faults.
ConnectionStep ==
  \/ Drop \/ handleProviderError \/ Reconnect \/ ReconnectFails
  \/ \E n \in EventNames : Subscribed(n) \/ SubscribeFails(n)

LEMMA ConnectionInv ==
  ASSUME StakingInv, ConnectionStep
  PROVE  StakingInv'
<1>0. /\ alive \in BOOLEAN /\ timers \in Nat /\ faults \in 0 .. MaxFaults
      /\ subs \in [EventNames -> SubStage]
      /\ AllSubs("none") \in [EventNames -> SubStage]
      /\ AllSubs("asked") \in [EventNames -> SubStage]
      BY AllSubsTyped DEF StakingInv, StakingTypeOK, SubStage
<1>1. UNCHANGED <<head, wallets, table, tasks, sync, failed, crashes>>
      BY DEF ConnectionStep, Drop, handleProviderError, Reconnect, ReconnectFails, Subscribed, SubscribeFails
<1>2. faults' \in 0 .. MaxFaults
      BY <1>0, BoundAssumption
      DEF ConnectionStep, Drop, handleProviderError, Reconnect, ReconnectFails, Subscribed, SubscribeFails, Fault
<1>3. alive' \in BOOLEAN /\ timers' \in Nat /\ subs' \in [EventNames -> SubStage]
  <2>1. CASE Drop
        BY <1>0, <2>1 DEF Drop
  <2>2. CASE handleProviderError
        BY <1>0, <2>2 DEF handleProviderError
  <2>3. CASE Reconnect
    <3>1. alive' \in BOOLEAN
          BY <2>3 DEF Reconnect, Initialize
    <3>2. timers' \in Nat /\ subs' \in [EventNames -> SubStage]
          BY <1>0, <2>3 DEF Reconnect, Initialize
    <3> QED BY <3>1, <3>2
  <2>4. CASE ReconnectFails
        BY <1>0, <2>4 DEF ReconnectFails
  <2>5. ASSUME NEW n \in EventNames, Subscribed(n) \/ SubscribeFails(n)
        PROVE  alive' \in BOOLEAN /\ timers' \in Nat /\ subs' \in [EventNames -> SubStage]
    <3>1. PICK st \in SubStage : subs' = [subs EXCEPT ![n] = st]
          BY <2>5 DEF Subscribed, SubscribeFails, SubStage
    <3>2. UNCHANGED <<alive, timers>>
          BY <2>5 DEF Subscribed, SubscribeFails
    <3>3. subs' \in [EventNames -> SubStage]
          BY <1>0, <3>1
    <3>4. alive' \in BOOLEAN
          BY <1>0, <3>2
    <3> QED BY <1>0, <3>2, <3>3, <3>4
  <2> QED BY <2>1, <2>2, <2>3, <2>4, <2>5 DEF ConnectionStep
<1>4. StakingTypeOK'
      BY <1>1, <1>2, <1>3 DEF StakingInv, StakingTypeOK
<1> QED BY <1>1, <1>4, SyncUntouched, OutsideStep DEF StakingInv

LEMMA OffFacts ==
  Off \in SyncFrame /\ Off.stage = "off" /\ Off.event = "Staked" /\ Off.left = {} /\ Off.upto = 0
BY DEF Off, SyncFrame, SyncStage, EventNames

LEMMA BootInv ==
  ASSUME StakingInv, BootStep
  PROVE  StakingInv'
<1>1. /\ sync' \in SyncFrame /\ sync'.stage \in {"head", "rejected"}
      /\ sync'.event = "Staked" /\ sync'.left = {}
      BY OffFacts DEF BootStep, Boot, BootFails, SyncFrame, SyncStage
<1>2. /\ alive' \in BOOLEAN /\ failed' \in BOOLEAN /\ timers' \in Nat
      /\ subs' \in [EventNames -> SubStage] /\ faults' \in 0 .. MaxFaults
  <2>1. CASE Boot
        BY <2>1, AllSubsTyped DEF Boot, Initialize, SubStage, StakingInv, StakingTypeOK
  <2>2. CASE BootFails
        BY <2>2, BoundAssumption DEF BootFails, Fault, StakingInv, StakingTypeOK
  <2> QED BY <2>1, <2>2 DEF BootStep
<1>3. UNCHANGED <<head, wallets, table, tasks, crashes>> /\ ~Up
      BY DEF BootStep, Boot, BootFails
<1>4. StakingTypeOK'
      BY <1>1, <1>2, <1>3 DEF StakingInv, StakingTypeOK
<1>5. ~Active(SyncTask)' /\ \A e : ~Queried(e)'
      BY <1>1, <1>3 DEF Up, Active, Queried, StakingInv, SyncOK
<1>6. SyncOK'
      BY <1>1, <1>5 DEF SyncOK
<1> QED BY <1>3, <1>4, <1>6, OutsideStep

LEMMA CrashInv ==
  ASSUME StakingInv, Crash
  PROVE  StakingInv'
<1>1. /\ tasks' = [t \in Tasks |-> Idle] /\ sync' = Off /\ crashes' \in 0 .. MaxCrashes
      /\ UNCHANGED <<head, wallets, table, failed, faults>> /\ alive' = FALSE /\ timers' = 0
      /\ subs' = AllSubs("none") /\ AllSubs("none") \in [EventNames -> SubStage]
      BY BoundAssumption, AllSubsTyped DEF SubStage, Crash, StakingInv, StakingTypeOK
<1>2. StakingTypeOK'
      BY <1>1, IdleFrame, OffFacts DEF StakingInv, StakingTypeOK
<1>3. UnstakeFromOwnStake'
      BY <1>1 DEF StakingInv, UnstakeFromOwnStake, IsStake
<1>4. \A t \in Tasks : FrameOK(t)'
      BY <1>1, IdleFrame DEF FrameOK, Active
<1>5. OneUpdate'
      BY <1>1, IdleFrame DEF OneUpdate
<1>6. SyncOK'
  <2>1. ~Active(SyncTask)'
        BY <1>1, IdleFrame DEF Active, SyncTask, Tasks
  <2> QED BY <1>1, <2>1, OffFacts DEF SyncOK, Queried
<1> QED BY <1>2, <1>3, <1>4, <1>5, <1>6 DEF StakingInv

\* The fields of sync after an EXCEPT, for the steps below.
LEMMA SyncFrameFacts ==
  ASSUME StakingInv
  PROVE  /\ sync \in SyncFrame /\ sync.stage \in SyncStage /\ sync.event \in EventNames
         /\ sync.upto \in Nat /\ sync.left \subseteq Logs /\ head \in Nat
BY DEF StakingInv, StakingTypeOK, SyncFrame

LEMMA ReadHeadInv ==
  ASSUME StakingInv, ReadHead, UNCHANGED <<head, conn, wallets, table, crashes>>
  PROVE  StakingInv'
<1>1. /\ sync' \in SyncFrame /\ sync'.stage = "query" /\ sync'.event = "Staked"
      /\ sync'.left = {}
  <2>1. sync.event = "Staked" /\ sync.left = {} /\ sync.stage = "head"
        BY DEF ReadHead, StakingInv, SyncOK
  <2>2. /\ sync'.stage = "query" /\ sync'.event = sync.event
        /\ sync'.left = sync.left /\ sync' \in SyncFrame
        BY SyncFrameFacts DEF ReadHead, SyncFrame, SyncStage
  <2> QED BY <2>1, <2>2
<1>2. StakingTypeOK'
      BY <1>1 DEF ReadHead, StakingInv, StakingTypeOK
<1>3. ~Active(SyncTask)' /\ \A e : ~Queried(e)'
      BY <1>1 DEF ReadHead, Active, Queried, StakingInv, SyncOK
<1>4. SyncOK'
      BY <1>1, <1>3 DEF SyncOK
<1> QED BY <1>2, <1>4, OutsideStep DEF ReadHead

\* Without the latest block there is no sync: nothing is asked, nothing claimed.
LEMMA ReadHeadFailsInv ==
  ASSUME StakingInv, ReadHeadFails, UNCHANGED <<head, conn, wallets, table, crashes>>
  PROVE  StakingInv'
<1>1. sync.event = "Staked" /\ sync.left = {} /\ sync.stage = "head"
      BY DEF ReadHeadFails, StakingInv, SyncOK
<1>2. /\ sync' \in SyncFrame /\ sync'.stage = "rejected" /\ sync'.event = "Staked"
      /\ sync'.left = {}
      BY <1>1, SyncFrameFacts DEF ReadHeadFails, SyncFrame, SyncStage
<1>3. faults' \in 0 .. MaxFaults /\ failed' \in BOOLEAN /\ UNCHANGED tasks
      BY BoundAssumption DEF ReadHeadFails, Fault, StakingInv, StakingTypeOK
<1>4. StakingTypeOK'
      BY <1>2, <1>3 DEF StakingInv, StakingTypeOK
<1>5. ~Active(SyncTask)' /\ \A e : ~Queried(e)'
      BY <1>1, <1>2, <1>3 DEF Active, Queried, StakingInv, SyncOK
<1>6. SyncOK'
      BY <1>2, <1>5 DEF SyncOK
<1> QED BY <1>3, <1>4, <1>6, OutsideStep

\* What the query returns is still to be handled; what earlier queries
\* returned is.
LEMMA QueryLogsInv ==
  ASSUME StakingInv, QueryLogs, UNCHANGED <<head, conn, wallets, table, crashes>>
  PROVE  StakingInv'
<1>1. Found(sync.event, sync.upto) \subseteq Logs
      BY DEF Found
<1>2. /\ sync' \in SyncFrame /\ sync'.stage = "loop" /\ sync'.event = sync.event
      /\ sync'.upto = sync.upto /\ sync'.left = Found(sync.event, sync.upto)
      BY <1>1, SyncFrameFacts DEF QueryLogs, SyncFrame, SyncStage
<1>3. StakingTypeOK'
      BY <1>2 DEF QueryLogs, StakingInv, StakingTypeOK
<1>4. ~Active(SyncTask) /\ sync.left = {} /\ sync.stage = "query"
      BY DEF QueryLogs, StakingInv, SyncOK
<1>5. \A e : Queried(e)' => Queried(e) \/ e = sync.event
      BY <1>2 DEF Queried
<1>6. \A l \in Logs : Handled(l) => Handled(l)'
      BY DEF QueryLogs, Handled, Stored, Active
<1>7. ASSUME NEW l \in Logs, Queried(Chain[l].event)', l \notin sync'.left,
             Chain[l].block \in sync'.upto - Window .. sync'.upto
      PROVE  Handled(l)'
  <2>1. Chain[l].event # sync.event
        BY <1>2, <1>7 DEF Found
  <2>2. Queried(Chain[l].event)
        BY <1>5, <1>7, <2>1
  <2> QED BY <1>2, <1>4, <1>6, <1>7, <2>2 DEF StakingInv, SyncOK
<1>8. SyncOK'
      BY <1>2, <1>4, <1>7 DEF SyncOK, Active, QueryLogs
<1> QED BY <1>3, <1>8, OutsideStep DEF QueryLogs

LEMMA HandleLogInv ==
  ASSUME StakingInv, HandleLog, UNCHANGED <<head, conn, wallets, table, crashes>>
  PROVE  StakingInv'
<1>1. PICK l \in sync.left :
           /\ tasks' = [tasks EXCEPT ![SyncTask] = Start(l)]
           /\ sync' = [sync EXCEPT !.left = @ \ {l}]
      BY DEF HandleLog
<1>2. /\ l \in Logs /\ sync.stage = "loop" /\ ~Active(SyncTask)
      /\ UNCHANGED <<table, failed, faults>>
      BY SyncFrameFacts DEF HandleLog, Active
<1>3. /\ sync' \in SyncFrame /\ sync'.stage = "loop" /\ sync'.event = sync.event
      /\ sync'.upto = sync.upto /\ sync'.left = sync.left \ {l}
      BY <1>1, <1>2, SyncFrameFacts DEF SyncFrame, SyncStage
<1>4. /\ tasks' \in [Tasks -> HandlerFrame] /\ tasks'[SyncTask] = Start(l)
      /\ \A t \in Tasks : t # SyncTask => tasks'[t] = tasks[t]
      BY <1>1, <1>2, StartFrame DEF StakingInv, StakingTypeOK, Tasks
<1>5. StakingTypeOK'
      BY <1>2, <1>3, <1>4 DEF StakingInv, StakingTypeOK
<1>6. \A e : Queried(e)' <=> Queried(e)
      BY <1>2, <1>3 DEF Queried
<1>7. ASSUME NEW m \in Logs, Queried(Chain[m].event)', m \notin sync'.left,
             Chain[m].block \in sync'.upto - Window .. sync'.upto
      PROVE  Handled(m)'
  <2>1. CASE m = l
        BY <1>2, <1>4, <2>1, StartFrame DEF Handled, Active
  <2>2. CASE m # l
    <3>1. Handled(m)
          BY <1>3, <1>6, <1>7, <2>2 DEF StakingInv, SyncOK
    <3> QED BY <1>2, <3>1 DEF Handled, Stored
  <2> QED BY <2>1, <2>2
<1>8. SyncOK'
      BY <1>3, <1>7 DEF SyncOK
<1> QED BY <1>2, <1>4, <1>5, <1>8, StartStep

\* The event name is over: its logs, and those of the one before, are stored.
LEMMA NextNameInv ==
  ASSUME StakingInv, NextEventName, ~Active(SyncTask),
         UNCHANGED <<head, conn, wallets, table, tasks, crashes>>,
         failed' \in BOOLEAN, faults' \in 0 .. MaxFaults,
         \/ failed'
         \/ sync.stage = "loop" /\ sync.left = {} /\ failed' = failed
  PROVE  StakingInv'
<1>1. /\ sync' \in SyncFrame /\ sync'.left = {} /\ sync'.upto = sync.upto
      /\ \/ sync.event = "Staked" /\ sync'.stage = "query" /\ sync'.event = "Unstaked"
         \/ sync.event = "Unstaked" /\ sync'.stage = "done" /\ sync'.event = "Unstaked"
  <2>1. CASE sync.event = "Staked"
        BY <2>1, SyncFrameFacts DEF NextEventName, SyncFrame, SyncStage, EventNames
  <2>2. CASE sync.event = "Unstaked"
        BY <2>2, SyncFrameFacts DEF NextEventName, SyncFrame, SyncStage, EventNames
  <2> QED BY <2>1, <2>2, SyncFrameFacts DEF EventNames
<1>2. StakingTypeOK'
      BY <1>1 DEF StakingInv, StakingTypeOK
<1>3. ASSUME NEW l \in Logs, Queried(Chain[l].event)',
             Chain[l].block \in sync'.upto - Window .. sync'.upto
      PROVE  Handled(l)'
  <2>1. CASE failed'
        BY <2>1 DEF Handled
  <2>2. CASE sync.stage = "loop" /\ sync.left = {} /\ failed' = failed
    <3>1. Queried(Chain[l].event)
          BY <1>1, <1>3, <2>2, LogFacts DEF Queried, EventNames
    <3>2. Handled(l)
          BY <1>1, <1>3, <2>2, <3>1 DEF StakingInv, SyncOK
    <3> QED BY <2>2, <3>2 DEF Handled, Stored, Active
  <2> QED BY <2>1, <2>2
<1>4. SyncOK'
      BY <1>1, <1>3 DEF SyncOK, Active
<1> QED BY <1>2, <1>4, OutsideStep

-----------------------------------------------------------------------------
(* The theorems.                                                            *)

LEMMA InitInv == Init => StakingInv
<1> SUFFICES ASSUME Init PROVE StakingInv
    OBVIOUS
<1>1. StakingTypeOK
  <2>1. <<>> \in Seq(StakingRow)
        OBVIOUS
  <2>2. faults \in 0 .. MaxFaults /\ crashes \in 0 .. MaxCrashes /\ head \in Nat /\ timers \in Nat
        BY BoundAssumption DEF Init
  <2>3. alive \in BOOLEAN /\ failed \in BOOLEAN /\ wallets \subseteq Users
        BY DEF Init
  <2>5. subs \in [EventNames -> SubStage]
        BY AllSubsTyped DEF Init, SubStage
  <2>4. tasks \in [Tasks -> HandlerFrame] /\ sync \in SyncFrame
        BY IdleFrame, OffFacts DEF Init
  <2> QED BY <2>1, <2>2, <2>3, <2>4, <2>5 DEF Init, StakingTypeOK
<1>2. UnstakeFromOwnStake
      BY DEF Init, UnstakeFromOwnStake
<1>3. \A t \in Tasks : FrameOK(t)
      BY IdleFrame DEF Init, FrameOK, Active
<1>4. OneUpdate
      BY IdleFrame DEF Init, OneUpdate
<1>5. SyncOK
      BY IdleFrame, OffFacts DEF Init, SyncOK, Queried, Active, SyncTask, Tasks
<1> QED BY <1>1, <1>2, <1>3, <1>4, <1>5 DEF StakingInv

LEMMA NextInv == StakingInv /\ [Next]_vars => StakingInv'
<1> SUFFICES ASSUME StakingInv, [Next]_vars PROVE StakingInv'
    OBVIOUS
<1>1. CASE Mine
      BY <1>1, MineInv
<1>2. CASE ConnectionStep
      BY <1>2, ConnectionInv
<1>3. CASE BootStep
      BY <1>3, BootInv
<1>4. CASE SyncStep
  <2>1. CASE ReadHead
        BY <1>4, <2>1, ReadHeadInv DEF SyncStep
  <2>2. CASE QueryLogs
        BY <1>4, <2>2, QueryLogsInv DEF SyncStep
  <2>3. CASE HandleLog
        BY <1>4, <2>3, HandleLogInv DEF SyncStep
  <2>4. CASE EventNameDone
    <3>1. failed \in BOOLEAN /\ faults \in 0 .. MaxFaults
          BY DEF StakingInv, StakingTypeOK
    <3> QED BY <1>4, <2>4, <3>1, NextNameInv DEF SyncStep, EventNameDone, Active
  <2> QED BY <1>4, <2>1, <2>2, <2>3, <2>4 DEF SyncStep
<1>5. CASE SyncFaults
  <2>1. CASE ReadHeadFails
        BY <1>5, <2>1, ReadHeadFailsInv DEF SyncFaults
  <2>2. CASE QueryFails
    <3>1. ~Active(SyncTask)
          BY <2>2 DEF QueryFails, StakingInv, SyncOK
    <3>2. faults' \in 0 .. MaxFaults
          BY <2>2, BoundAssumption DEF QueryFails, Fault, StakingInv, StakingTypeOK
    <3> QED BY <1>5, <2>2, <3>1, <3>2, NextNameInv DEF SyncFaults, QueryFails
  <2> QED BY <1>5, <2>1, <2>2 DEF SyncFaults
<1>6. CASE Crash
      BY <1>6, CrashInv
<1>7. CASE \E t \in Tasks : HandlerStep(t) \/ HandlerFaults(t)
      BY <1>7, HandlerStepInv, HandlerFaultsInv
<1>8. CASE UNCHANGED vars
  <2>1. StakingTypeOK'
        BY <1>8 DEF vars, StakingInv, StakingTypeOK
  <2> QED BY <1>8, <2>1, SyncUntouched, OutsideStep DEF vars, StakingInv
<1> QED BY <1>1, <1>2, <1>3, <1>4, <1>5, <1>6, <1>7, <1>8 DEF Next, ConnectionStep

\* The invariant holds in every reachable state.
LEMMA StakingInvHolds == Spec => []StakingInv
BY InitInv, NextInv, PTL DEF Spec

\* Every variable keeps its type.
THEOREM StakingTypes == Spec => []StakingTypeOK
<1>1. StakingInv => StakingTypeOK
      BY DEF StakingInv
<1> QED BY <1>1, StakingInvHolds, PTL

\* After a start without a failed call the sync leaves no gap in its window.
THEOREM SyncCatchesUpHolds == Spec => []SyncCatchesUp
<1>1. StakingInv => SyncCatchesUp
  <2> SUFFICES ASSUME StakingInv, sync.stage = "done", ~failed, NEW l \in Logs,
                      Chain[l].block \in sync.upto - Window .. sync.upto
               PROVE  Stored(l)
      BY DEF SyncCatchesUp
  <2>1. ~Active(SyncTask) /\ sync.left = {} /\ Queried(Chain[l].event)
        BY DEF StakingInv, SyncOK, Queried
  <2>2. Handled(l)
        BY <2>1 DEF StakingInv, SyncOK
  <2> QED BY <2>1, <2>2 DEF Handled
<1> QED BY <1>1, StakingInvHolds, PTL

\* An UNSTAKE row holds the base points of an earlier STAKE row of its user.
THEOREM UnstakeFromOwnStakeHolds == Spec => []UnstakeFromOwnStake
<1>1. StakingInv => UnstakeFromOwnStake
      BY DEF StakingInv
<1> QED BY <1>1, StakingInvHolds, PTL

\* No step loses, moves or rewrites a row, but for the one UPDATE of a STAKE.
THEOREM RowsKeptHolds == Spec => RowsKept
<1> DEFINE Kept == \A i \in DOMAIN table : KeepsRow(i)
<1>1. ASSUME UNCHANGED table PROVE Kept
      BY <1>1 DEF KeepsRow
<1>2. ASSUME StakingInv, NEW t \in Tasks, Inserts(t) PROVE Kept
  <2>1. SavedRow(tasks[t]) \in StakingRow
        BY <1>2, SavedRowType DEF Inserts, Active
  <2> QED BY <1>2, <2>1, AppendFacts DEF Inserts, KeepsRow, StakingInv
<1>3. ASSUME StakingInv, NEW t \in Tasks, UpdateBase(t) PROVE Kept
  <2>1. PICK k \in Logs : k = tasks[t].log
        BY <1>3, FrameTypes DEF UpdateBase, Active
  <2>2. PICK b \in Nat : b = tasks[t].base
        BY <1>3, FrameTypes DEF UpdateBase, Active, HandlerFrame
  <2>3. IsStake(k) /\ \A i \in DOMAIN table : table[i].log = k => table[i].base = 0
        BY <1>3, <2>1 DEF UpdateBase, StakingInv, FrameOK
  <2>4. /\ DOMAIN table' = DOMAIN table
        /\ \A i \in DOMAIN table :
             /\ table[i].log = k => table'[i] = [table[i] EXCEPT !.base = b]
                                    /\ table'[i].base = b
             /\ table[i].log # k => table'[i] = table[i]
    <3>1. table' = [i \in DOMAIN table |-> IF table[i].log = k
                                           THEN [table[i] EXCEPT !.base = b]
                                           ELSE table[i]]
          BY <1>3, <2>1, <2>2 DEF UpdateBase
    <3> QED BY <1>3, <3>1, UpdateFacts DEF StakingInv
  <2>5. ASSUME NEW i \in DOMAIN table PROVE KeepsRow(i)
    <3>1. CASE table[i].log = k
      <4>1. IsStake(table[i].log) /\ table[i].base = 0
            BY <2>3, <3>1
      <4>2. table'[i] = [table[i] EXCEPT !.base = table'[i].base]
            BY <2>4, <3>1
      <4> QED BY <2>4, <4>1, <4>2 DEF KeepsRow
    <3>2. CASE table[i].log # k
          BY <2>4, <3>2 DEF KeepsRow
    <3> QED BY <3>1, <3>2
  <2> QED BY <2>5
<1>4. StakingInv /\ [Next]_vars => [Kept]_vars
  <2> SUFFICES ASSUME StakingInv, [Next]_vars PROVE Kept
      OBVIOUS
  <2>1. CASE UNCHANGED table
        BY <1>1, <2>1
  <2>2. CASE \E t \in Tasks : Inserts(t) \/ UpdateBase(t)
        BY <1>2, <1>3, <2>2
  <2>3. CASE Next
    <3>1. ASSUME NEW t \in Tasks, HandlerStep(t) \/ HandlerFaults(t)
          PROVE  UNCHANGED table \/ Inserts(t) \/ UpdateBase(t)
          BY <3>1 DEF HandlerStep, HandlerFaults, ensureWalletExists, eventExists, ReadChain,
                      BeginCreate, InsertEvent, InsertRefused, HandlerThrows, BasePointsFail,
                      PeriodFails, InsertReplyLost
    <3>2. CASE ~\E t \in Tasks : HandlerStep(t) \/ HandlerFaults(t)
          BY <2>1, <2>3, <3>2 DEF Next, Mine, Drop, handleProviderError, Reconnect,
             ReconnectFails, Subscribed, SubscribeFails, BootStep, SyncStep, SyncFaults, Crash
    <3> QED BY <2>1, <2>2, <3>1, <3>2
  <2> QED BY <2>1, <2>3 DEF vars
<1> QED BY <1>4, StakingInvHolds, PTL DEF Spec, RowsKept
=============================================================================
