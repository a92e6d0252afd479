--------------------------- MODULE EventStoreProofs ---------------------------
(***************************************************************************)
(* Proofs about EventStore for any number of accounts, logs and workers:   *)
(* its invariants, and that it implements EventLedger.                     *)
(*                                                                         *)
(* The invariant StoreInv joins the registry's invariant, the properties   *)
(* of the tables, and TaskOK: what the stage of one handler tells about    *)
(* the tables.  The tables only grow, so what a handler has established    *)
(* stays true while the others run.                                        *)
(***************************************************************************)
EXTENDS EventStore, WalletRegistryProofs

Owner(w) == Checksummed(OwnerOf[task[w].log])

Second(w) == Checksummed(SecondAccount(task[w].log))

Twice(w) == EnsuresTwice(w, task[w].log)

Found(addr) == FindByAddress(addr) # {}

Stored(l) == \E t \in transactions : t.log = l

\* What the handler of worker w knows when it is at a stage.
Knows(w, stage) ==
    /\ stage # "idle" => (IsChecker(w) => KindOf[task[w].log] # "Liquidation")
    /\ stage = "ensure" =>
           /\ call[w].stage \in CallStage
           /\ call[w].address = IF Twice(w) /\ task[w].left = 1 THEN Second(w) ELSE Owner(w)
           /\ Twice(w) /\ task[w].left = 1 => Found(Owner(w))
           /\ task[w].left = 2 => Twice(w)
    /\ stage \in {"getBlock", "exists", "lookup"} =>
           Found(Owner(w)) /\ (Twice(w) => Found(Second(w)))
    /\ stage = "insertTx" =>
           \E r \in wallets : r.id = task[w].walletId /\ r.address = Owner(w)
    /\ stage \in {"insertBlock", "saved"} => Stored(task[w].log)
    /\ stage \in {"skipped", "conflict"} => HashTaken(task[w].log)
    /\ stage = "refused" => NullColumn(w, task[w].log)
    /\ stage = "unensured" => NullColumn(w, task[w].log) \/ HasVariant(Owner(w))
    /\ stage # "notFound"

TaskOK(w) == Knows(w, task[w].stage)

TablesOK ==
    /\ transactions \subseteq TransactionRow
    /\ blockRows \subseteq Blocks
    /\ OneRowPerHash
    /\ CreditedToOwner
    /\ BlockRowBacked

StoreInv ==
    /\ WalletInv
    /\ TablesOK
    /\ task \in [Workers -> {NoTask} \cup Task]
    /\ \A w \in Workers : TaskOK(w)

\* What a handler knows outlives the steps of the others.
LEMMA TaskKept ==
    ASSUME NEW v \in Workers, TaskOK(v), wallets \subseteq wallets',
           transactions \subseteq transactions', task'[v] = task[v], call'[v] = call[v]
    PROVE  TaskOK(v)'
BY DEF TaskOK, Knows, Owner, Second, Twice, Found, FindByAddress, Stored, HashTaken, HasVariant,
       EnsuresTwice, NullColumn, SecondAccount, IsChecker

\* A step of one handler keeps the invariant when it keeps the tables' own,
\* removes no row and leaves its handler knowing what its new stage requires.
LEMMA TaskStepInv ==
    ASSUME StoreInv, NEW w \in Workers, WalletInv', TablesOK',
           wallets \subseteq wallets', transactions \subseteq transactions',
           \A v \in Workers : v # w => call'[v] = call[v],
           NEW f \in {NoTask} \cup Task, task' = [task EXCEPT ![w] = f], TaskOK(w)'
    PROVE  StoreInv'
<1>1. task' \in [Workers -> {NoTask} \cup Task]
      BY DEF StoreInv
<1>2. ASSUME NEW v \in Workers, v # w PROVE TaskOK(v)'
  <2>1. task'[v] = task[v]
        BY <1>2 DEF StoreInv
  <2> QED BY <1>2, <2>1, TaskKept DEF StoreInv
<1> QED BY <1>1, <1>2 DEF StoreInv

\* New wallet rows never disturb the other two tables.
LEMMA TablesKept ==
    ASSUME TablesOK, wallets \subseteq wallets', UNCHANGED <<transactions, blockRows>>
    PROVE  TablesOK'
BY DEF TablesOK, OneRowPerHash, CreditedToOwner, BlockRowBacked

\* A busy worker has a task record.
LEMMA TaskInFlight ==
    ASSUME StoreInv, NEW w \in Workers, task[w].stage \in TaskStage
    PROVE  task[w] \in Task /\ task[w].log \in Logs /\ task[w].left \in {1, 2}
BY DEF StoreInv, Task, TaskStage, NoTask

\* Goto moves the task to another stage and keeps the rest of its record.
LEMMA GotoFrame ==
    ASSUME StoreInv, NEW w \in Workers, task[w].stage \in TaskStage,
           NEW stage \in TaskStage, Goto(w, stage)
    PROVE  \E f \in Task : /\ f.stage = stage /\ f.log = task[w].log
                           /\ f.left = task[w].left /\ f.walletId = task[w].walletId
                           /\ task' = [task EXCEPT ![w] = f] /\ task'[w] = f
<1> DEFINE f == [stage |-> stage, log |-> task[w].log, left |-> task[w].left,
                 walletId |-> task[w].walletId]
<1>1. task[w] \in Task /\ task \in [Workers -> {NoTask} \cup Task]
      BY TaskInFlight DEF StoreInv
<1>2. f \in Task /\ f = [task[w] EXCEPT !.stage = stage]
      BY <1>1 DEF Task
<1>3. task' = [task EXCEPT ![w] = f]
      BY <1>2 DEF Goto
<1>4. task'[w] = f
      BY <1>1, <1>3
<1> QED BY <1>2, <1>3, <1>4

\* A step that only moves its task to a stage the tables justify, and perhaps
\* drops the task's own call.
LEMMA MoveInv ==
    ASSUME StoreInv, NEW w \in Workers, task[w].stage \in TaskStage,
           NEW stage \in TaskStage \ {"ensure"}, Goto(w, stage), Knows(w, stage),
           WalletInv', UNCHANGED wallets, \A v \in Workers : v # w => call'[v] = call[v],
           UNCHANGED <<transactions, blockRows>>
    PROVE  StoreInv'
<1>1. PICK f \in Task : /\ f.stage = stage /\ f.log = task[w].log
                        /\ f.left = task[w].left /\ f.walletId = task[w].walletId
                        /\ task' = [task EXCEPT ![w] = f] /\ task'[w] = f
      BY GotoFrame
<1>2. TaskOK(w)'
      BY <1>1 DEF TaskOK, Knows, Owner, Second, Twice, Found, FindByAddress, Stored,
                  HashTaken, HasVariant, EnsuresTwice, NullColumn, SecondAccount, IsChecker
<1>3. TablesOK'
      BY TablesKept DEF StoreInv
<1> QED BY <1>1, <1>2, <1>3, TaskStepInv

LEMMA QuietGoto ==
    ASSUME StoreInv, NEW w \in Workers, task[w].stage \in TaskStage,
           NEW stage \in TaskStage \ {"ensure"}, Goto(w, stage), Knows(w, stage),
           Wallets, UNCHANGED <<transactions, blockRows>>
    PROVE  StoreInv'
<1>1. WalletInv'
      BY WalletStutterInv DEF StoreInv, Wallets, walletVars
<1> QED BY <1>1, MoveInv DEF Wallets

\* The initial state satisfies the invariant.
LEMMA StoreInitInv == StoreInit => StoreInv
<1> SUFFICES ASSUME StoreInit PROVE StoreInv
    OBVIOUS
<1>1. WalletInv
      BY WalletInitInv DEF StoreInit
<1>2. TablesOK
      BY DEF StoreInit, TablesOK, OneRowPerHash, CreditedToOwner, BlockRowBacked
<1>3. task \in [Workers -> {NoTask} \cup Task] /\ \A w \in Workers : TaskOK(w)
      BY DEF StoreInit, NoTask, TaskOK, Knows
<1> QED BY <1>1, <1>2, <1>3 DEF StoreInv

\* An account ensured by its own log's address is an address.
LEMMA ChainAddress ==
    ASSUME NEW a \in Accounts
    PROVE  /\ Checksummed(a) \in Address
           /\ normalizeAddress(Checksummed(a)) = Checksummed(a)
BY DEF Checksummed, Address, normalizeAddress

LEMMA DeliverInv ==
    ASSUME StoreInv, NEW w \in Workers, NEW l \in Logs, Deliver(w, l)
    PROVE  StoreInv'
<1> DEFINE f == [stage |-> "ensure", log |-> l,
                 left |-> IF EnsuresTwice(w, l) THEN 2 ELSE 1, walletId |-> NoWallet]
<1>1. f \in Task /\ task' = [task EXCEPT ![w] = f] /\ task'[w] = f
      BY DEF Deliver, Task, TaskStage, EnsuresTwice, StoreInv
<1>2. OwnerOf[l] \in Accounts /\ UNCHANGED <<wallets, schema>>
      BY EventAssumption DEF Deliver, BeginCall
<1>3. call' = [call EXCEPT ![w] = [stage |-> "find", address |-> Checksummed(OwnerOf[l])]]
      BY <1>2, ChainAddress DEF Deliver, BeginCall
<1>4. WalletInv'
      BY <1>2, <1>3, ChainAddress, FreshFrameInv DEF StoreInv
<1>5. /\ call'[w] = [stage |-> "find", address |-> Checksummed(OwnerOf[l])]
      /\ \A v \in Workers : v # w => call'[v] = call[v]
      BY <1>3 DEF StoreInv, WalletInv, WalletTypeOK
<1>6. TaskOK(w)'
  <2>1. task'[w].stage = "ensure" /\ task'[w].log = l /\ task'[w].left = IF EnsuresTwice(w, l) THEN 2 ELSE 1
        BY <1>1
  <2>2. IsChecker(w) => KindOf[l] # "Liquidation"
        BY DEF Deliver
  <2>3. Owner(w)' = Checksummed(OwnerOf[l]) /\ Twice(w)' = EnsuresTwice(w, l)
        BY <2>1 DEF Owner, Twice, EnsuresTwice, IsChecker
  <2>4. call'[w].stage \in CallStage /\ call'[w].address = Owner(w)'
        BY <1>5, <2>3 DEF CallStage
  <2>5. ~(Twice(w)' /\ task'[w].left = 1) /\ (task'[w].left = 2 => Twice(w)')
        BY <2>1, <2>3
  <2> QED BY <2>1, <2>2, <2>4, <2>5 DEF TaskOK, Knows, IsChecker
<1>7. TablesOK'
      BY <1>2, TablesKept DEF StoreInv, Deliver
<1> QED BY <1>1, <1>2, <1>4, <1>5, <1>6, <1>7, TaskStepInv DEF Deliver

LEMMA EnsureInv ==
    ASSUME StoreInv, NEW w \in Workers, Ensure(w)
    PROVE  StoreInv'
<1>1. /\ wallets \subseteq wallets'
      /\ \A v \in Workers : v # w => call'[v] = call[v]
      /\ call'[w].stage \in CallStage /\ call'[w].address = call[w].address
      BY CallStepFrame DEF StoreInv, Ensure
<1>2. WalletInv'
      BY CallStepInv DEF StoreInv, Ensure
<1>3. TaskOK(w) /\ task[w].stage = "ensure" /\ task[w] \in {NoTask} \cup Task
      BY DEF StoreInv, Ensure
<1>4. task' = [task EXCEPT ![w] = task[w]] /\ task'[w] = task[w]
      BY DEF StoreInv, Ensure
<1>5. TaskOK(w)'
      BY <1>1, <1>3, <1>4 DEF TaskOK, Knows, Owner, Second, Twice, Found, FindByAddress,
                              EnsuresTwice, SecondAccount, IsChecker
<1>6. TablesOK'
      BY <1>1, TablesKept DEF StoreInv, Ensure
<1> QED BY <1>1, <1>2, <1>3, <1>4, <1>5, <1>6, TaskStepInv DEF Ensure

\* A returned call has ensured the account it was made for.
LEMMA EnsuredFound ==
    ASSUME StoreInv, NEW w \in Workers, call[w].stage = "ensured"
    PROVE  Found(call[w].address)
BY DEF StoreInv, WalletInv, EnsuredIsStored, Found

LEMMA EnsureAgainInv ==
    ASSUME StoreInv, NEW w \in Workers, EnsureAgain(w)
    PROVE  StoreInv'
<1> DEFINE f == [stage |-> "ensure", log |-> task[w].log, left |-> 1,
                 walletId |-> task[w].walletId]
<1>1. task[w] \in Task /\ task[w].log \in Logs
      BY TaskInFlight DEF EnsureAgain, TaskStage
<1>2. f \in Task /\ task' = [task EXCEPT ![w] = f] /\ task'[w] = f
  <2>1. task[w].stage = "ensure"
        BY DEF EnsureAgain
  <2>2. f \in Task
        BY <1>1, <2>1 DEF Task, TaskStage
  <2>3. f = [task[w] EXCEPT !.left = 1]
        BY <1>1, <2>1 DEF Task
  <2> QED BY <2>2, <2>3 DEF EnsureAgain, StoreInv
<1>3. SecondAccount(task[w].log) \in Accounts /\ UNCHANGED <<wallets, schema>>
      BY <1>1, EventAssumption DEF SecondAccount, EnsureAgain
<1>4. call' = [call EXCEPT ![w] = [stage |-> "find", address |-> Second(w)]]
      BY DEF EnsureAgain, Second
<1>5. WalletInv'
      BY <1>3, <1>4, ChainAddress, FreshFrameInv DEF StoreInv, Second
<1>6. /\ call'[w] = [stage |-> "find", address |-> Second(w)]
      /\ \A v \in Workers : v # w => call'[v] = call[v]
      BY <1>4 DEF StoreInv, WalletInv, WalletTypeOK
<1>7. TaskOK(w) /\ task[w].stage = "ensure" /\ task[w].left = 2
      BY DEF StoreInv, EnsureAgain
<1>8. Found(Owner(w))
      BY <1>7, EnsuredFound DEF TaskOK, Knows, EnsureAgain
<1>9. TaskOK(w)'
  <2>1. Owner(w)' = Owner(w) /\ Second(w)' = Second(w) /\ Found(Owner(w))'
        BY <1>2, <1>3, <1>8 DEF Owner, Second, Found, FindByAddress
  <2>2. Twice(w)
        BY <1>7 DEF TaskOK, Knows
  <2> QED BY <1>2, <1>6, <1>7, <2>1, <2>2 DEF TaskOK, Knows, IsChecker, CallStage, Twice
<1>10. TablesOK'
      BY <1>3, TablesKept DEF StoreInv, EnsureAgain
<1> QED BY <1>2, <1>3, <1>5, <1>6, <1>9, <1>10, TaskStepInv DEF EnsureAgain

\* Dropping a returned call keeps the registry's invariant.
LEMMA DropCall ==
    ASSUME StoreInv, NEW w \in Workers, ReturnCall(w)
    PROVE  /\ WalletInv' /\ UNCHANGED wallets
           /\ \A v \in Workers : v # w => call'[v] = call[v]
<1>1. call[w].address \in Address
      BY FrameInFlight DEF StoreInv, ReturnCall, Finished, CallStage
<1>2. WalletInv'
      BY <1>1, FreshFrameInv DEF StoreInv, ReturnCall
<1> QED BY <1>2 DEF ReturnCall, StoreInv, WalletInv, WalletTypeOK

LEMMA EnsureReturnsInv ==
    ASSUME StoreInv, NEW w \in Workers, EnsureReturns(w)
    PROVE  StoreInv'
<1> DEFINE stage == IF IsChecker(w) THEN "exists" ELSE "getBlock"
<1>1. TaskOK(w) /\ task[w].stage = "ensure" /\ task[w].left = 1
      BY DEF StoreInv, EnsureReturns
<1>2. Found(call[w].address)
      BY EnsuredFound DEF EnsureReturns
<1>3. Found(Owner(w)) /\ (Twice(w) => Found(Second(w)))
      BY <1>1, <1>2 DEF TaskOK, Knows
<1>4. stage \in {"exists", "getBlock"} /\ Goto(w, stage)
      BY DEF EnsureReturns
<1>5. Knows(w, stage)
      BY <1>1, <1>3, <1>4 DEF TaskOK, Knows
<1> QED BY <1>1, <1>4, <1>5, DropCall, MoveInv DEF EnsureReturns, TaskStage

\* A call that rethrows was made for the owner, unless it was made for the
\* liquidator of a Liquidation, whose row the table refuses in any case.
LEMMA EnsureThrowsInv ==
    ASSUME StoreInv, NEW w \in Workers, EnsureThrows(w)
    PROVE  StoreInv'
<1> DEFINE stage == IF call[w].stage = "rethrown" THEN "unensured" ELSE "threw"
<1>1. TaskOK(w) /\ task[w].stage = "ensure"
      BY DEF StoreInv, EnsureThrows
<1>2. call[w].stage = "rethrown" => HasVariant(call[w].address)
      BY DEF StoreInv, WalletInv, RaceNeverRethrows
<1>3. Twice(w) /\ Second(w) # Owner(w) => NullColumn(w, task[w].log)
      BY DEF Twice, EnsuresTwice, NullColumn, Second, Owner, SecondAccount
<1>4. stage = "unensured" => NullColumn(w, task[w].log) \/ HasVariant(Owner(w))
      BY <1>1, <1>2, <1>3 DEF TaskOK, Knows
<1>5. stage \in {"unensured", "threw"} /\ Goto(w, stage)
      BY DEF EnsureThrows
<1>6. Knows(w, stage)
      BY <1>1, <1>4, <1>5 DEF TaskOK, Knows
<1> QED BY <1>1, <1>5, <1>6, DropCall, MoveInv DEF EnsureThrows, TaskStage

LEMMA GetBlockInv ==
    ASSUME StoreInv, NEW w \in Workers, GetBlock(w)
    PROVE  StoreInv'
<1> DEFINE stage == IF IsChecker(w) THEN "lookup" ELSE "exists"
<1>1. TaskOK(w) /\ task[w].stage = "getBlock"
      BY DEF StoreInv, GetBlock
<1>2. stage \in {"lookup", "exists"} /\ Goto(w, stage) /\ Knows(w, stage)
      BY <1>1 DEF TaskOK, Knows, GetBlock
<1> QED BY <1>1, <1>2, QuietGoto DEF GetBlock, TaskStage

LEMMA CheckExistsInv ==
    ASSUME StoreInv, NEW w \in Workers, CheckExists(w)
    PROVE  StoreInv'
<1> DEFINE stage == IF IsExists(task[w].log) THEN "skipped"
                    ELSE IF IsChecker(w) THEN "getBlock" ELSE "lookup"
<1>1. TaskOK(w) /\ task[w].stage = "exists"
      BY DEF StoreInv, CheckExists
<1>2. stage \in {"skipped", "getBlock", "lookup"} /\ Goto(w, stage) /\ Knows(w, stage)
      BY <1>1 DEF TaskOK, Knows, CheckExists, IsExists
<1> QED BY <1>1, <1>2, QuietGoto DEF CheckExists, TaskStage

LEMMA LookupWalletInv ==
    ASSUME StoreInv, NEW w \in Workers, LookupWallet(w)
    PROVE  StoreInv'
<1>1. TaskOK(w) /\ task[w].stage = "lookup" /\ task[w] \in Task
      BY TaskInFlight DEF StoreInv, LookupWallet, TaskStage
<1>2. FindByAddress(Owner(w)) # {}
      BY <1>1 DEF TaskOK, Knows, Found
<1>3. PICK r \in FindByAddress(Owner(w)) :
          task' = [task EXCEPT ![w].stage = "insertTx", ![w].walletId = r.id]
      BY <1>2 DEF LookupWallet, Owner
<1> DEFINE f == [stage |-> "insertTx", log |-> task[w].log, left |-> task[w].left,
                 walletId |-> r.id]
<1>4. r \in wallets /\ r.id \in WalletIds /\ r.address = Owner(w)
  <2>1. task[w].log \in Logs
        BY <1>1 DEF Task
  <2>2. normalizeAddress(Owner(w)) = Owner(w)
        BY <2>1, ChainAddress, EventAssumption DEF Owner
  <2> QED BY <2>2 DEF FindByAddress, StoreInv, WalletInv, WalletTypeOK, WalletRow
<1>5. f \in Task
      BY <1>1, <1>4 DEF Task, TaskStage
<1>6. f = [[task[w] EXCEPT !.stage = "insertTx"] EXCEPT !.walletId = r.id]
  <2> DEFINE g == [stage |-> "insertTx", log |-> task[w].log, left |-> task[w].left,
                   walletId |-> task[w].walletId]
  <2>1. g = [task[w] EXCEPT !.stage = "insertTx"]
        BY <1>1 DEF Task
  <2>2. f = [g EXCEPT !.walletId = r.id]
        OBVIOUS
  <2> QED BY <2>1, <2>2
<1>7. task' = [task EXCEPT ![w] = f] /\ task'[w] = f
      BY <1>3, <1>6 DEF StoreInv
<1>8. WalletInv' /\ TablesOK'
      BY WalletStutterInv, TablesKept DEF StoreInv, Wallets, walletVars, LookupWallet
<1>9. TaskOK(w)'
      BY <1>1, <1>4, <1>7 DEF TaskOK, Knows, LookupWallet, Wallets, Owner, IsChecker
<1> QED BY <1>5, <1>7, <1>8, <1>9, TaskStepInv DEF LookupWallet, Wallets

\* An accepted INSERT into transactions keeps the tables' invariants: the
\* hash was free, and the wallet looked up is still the owner's.
LEMMA InsertRowTables ==
    ASSUME StoreInv, NEW w \in Workers, NEW next \in TaskStage, InsertRow(w, next)
    PROVE  TablesOK' /\ transactions \subseteq transactions' /\ Stored(task[w].log)'
<1> DEFINE l == task[w].log
           row == [log |-> l, walletId |-> task[w].walletId]
<1>1. TaskOK(w) /\ task[w].stage = "insertTx" /\ l \in Logs
      BY TaskInFlight DEF StoreInv, InsertRow, TaskStage
<1>2. PICK r \in wallets : r.id = task[w].walletId /\ r.address = Checksummed(OwnerOf[l])
      BY <1>1 DEF TaskOK, Knows, Owner
<1>3. row \in TransactionRow
      BY <1>1, <1>2 DEF StoreInv, WalletInv, WalletTypeOK, WalletRow, TransactionRow
<1>4. transactions' = transactions \cup {row} /\ UNCHANGED <<wallets, blockRows>>
      BY DEF InsertRow, Wallets
<1>5. ~HashTaken(l)
      BY DEF InsertRow, UniqueViolation
<1>6. OneRowPerHash'
      BY <1>4, <1>5 DEF StoreInv, TablesOK, OneRowPerHash, HashTaken
<1>7. CreditedToOwner'
  <2>1. r.id = row.walletId /\ r.address.account = OwnerOf[row.log]
        BY <1>2 DEF Checksummed
  <2> QED BY <1>2, <1>4, <2>1 DEF StoreInv, TablesOK, CreditedToOwner
<1>8. BlockRowBacked'
      BY <1>4 DEF StoreInv, TablesOK, BlockRowBacked
<1>9. Stored(task[w].log)'
  <2>1. row \in transactions' /\ row.log = l
        BY <1>4
  <2>2. task'[w].log = l
        BY <1>1, GotoFrame DEF InsertRow, TaskStage
  <2> QED BY <2>1, <2>2 DEF Stored
<1> QED BY <1>3, <1>4, <1>6, <1>7, <1>8, <1>9 DEF StoreInv, TablesOK

LEMMA InsertRowInv ==
    ASSUME StoreInv, NEW w \in Workers, NEW next \in {"saved", "insertBlock", "threw"},
           InsertRow(w, next)
    PROVE  StoreInv'
<1>1. TaskOK(w) /\ task[w].stage = "insertTx" /\ next \in TaskStage /\ task[w].stage \in TaskStage
      BY DEF StoreInv, InsertRow, TaskStage
<1>2. PICK f \in Task : /\ f.stage = next /\ f.log = task[w].log
                        /\ task' = [task EXCEPT ![w] = f] /\ task'[w] = f
      BY <1>1, GotoFrame DEF InsertRow
<1>3. TaskOK(w)'
      BY <1>1, <1>2, InsertRowTables DEF TaskOK, Knows, IsChecker
<1>4. WalletInv'
      BY WalletStutterInv DEF StoreInv, Wallets, walletVars, InsertRow
<1> QED BY <1>1, <1>2, <1>3, <1>4, InsertRowTables, TaskStepInv DEF InsertRow, Wallets

LEMMA InsertTxRefusedInv ==
    ASSUME StoreInv, NEW w \in Workers, InsertTxRefused(w)
    PROVE  StoreInv'
<1>1. TaskOK(w) /\ task[w].stage = "insertTx"
      BY DEF StoreInv, InsertTxRefused
<1>2. PICK stage \in {"refused", "conflict"} :
          /\ Goto(w, stage)
          /\ stage = "refused" => NullColumn(w, task[w].log)
          /\ stage = "conflict" => HashTaken(task[w].log)
      BY DEF InsertTxRefused, UniqueViolation
<1>3. Knows(w, stage)
      BY <1>1, <1>2 DEF TaskOK, Knows
<1> QED BY <1>1, <1>2, <1>3, QuietGoto DEF InsertTxRefused, TaskStage

LEMMA InsertBlockInv ==
    ASSUME StoreInv, NEW w \in Workers, InsertBlock(w)
    PROVE  StoreInv'
<1>1. /\ TaskOK(w) /\ task[w].stage = "insertBlock"
      /\ task[w].stage \in TaskStage /\ "saved" \in TaskStage
      BY DEF StoreInv, InsertBlock, TaskStage
<1>2. PICK f \in Task : /\ f.stage = "saved" /\ f.log = task[w].log
                        /\ task' = [task EXCEPT ![w] = f] /\ task'[w] = f
      BY <1>1, GotoFrame DEF InsertBlock
<1>3. Stored(task[w].log) /\ task[w].log \in Logs
      BY <1>1, TaskInFlight DEF TaskOK, Knows
<1>4. TaskOK(w)'
      BY <1>1, <1>2, <1>3 DEF TaskOK, Knows, IsChecker, Stored, InsertBlock
<1>5. TablesOK'
  <2>1. BlockRowBacked'
        BY <1>3 DEF StoreInv, TablesOK, BlockRowBacked, Stored, InsertBlock
  <2>2. blockRows' \subseteq Blocks
        BY <1>3, EventAssumption DEF StoreInv, TablesOK, InsertBlock
  <2> QED BY <2>1, <2>2 DEF StoreInv, TablesOK, OneRowPerHash, CreditedToOwner, InsertBlock, Wallets
<1>6. WalletInv'
      BY WalletStutterInv DEF StoreInv, Wallets, walletVars, InsertBlock
<1> QED BY <1>2, <1>4, <1>5, <1>6, TaskStepInv DEF InsertBlock, Wallets

LEMMA TaskFaultsInv ==
    ASSUME StoreInv, NEW w \in Workers, TaskFaults(w)
    PROVE  StoreInv'
<1>1. TaskOK(w) /\ task[w].stage \in TaskStage /\ task[w].stage # "idle" /\ Goto(w, "threw")
      BY DEF StoreInv, TaskFaults, TaskStage
<1>2. Knows(w, "threw")
      BY <1>1 DEF TaskOK, Knows
<1> QED BY <1>1, <1>2, QuietGoto DEF TaskFaults, TaskStage

LEMMA FinishTaskInv ==
    ASSUME StoreInv, NEW w \in Workers, FinishTask(w)
    PROVE  StoreInv'
<1>1. task' = [task EXCEPT ![w] = NoTask] /\ task'[w] = NoTask
      BY DEF FinishTask, StoreInv
<1>2. TaskOK(w)'
      BY <1>1 DEF TaskOK, Knows, NoTask
<1>3. WalletInv' /\ TablesOK'
      BY WalletStutterInv, TablesKept DEF StoreInv, Wallets, walletVars, FinishTask
<1> QED BY <1>1, <1>2, <1>3, TaskStepInv DEF FinishTask, Wallets

LEMMA RunMigrationsInv == StoreInv /\ RunMigrations => StoreInv'
<1> SUFFICES ASSUME StoreInv, RunMigrations PROVE StoreInv'
    OBVIOUS
<1>1. WalletInv' /\ TablesOK'
      BY MigrateInv, TablesKept DEF StoreInv, RunMigrations, Migrate
<1>2. \A v \in Workers : TaskOK(v)'
      BY TaskKept DEF StoreInv, RunMigrations, Migrate
<1> QED BY <1>1, <1>2 DEF StoreInv, RunMigrations

\* A crash forgets every handler, so nothing is left that the tables could
\* contradict.
LEMMA CrashInv == StoreInv /\ Crash => StoreInv'
<1> SUFFICES ASSUME StoreInv, Crash PROVE StoreInv'
    OBVIOUS
<1>1. \A v \in Workers : TaskOK(v)' /\ FrameOK(v)'
      BY DEF Crash, TaskOK, Knows, NoTask, FrameOK, NoCall
<1>2. WalletInv'
  <2>1. \A v \in Workers : call'[v] = NoCall
        BY DEF Crash
  <2> QED BY <2>1 DEF Crash, NoCall, StoreInv, WalletInv, WalletTypeOK, IdsUnique, OneRowPerAccount,
                      CanIndex, ConflictHasRow, RaceNeverRethrows, EnsuredIsStored
<1>3. TablesOK'
      BY TablesKept DEF StoreInv, Crash
<1> QED BY <1>1, <1>2, <1>3 DEF Crash, StoreInv

LEMMA StoreNextInv == StoreInv /\ [StoreNext]_storeVars => StoreInv'
<1> SUFFICES ASSUME StoreInv, [StoreNext]_storeVars PROVE StoreInv'
    OBVIOUS
<1>1. CASE RunMigrations
      BY <1>1, RunMigrationsInv
<1>2. CASE Crash
      BY <1>2, CrashInv
<1>3. ASSUME NEW w \in Workers, TaskStep(w) PROVE StoreInv'
  <2>1. CASE \E l \in Logs : Deliver(w, l)
        BY <2>1, DeliverInv
  <2>2. CASE InsertTx(w)
        BY <2>2, InsertRowInv DEF InsertTx
  <2>3. CASE InsertTxReplyLost(w)
        BY <2>3, InsertRowInv DEF InsertTxReplyLost
  <2> QED
      BY <1>3, <2>1, <2>2, <2>3, EnsureInv, EnsureAgainInv, EnsureReturnsInv, EnsureThrowsInv,
         GetBlockInv, CheckExistsInv, LookupWalletInv, InsertTxRefusedInv, InsertBlockInv,
         TaskFaultsInv, FinishTaskInv
      DEF TaskStep
<1>4. CASE UNCHANGED storeVars
  <2>1. WalletInv' /\ TablesOK'
        BY <1>4, WalletStutterInv, TablesKept DEF StoreInv, storeVars, walletVars
  <2>2. \A v \in Workers : TaskOK(v)'
        BY <1>4, TaskKept DEF StoreInv, storeVars
  <2> QED BY <1>4, <2>1, <2>2 DEF StoreInv, storeVars
<1> QED BY <1>1, <1>2, <1>3, <1>4 DEF StoreNext

\* The strengthening of every invariant below.
LEMMA StoreInvHolds == StoreSpec => []StoreInv
BY StoreInitInv, StoreNextInv, PTL DEF StoreSpec

\* Whatever the workers do, the three tables and the tasks have their types.
THEOREM StoreTypes == StoreSpec => []StoreTypeOK
<1>1. StoreInv => StoreTypeOK
      BY DEF StoreInv, WalletInv, TablesOK, StoreTypeOK
<1> QED BY <1>1, StoreInvHolds, PTL

\* One row per transaction hash, however many listeners, syncs and checker
\* tasks handle the same or different logs of one transaction.
THEOREM OneRowPerHashHolds == StoreSpec => []OneRowPerHash
<1>1. StoreInv => OneRowPerHash
      BY DEF StoreInv, TablesOK
<1> QED BY <1>1, StoreInvHolds, PTL

\* Every stored event is credited to the account that emitted it, whichever
\* of several tasks stored it.
THEOREM CreditHolds == StoreSpec => []CreditedToOwner
<1>1. StoreInv => CreditedToOwner
      BY DEF StoreInv, TablesOK
<1> QED BY <1>1, StoreInvHolds, PTL

\* A block row stands only for a block that has a stored event, whatever
\* crashed between the two inserts.
THEOREM BlockRowBackedHolds == StoreSpec => []BlockRowBacked
<1>1. StoreInv => BlockRowBacked
      BY DEF StoreInv, TablesOK
<1> QED BY <1>1, StoreInvHolds, PTL

\* The wallet a handler ensured is there when it looks it up, several awaits
\* later; a Liquidation's two wallets are there when it goes on.
THEOREM EnsuredHolds == StoreSpec => []AlreadyEnsured
<1>1. StoreInv => AlreadyEnsured
  <2> SUFFICES ASSUME StoreInv, NEW w \in Workers
               PROVE  /\ task[w].stage \in {"getBlock", "exists", "lookup"} =>
                             FindByAddress(Checksummed(OwnerOf[task[w].log])) # {}
                      /\ task[w].stage # "notFound"
                      /\ task[w].stage \in {"getBlock", "exists"} /\ KindOf[task[w].log] = "Liquidation" =>
                             FindByAddress(Checksummed(LiquidatorOf[task[w].log])) # {}
      BY DEF AlreadyEnsured
  <2>1. TaskOK(w)
        BY DEF StoreInv
  <2>2. /\ task[w].stage \in {"getBlock", "exists", "lookup"} =>
               FindByAddress(Checksummed(OwnerOf[task[w].log])) # {}
        /\ task[w].stage # "notFound"
        BY <2>1 DEF TaskOK, Knows, Found, Owner
  <2>3. ASSUME task[w].stage \in {"getBlock", "exists"}, KindOf[task[w].log] = "Liquidation"
        PROVE  FindByAddress(Checksummed(LiquidatorOf[task[w].log])) # {}
    <3>1. Twice(w)
          BY <2>1, <2>3 DEF TaskOK, Knows, Twice, EnsuresTwice
    <3>2. Found(Second(w))
          BY <2>1, <2>3, <3>1 DEF TaskOK, Knows
    <3> QED BY <2>3, <3>2 DEF Found, Second, SecondAccount
  <2> QED BY <2>2, <2>3
<1> QED BY <1>1, StoreInvHolds, PTL

\* A handler that ended without a failure left its transaction recorded.
THEOREM HandledHolds == StoreSpec => []HandledIsRecorded
<1>1. StoreInv => HandledIsRecorded
  <2> SUFFICES ASSUME StoreInv, NEW w \in Workers, task[w].stage \in Ended \ {"threw"},
                      ~NullColumn(w, task[w].log), ~HasVariant(Owner(w))
               PROVE  HashTaken(task[w].log)
      BY DEF HandledIsRecorded, Owner
  <2>1. TaskOK(w)
        BY DEF StoreInv
  <2>2. CASE task[w].stage \in {"skipped", "conflict"}
        BY <2>1, <2>2 DEF TaskOK, Knows
  <2>3. CASE task[w].stage = "saved"
        BY <2>1, <2>3 DEF TaskOK, Knows, Stored, HashTaken
  <2>4. task[w].stage \notin {"notFound", "refused", "unensured"}
        BY <2>1 DEF TaskOK, Knows
  <2> QED BY <2>2, <2>3, <2>4 DEF Ended
<1> QED BY <1>1, StoreInvHolds, PTL

-----------------------------------------------------------------------------
(***************************************************************************)
(* The refinement of EventLedger.                                          *)
(***************************************************************************)
OwnedEntries == {[log |-> t.log, account |-> OwnerOf[t.log]] : t \in transactions}

\* Joining rows with the wallets they reference, when ids are unique and each
\* row references a wallet of its owner, gives each row its owner.
LEMMA JoinIsOwned ==
    ASSUME NEW T, NEW W,
           \A r, s \in W : r.id = s.id => r = s,
           \A t \in T : \E r \in W : r.id = t.walletId /\ r.address.account = OwnerOf[t.log]
    PROVE  {[log |-> p[1].log, account |-> p[2].address.account] :
               p \in {q \in T \X W : q[1].walletId = q[2].id}}
           = {[log |-> t.log, account |-> OwnerOf[t.log]] : t \in T}
<1> DEFINE joined == {[log |-> p[1].log, account |-> p[2].address.account] :
                         p \in {q \in T \X W : q[1].walletId = q[2].id}}
           owned == {[log |-> t.log, account |-> OwnerOf[t.log]] : t \in T}
<1>1. ASSUME NEW t \in T, NEW r \in W, t.walletId = r.id
      PROVE  r.address.account = OwnerOf[t.log]
      BY <1>1
<1>2. ASSUME NEW e \in joined PROVE e \in owned
  <2>1. PICK p \in {q \in T \X W : q[1].walletId = q[2].id} :
            e = [log |-> p[1].log, account |-> p[2].address.account]
        OBVIOUS
  <2>2. p[1] \in T /\ p[2] \in W /\ p[1].walletId = p[2].id
        BY <2>1
  <2> QED BY <1>1, <2>1, <2>2
<1>3. ASSUME NEW e \in owned PROVE e \in joined
  <2>1. PICK t \in T : e = [log |-> t.log, account |-> OwnerOf[t.log]]
        OBVIOUS
  <2>2. PICK r \in W : r.id = t.walletId /\ r.address.account = OwnerOf[t.log]
        OBVIOUS
  <2> DEFINE p == <<t, r>>
  <2>3. p \in {q \in T \X W : q[1].walletId = q[2].id}
        BY <2>2
  <2>4. e = [log |-> p[1].log, account |-> p[2].address.account]
        BY <2>1, <2>2
  <2> QED BY <2>3, <2>4
<1> QED BY <1>2, <1>3

\* So the ledger's entries are a function of transactions alone.
LEMMA EntriesOwned ==
    /\ StoreInv => Entries = OwnedEntries
    /\ StoreInv' => Entries' = OwnedEntries'
BY JoinIsOwned DEF StoreInv, TablesOK, CreditedToOwner, WalletInv, IdsUnique, Entries, OwnedEntries

\* An accepted INSERT into wallets registers its account.
LEMMA InsertRegisters ==
    ASSUME StoreInv, StoreInv', NEW w \in Workers, InsertAccepted(w), UNCHANGED transactions
    PROVE  \E a \in Accounts : Ledger!Register(a)
<1> DEFINE a == call[w].address.account
<1>1. call[w].address \in Address /\ call[w].address = Checksummed(a) /\ a \in Accounts
  <2>1. call[w].address \in Address /\ call[w].address = normalizeAddress(call[w].address)
        BY FrameInFlight DEF StoreInv, InsertAccepted, CallStage
  <2> QED BY <2>1 DEF Address, normalizeAddress
<1>2. PICK i \in FreshIds : wallets' = wallets \cup {[id |-> i, address |-> Checksummed(a)]}
      BY <1>1 DEF InsertAccepted
<1>3. \A r \in wallets : r.address # Checksummed(a)
      BY <1>1 DEF InsertAccepted, AddressTaken
<1>4. \A b \in Accounts : normalizeAddress(Checksummed(b)) = Checksummed(b)
      BY DEF normalizeAddress, Checksummed
<1>5. KnownAccounts = {b \in Accounts : \E r \in wallets : r.address = Checksummed(b)}
      BY <1>4 DEF KnownAccounts, FindByAddress
<1>6. KnownAccounts' = {b \in Accounts : \E r \in wallets' : r.address = Checksummed(b)}
      BY <1>4 DEF KnownAccounts, FindByAddress
<1>7. \A b \in Accounts : Checksummed(b) = Checksummed(a) => b = a
      BY <1>1 DEF Checksummed
<1>8. a \notin KnownAccounts /\ KnownAccounts' = KnownAccounts \cup {a}
  <2> DEFINE new == [id |-> i, address |-> Checksummed(a)]
  <2>1. a \notin KnownAccounts
        BY <1>3, <1>5
  <2>2. new \in wallets' /\ new.address = Checksummed(a) /\ wallets' = wallets \cup {new}
        BY <1>2
  <2> HIDE DEF new
  <2>3. \A b \in Accounts : (\E r \in wallets' : r.address = Checksummed(b))
                              <=> (\E r \in wallets : r.address = Checksummed(b)) \/ b = a
        BY <1>7, <2>2
  <2> QED BY <1>1, <1>5, <1>6, <2>1, <2>3
<1>9. Entries' = Entries
      BY EntriesOwned DEF OwnedEntries
<1> QED BY <1>1, <1>8, <1>9 DEF Ledger!Register

\* An accepted INSERT into transactions records its log.
LEMMA InsertRecords ==
    ASSUME StoreInv, StoreInv', NEW w \in Workers, NEW next \in TaskStage, InsertRow(w, next)
    PROVE  \E l \in Logs : Ledger!Record(l)
<1> DEFINE l == task[w].log
<1>1. TaskOK(w) /\ task[w].stage = "insertTx" /\ l \in Logs
      BY TaskInFlight DEF StoreInv, InsertRow, TaskStage
<1>2. OwnerOf[l] \in KnownAccounts
  <2>1. PICK r \in wallets : r.address = Checksummed(OwnerOf[l])
        BY <1>1 DEF TaskOK, Knows, Owner
  <2> QED BY <1>1, <2>1, ChainAddress, EventAssumption DEF KnownAccounts, FindByAddress
<1>3. ~HashTaken(l) /\ UNCHANGED wallets
      BY DEF InsertRow, UniqueViolation, Wallets
<1>4. \A e \in Entries : TxOf[e.log] # TxOf[l]
      BY <1>3, EntriesOwned DEF OwnedEntries, HashTaken
<1>5. Entries' = Entries \cup {[log |-> l, account |-> OwnerOf[l]]}
  <2> DEFINE row == [log |-> l, walletId |-> task[w].walletId]
  <2>1. transactions' = transactions \cup {row} /\ row.log = l
        BY DEF InsertRow
  <2> HIDE DEF row
  <2>2. OwnedEntries' = OwnedEntries \cup {[log |-> row.log, account |-> OwnerOf[row.log]]}
        BY <2>1 DEF OwnedEntries
  <2> QED BY <2>1, <2>2, EntriesOwned
<1>6. KnownAccounts' = KnownAccounts
      BY <1>3 DEF KnownAccounts, FindByAddress
<1> QED BY <1>1, <1>2, <1>4, <1>5, <1>6 DEF Ledger!Record

\* A step that changes neither table is a stutter of the ledger.
LEMMA LedgerStutter ==
    ASSUME UNCHANGED <<wallets, transactions>>
    PROVE  UNCHANGED Ledger!ledgerVars
BY DEF Ledger!ledgerVars, KnownAccounts, Entries, FindByAddress

\* The handlers, the checker, the migration and crashes implement the ledger.
THEOREM StoreImplementsLedger == StoreSpec => LedgerSpec
<1>1. StoreInit => Ledger!LedgerInit
      BY DEF StoreInit, Ledger!LedgerInit, KnownAccounts, Entries
<1>2. StoreInv /\ StoreInv' /\ [StoreNext]_storeVars => [Ledger!LedgerNext]_(Ledger!ledgerVars)
  <2> SUFFICES ASSUME StoreInv, StoreInv', [StoreNext]_storeVars
               PROVE  [Ledger!LedgerNext]_(Ledger!ledgerVars)
      OBVIOUS
  <2>1. CASE UNCHANGED <<wallets, transactions>>
        BY <2>1, LedgerStutter
  <2>2. ASSUME NEW w \in Workers, InsertAccepted(w), UNCHANGED transactions
        PROVE  Ledger!LedgerNext
        BY <2>2, InsertRegisters DEF Ledger!LedgerNext
  <2>3. ASSUME NEW w \in Workers, NEW next \in TaskStage, InsertRow(w, next)
        PROVE  Ledger!LedgerNext
        BY <2>3, InsertRecords DEF Ledger!LedgerNext
  <2>4. ASSUME NEW w \in Workers, Ensure(w)
        PROVE  UNCHANGED <<wallets, transactions>> \/ InsertAccepted(w)
        BY <2>4 DEF Ensure, CallStep, FindWallet, InsertWallet, InsertReplyLost, InsertConflict,
                    Refetch, RefetchOuter, CallFaults
  <2>5. ASSUME NEW w \in Workers, TaskStep(w)
        PROVE  \/ UNCHANGED <<wallets, transactions>>
               \/ Ensure(w)
               \/ \E next \in TaskStage : InsertRow(w, next)
        BY <2>5 DEF TaskStep, Deliver, BeginCall, EnsureAgain, EnsureReturns, EnsureThrows,
                    ReturnCall, GetBlock, CheckExists, LookupWallet, InsertTx, InsertTxReplyLost,
                    InsertTxRefused, InsertBlock, TaskFaults, FinishTask, Wallets, TaskStage
  <2>6. CASE RunMigrations \/ Crash \/ UNCHANGED storeVars
        BY <2>1, <2>6 DEF RunMigrations, Migrate, Crash, storeVars
  <2>7. ASSUME NEW w \in Workers, TaskStep(w) PROVE [Ledger!LedgerNext]_(Ledger!ledgerVars)
        BY <2>1, <2>2, <2>3, <2>4, <2>5, <2>7 DEF Ensure
  <2> QED BY <2>6, <2>7 DEF StoreNext
<1> QED BY <1>1, <1>2, StoreInvHolds, PTL DEF StoreSpec, LedgerSpec, Ledger!LedgerSpec
=============================================================================
