----------------------------- MODULE EventStore -----------------------------
(***************************************************************************)
(* How a lending-pool event becomes rows of wallets, transactions and      *)
(* blocks.  Two code paths do it: WatcherService.handleEvent (the live     *)
(* listeners and the historical sync) and processTransactionLogs of the    *)
(* hourly BlockCheckerService.  They run concurrently, on the same or on   *)
(* different events, and every await is an interleaving point: the check   *)
(* that a transaction is new, the wallet lookup and the two inserts are    *)
(* separate statements.                                                    *)
(*                                                                         *)
(* A log may be delivered to any number of workers, any number of times:   *)
(* a listener registered twice, the sync of each start and the checker all *)
(* deliver it again.  The health factor and debt columns the handler       *)
(* refreshes in between are not part of this state.                        *)
(***************************************************************************)
EXTENDS WalletRegistry

CONSTANTS
    Checkers,      \* the workers that run processTransactionLogs tasks
    Logs,          \* on-chain events of the lending pool
    Blocks,        \* block numbers
    Txs,           \* transaction hashes
    TxOf,          \* log -> its transaction hash
    BlockOf,       \* log -> its block number
    KindOf,        \* log -> its event name
    OwnerOf,       \* log -> `from`, or `liquidated` of a Liquidation
    LiquidatorOf,  \* log -> `liquidator` of a Liquidation
    NamedAsset,    \* the logs whose asset getTokenName knows
    NoWallet       \* the walletId of a task that has looked up no wallet

Kinds == {"Deposit", "Withdraw", "Borrow", "Repay", "Liquidation"}

ASSUME EventAssumption ==
    /\ Checkers \subseteq Workers
    /\ NamedAsset \subseteq Logs
    /\ TxOf \in [Logs -> Txs]
    /\ BlockOf \in [Logs -> Blocks]
    /\ KindOf \in [Logs -> Kinds]
    /\ OwnerOf \in [Logs -> Accounts]
    /\ LiquidatorOf \in [Logs -> Accounts]
    /\ NoWallet \notin WalletIds

VARIABLES
    transactions,  \* rows of the transactions table: a log and its walletId
    blockRows,     \* block numbers the watcher has written a row for
    task           \* per worker, the event it is handling

storeVars == <<wallets, schema, call, transactions, blockRows, task>>

TransactionRow == [log : Logs, walletId : WalletIds]

TaskStage == {"ensure",       \* findOrCreateByAddress is running
              "getBlock",     \* waiting for the RPC node
              "exists",       \* isExists is in flight
              "lookup",       \* create looks the wallet up
              "insertTx",     \* INSERT into transactions is in flight
              "insertBlock",  \* INSERT into blocks is in flight
              "saved", "skipped", "notFound", "refused", "conflict",
              "unensured", "threw"}

\* How a task ends.  "threw": an RPC or database failure that is not one of
\* the constraints.
Ended == {"saved", "skipped", "notFound", "refused", "conflict", "unensured", "threw"}

\* left: how many ensureWalletExists calls have not returned yet; walletId:
\* the id of the wallet create looked up.
Task == [stage : TaskStage, log : Logs, left : {1, 2}, walletId : WalletIds \cup {NoWallet}]

NoTask == [stage |-> "idle"]

(***************************************************************************)
(* Queries and constraints of the transactions table.                      *)
(***************************************************************************)
HashTaken(l) == \E t \in transactions : TxOf[t.log] = TxOf[l]

\* A guess at what identifies an event: its block.
BlockRecorded(l) == \E t \in transactions : BlockOf[t.log] = BlockOf[l]

IsExists(l) == HashTaken(l)

\* The database without UNIQUE(transactionHash).
NothingTaken(l) == FALSE

UniqueViolation(l) == HashTaken(l)

IsChecker(w) == w \in Checkers

\* tokenName and asset are NOT NULL.  The watcher leaves asset null for a
\* Liquidation and tokenName null for an asset it does not know; the checker
\* stores "" for such an asset and never queries liquidations.
NullColumn(w, l) ==
    ~IsChecker(w) /\ (KindOf[l] = "Liquidation" \/ l \notin NamedAsset)

\* handleEvent ensures the liquidator after the liquidated account, and the
\* same account twice for a Borrow or a Repay; the checker ensures once.
EnsuresTwice(w, l) ==
    ~IsChecker(w) /\ KindOf[l] \in {"Liquidation", "Borrow", "Repay"}

SecondAccount(l) == IF KindOf[l] = "Liquidation" THEN LiquidatorOf[l] ELSE OwnerOf[l]

Wallets == UNCHANGED <<wallets, schema, call>>

Goto(w, stage) == task' = [task EXCEPT ![w].stage = stage]

StoreInit ==
    /\ WalletInit
    /\ transactions = {}
    /\ blockRows = {}
    /\ task = [w \in Workers |-> NoTask]

(***************************************************************************)
(* An event reaches a worker.  The checker queries no Liquidation; which   *)
(* accounts its filter lets through is BlockScan's subject, and here any.  *)
(***************************************************************************)
Deliver(w, l) ==
    /\ task[w].stage = "idle"
    /\ IsChecker(w) => KindOf[l] # "Liquidation"
    /\ BeginCall(w, Checksummed(OwnerOf[l]))
    /\ task' = [task EXCEPT ![w] = [stage |-> "ensure", log |-> l,
                                    left |-> IF EnsuresTwice(w, l) THEN 2 ELSE 1,
                                    walletId |-> NoWallet]]
    /\ UNCHANGED <<transactions, blockRows>>

Ensure(w) ==
    /\ task[w].stage = "ensure"
    /\ CallStep(w)
    /\ UNCHANGED <<transactions, blockRows, task>>

EnsureAgain(w) ==
    /\ task[w].stage = "ensure"
    /\ call[w].stage = "ensured"
    /\ task[w].left = 2
    /\ call' = [call EXCEPT ![w] = [stage |-> "find",
                                    address |-> Checksummed(SecondAccount(task[w].log))]]
    /\ task' = [task EXCEPT ![w].left = 1]
    /\ UNCHANGED <<wallets, schema, transactions, blockRows>>

\* The watcher reads the block before it checks whether the hash is known,
\* the checker after.
EnsureReturns(w) ==
    /\ task[w].stage = "ensure"
    /\ call[w].stage = "ensured"
    /\ task[w].left = 1
    /\ ReturnCall(w)
    /\ Goto(w, IF IsChecker(w) THEN "exists" ELSE "getBlock")
    /\ UNCHANGED <<transactions, blockRows>>

\* A task that goes on although its wallet could not be ensured.
EnsureThrowsSwallowed(w) ==
    /\ task[w].stage = "ensure"
    /\ call[w].stage \in {"rethrown", "faulted"}
    /\ ReturnCall(w)
    /\ Goto(w, IF IsChecker(w) THEN "exists" ELSE "getBlock")
    /\ UNCHANGED <<transactions, blockRows>>

EnsureThrows(w) ==
    /\ task[w].stage = "ensure"
    /\ call[w].stage \in {"rethrown", "faulted"}
    /\ ReturnCall(w)
    /\ Goto(w, IF call[w].stage = "rethrown" THEN "unensured" ELSE "threw")
    /\ UNCHANGED <<transactions, blockRows>>

GetBlock(w) ==
    /\ task[w].stage = "getBlock"
    /\ Goto(w, IF IsChecker(w) THEN "lookup" ELSE "exists")
    /\ Wallets /\ UNCHANGED <<transactions, blockRows>>

CheckExists(w) ==
    /\ task[w].stage = "exists"
    /\ Goto(w, IF IsExists(task[w].log) THEN "skipped"
               ELSE IF IsChecker(w) THEN "getBlock" ELSE "lookup")
    /\ Wallets /\ UNCHANGED <<transactions, blockRows>>

\* The whole row where its id belongs.
LookupWalletRow(w) ==
    /\ task[w].stage = "lookup"
    /\ \E r \in FindByAddress(Checksummed(OwnerOf[task[w].log])) :
           task' = [task EXCEPT ![w].stage = "insertTx", ![w].walletId = r]
    /\ Wallets /\ UNCHANGED <<transactions, blockRows>>

LookupWallet(w) ==
    /\ task[w].stage = "lookup"
    /\ LET found == FindByAddress(Checksummed(OwnerOf[task[w].log]))
       IN  \/ /\ found = {}
              /\ Goto(w, "notFound")
           \/ \E r \in found :
                  task' = [task EXCEPT ![w].stage = "insertTx", ![w].walletId = r.id]
    /\ Wallets /\ UNCHANGED <<transactions, blockRows>>

\* The row is written and the task goes on to `next`.
InsertRow(w, next) ==
    /\ task[w].stage = "insertTx"
    /\ ~NullColumn(w, task[w].log) /\ ~UniqueViolation(task[w].log)
    /\ transactions' = transactions \cup
           {[log |-> task[w].log, walletId |-> task[w].walletId]}
    /\ Goto(w, next)
    /\ Wallets /\ UNCHANGED blockRows

InsertTx(w) == InsertRow(w, IF IsChecker(w) THEN "saved" ELSE "insertBlock")

InsertTxReplyLost(w) == InsertRow(w, "threw")

\* A refused row that the handler does not notice: its block is next.
InsertTxRefusedIgnored(w) ==
    /\ task[w].stage = "insertTx"
    /\ NullColumn(w, task[w].log) \/ UniqueViolation(task[w].log)
    /\ Goto(w, IF IsChecker(w) THEN "saved" ELSE "insertBlock")
    /\ Wallets /\ UNCHANGED <<transactions, blockRows>>

InsertTxRefused(w) ==
    /\ task[w].stage = "insertTx"
    /\ \/ NullColumn(w, task[w].log) /\ Goto(w, "refused")
       \/ ~NullColumn(w, task[w].log) /\ UniqueViolation(task[w].log) /\ Goto(w, "conflict")
    /\ Wallets /\ UNCHANGED <<transactions, blockRows>>

InsertBlock(w) ==
    /\ task[w].stage = "insertBlock"
    /\ blockRows' = blockRows \cup {BlockOf[task[w].log]}
    /\ Goto(w, "saved")
    /\ Wallets /\ UNCHANGED transactions

\* An RPC or database failure at an await outside findOrCreateByAddress.
TaskFaults(w) ==
    /\ task[w].stage \in {"getBlock", "exists", "lookup", "insertTx", "insertBlock"}
    /\ Goto(w, "threw")
    /\ Wallets /\ UNCHANGED <<transactions, blockRows>>

FinishTask(w) ==
    /\ task[w].stage \in Ended
    /\ task' = [task EXCEPT ![w] = NoTask]
    /\ Wallets /\ UNCHANGED <<transactions, blockRows>>

RunMigrations == Migrate /\ UNCHANGED <<transactions, blockRows, task>>

\* The process stops anywhere: every task is lost, the tables stay.
Crash ==
    /\ schema = "new"
    /\ call' = [w \in Workers |-> NoCall]
    /\ task' = [w \in Workers |-> NoTask]
    /\ UNCHANGED <<wallets, schema, transactions, blockRows>>

TaskStep(w) ==
    \/ \E l \in Logs : Deliver(w, l)
    \/ Ensure(w) \/ EnsureAgain(w) \/ EnsureReturns(w) \/ EnsureThrows(w)
    \/ GetBlock(w) \/ CheckExists(w) \/ LookupWallet(w)
    \/ InsertTx(w) \/ InsertTxReplyLost(w) \/ InsertTxRefused(w) \/ InsertBlock(w)
    \/ TaskFaults(w) \/ FinishTask(w)

StoreNext == RunMigrations \/ Crash \/ \E w \in Workers : TaskStep(w)

StoreSpec == StoreInit /\ [][StoreNext]_storeVars

-----------------------------------------------------------------------------
\* The types of the three tables' rows and of the tasks.
StoreTypeOK ==
    /\ WalletTypeOK
    /\ transactions \subseteq TransactionRow
    /\ blockRows \subseteq Blocks
    /\ task \in [Workers -> {NoTask} \cup Task]

\* However many workers handle the logs of a transaction, at once or again
\* after a restart, the table holds one row for its hash (the check in
\* handleEvent "to prevent duplicates" alone does not: it is made before two
\* awaits).
OneRowPerHash ==
    \A t, u \in transactions : TxOf[t.log] = TxOf[u.log] => t = u

\* A stored event is credited to the wallet of the account that emitted it
\* (of the liquidated account for a Liquidation), whichever task stored it:
\* the views sum balances by walletId.
CreditedToOwner ==
    \A t \in transactions :
        \E r \in wallets : r.id = t.walletId /\ r.address.account = OwnerOf[t.log]

\* "Wallet already ensured to exist above" (handleEvent): between ensuring
\* the wallet and the lookup in TransactionService.create the handler awaits
\* several times, and the row is still there to be found.  The handler of a
\* Liquidation refreshes the metrics of two accounts, and goes on only when
\* both have wallets.
AlreadyEnsured ==
    \A w \in Workers :
        /\ task[w].stage \in {"getBlock", "exists", "lookup"} =>
               FindByAddress(Checksummed(OwnerOf[task[w].log])) # {}
        /\ task[w].stage # "notFound"
        /\ task[w].stage \in {"getBlock", "exists"} /\ KindOf[task[w].log] = "Liquidation" =>
               FindByAddress(Checksummed(LiquidatorOf[task[w].log])) # {}

\* The watcher writes a block row only after it stored an event of that
\* block.  findMissingBlocks skips the blocks that have a row.
BlockRowBacked ==
    \A b \in blockRows : \E t \in transactions : BlockOf[t.log] = b

\* A handler that no database or RPC failure interrupted leaves its
\* transaction recorded, by itself or by the worker it raced with.  Two
\* cases are excluded: a column that may not be null, and an account whose
\* row the migration left in another spelling.
HandledIsRecorded ==
    \A w \in Workers :
        /\ task[w].stage \in Ended \ {"threw"}
        /\ ~NullColumn(w, task[w].log)
        /\ ~HasVariant(Checksummed(OwnerOf[task[w].log]))
        => HashTaken(task[w].log)

(***************************************************************************)
(* The refinement of EventLedger: an account is known once it has a        *)
(* checksum-spelled wallet row, and a transactions row is an entry         *)
(* credited to the account of the wallet it references.                    *)
(***************************************************************************)
KnownAccounts == {a \in Accounts : FindByAddress(Checksummed(a)) # {}}

Entries == {[log |-> p[1].log, account |-> p[2].address.account] :
               p \in {q \in transactions \X wallets : q[1].walletId = q[2].id}}

Ledger == INSTANCE EventLedger WITH known <- KnownAccounts, entries <- Entries

\* Every step of the handlers, the checker, the migration and a crash is a
\* registration, a recording or nothing at all to a reader of the ledger.
LedgerSpec == Ledger!LedgerSpec

\* The README: "All on-chain events are stored in PostgreSQL tables", and
\* `Liquidation` is one of the events watched; a comment of handleEvent:
\* "For liquidations, we'll store the seized value in USDC terms".
\* A liquidation whose handler ran without a failure is stored.
LiquidationsRecorded ==
    \A w \in Workers :
        task[w].stage \in Ended \ {"threw", "unensured", "skipped"}
            /\ KindOf[task[w].log] = "Liquidation" =>
            \E t \in transactions : t.log = task[w].log
=============================================================================
