--------------------------- MODULE StakingEvents ---------------------------
(***************************************************************************)
(* StakingWatcherService and StakingEventService: the Staked and Unstaked  *)
(* logs of the staking contract become rows of staking_events, written by  *)
(* the handlers of live events and by the historical sync that runs at     *)
(* every start, both through handleStakingEvent.                           *)
(*                                                                         *)
(* Data kept: who staked, in which transaction and block, and the base     *)
(* points at the two ends of a staking period.  Amounts, locks, balances   *)
(* and multipliers are copied from the log or from a call and take part in *)
(* no decision; they are left out.                                         *)
(***************************************************************************)
EXTENDS Integers, Sequences

CONSTANTS
  Txs,         \* transaction hashes
  Users,       \* stakers; WalletRegistry says how a user gets one wallet row
  Chain,       \* the staking logs of the chain, in chain order
  Window,      \* how many blocks the sync looks back (65000000 in the code)
  StartHead,   \* the latest block when the process starts for the first time
  MaxHead,     \* bound: the last block that is mined
  MaxFaults,   \* bound: failed calls and provider errors
  MaxCrashes   \* bound: ends of the process

EventNames == {"Staked", "Unstaked"}

ASSUME ChainAssumption ==
  /\ Chain \in Seq([tx : Txs, user : Users, event : EventNames, block : Nat \ {0}])
  /\ \A i, j \in DOMAIN Chain : i < j => Chain[i].block <= Chain[j].block
ASSUME BoundAssumption ==
  /\ Window \in Nat /\ StartHead \in Nat /\ MaxHead \in Nat
  /\ MaxFaults \in Nat /\ MaxCrashes \in Nat

Logs == 1 .. Len(Chain)
SyncTask == 0                     \* the sync handles one log at a time
Tasks == {SyncTask} \cup Logs     \* and every live log has its own handler

VARIABLES
  head,      \* the latest block of the chain
  alive,     \* the socket of this.provider works
  subs,      \* per event name, the subscription of the contract's listener
  timers,    \* reconnects waiting in setTimeout
  wallets,   \* users with a row in wallets
  table,     \* staking_events, in the order of createdAt
  tasks,     \* the running calls of handleStakingEvent
  sync,      \* syncHistoricalStakingEvents; "off" while the process is down
  failed,    \* a call of handler or sync has failed since the process started
  faults, crashes

conn == <<alive, subs, timers>>
vars == <<head, alive, subs, timers, wallets, table, tasks, sync, failed, faults, crashes>>

(* A row is named by its log, which gives walletId, eventType and           *)
(* transactionHash.  period is the STAKE row an UNSTAKE was computed from:  *)
(* its figures are copied, its id is not, so this field is history.         *)
StakingRow == [log : Logs, base : Nat, end : Nat, period : Logs \cup {0}]

HandlerStage == {"none", "ensure", "exists", "read", "create", "insert", "update"}
HandlerFrame == [log : Logs \cup {0}, stage : HandlerStage, base : Nat, period : Logs \cup {0}]
Idle == [log |-> 0, stage |-> "none", base |-> 0, period |-> 0]
Start(l) == [log |-> l, stage |-> "ensure", base |-> 0, period |-> 0]

(* watchStakingEvents does not await contract.on, which sends eth_subscribe *)
(* for each name: no listener; asked; logs arrive; the node refused.        *)
SubStage == {"none", "asked", "on", "refused"}
AllSubs(stage) == [n \in EventNames |-> stage]

SyncStage == {"off", "head", "query", "loop", "done", "rejected"}
SyncFrame == [stage : SyncStage, event : EventNames, upto : Nat, left : SUBSET Logs]
Off == [stage |-> "off", event |-> "Staked", upto |-> 0, left |-> {}]

Up == sync.stage # "off"
IsStake(l) == Chain[l].event = "Staked"

(* Points only grow on the chain: a block later is a point more.            *)
PointsAt(block) == block

(* wallets.totalEarnedPoints: the column's default; no statement of the     *)
(* program writes another value.                                            *)
TotalEarnedPoints == 0

(* existsBy({transactionHash}), and the UNIQUE constraint of the column.    *)
Stored(l) == \E i \in DOMAIN table : Chain[table[i].log].tx = Chain[l].tx

(* Mutant: any wallet's STAKE rows.                                         *)
StakesOfAnyone(u) == {i \in DOMAIN table : IsStake(table[i].log)}

StakesOf(u) == {i \in DOMAIN table : IsStake(table[i].log) /\ Chain[table[i].log].user = u}

(* findOne({where: {walletId, STAKE}, order: {createdAt: "DESC"}})          *)
IsLastStake(i, u) == i \in StakesOf(u) /\ \A j \in StakesOf(u) : j <= i

(* Mutant: toBlock taken as exclusive.                                      *)
FoundExclusive(event, upto) ==
  {l \in Logs : Chain[l].event = event /\ Chain[l].block \in upto - Window .. upto - 1}

(* Logs queryFilter returns for one event name.                             *)
Found(event, upto) ==
  {l \in Logs : Chain[l].event = event /\ Chain[l].block \in upto - Window .. upto}

IsFirst(l, S) == l \in S /\ \A m \in S : l <= m

Init ==
  /\ head = StartHead
  /\ alive = FALSE /\ subs = AllSubs("none")
  /\ timers = 0
  /\ wallets = {}
  /\ table = <<>>
  /\ tasks = [t \in Tasks |-> Idle]
  /\ sync = Off
  /\ failed = FALSE
  /\ faults = 0
  /\ crashes = 0

-----------------------------------------------------------------------------
(* The chain and the connection.                                            *)

(* A block is mined; the listeners, when subscribed, start a handler for    *)
(* each of its logs.                                                        *)
Hears(l) == alive /\ subs[Chain[l].event] = "on"
Mine ==
  /\ head < MaxHead
  /\ head' = head + 1
  /\ tasks' = [t \in Tasks |-> IF t \in Logs /\ Hears(t) /\ Chain[t].block = head + 1
                               THEN Start(t) ELSE tasks[t]]
  /\ UNCHANGED <<conn, wallets, table, sync, failed, faults, crashes>>

Fault == faults < MaxFaults /\ faults' = faults + 1

(* The socket dies, or never opened, and the provider says nothing.  What   *)
(* was asked over it is not answered.                                       *)
Drop ==
  /\ Fault /\ alive
  /\ alive' = FALSE
  /\ UNCHANGED <<head, subs, timers, wallets, table, tasks, sync, failed, crashes>>

handleProviderError ==
  /\ Fault /\ Up
  /\ timers' = timers + 1
  /\ UNCHANGED <<head, alive, subs, wallets, table, tasks, sync, failed, crashes>>

(* initializeProviderAndContracts: the old listeners are removed, a new     *)
(* provider opens its socket, and eth_subscribe is sent for each name.      *)
Initialize == alive' = TRUE /\ subs' = AllSubs("asked")

(* The timer fires.  Logs mined while there were no listeners are not       *)
(* asked for.                                                               *)
Reconnect ==
  /\ timers > 0
  /\ timers' = timers - 1
  /\ Initialize
  /\ UNCHANGED <<head, wallets, table, tasks, sync, failed, faults, crashes>>

(* The node answers eth_subscribe.                                          *)
Subscribed(n) ==
  /\ alive /\ subs[n] = "asked"
  /\ subs' = [subs EXCEPT ![n] = "on"]
  /\ UNCHANGED <<head, alive, timers, wallets, table, tasks, sync, failed, faults, crashes>>

(* It refuses: nothing awaits the promise, main logs the rejection.         *)
SubscribeFails(n) ==
  /\ Fault /\ alive /\ subs[n] = "asked"
  /\ subs' = [subs EXCEPT ![n] = "refused"]
  /\ UNCHANGED <<head, alive, timers, wallets, table, tasks, sync, failed, crashes>>

(* Mutant: the catch logs the error only.                                   *)
ReconnectGivesUp ==
  /\ timers > 0
  /\ subs' = AllSubs("none")
  /\ timers' = timers - 1
  /\ UNCHANGED <<head, alive, wallets, table, tasks, sync, failed, faults, crashes>>

(* initializeProviderAndContracts throws after it removed the listeners;    *)
(* the catch arms the next timer: as many wait as before.  It may do so     *)
(* again and again.                                                         *)
ReconnectFails ==
  /\ timers > 0
  /\ subs' = AllSubs("none")
  /\ UNCHANGED <<head, alive, timers, wallets, table, tasks, sync, failed, faults, crashes>>

-----------------------------------------------------------------------------
(* handleStakingEvent, one action per await.                                *)

Goto(t, stage) == tasks' = [tasks EXCEPT ![t].stage = stage]
Hold(t, stage, base, period) ==
  tasks' = [tasks EXCEPT ![t] = [log |-> tasks[t].log, stage |-> stage,
                                 base |-> base, period |-> period]]
EndHandler(t) == tasks' = [tasks EXCEPT ![t] = Idle]

ensureWalletExists(t) ==
  /\ tasks[t].stage = "ensure"
  /\ wallets' = wallets \cup {Chain[tasks[t].log].user}
  /\ Goto(t, "exists")
  /\ UNCHANGED <<table, failed, faults>>

(* Mutant: existsBy({walletId}).                                            *)
eventExistsForWallet(t) ==
  /\ tasks[t].stage = "exists"
  /\ IF \E i \in DOMAIN table : Chain[table[i].log].user = Chain[tasks[t].log].user
     THEN EndHandler(t) ELSE Goto(t, "read")
  /\ UNCHANGED <<wallets, table, failed, faults>>

eventExists(t) ==
  /\ tasks[t].stage = "exists"
  /\ IF Stored(tasks[t].log) THEN EndHandler(t) ELSE Goto(t, "read")
  /\ UNCHANGED <<wallets, table, failed, faults>>

(* getUserUSDCBalance, getCurrentBasePoints (for Staked) and getBlock: the  *)
(* contracts answer for the latest block, not for the block of the log.     *)
ReadChain(t) ==
  /\ alive /\ tasks[t].stage = "read"
  /\ Hold(t, "create", IF IsStake(tasks[t].log) THEN PointsAt(head) ELSE 0, 0)
  /\ UNCHANGED <<wallets, table, failed, faults>>

(* create up to its save: the wallet is found, and for an UNSTAKE           *)
(* calculateBoostedPointsForUnstake copies the last STAKE row's base points *)
(* when there is one.                                                       *)
CopiesStake(t) == ~IsStake(tasks[t].log) /\ StakesOf(Chain[tasks[t].log].user) # {}

CopyStake(t) ==
  \E i \in DOMAIN table :
    /\ IsLastStake(i, Chain[tasks[t].log].user)
    /\ Hold(t, "insert", table[i].base, table[i].log)

BeginCreate(t) ==
  /\ tasks[t].stage = "create"
  /\ Chain[tasks[t].log].user \in wallets
  /\ IF CopiesStake(t) THEN CopyStake(t) ELSE Goto(t, "insert")
  /\ UNCHANGED <<wallets, table, failed, faults>>

(* Mutant: the difference is stored before it is checked to be positive.    *)
SavedRowUnchecked(f) ==
  [log |-> f.log, base |-> f.base, end |-> TotalEarnedPoints - f.base, period |-> f.period]

(* save: a STAKE row starts with base points 0, the UPDATE that follows     *)
(* brings them.                                                             *)
SavedRow(f) ==
  [log |-> f.log,
   base |-> IF IsStake(f.log) THEN 0 ELSE f.base,
   end |-> IF f.period # 0 THEN TotalEarnedPoints ELSE 0,
   period |-> f.period]

Inserts(t) ==
  /\ tasks[t].stage = "insert"
  /\ ~Stored(tasks[t].log)
  /\ table' = Append(table, SavedRow(tasks[t]))

InsertEvent(t) ==
  /\ Inserts(t)
  /\ IF IsStake(tasks[t].log) THEN Goto(t, "update") ELSE EndHandler(t)
  /\ UNCHANGED <<wallets, failed, faults>>

(* UNIQUE(transactionHash): another handler was faster; the catch logs it.  *)
InsertRefused(t) ==
  /\ tasks[t].stage = "insert"
  /\ Stored(tasks[t].log)
  /\ EndHandler(t)
  /\ UNCHANGED <<wallets, table, failed, faults>>

(* Mutant: UPDATE ... WHERE walletId.                                       *)
UpdateBaseOfWallet(t) ==
  /\ tasks[t].stage = "update"
  /\ table' = [i \in DOMAIN table |->
                 IF Chain[table[i].log].user = Chain[tasks[t].log].user
                 THEN [table[i] EXCEPT !.base = tasks[t].base]
                 ELSE table[i]]
  /\ EndHandler(t)
  /\ UNCHANGED <<wallets, failed, faults>>

(* UPDATE ... WHERE id: the row this handler has saved.                     *)
UpdateBase(t) ==
  /\ tasks[t].stage = "update"
  /\ table' = [i \in DOMAIN table |-> IF table[i].log = tasks[t].log
                                      THEN [table[i] EXCEPT !.base = tasks[t].base]
                                      ELSE table[i]]
  /\ EndHandler(t)
  /\ UNCHANGED <<wallets, failed, faults>>

HandlerStep(t) ==
  /\ \/ ensureWalletExists(t) \/ eventExists(t) \/ ReadChain(t) \/ BeginCreate(t)
     \/ InsertEvent(t) \/ InsertRefused(t) \/ UpdateBase(t)
  /\ UNCHANGED <<head, conn, sync, crashes>>

(* A call throws before it changed anything; the catch of the handler.      *)
HandlerThrows(t) ==
  /\ Fault /\ tasks[t].stage # "none"
  /\ EndHandler(t)
  /\ failed' = TRUE
  /\ UNCHANGED <<wallets, table>>

(* getCurrentBasePoints catches its own error and answers 0.                *)
BasePointsFail(t) ==
  /\ Fault /\ tasks[t].stage = "read" /\ IsStake(tasks[t].log)
  /\ Hold(t, "create", 0, 0)
  /\ failed' = TRUE
  /\ UNCHANGED <<wallets, table>>

(* So does calculateBoostedPointsForUnstake.                                *)
PeriodFails(t) ==
  /\ Fault /\ tasks[t].stage = "create" /\ ~IsStake(tasks[t].log)
  /\ Goto(t, "insert")
  /\ failed' = TRUE
  /\ UNCHANGED <<wallets, table>>

(* The INSERT commits and its answer is lost.                               *)
InsertReplyLost(t) ==
  /\ Fault /\ Inserts(t)
  /\ EndHandler(t)
  /\ failed' = TRUE
  /\ UNCHANGED wallets

HandlerFaults(t) ==
  /\ \/ HandlerThrows(t) \/ BasePointsFail(t) \/ PeriodFails(t) \/ InsertReplyLost(t)
  /\ UNCHANGED <<head, conn, sync, crashes>>

-----------------------------------------------------------------------------
(* onModuleInit and the historical sync.                                    *)

Boot ==
  /\ ~Up
  /\ Initialize
  /\ sync' = [Off EXCEPT !.stage = "head"]
  /\ failed' = FALSE
  /\ UNCHANGED <<timers, faults>>

(* The first initialisation throws: its catch arms a timer, and onModuleInit *)
(* is rejected by getBlockNumber of a provider that does not exist.          *)
BootFails ==
  /\ Fault /\ ~Up
  /\ timers' = timers + 1
  /\ sync' = [Off EXCEPT !.stage = "rejected"]
  /\ failed' = TRUE
  /\ UNCHANGED <<alive, subs>>

BootStep == (Boot \/ BootFails) /\ UNCHANGED <<head, wallets, table, tasks, crashes>>

ReadHead ==
  /\ alive /\ sync.stage = "head"
  /\ sync' = [sync EXCEPT !.stage = "query", !.upto = head]
  /\ UNCHANGED <<tasks, failed, faults>>

(* onModuleInit is rejected, which main logs: there is no sync and no HTTP   *)
(* server, but the process and its listeners go on.                          *)
ReadHeadFails ==
  /\ Fault /\ sync.stage = "head"
  /\ sync' = [sync EXCEPT !.stage = "rejected"]
  /\ failed' = TRUE
  /\ UNCHANGED tasks

QueryLogs ==
  /\ alive /\ sync.stage = "query"
  /\ sync' = [sync EXCEPT !.stage = "loop", !.left = Found(sync.event, sync.upto)]
  /\ UNCHANGED <<tasks, failed, faults>>

NextEventName ==
  sync' = IF sync.event = "Staked"
          THEN [sync EXCEPT !.stage = "query", !.event = "Unstaked", !.left = {}]
          ELSE [sync EXCEPT !.stage = "done", !.left = {}]

(* queryFilter throws; the catch goes on with the next event name.          *)
QueryFails ==
  /\ Fault /\ sync.stage = "query"
  /\ NextEventName
  /\ failed' = TRUE
  /\ UNCHANGED tasks

(* One log after the other: the loop awaits the handler.                    *)
HandleLog ==
  /\ sync.stage = "loop" /\ tasks[SyncTask].stage = "none"
  /\ \E l \in sync.left :
       /\ IsFirst(l, sync.left)
       /\ tasks' = [tasks EXCEPT ![SyncTask] = Start(l)]
       /\ sync' = [sync EXCEPT !.left = @ \ {l}]
  /\ UNCHANGED <<failed, faults>>

EventNameDone ==
  /\ sync.stage = "loop" /\ tasks[SyncTask].stage = "none" /\ sync.left = {}
  /\ NextEventName
  /\ UNCHANGED <<tasks, failed, faults>>

SyncStep ==
  /\ ReadHead \/ QueryLogs \/ HandleLog \/ EventNameDone
  /\ UNCHANGED <<head, conn, wallets, table, crashes>>

SyncFaults ==
  /\ ReadHeadFails \/ QueryFails
  /\ UNCHANGED <<head, conn, wallets, table, crashes>>

(* The process ends.                                                        *)
Crash ==
  /\ crashes < MaxCrashes /\ Up
  /\ crashes' = crashes + 1
  /\ alive' = FALSE /\ subs' = AllSubs("none")
  /\ timers' = 0
  /\ tasks' = [t \in Tasks |-> Idle]
  /\ sync' = Off
  /\ UNCHANGED <<head, wallets, table, failed, faults>>

Next ==
  \/ Mine \/ Drop \/ handleProviderError \/ Reconnect \/ ReconnectFails
  \/ \E n \in EventNames : Subscribed(n) \/ SubscribeFails(n)
  \/ BootStep \/ SyncStep \/ SyncFaults \/ Crash
  \/ \E t \in Tasks : HandlerStep(t) \/ HandlerFaults(t)

(* Timers fire and do not throw for ever, and over a working socket calls   *)
(* return and subscriptions are answered; nothing makes a block arrive or   *)
(* restarts the process.                                                    *)
Fairness ==
  /\ WF_vars(Reconnect)
  /\ \A n \in EventNames : WF_vars(Subscribed(n))
  /\ WF_vars(SyncStep)
  /\ \A t \in Tasks : WF_vars(HandlerStep(t))

Spec == Init /\ [][Next]_vars /\ Fairness

-----------------------------------------------------------------------------
(* Type correctness: what every variable holds, for all the others.         *)
StakingTypeOK ==
  /\ head \in Nat /\ timers \in Nat /\ alive \in BOOLEAN /\ failed \in BOOLEAN
  /\ subs \in [EventNames -> SubStage]
  /\ wallets \subseteq Users
  /\ table \in Seq(StakingRow)
  /\ tasks \in [Tasks -> HandlerFrame]
  /\ sync \in SyncFrame
  /\ faults \in 0 .. MaxFaults /\ crashes \in 0 .. MaxCrashes

(* A start whose calls all succeed leaves no gap: when the sync is over,    *)
(* every log it could look back to has its transaction in the table,        *)
(* whatever crashed before and however live handlers raced with it.         *)
SyncCatchesUp ==
  sync.stage = "done" /\ ~failed =>
    \A l \in Logs : Chain[l].block \in sync.upto - Window .. sync.upto => Stored(l)

(* An UNSTAKE row is computed from an earlier STAKE row of its own user,    *)
(* and what it copied is what that row holds, or the 0 the row held until   *)
(* its UPDATE: no other handler's figures get in.                           *)
UnstakeFromOwnStake ==
  \A i \in DOMAIN table : table[i].period # 0 =>
    \E j \in 1 .. i - 1 :
      /\ table[j].log = table[i].period
      /\ IsStake(table[j].log) /\ ~IsStake(table[i].log)
      /\ Chain[table[j].log].user = Chain[table[i].log].user
      /\ table[i].base \in {0, table[j].base}

(* The table is a log: a row is never lost, moved or rewritten, except that *)
(* a STAKE row gets its base points, once.                                  *)
KeepsRow(i) ==
  /\ i \in DOMAIN table'
  /\ \/ table'[i] = table[i]
     \/ /\ IsStake(table[i].log) /\ table[i].base = 0
        /\ table'[i] = [table[i] EXCEPT !.base = table'[i].base]
RowsKept == [][\A i \in DOMAIN table : KeepsRow(i)]_vars

(* A provider error is answered, also when the answer fails at first: no    *)
(* timer is left and the listeners of every name come back, unless the new  *)
(* socket dies or never opens, or the node refuses a subscription: of these *)
(* the service hears nothing, and nothing answers them.                     *)
Reconnects ==
  timers > 0 ~>
    \/ timers = 0 /\ (alive => \A n \in EventNames : subs[n] \in {"on", "refused"})
    \/ ~Up

(* A log whose handler was started is stored, unless a call fails or the    *)
(* socket it is made over dies.                                             *)
DeliveredIsStored ==
  \A l \in Logs : tasks[l].stage # "none" ~> (Stored(l) \/ failed \/ ~alive)

-----------------------------------------------------------------------------
(* What comments of the code say, and the code does not do.                 *)

(* "boosted points earned during the most recent staking period": an        *)
(* Unstaked closes the stake that precedes it on the chain.                 *)
UnstakeClosesLatestStake ==
  \A i \in DOMAIN table : table[i].period # 0 => table[i].period < table[i].log
=============================================================================
