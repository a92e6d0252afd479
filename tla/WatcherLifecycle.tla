-------------------------- MODULE WatcherLifecycle --------------------------
(***************************************************************************)
(* How WatcherService comes to see the lending events: the provider and    *)
(* contract it makes at start and after every error, the getNetwork call   *)
(* each of them waits for before listeners are attached, and the historical *)
(* sync.  What a handler does with an event it has been given is EventStore. *)
(*                                                                         *)
(* watchOnline does not await contract.on.  In ethers 6 the first listener  *)
(* of a name on a contract has its provider send one eth_subscribe; until   *)
(* the node answers, no log of that name arrives, and when it refuses none  *)
(* ever does: the rejection reaches only main's unhandledRejection log.     *)
(* Listeners that a later answer adds to the same contract share the one    *)
(* subscription; removeAllListeners ends it, also while it is in flight.    *)
(*                                                                         *)
(* A reconnect does not await the initialisation it starts, so several     *)
(* getNetwork calls may be in flight, and each attaches listeners to the   *)
(* contract that is current when it answers.  Providers are numbered; the  *)
(* last one is this.provider, and its contract this.contract.              *)
(***************************************************************************)
EXTENDS Integers, Sequences

CONSTANTS
    eventsToSync, \* the names of the events, in the order of the sync
    Events,       \* the lending events of the chain
    KindOf,       \* event -> its name
    BlockOf,      \* event -> its block
    Window,       \* how many blocks the sync looks back (65000000 in the code)
    StartHead,    \* the latest block at the first start
    MaxHead,      \* bound: the last block that is mined
    MaxProviders, \* bound: providers made
    MaxFaults,    \* bound: failed calls, lost sockets and provider errors
    MaxCrashes    \* bound: ends of the process

Names == {eventsToSync[i] : i \in 1 .. Len(eventsToSync)}

ASSUME LifecycleAssumption ==
    /\ eventsToSync \in Seq(STRING) /\ Len(eventsToSync) > 0
    /\ KindOf \in [Events -> Names]
    /\ BlockOf \in [Events -> Nat \ {0}]
    /\ {Window, StartHead, MaxHead, MaxProviders, MaxFaults, MaxCrashes} \subseteq Nat

Providers == 1 .. MaxProviders

VARIABLES
    head,       \* the latest block of the chain
    provider,   \* the number of this.provider and this.contract; 0: none yet
    alive,      \* the providers whose socket works
    subs,       \* per contract and name, the subscription of its listeners
    probing,    \* the providers whose getNetwork is in flight
    boot,       \* onModuleInit
    handled,    \* events a handler has been started for
    dropped,    \* history: event names whose sync broke off since the start
    unheard,    \* history: events mined while their subscription was in flight
    disturbed,  \* history: a call or a socket failed since the start
    faults, crashes

lifeVars == <<head, provider, alive, subs, probing, boot, handled, dropped, unheard, disturbed, faults, crashes>>

\* No listeners; eth_subscribe in flight; logs arrive; the node refused.
SubStage == {"none", "asked", "on", "refused"}

NoListeners == [n \in Names |-> "none"]

BootStage == {"off", "connect", "head", "query", "loop", "done", "rejected"}

\* Where onModuleInit is, the provider whose getNetwork it awaits, and how far
\* its sync is.
Boot(stage, p) == [stage |-> stage, awaits |-> p, kind |-> 1, upto |-> 0, left |-> {}]

BootType == [stage : BootStage, awaits : Nat, kind : 1 .. Len(eventsToSync),
             upto : Nat, left : SUBSET Events]

Up == boot.stage # "off"

LifeInit ==
    /\ head = StartHead
    /\ provider = 0
    /\ alive = {}
    /\ subs = [p \in Providers |-> NoListeners]
    /\ probing = {}
    /\ boot = Boot("off", 0)
    /\ handled = {}
    /\ dropped = {} /\ unheard = {}
    /\ disturbed = FALSE
    /\ faults = 0 /\ crashes = 0

-----------------------------------------------------------------------------
(***************************************************************************)
(* The connection.                                                         *)
(***************************************************************************)

\* initializeProviderAndContract up to its await: the listeners of the old
\* contract go, a new provider opens a socket and is asked for its network.
\* The old provider is not destroyed.
initializeProviderAndContract(waiting) ==
    /\ provider < MaxProviders
    /\ provider' = provider + 1
    /\ alive' = alive \cup {provider + 1}
    /\ subs' = [p \in Providers |-> IF p = provider THEN NoListeners ELSE subs[p]]
    /\ probing' = waiting \cup {provider + 1}

\* onModuleInit awaits the first getNetwork only, whatever it answers.
AwaitedBy(p) ==
    boot' = IF boot.stage = "connect" /\ boot.awaits = p THEN [boot EXCEPT !.stage = "head"] ELSE boot

\* contract.on for every name: only the first listener of a name subscribes.
watchOnline(contract) ==
    subs' = [subs EXCEPT ![contract] = [n \in Names |-> IF @[n] = "none" THEN "asked" ELSE @[n]]]

\* The listeners attached to the contract that was current when it was asked.
NetworkAnswersCaptured(p) ==
    /\ p \in probing /\ p \in alive
    /\ probing' = probing \ {p}
    /\ watchOnline(p)
    /\ AwaitedBy(p)
    /\ UNCHANGED <<head, provider, alive, handled, dropped, unheard, disturbed, faults, crashes>>

\* getNetwork answers: watchOnline attaches the listeners to this.contract and
\* returns with its subscriptions in flight.
NetworkAnswers(p) ==
    /\ p \in probing /\ p \in alive
    /\ probing' = probing \ {p}
    /\ watchOnline(provider)
    /\ AwaitedBy(p)
    /\ UNCHANGED <<head, provider, alive, handled, dropped, unheard, disturbed, faults, crashes>>

\* The node answers eth_subscribe.
Subscribed(p, n) ==
    /\ subs[p][n] = "asked" /\ p \in alive
    /\ subs' = [subs EXCEPT ![p][n] = "on"]
    /\ UNCHANGED <<head, provider, alive, probing, boot, handled, dropped, unheard, disturbed, faults, crashes>>

Fault == Up /\ faults < MaxFaults /\ faults' = faults + 1

\* The node refuses eth_subscribe: nothing awaits it, so nothing reconnects.
SubscribeFails(p, n) ==
    /\ subs[p][n] = "asked" /\ p \in alive
    /\ Fault
    /\ subs' = [subs EXCEPT ![p][n] = "refused"]
    /\ disturbed' = TRUE
    /\ UNCHANGED <<head, provider, alive, probing, boot, handled, dropped, unheard, crashes>>

\* The catch of checkNetworkConnection as a log line.
NetworkFailsLogged(p) ==
    /\ p \in probing
    /\ Fault
    /\ probing' = probing \ {p}
    /\ AwaitedBy(p)
    /\ disturbed' = TRUE
    /\ UNCHANGED <<head, provider, alive, subs, handled, dropped, unheard, crashes>>

\* getNetwork fails: reconnectProvider starts an initialisation and returns.
NetworkFails(p) ==
    /\ p \in probing
    /\ Fault
    /\ initializeProviderAndContract(probing \ {p})
    /\ AwaitedBy(p)
    /\ disturbed' = TRUE
    /\ UNCHANGED <<head, handled, dropped, unheard, crashes>>

\* The current provider emits "error"; the listeners of the old ones are gone.
handleProviderError ==
    /\ provider > 0
    /\ Fault
    /\ initializeProviderAndContract(probing)
    /\ disturbed' = TRUE
    /\ UNCHANGED <<head, boot, handled, dropped, unheard, crashes>>

\* A socket closes.  Nothing listens for that: handleProviderClose has no
\* caller.  A getNetwork or eth_subscribe in flight never answers.
SocketCloses(p) ==
    /\ p \in alive
    /\ Fault
    /\ alive' = alive \ {p}
    /\ disturbed' = TRUE
    /\ UNCHANGED <<head, provider, subs, probing, boot, handled, dropped, unheard, crashes>>

\* A block is mined: a handler starts for each of its events whose name is
\* subscribed on a working socket.
Mine ==
    LET mined   == {e \in Events : BlockOf[e] = head + 1}
        At(st)  == {e \in mined : \E p \in alive : subs[p][KindOf[e]] = st}
    IN  /\ head < MaxHead
        /\ head' = head + 1
        /\ handled' = handled \cup At("on")
        /\ unheard' = unheard \cup At("asked")
        /\ UNCHANGED <<provider, alive, subs, probing, boot, dropped, disturbed, faults, crashes>>

-----------------------------------------------------------------------------
(***************************************************************************)
(* onModuleInit and syncHistoricalEvents.                                  *)
(***************************************************************************)
connVars == <<head, provider, alive, subs, probing>>

\* onModuleInit that does not await the initialisation.
onModuleInitUnawaited ==
    /\ ~Up
    /\ initializeProviderAndContract({})
    /\ boot' = Boot("head", 0)
    /\ dropped' = {}
    /\ disturbed' = FALSE
    /\ UNCHANGED <<head, handled, unheard, faults, crashes>>

onModuleInit ==
    /\ ~Up
    /\ initializeProviderAndContract({})
    /\ boot' = Boot("connect", provider + 1)
    /\ dropped' = {}
    /\ disturbed' = FALSE
    /\ UNCHANGED <<head, handled, unheard, faults, crashes>>

getBlockNumber ==
    /\ boot.stage = "head"
    /\ provider \in alive
    /\ boot' = [boot EXCEPT !.stage = "query", !.upto = head]
    /\ UNCHANGED <<connVars, handled, dropped, unheard, disturbed, faults, crashes>>

\* onModuleInit rejects, and with it app.listen; main logs the rejection and
\* the process goes on without its HTTP server, the listeners with it.
getBlockNumberFails ==
    /\ boot.stage = "head"
    /\ Fault
    /\ boot' = Boot("rejected", 0)
    /\ UNCHANGED <<connVars, handled, dropped, unheard, disturbed, crashes>>

Kind == eventsToSync[boot.kind]

queryFilter ==
    /\ boot.stage = "query"
    /\ provider \in alive
    /\ boot' = [boot EXCEPT !.stage = "loop",
                    !.left = {e \in Events : KindOf[e] = Kind /\ BlockOf[e] \in boot.upto - Window .. boot.upto}]
    /\ UNCHANGED <<connVars, handled, dropped, unheard, disturbed, faults, crashes>>

NextKind ==
    boot' = IF boot.kind = Len(eventsToSync) THEN [boot EXCEPT !.stage = "done", !.left = {}]
            ELSE [boot EXCEPT !.stage = "query", !.kind = @ + 1, !.left = {}]

\* The logs of one name come in chain order.
HandleLog ==
    /\ boot.stage = "loop"
    /\ \E e \in boot.left :
           /\ \A f \in boot.left : BlockOf[e] <= BlockOf[f]
           /\ handled' = handled \cup {e}
           /\ boot' = [boot EXCEPT !.left = @ \ {e}]
    /\ UNCHANGED <<connVars, dropped, unheard, disturbed, faults, crashes>>

KindSynced ==
    /\ boot.stage = "loop" /\ boot.left = {}
    /\ NextKind
    /\ UNCHANGED <<connVars, handled, dropped, unheard, disturbed, faults, crashes>>

\* queryFilter or a handler throws: the rest of this name is not asked again.
SyncBreaksOff ==
    /\ boot.stage \in {"query", "loop"}
    /\ Fault
    /\ NextKind
    /\ dropped' = dropped \cup {Kind}
    /\ UNCHANGED <<connVars, handled, unheard, disturbed, crashes>>

Crash ==
    /\ Up
    /\ crashes < MaxCrashes
    /\ crashes' = crashes + 1
    /\ alive' = {}
    /\ subs' = [p \in Providers |-> NoListeners]
    /\ probing' = {}
    /\ boot' = Boot("off", 0)
    /\ UNCHANGED <<head, provider, handled, dropped, unheard, disturbed, faults>>

SyncStep == getBlockNumber \/ queryFilter \/ HandleLog \/ KindSynced

LifeNext ==
    \/ Mine
    \/ onModuleInit \/ SyncStep \/ getBlockNumberFails \/ SyncBreaksOff
    \/ handleProviderError \/ \E p \in Providers : NetworkAnswers(p) \/ NetworkFails(p) \/ SocketCloses(p)
    \/ \E p \in Providers, n \in Names : Subscribed(p, n) \/ SubscribeFails(p, n)
    \/ Crash

\* Calls on a working socket are answered, and the process is started again.
LifeFairness ==
    /\ WF_lifeVars(onModuleInit) /\ WF_lifeVars(SyncStep)
    /\ \A p \in Providers : WF_lifeVars(NetworkAnswers(p))
    /\ \A p \in Providers, n \in Names : WF_lifeVars(Subscribed(p, n))

LifeSpec == LifeInit /\ [][LifeNext]_lifeVars /\ LifeFairness

-----------------------------------------------------------------------------
LifeTypeOK ==
    /\ head \in Nat /\ provider \in Providers \cup {0}
    /\ alive \subseteq Providers /\ probing \subseteq Providers
    /\ subs \in [Providers -> [Names -> SubStage]]
    /\ boot \in BootType
    /\ handled \subseteq Events /\ unheard \subseteq Events
    /\ dropped \subseteq Names
    /\ disturbed \in BOOLEAN

\* However many initialisations overlap, only the contract in use has
\* listeners: an answer that comes late attaches nothing to a contract that
\* nothing would ever detach it from.
OneContractListens == \A p \in Providers : subs[p] # NoListeners => p = provider

\* When the start is over, the sync has started a handler for every event of
\* its window and every name it did not break off at, also where a reconnect
\* replaced the provider under it.  Of the events mined since, while no call
\* and no socket failed, the listeners have had every one, except those mined
\* while the eth_subscribe of their name, which the start does not await, was
\* still in flight: these are in neither.
StartLeavesNoGap ==
    boot.stage = "done" =>
        \A e \in Events :
            \/ e \in handled
            \/ BlockOf[e] < boot.upto - Window \/ BlockOf[e] > head
            \/ BlockOf[e] <= boot.upto /\ KindOf[e] \in dropped
            \/ BlockOf[e] > boot.upto /\ (disturbed \/ e \in unheard)

\* After the last failure the watcher listens for good to every name whose
\* subscription the node did not refuse, unless the socket of its last
\* provider closed; neither the refusal nor the close is answered by anything.
ListensAgain ==
    <>[](provider \in alive => \A n \in Names : subs[provider][n] \in {"on", "refused"})
=============================================================================
