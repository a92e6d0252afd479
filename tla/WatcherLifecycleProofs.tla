----------------------- MODULE WatcherLifecycleProofs -----------------------
(***************************************************************************)
(* Proofs about WatcherLifecycle, for any events, any window and any       *)
(* number of reconnects, failures and crashes.                             *)
(*                                                                         *)
(* LifeInv is inductive: besides the types it says that a start without a  *)
(* disturbance has exactly one getNetwork call under way and afterwards,   *)
(* on a working socket, a subscription for every name, in flight or        *)
(* answered (Listening), that the sync starts at the first name            *)
(* (AtFirstName), that what was mined since getBlockNumber answered has    *)
(* been handled or went unheard before a subscription was answered         *)
(* (HeardSince), and that the names the sync has passed are handled or     *)
(* broken off (Passed, InLoop).                                            *)
(***************************************************************************)
EXTENDS WatcherLifecycle, TLAPS

LEMMA NamesLen == Len(eventsToSync) \in Nat /\ Len(eventsToSync) > 0
BY LifecycleAssumption DEF LifecycleAssumption

Syncing == boot.stage \in {"query", "loop", "done"}

InWindow(e) == boot.upto - Window <= BlockOf[e] /\ BlockOf[e] <= boot.upto

Covered(e) == e \in handled \/ KindOf[e] \in dropped

Listening ==
    ~disturbed =>
        /\ boot.stage = "connect" =>
               /\ provider \in alive /\ probing = {provider} /\ boot.awaits = provider
               /\ subs[provider] = NoListeners
        /\ boot.stage \in {"head", "query", "loop", "done"} =>
               provider \in alive /\ \A n \in Names : subs[provider][n] \in {"asked", "on"}

HeardSince ==
    Syncing =>
        \A e \in Events : BlockOf[e] > boot.upto /\ BlockOf[e] <= head =>
            e \in handled \/ e \in unheard \/ disturbed

Passed ==
    Syncing =>
        \A i \in 1 .. Len(eventsToSync) : i < boot.kind \/ boot.stage = "done" =>
            \A e \in Events : KindOf[e] = eventsToSync[i] /\ InWindow(e) => Covered(e)

InLoop ==
    boot.stage = "loop" =>
        \A e \in Events : KindOf[e] = Kind /\ InWindow(e) => Covered(e) \/ e \in boot.left

AtFirstName == ~Syncing => boot.kind = 1

LifeInv == LifeTypeOK /\ OneContractListens /\ AtFirstName /\ Listening /\ HeardSince /\ Passed /\ InLoop

-----------------------------------------------------------------------------
LEMMA BootTyped ==
    ASSUME NEW stage \in BootStage, NEW p \in Nat
    PROVE  Boot(stage, p) \in BootType
BY NamesLen DEF Boot, BootType

\* The first listener of a name subscribes; no other subscription changes.
LEMMA WatchOnlineKeeps ==
    ASSUME LifeTypeOK, NEW c \in Providers \cup {0}, watchOnline(c)
    PROVE  /\ subs' \in [Providers -> [Names -> SubStage]]
           /\ \A p \in Providers : p # c => subs'[p] = subs[p]
           /\ \A p \in Providers, n \in Names :
                  /\ subs[p][n] \in {"asked", "on"} => subs'[p][n] = subs[p][n]
                  /\ p = c /\ subs[p][n] = "none" => subs'[p][n] = "asked"
                  /\ subs[p] = NoListeners /\ p = c => subs'[p][n] = "asked"
<1> DEFINE new == [n \in Names |-> IF subs[c][n] = "none" THEN "asked" ELSE subs[c][n]]
<1>1. subs \in [Providers -> [Names -> SubStage]]
      BY DEF LifeTypeOK
<1>2. subs' = [subs EXCEPT ![c] = new]
      BY DEF watchOnline
<1>3. c \in Providers => new \in [Names -> SubStage]
      BY <1>1 DEF SubStage
<1>4. subs' \in [Providers -> [Names -> SubStage]]
      BY <1>1, <1>2, <1>3
<1>5. \A p \in Providers : p # c => subs'[p] = subs[p]
      BY <1>1, <1>2
<1>6. \A p \in Providers : p = c => subs'[p] = new
      BY <1>1, <1>2
<1>7. \A n \in Names : NoListeners[n] = "none"
      BY DEF NoListeners
<1>8. ASSUME NEW p \in Providers, NEW n \in Names
      PROVE  /\ subs[p][n] \in {"asked", "on"} => subs'[p][n] = subs[p][n]
             /\ p = c /\ subs[p][n] = "none" => subs'[p][n] = "asked"
             /\ subs[p] = NoListeners /\ p = c => subs'[p][n] = "asked"
  <2>1. p = c => subs'[p][n] = IF subs[c][n] = "none" THEN "asked" ELSE subs[c][n]
        BY <1>6
  <2> HIDE DEF new
  <2> QED BY <1>5, <1>7, <2>1
<1> QED BY <1>4, <1>5, <1>8

\* The updates of boot keep its type.
LEMMA BootUpdated ==
    ASSUME boot \in BootType, NEW s \in BootStage, NEW n \in Nat, NEW l \in SUBSET Events
    PROVE  /\ [boot EXCEPT !.stage = s] \in BootType
           /\ [boot EXCEPT !.stage = s, !.upto = n] \in BootType
           /\ [boot EXCEPT !.stage = s, !.left = l] \in BootType
           /\ [boot EXCEPT !.left = l] \in BootType
           /\ boot.kind # Len(eventsToSync) =>
                  [boot EXCEPT !.stage = s, !.kind = @ + 1, !.left = l] \in BootType
<1>1. [boot EXCEPT !.stage = s] \in BootType
      BY DEF BootType
<1>2. [boot EXCEPT !.stage = s, !.upto = n] \in BootType
      BY DEF BootType
<1>3. [boot EXCEPT !.stage = s, !.left = l] \in BootType
      BY DEF BootType
<1>4. [boot EXCEPT !.left = l] \in BootType
      BY DEF BootType
<1>5. ASSUME boot.kind # Len(eventsToSync)
      PROVE  [boot EXCEPT !.stage = s, !.kind = @ + 1, !.left = l] \in BootType
  <2>1. boot.kind + 1 \in 1 .. Len(eventsToSync)
        BY <1>5, NamesLen DEF BootType
  <2> QED BY <2>1 DEF BootType
<1> QED BY <1>1, <1>2, <1>3, <1>4, <1>5

LEMMA NoListenersTyped == NoListeners \in [Names -> SubStage]
BY DEF NoListeners, SubStage

LEMMA InitLife == LifeInit => LifeInv
<1> SUFFICES ASSUME LifeInit
             PROVE  LifeInv
    OBVIOUS
<1>1. boot = Boot("off", 0) /\ boot.stage = "off"
      BY DEF LifeInit, Boot
<1>2. LifeTypeOK
      BY <1>1, BootTyped, NoListenersTyped, LifecycleAssumption
         DEF LifeInit, LifeTypeOK, BootStage, LifecycleAssumption
<1>3. OneContractListens
      BY DEF LifeInit, OneContractListens
<1> QED BY <1>1, <1>2, <1>3 DEF LifeInv, AtFirstName, Listening, HeardSince, Passed, InLoop, Syncing, Boot

\* A new provider: its contract has no listeners, and the old one loses its own.
LEMMA InitializeTypes ==
    ASSUME LifeTypeOK, NEW waiting \in SUBSET Providers, initializeProviderAndContract(waiting)
    PROVE  /\ provider' \in Providers
           /\ alive' \subseteq Providers /\ probing' \subseteq Providers
           /\ subs' \in [Providers -> [Names -> SubStage]]
           /\ \A p \in Providers : subs'[p] # NoListeners => subs[p] # NoListeners /\ p # provider
<1>1. provider < MaxProviders /\ provider' = provider + 1 /\ MaxProviders \in Nat /\ provider \in Nat
      BY LifecycleAssumption
         DEF LifeTypeOK, initializeProviderAndContract, Providers, LifecycleAssumption
<1>2. provider' \in Providers
      BY <1>1 DEF Providers
<1>3. alive' \subseteq Providers /\ probing' \subseteq Providers
      BY <1>1, <1>2 DEF LifeTypeOK, initializeProviderAndContract
<1>4. subs' \in [Providers -> [Names -> SubStage]]
      BY NoListenersTyped DEF LifeTypeOK, initializeProviderAndContract
<1>5. \A p \in Providers : subs'[p] # NoListeners => subs[p] # NoListeners /\ p # provider
      BY DEF LifeTypeOK, initializeProviderAndContract
<1> QED BY <1>2, <1>3, <1>4, <1>5

-----------------------------------------------------------------------------
LEMMA TypeStep == LifeTypeOK /\ [LifeNext]_lifeVars => LifeTypeOK'
<1> SUFFICES ASSUME LifeTypeOK, [LifeNext]_lifeVars
             PROVE  LifeTypeOK'
    OBVIOUS
<1>0. boot \in BootType /\ {"head", "query", "loop", "done"} \subseteq BootStage
      BY DEF LifeTypeOK, BootStage
<1> USE LifecycleAssumption
<1>1. CASE Mine
      BY <1>1 DEF Mine, LifeTypeOK
<1>2. CASE onModuleInit
  <2>1. initializeProviderAndContract({})
        BY <1>2 DEF onModuleInit
  <2>2. provider' = provider + 1 /\ provider + 1 \in Nat
        BY <2>1, <2>1 DEF initializeProviderAndContract, LifeTypeOK, Providers
  <2>3. boot' = Boot("connect", provider + 1)
        BY <1>2 DEF onModuleInit
  <2> QED BY <1>2, <2>1, <2>2, <2>3, InitializeTypes, BootTyped
          DEF onModuleInit, LifeTypeOK, BootStage
<1>3. CASE getBlockNumber
  <2>1. boot' \in BootType
        BY <1>0, <1>3, BootUpdated DEF getBlockNumber, LifeTypeOK
  <2> QED BY <1>3, <2>1 DEF getBlockNumber, LifeTypeOK, connVars
<1>4. CASE queryFilter
  <2>1. {e \in Events : KindOf[e] = Kind /\ BlockOf[e] \in boot.upto - Window .. boot.upto} \in SUBSET Events
        OBVIOUS
  <2>2. boot' \in BootType
        BY <1>0, <1>4, <2>1, BootUpdated DEF queryFilter
  <2> QED BY <1>4, <2>2 DEF queryFilter, LifeTypeOK, connVars
<1>5. CASE HandleLog
  <2>1. PICK e \in boot.left : /\ handled' = handled \cup {e}
                               /\ boot' = [boot EXCEPT !.left = @ \ {e}]
        BY <1>5 DEF HandleLog
  <2>2. boot.left \subseteq Events
        BY <1>0 DEF BootType
  <2>3. boot' \in BootType
        BY <1>0, <2>1, <2>2, BootUpdated
  <2> QED BY <1>5, <2>1, <2>2, <2>3 DEF HandleLog, LifeTypeOK, connVars
<1>6. ASSUME NextKind
      PROVE  boot' \in BootType
  <2>1. {} \in SUBSET Events /\ "done" \in BootStage /\ "query" \in BootStage /\ 0 \in Nat
        BY <1>0
  <2>2. [boot EXCEPT !.stage = "done", !.left = {}] \in BootType
        BY <1>0, <2>1, BootUpdated
  <2>3. boot.kind # Len(eventsToSync) =>
            [boot EXCEPT !.stage = "query", !.kind = @ + 1, !.left = {}] \in BootType
        BY <1>0, <2>1, BootUpdated
  <2> QED BY <1>6, <2>2, <2>3 DEF NextKind
<1>7. CASE KindSynced
       BY <1>6, <1>7 DEF KindSynced, LifeTypeOK, connVars
<1>8. CASE getBlockNumberFails
      BY <1>8, BootTyped DEF getBlockNumberFails, LifeTypeOK, BootStage, connVars
<1>9. CASE SyncBreaksOff
  <2>1. Kind \in Names
        BY <1>0 DEF Kind, Names, BootType
  <2> QED BY <1>6, <1>9, <2>1 DEF SyncBreaksOff, LifeTypeOK, connVars
<1>10. CASE handleProviderError
  <2>1. initializeProviderAndContract(probing) /\ probing \in SUBSET Providers
        BY <1>10 DEF handleProviderError, LifeTypeOK
  <2> QED BY <1>10, <2>1, InitializeTypes DEF handleProviderError, LifeTypeOK
<1>11. \A p : AwaitedBy(p) => boot' \in BootType
       BY <1>0, BootUpdated DEF AwaitedBy
<1>12. ASSUME NEW p \in Providers, NetworkAnswers(p)
        PROVE  LifeTypeOK'
  <2>1. provider \in Providers \cup {0} /\ watchOnline(provider)
        BY <1>12 DEF NetworkAnswers, LifeTypeOK
  <2>2. subs' \in [Providers -> [Names -> SubStage]]
        BY <2>1, WatchOnlineKeeps
  <2> QED BY <1>11, <1>12, <2>2 DEF NetworkAnswers, LifeTypeOK
<1>13. ASSUME NEW p \in Providers, NetworkFails(p)
       PROVE  LifeTypeOK'
  <2>1. initializeProviderAndContract(probing \ {p}) /\ probing \ {p} \in SUBSET Providers
        BY <1>13 DEF NetworkFails, LifeTypeOK
  <2> QED BY <1>11, <1>13, <2>1, InitializeTypes DEF NetworkFails, LifeTypeOK
<1>14. ASSUME NEW p \in Providers, SocketCloses(p)
       PROVE  LifeTypeOK'
       BY <1>14 DEF SocketCloses, LifeTypeOK
<1>15. CASE Crash
       BY <1>15, BootTyped, NoListenersTyped DEF Crash, LifeTypeOK, BootStage
<1>17. ASSUME NEW p \in Providers, NEW n \in Names, Subscribed(p, n) \/ SubscribeFails(p, n)
       PROVE  LifeTypeOK'
  <2>1. PICK st \in SubStage : subs' = [subs EXCEPT ![p][n] = st]
        BY <1>17 DEF Subscribed, SubscribeFails, SubStage
  <2>2. subs' \in [Providers -> [Names -> SubStage]]
        BY <2>1 DEF LifeTypeOK
  <2> QED BY <1>17, <2>2 DEF Subscribed, SubscribeFails, LifeTypeOK
<1>16. CASE UNCHANGED lifeVars
       BY <1>16 DEF lifeVars, LifeTypeOK
<1> QED BY <1>1, <1>2, <1>3, <1>4, <1>5, <1>7, <1>8, <1>9, <1>10, <1>12, <1>13, <1>14, <1>15, <1>16, <1>17
        DEF LifeNext, SyncStep

LEMMA OneListensStep ==
    LifeTypeOK /\ OneContractListens /\ [LifeNext]_lifeVars => OneContractListens'
<1> SUFFICES ASSUME LifeTypeOK, OneContractListens, [LifeNext]_lifeVars
             PROVE  OneContractListens'
    OBVIOUS
<1> USE DEF OneContractListens
<1>1. ASSUME NEW waiting \in SUBSET Providers, initializeProviderAndContract(waiting)
      PROVE  OneContractListens'
      BY <1>1, InitializeTypes
<1>2. CASE onModuleInit
      BY <1>1, <1>2 DEF onModuleInit
<1>3. CASE handleProviderError
      BY <1>1, <1>3 DEF handleProviderError, LifeTypeOK
<1>4. ASSUME NEW p \in Providers, NetworkFails(p)
      PROVE  OneContractListens'
      BY <1>1, <1>4 DEF NetworkFails, LifeTypeOK
<1>5. ASSUME NEW p \in Providers, NetworkAnswers(p)
      PROVE  OneContractListens'
  <2>1. \A q \in Providers : q # provider => subs'[q] = subs[q]
        BY <1>5, WatchOnlineKeeps DEF NetworkAnswers, LifeTypeOK
  <2> QED BY <1>5, <2>1 DEF NetworkAnswers
<1>6. CASE Crash
      BY <1>6 DEF Crash
<1>10. ASSUME NEW p \in Providers, NEW n \in Names, Subscribed(p, n) \/ SubscribeFails(p, n)
       PROVE  OneContractListens'
  <2>1. subs[p][n] = "asked" /\ provider' = provider
        BY <1>10 DEF Subscribed, SubscribeFails
  <2>2. subs[p] # NoListeners
        BY <2>1 DEF NoListeners
  <2>3. \A q \in Providers : q # p => subs'[q] = subs[q]
        BY <1>10 DEF Subscribed, SubscribeFails, LifeTypeOK
  <2> QED BY <2>1, <2>2, <2>3
<1>7. UNCHANGED <<provider, subs>> => OneContractListens'
      OBVIOUS
<1>8. CASE Mine \/ SyncStep \/ getBlockNumberFails \/ SyncBreaksOff \/ \E p \in Providers : SocketCloses(p)
      BY <1>7, <1>8 DEF Mine, SyncStep, getBlockNumber, queryFilter, HandleLog, KindSynced,
                        getBlockNumberFails, SyncBreaksOff, SocketCloses, connVars
<1>9. CASE UNCHANGED lifeVars
      BY <1>7, <1>9 DEF lifeVars
<1> QED BY <1>2, <1>3, <1>4, <1>5, <1>6, <1>8, <1>9, <1>10 DEF LifeNext

\* While nothing failed since the start, the listeners that were attached stay.
LEMMA ListeningStep == LifeInv /\ [LifeNext]_lifeVars => Listening'
<1> SUFFICES ASSUME LifeInv, [LifeNext]_lifeVars, ~disturbed'
             PROVE  Listening'
    BY DEF Listening
<1> USE DEF Listening
<1>0. LifeTypeOK /\ Listening
      BY DEF LifeInv
<1>1. CASE onModuleInit
  <2>1. provider' = provider + 1 /\ alive' = alive \cup {provider + 1} /\ probing' = {provider + 1}
        BY <1>1 DEF onModuleInit, initializeProviderAndContract
  <2>2. boot'.stage = "connect" /\ boot'.awaits = provider + 1
        BY <1>1 DEF onModuleInit, Boot
  <2>3. subs'[provider + 1] = NoListeners
    <3>1. provider + 1 \in Providers /\ provider + 1 # provider
          BY <1>0, <1>1, LifecycleAssumption
             DEF onModuleInit, initializeProviderAndContract, LifeTypeOK, Providers, LifecycleAssumption
    <3>2. subs'[provider + 1] = subs[provider + 1]
          BY <1>1, <3>1 DEF onModuleInit, initializeProviderAndContract
    <3> QED BY <3>1, <3>2 DEF LifeInv, OneContractListens
  <2> QED BY <2>1, <2>2, <2>3
<1>2. ASSUME NEW p \in Providers, NetworkAnswers(p)
      PROVE  Listening'
  <2>1. ~disturbed /\ p \in probing /\ p \in alive /\ UNCHANGED <<provider, alive>>
        BY <1>2 DEF NetworkAnswers
  <2>2. ASSUME provider \in Providers,
               \/ subs[provider] = NoListeners
               \/ \A n \in Names : subs[provider][n] \in {"asked", "on"}
        PROVE  \A n \in Names : subs'[provider][n] \in {"asked", "on"}
    <3>1. watchOnline(provider)
          BY <1>2 DEF NetworkAnswers
    <3> QED BY <1>0, <2>2, <3>1, WatchOnlineKeeps
  <2>3. alive \subseteq Providers
        BY <1>0 DEF LifeTypeOK
  <2>4. CASE boot.stage = "connect"
    <3>1. provider \in alive /\ p = provider /\ boot.awaits = p /\ subs[provider] = NoListeners
          BY <1>0, <2>1, <2>4
    <3>2. boot' = [boot EXCEPT !.stage = "head"]
          BY <1>2, <2>4, <3>1 DEF NetworkAnswers, AwaitedBy
    <3>3. boot'.stage = "head"
          BY <1>0, <3>2 DEF LifeTypeOK, BootType
    <3> QED BY <2>1, <2>2, <2>3, <3>1, <3>3
  <2>5. CASE boot.stage # "connect"
    <3>1. boot' = boot
          BY <1>2, <2>5 DEF NetworkAnswers, AwaitedBy
    <3> QED BY <1>0, <2>1, <2>2, <2>3, <2>5, <3>1
  <2> QED BY <2>4, <2>5
<1>3. CASE SyncStep \/ SyncBreaksOff
  <2>1. boot.stage \in {"head", "query", "loop"} /\ boot'.stage \in {"query", "loop", "done"}
    <3>1. CASE getBlockNumber
          BY <1>0, <3>1 DEF getBlockNumber, LifeTypeOK, BootType
    <3>2. CASE queryFilter
          BY <1>0, <3>2 DEF queryFilter, LifeTypeOK, BootType
    <3>3. CASE HandleLog
          BY <1>0, <3>3 DEF HandleLog, LifeTypeOK, BootType
    <3>4. NextKind => boot'.stage \in {"query", "done"}
          BY <1>0 DEF NextKind, LifeTypeOK, BootType
    <3> QED BY <1>3, <3>1, <3>2, <3>3, <3>4 DEF SyncStep, KindSynced, SyncBreaksOff
  <2>2. UNCHANGED <<disturbed, provider, alive, subs>>
        BY <1>3 DEF SyncStep, getBlockNumber, queryFilter, HandleLog, KindSynced, SyncBreaksOff, connVars
  <2> QED BY <1>0, <2>1, <2>2
<1>4. CASE getBlockNumberFails
  <2>1. boot'.stage = "rejected"
        BY <1>4 DEF getBlockNumberFails, Boot
  <2> QED BY <2>1
<1>5. CASE Crash
  <2>1. boot'.stage = "off"
        BY <1>5 DEF Crash, Boot
  <2> QED BY <2>1
<1>6. CASE Mine
      BY <1>0, <1>6 DEF Mine
<1>7. ASSUME \/ handleProviderError \/ \E p \in Providers : NetworkFails(p) \/ SocketCloses(p)
             \/ \E p \in Providers, n \in Names : SubscribeFails(p, n)
      PROVE  FALSE
      BY <1>7 DEF handleProviderError, NetworkFails, SocketCloses, SubscribeFails
<1>8. CASE UNCHANGED lifeVars
      BY <1>0, <1>8 DEF lifeVars
<1>9. ASSUME NEW p \in Providers, NEW n \in Names, Subscribed(p, n)
      PROVE  Listening'
  <2>1. /\ UNCHANGED <<provider, alive, probing, boot, disturbed>>
        /\ subs[p][n] = "asked" /\ subs' = [subs EXCEPT ![p][n] = "on"]
        BY <1>9 DEF Subscribed
  <2>2. subs \in [Providers -> [Names -> SubStage]] /\ alive \subseteq Providers
        BY <1>0 DEF LifeTypeOK
  <2>3. p = provider
    <3>1. subs[p] # NoListeners
          BY <2>1 DEF NoListeners
    <3> QED BY <3>1 DEF LifeInv, OneContractListens
  <2>4. ASSUME \A m \in Names : subs[provider][m] \in {"asked", "on"}
        PROVE  \A m \in Names : subs'[provider][m] \in {"asked", "on"}
        BY <2>1, <2>2, <2>3, <2>4
  <2>5. boot.stage # "connect"
    <3>1. subs[p] # NoListeners
          BY <2>1 DEF NoListeners
    <3> QED BY <1>0, <2>1, <2>3, <3>1
  <2> QED BY <1>0, <2>1, <2>4, <2>5
<1> QED BY <1>1, <1>2, <1>3, <1>4, <1>5, <1>6, <1>7, <1>8, <1>9 DEF LifeNext

\* What the three steps of the sync that rewrite boot leave of it.
LEMMA NextKindMoves ==
    ASSUME boot \in BootType, NextKind
    PROVE  /\ boot'.upto = boot.upto /\ boot'.left = {}
           /\ \/ boot.kind = Len(eventsToSync) /\ boot'.stage = "done" /\ boot'.kind = boot.kind
              \/ boot.kind < Len(eventsToSync) /\ boot'.stage = "query" /\ boot'.kind = boot.kind + 1
<1>1. boot.kind \in 1 .. Len(eventsToSync) /\ Len(eventsToSync) \in Nat
      BY NamesLen DEF BootType
<1>2. CASE boot.kind = Len(eventsToSync)
      BY <1>2 DEF NextKind, BootType
<1>3. CASE boot.kind # Len(eventsToSync)
      BY <1>1, <1>3 DEF NextKind, BootType
<1> QED BY <1>2, <1>3

LEMMA FilterMoves ==
    ASSUME boot \in BootType, queryFilter
    PROVE  /\ boot.stage = "query" /\ boot'.stage = "loop"
           /\ boot'.upto = boot.upto /\ boot'.kind = boot.kind
           /\ boot'.left = {e \in Events : KindOf[e] = Kind /\ BlockOf[e] \in boot.upto - Window .. boot.upto}
BY DEF queryFilter, BootType

\* boot during a start that reached the sync is changed by the sync alone.
LEMMA StageKept ==
    ASSUME LifeTypeOK, [LifeNext]_lifeVars, ~SyncStep, ~SyncBreaksOff
    PROVE  /\ Syncing' => boot' = boot
           /\ handled \subseteq handled'
           /\ ~onModuleInit => dropped' = dropped
<1> USE DEF Syncing
<1>0. boot \in BootType
      BY DEF LifeTypeOK
<1>1. ASSUME NEW p, AwaitedBy(p)
      PROVE  Syncing' => boot' = boot
  <2>1. CASE boot.stage = "connect" /\ boot.awaits = p
    <3>1. boot'.stage = "head"
          BY <1>0, <1>1, <2>1 DEF AwaitedBy, BootType
    <3> QED BY <3>1
  <2> QED BY <1>1, <2>1 DEF AwaitedBy
<1>2. CASE onModuleInit
  <2>1. boot'.stage = "connect" /\ handled' = handled
        BY <1>2 DEF onModuleInit, Boot
  <2> QED BY <1>2, <2>1
<1>3. CASE getBlockNumberFails
  <2>1. boot'.stage = "rejected" /\ handled' = handled /\ dropped' = dropped
        BY <1>3 DEF getBlockNumberFails, Boot
  <2> QED BY <2>1
<1>4. CASE Crash
  <2>1. boot'.stage = "off" /\ handled' = handled /\ dropped' = dropped
        BY <1>4 DEF Crash, Boot
  <2> QED BY <2>1
<1>5. CASE Mine
      BY <1>5 DEF Mine
<1>6. CASE handleProviderError
      BY <1>6 DEF handleProviderError
<1>7. ASSUME NEW p \in Providers, NetworkAnswers(p) \/ NetworkFails(p) \/ SocketCloses(p)
      PROVE  (Syncing' => boot' = boot) /\ handled' = handled /\ dropped' = dropped
      BY <1>1, <1>7 DEF NetworkAnswers, NetworkFails, SocketCloses
<1>8. CASE UNCHANGED lifeVars
      BY <1>8 DEF lifeVars
<1>9. ASSUME NEW p \in Providers, NEW n \in Names, Subscribed(p, n) \/ SubscribeFails(p, n)
      PROVE  (Syncing' => boot' = boot) /\ handled' = handled /\ dropped' = dropped
      BY <1>9 DEF Subscribed, SubscribeFails
<1> QED BY <1>2, <1>3, <1>4, <1>5, <1>6, <1>7, <1>8, <1>9 DEF LifeNext

\* Between the sync and the listeners only what was mined while a subscription
\* was in flight is missed: the sync starts at a block the chain had when
\* eth_subscribe had been sent for every name.
LEMMA HeardSinceStep == LifeInv /\ [LifeNext]_lifeVars => HeardSince'
<1> SUFFICES ASSUME LifeInv, [LifeNext]_lifeVars, Syncing',
                    NEW e \in Events, BlockOf[e] > boot'.upto, BlockOf[e] <= head', ~disturbed'
             PROVE  e \in handled' \/ e \in unheard'
    BY DEF HeardSince
<1> USE LifecycleAssumption
<1>0. LifeTypeOK /\ Listening /\ HeardSince /\ boot \in BootType /\ head \in Nat /\ BlockOf[e] \in Nat
      BY DEF LifeInv, LifeTypeOK
<1>1. CASE getBlockNumber
  <2>1. boot'.upto = head /\ head' = head
        BY <1>0, <1>1 DEF getBlockNumber, connVars, BootType
  <2> QED BY <1>0, <2>1
<1>2. CASE queryFilter \/ HandleLog \/ KindSynced \/ SyncBreaksOff
  <2>1. Syncing /\ boot'.upto = boot.upto /\ handled \subseteq handled'
    <3>1. CASE queryFilter
          BY <1>0, <3>1, FilterMoves DEF queryFilter, Syncing
    <3>2. CASE HandleLog
          BY <1>0, <3>2 DEF HandleLog, BootType, Syncing
    <3>3. CASE KindSynced \/ SyncBreaksOff
          BY <1>0, <3>3, NextKindMoves DEF KindSynced, SyncBreaksOff, Syncing
    <3> QED BY <1>2, <3>1, <3>2, <3>3
  <2>2. UNCHANGED <<head, disturbed, unheard>>
        BY <1>2 DEF queryFilter, HandleLog, KindSynced, SyncBreaksOff, connVars
  <2> QED BY <1>0, <2>1, <2>2 DEF HeardSince
<1>3. CASE ~SyncStep /\ ~SyncBreaksOff
  <2>1. boot' = boot /\ Syncing /\ handled \subseteq handled'
        BY <1>0, <1>3, StageKept DEF Syncing
  <2>2. CASE Mine
    <3>1. ~disturbed /\ head' = head + 1
          BY <2>2 DEF Mine
    <3>2. provider \in alive /\ \A n \in Names : subs[provider][n] \in {"asked", "on"}
          BY <1>0, <2>1, <3>1 DEF Listening, Syncing
    <3>3. CASE BlockOf[e] = head + 1
      <4>1. KindOf[e] \in Names
            BY DEF LifecycleAssumption
      <4>2. \E p \in alive : subs[p][KindOf[e]] \in {"asked", "on"}
            BY <3>2, <4>1
      <4> QED BY <2>2, <3>3, <4>2 DEF Mine
    <3>4. handled \subseteq handled' /\ unheard \subseteq unheard'
          BY <2>2 DEF Mine
    <3>5. CASE BlockOf[e] <= head
          BY <1>0, <2>1, <3>1, <3>4, <3>5 DEF HeardSince
    <3> QED BY <1>0, <3>1, <3>3, <3>5
  <2>3. CASE ~Mine
    <3>1. onModuleInit \/ Crash => ~Syncing'
          BY DEF onModuleInit, Crash, Boot, Syncing
    <3>2. ASSUME NEW p \in Providers, NetworkAnswers(p) \/ NetworkFails(p) \/ SocketCloses(p)
          PROVE  UNCHANGED <<head, unheard>> /\ (disturbed => disturbed')
          BY <3>2 DEF NetworkAnswers, NetworkFails, SocketCloses
    <3>6. ASSUME NEW p \in Providers, NEW n \in Names, Subscribed(p, n) \/ SubscribeFails(p, n)
          PROVE  UNCHANGED <<head, unheard>> /\ (disturbed => disturbed')
          BY <3>6 DEF Subscribed, SubscribeFails
    <3>3. getBlockNumberFails \/ UNCHANGED lifeVars => UNCHANGED <<head, unheard, disturbed>>
          BY DEF getBlockNumberFails, connVars, lifeVars
    <3>4. handleProviderError => disturbed'
          BY DEF handleProviderError
    <3>5. UNCHANGED <<head, unheard>> /\ (disturbed => disturbed')
          BY <1>3, <2>3, <3>1, <3>2, <3>3, <3>4, <3>6 DEF LifeNext
    <3> QED BY <1>0, <2>1, <3>5 DEF HeardSince
  <2> QED BY <2>2, <2>3
<1> QED BY <1>1, <1>2, <1>3 DEF SyncStep

LEMMA AtFirstNameStep == LifeInv /\ [LifeNext]_lifeVars => AtFirstName'
<1> SUFFICES ASSUME LifeInv, [LifeNext]_lifeVars, ~Syncing'
             PROVE  boot'.kind = 1
    BY DEF AtFirstName
<1> USE DEF Syncing
<1>0. boot \in BootType /\ AtFirstName
      BY DEF LifeInv, LifeTypeOK
<1>1. CASE onModuleInit \/ getBlockNumberFails \/ Crash
      BY <1>1 DEF onModuleInit, getBlockNumberFails, Crash, Boot
<1>2. SyncStep \/ SyncBreaksOff => FALSE
  <2>1. queryFilter => Syncing'
        BY <1>0, FilterMoves
  <2>2. KindSynced \/ SyncBreaksOff => Syncing'
        BY <1>0, NextKindMoves DEF KindSynced, SyncBreaksOff
  <2>3. getBlockNumber \/ HandleLog => Syncing'
        BY <1>0 DEF getBlockNumber, HandleLog, BootType
  <2> QED BY <2>1, <2>2, <2>3 DEF SyncStep
<1>3. UNCHANGED boot => boot'.kind = 1
      BY <1>0 DEF AtFirstName
<1>4. ASSUME NEW p, AwaitedBy(p)
      PROVE  boot'.kind = 1
      BY <1>0, <1>3, <1>4 DEF AwaitedBy, AtFirstName, BootType
<1>5. ASSUME NEW p \in Providers, NetworkAnswers(p) \/ NetworkFails(p) \/ SocketCloses(p)
      PROVE  boot'.kind = 1
      BY <1>3, <1>4, <1>5 DEF NetworkAnswers, NetworkFails, SocketCloses
<1>6. CASE Mine \/ handleProviderError \/ UNCHANGED lifeVars
      BY <1>3, <1>6 DEF Mine, handleProviderError, lifeVars
<1>7. ASSUME NEW p \in Providers, NEW n \in Names, Subscribed(p, n) \/ SubscribeFails(p, n)
      PROVE  boot'.kind = 1
      BY <1>3, <1>7 DEF Subscribed, SubscribeFails
<1> QED BY <1>1, <1>2, <1>5, <1>6, <1>7 DEF LifeNext

\* A name the sync has passed stays handled or broken off.
LEMMA PassedStep == LifeInv /\ [LifeNext]_lifeVars => Passed'
<1> SUFFICES ASSUME LifeInv, [LifeNext]_lifeVars, Syncing', NEW i \in 1 .. Len(eventsToSync),
                    i < boot'.kind \/ boot'.stage = "done",
                    NEW e \in Events, KindOf[e] = eventsToSync[i], InWindow(e)'
             PROVE  Covered(e)'
    BY DEF Passed
<1> USE LifecycleAssumption
<1>0. LifeTypeOK /\ Passed /\ InLoop /\ boot \in BootType /\ boot.kind \in 1 .. Len(eventsToSync)
      BY DEF LifeInv, LifeTypeOK, BootType
<1>1. CASE getBlockNumber
  <2>1. boot'.kind = boot.kind /\ boot'.stage = "query"
        BY <1>0, <1>1 DEF getBlockNumber, BootType
  <2>2. boot.kind = 1
        BY <1>1 DEF getBlockNumber, LifeInv, AtFirstName, Syncing
  <2> QED BY <1>0, <2>1, <2>2
<1>2. CASE queryFilter \/ HandleLog
  <2>1. Syncing /\ boot'.upto = boot.upto /\ boot'.kind = boot.kind /\ boot'.stage = "loop"
    <3>1. CASE queryFilter
          BY <1>0, <3>1, FilterMoves DEF queryFilter, Syncing
    <3>2. CASE HandleLog
          BY <1>0, <3>2 DEF HandleLog, BootType, Syncing
    <3> QED BY <1>2, <3>1, <3>2
  <2>2. handled \subseteq handled' /\ dropped' = dropped
        BY <1>2 DEF queryFilter, HandleLog
  <2> QED BY <1>0, <2>1, <2>2 DEF Passed, InWindow, Covered
<1>3. CASE KindSynced \/ SyncBreaksOff
  <2>1. /\ boot'.upto = boot.upto /\ Syncing
        /\ boot.stage # "done"
        /\ i < boot.kind \/ i = boot.kind
    <3>1. boot.stage \in {"query", "loop"} /\ NextKind
          BY <1>3 DEF KindSynced, SyncBreaksOff
    <3>2. Len(eventsToSync) \in Nat
          BY NamesLen
    <3> QED BY <1>0, <3>1, <3>2, NextKindMoves DEF Syncing
  <2>2. handled' = handled /\ dropped \subseteq dropped'
        BY <1>3 DEF KindSynced, SyncBreaksOff
  <2>3. CASE i < boot.kind
        BY <1>0, <2>1, <2>2, <2>3 DEF Passed, InWindow, Covered
  <2>4. CASE i = boot.kind /\ SyncBreaksOff
        BY <2>4 DEF SyncBreaksOff, Kind, Covered
  <2>5. CASE i = boot.kind /\ KindSynced
        BY <1>0, <2>1, <2>2, <2>5 DEF KindSynced, InLoop, Kind, InWindow, Covered
  <2> QED BY <1>3, <2>1, <2>3, <2>4, <2>5
<1>4. CASE ~SyncStep /\ ~SyncBreaksOff
  <2>1. boot' = boot /\ handled \subseteq handled' /\ Syncing
        BY <1>0, <1>4, StageKept DEF Syncing
  <2>2. ~onModuleInit
    <3>1. onModuleInit => ~Syncing'
          BY DEF onModuleInit, Boot, Syncing
    <3> QED BY <3>1
  <2>3. dropped' = dropped
        BY <1>0, <1>4, <2>2, StageKept
  <2> QED BY <1>0, <2>1, <2>3 DEF Passed, InWindow, Covered
<1> QED BY <1>1, <1>2, <1>3, <1>4 DEF SyncStep

\* A log of the name being synced is handled or still to be handled.
LEMMA InLoopStep == LifeInv /\ [LifeNext]_lifeVars => InLoop'
<1> SUFFICES ASSUME LifeInv, [LifeNext]_lifeVars, boot'.stage = "loop",
                    NEW e \in Events, KindOf[e] = Kind', InWindow(e)'
             PROVE  Covered(e)' \/ e \in boot'.left
    BY DEF InLoop
<1> USE LifecycleAssumption
<1>0. LifeTypeOK /\ InLoop /\ boot \in BootType
      BY DEF LifeInv, LifeTypeOK
<1>1. CASE queryFilter
  <2>1. boot.upto \in Nat /\ BlockOf[e] \in Nat /\ Window \in Nat
        BY <1>0 DEF BootType
  <2> QED BY <1>0, <1>1, <2>1, FilterMoves DEF Kind, InWindow
<1>2. CASE HandleLog
  <2>1. PICK f \in boot.left : /\ handled' = handled \cup {f}
                               /\ boot' = [boot EXCEPT !.left = @ \ {f}]
        BY <1>2 DEF HandleLog
  <2>2. boot'.upto = boot.upto /\ boot'.kind = boot.kind /\ boot'.left = boot.left \ {f}
        BY <1>0, <2>1 DEF BootType
  <2>3. boot.stage = "loop" /\ dropped' = dropped
        BY <1>2 DEF HandleLog
  <2> QED BY <1>0, <2>1, <2>2, <2>3 DEF InLoop, InWindow, Covered, Kind
<1>3. CASE getBlockNumber
  <2>1. boot'.stage = "query"
        BY <1>0, <1>3 DEF getBlockNumber, BootType
  <2> QED BY <2>1
<1>4. CASE KindSynced \/ SyncBreaksOff
      BY <1>0, <1>4, NextKindMoves DEF KindSynced, SyncBreaksOff
<1>5. CASE ~SyncStep /\ ~SyncBreaksOff
  <2>1. boot' = boot /\ handled \subseteq handled'
        BY <1>0, <1>5, StageKept DEF Syncing
  <2>2. onModuleInit => boot'.stage # "loop"
        BY DEF onModuleInit, Boot
  <2>3. dropped' = dropped
        BY <1>0, <1>5, <2>2, StageKept
  <2> QED BY <1>0, <2>1, <2>3 DEF InLoop, InWindow, Covered, Kind
<1> QED BY <1>1, <1>2, <1>3, <1>4, <1>5 DEF SyncStep

-----------------------------------------------------------------------------
\* What is left unhandled when the start is over lies outside the window,
\* had a name whose sync broke off, or was mined across a failure or while its
\* subscription was in flight.
LEMMA StartCovered == LifeInv => StartLeavesNoGap
<1> SUFFICES ASSUME LifeInv, boot.stage = "done", NEW e \in Events, e \notin handled,
                    ~(BlockOf[e] < boot.upto - Window), ~(BlockOf[e] > head)
             PROVE  \/ BlockOf[e] <= boot.upto /\ KindOf[e] \in dropped
                    \/ BlockOf[e] > boot.upto /\ (disturbed \/ e \in unheard)
    BY DEF StartLeavesNoGap
<1>1. boot.upto \in Nat /\ BlockOf[e] \in Nat /\ Window \in Nat /\ head \in Nat /\ Syncing
      BY LifecycleAssumption DEF LifeInv, LifeTypeOK, BootType, LifecycleAssumption, Syncing
<1>2. CASE BlockOf[e] > boot.upto
      BY <1>1, <1>2 DEF LifeInv, HeardSince
<1>3. CASE BlockOf[e] <= boot.upto
  <2>1. PICK i \in 1 .. Len(eventsToSync) : KindOf[e] = eventsToSync[i]
        BY LifecycleAssumption DEF LifecycleAssumption, Names
  <2>2. InWindow(e)
        BY <1>1, <1>3 DEF InWindow
  <2>3. Covered(e)
        BY <1>1, <2>1, <2>2 DEF LifeInv, Passed
  <2> QED BY <1>3, <2>3 DEF Covered
<1> QED BY <1>1, <1>2, <1>3

LEMMA LifeInvHolds == LifeSpec => []LifeInv
<1>1. LifeInv /\ [LifeNext]_lifeVars => LifeInv'
      BY TypeStep, OneListensStep, AtFirstNameStep, ListeningStep, HeardSinceStep, PassedStep, InLoopStep DEF LifeInv
<1> QED BY InitLife, <1>1, PTL DEF LifeSpec

\* Type correctness: the variables of the watcher's connection and start stay
\* within their types, whatever fails.
THEOREM LifeTypes == LifeSpec => []LifeTypeOK
<1>1. LifeInv => LifeTypeOK
      BY DEF LifeInv
<1> QED BY LifeInvHolds, <1>1, PTL

\* For any number of overlapping reconnects: no contract but the one in use
\* has listeners (watchOnline attaches to this.contract when getNetwork
\* answers, initializeProviderAndContract detaches from it).
THEOREM OneContractListensHolds == LifeSpec => []OneContractListens
<1>1. LifeInv => OneContractListens
      BY DEF LifeInv
<1> QED BY LifeInvHolds, <1>1, PTL

\* For any events, window and order of failures: a start that came to its end
\* leaves no event unhandled, except what lies before the window, under a name
\* whose sync threw, after a failure, or between the sync and the answer to an
\* eth_subscribe, which watchOnline sends and onModuleInit does not await.
THEOREM StartLeavesNoGapHolds == LifeSpec => []StartLeavesNoGap
BY LifeInvHolds, StartCovered, PTL
=============================================================================
