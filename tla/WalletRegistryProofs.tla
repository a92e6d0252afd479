------------------------- MODULE WalletRegistryProofs -------------------------
(***************************************************************************)
(* Proofs about WalletRegistry for any number of accounts, ids and         *)
(* callers.  The invariant adds to the checked properties what makes them  *)
(* inductive: ids are never reused, and a call that met the unique         *)
(* violation knows that some row of its account exists.                    *)
(***************************************************************************)
EXTENDS WalletRegistry, TLAPS

IdsUnique == \A r, s \in wallets : r.id = s.id => r = s

HasRow(addr) == \E r \in wallets : r.address.account = addr.account

ConflictHasRow ==
    \A w \in Workers : call[w].stage \in {"refetch", "refetchOuter"} => HasRow(call[w].address)

WalletInv ==
    /\ WalletTypeOK
    /\ IdsUnique
    /\ OneRowPerAccount
    /\ ConflictHasRow
    /\ RaceNeverRethrows
    /\ EnsuredIsStored

\* normalizeAddress gives an address again, the same for every spelling.
LEMMA NormalizeType ==
    ASSUME NEW addr \in Address
    PROVE  /\ normalizeAddress(addr) \in Address
           /\ normalizeAddress(normalizeAddress(addr)) = normalizeAddress(addr)
           /\ normalizeAddress(addr).account = addr.account
BY DEF normalizeAddress, Checksummed, Address

\* An account with a row that the exact lookup does not find has a row
\* spelled otherwise.
LEMMA UnfoundIsVariant ==
    ASSUME WalletTypeOK, NEW addr \in Address, HasRow(addr), FindByAddress(addr) = {}
    PROVE  HasVariant(addr)
<1>1. PICK r \in wallets : r.address.account = addr.account
      BY DEF HasRow
<1>2. r.address \in Address /\ r.address # Checksummed(addr.account)
      BY <1>1 DEF WalletTypeOK, WalletRow, FindByAddress, normalizeAddress
<1>3. r.address.spelling # "checksum"
      BY <1>1, <1>2 DEF Address, Checksummed
<1> QED BY <1>1, <1>3 DEF HasVariant

\* The state before the migrations satisfies the invariant.
LEMMA WalletInitInv == WalletInit => WalletInv
<1> SUFFICES ASSUME WalletInit PROVE WalletInv
    OBVIOUS
<1>1. WalletTypeOK
      BY DEF WalletInit, WalletTypeOK, NoCall
<1>2. IdsUnique
      BY DEF WalletInit, LegacyTable, IdsUnique
<1> QED
    BY <1>1, <1>2 DEF WalletInit, WalletInv, NoCall, OneRowPerAccount, ConflictHasRow,
                      RaceNeverRethrows, EnsuredIsStored

\* What the invariant says of one worker's call frame.
FrameOK(w) ==
    /\ call[w] \in {NoCall} \cup CallFrame
    /\ call[w].stage # "idle" => call[w].address = Checksummed(call[w].address.account)
    /\ call[w].stage \in {"refetch", "refetchOuter"} => HasRow(call[w].address)
    /\ call[w].stage = "rethrown" => HasVariant(call[w].address)
    /\ call[w].stage = "ensured" => FindByAddress(call[w].address) # {}

\* The invariant is that of the tables and that of every frame.
LEMMA WalletInvFrames ==
    WalletInv <=> /\ wallets \subseteq WalletRow
                  /\ schema \in {"old", "new"}
                  /\ IdsUnique /\ OneRowPerAccount
                  /\ call = [w \in Workers |-> call[w]]
                  /\ \A w \in Workers : FrameOK(w)
BY DEF WalletInv, WalletTypeOK, FrameOK, ConflictHasRow, RaceNeverRethrows, EnsuredIsStored

\* Rows are only added, so what a frame knows stays true: a step that leaves
\* a worker's frame alone, or replaces it by a good one, and that keeps the
\* table's own invariants, keeps the invariant.
LEMMA FrameStep ==
    ASSUME WalletInv, NEW w \in Workers,
           wallets \subseteq wallets', wallets' \subseteq WalletRow, schema' \in {"old", "new"},
           IdsUnique', OneRowPerAccount',
           NEW f, call' = [call EXCEPT ![w] = f], FrameOK(w)'
    PROVE  WalletInv'
<1>1. call' = [v \in Workers |-> call'[v]]
      BY WalletInvFrames
<1>2. ASSUME NEW v \in Workers, v # w PROVE FrameOK(v)'
  <2>1. call'[v] = call[v] /\ FrameOK(v)
        BY <1>2, WalletInvFrames
  <2> QED BY <2>1 DEF FrameOK, HasRow, HasVariant, FindByAddress
<1>3. \A v \in Workers : FrameOK(v)'
      BY <1>2
<1> QED
    BY <1>1, <1>3 DEF WalletInv, WalletTypeOK, FrameOK, ConflictHasRow, RaceNeverRethrows,
                      EnsuredIsStored

\* Only InsertAccepted changes the table: it adds one row, with a fresh id,
\* of an account that had none.
LEMMA InsertKeepsTable ==
    ASSUME WalletInv, NEW w \in Workers, InsertAccepted(w)
    PROVE  /\ wallets \subseteq wallets' /\ wallets' \subseteq WalletRow
           /\ schema' \in {"old", "new"} /\ IdsUnique' /\ OneRowPerAccount'
           /\ \E r \in wallets' : r.address = call[w].address
<1>1. PICK i \in FreshIds : wallets' = wallets \cup {[id |-> i, address |-> call[w].address]}
      BY DEF InsertAccepted
<1>2. i \in WalletIds /\ \A r \in wallets : r.id # i
      BY DEF FreshIds
<1>3. call[w] \in CallFrame /\ call[w].address \in Address
      BY DEF InsertAccepted, WalletInv, WalletTypeOK, NoCall, CallFrame
<1>4. schema' = schema /\ schema \in {"old", "new"}
      BY DEF InsertAccepted, WalletInv, WalletTypeOK
<1>5. wallets \subseteq wallets' /\ wallets' \subseteq WalletRow
      BY <1>1, <1>2, <1>3 DEF WalletInv, WalletTypeOK, WalletRow
<1>6. IdsUnique'
      BY <1>1, <1>2 DEF WalletInv, IdsUnique
<1>7. OneRowPerAccount'
  <2> SUFFICES ASSUME schema = "new" PROVE CanIndex'
      BY <1>4 DEF OneRowPerAccount
  <2>1. \A r \in wallets : r.address.account # call[w].address.account
        BY DEF InsertAccepted, AddressTaken
  <2> QED BY <1>1, <2>1 DEF WalletInv, OneRowPerAccount, CanIndex
<1>8. \E r \in wallets' : r.address = call[w].address
  <2> DEFINE row == [id |-> i, address |-> call[w].address]
  <2>1. row \in wallets'
        BY <1>1
  <2>2. row.address = call[w].address
        OBVIOUS
  <2> QED BY <2>1, <2>2
<1> QED BY <1>4, <1>5, <1>6, <1>7, <1>8

\* A call in flight works on a normalised address.
LEMMA FrameInFlight ==
    ASSUME WalletInv, NEW w \in Workers, call[w].stage \in CallStage
    PROVE  /\ call[w] \in CallFrame
           /\ call[w].address \in Address
           /\ call[w].address = normalizeAddress(call[w].address)
           /\ call \in [Workers -> {NoCall} \cup CallFrame]
BY DEF WalletInv, WalletTypeOK, CallFrame, CallStage, NoCall, normalizeAddress

\* Moving a call in flight to another stage changes nothing else of its frame.
LEMMA SetStageFrame ==
    ASSUME WalletInv, NEW w \in Workers, call[w].stage \in CallStage,
           NEW stage \in CallStage, SetStage(w, stage)
    PROVE  \E f \in CallFrame : /\ f.stage = stage /\ f.address = call[w].address
                                /\ call' = [call EXCEPT ![w] = f] /\ call'[w] = f
<1> DEFINE f == [stage |-> stage, address |-> call[w].address]
<1>1. call[w] \in CallFrame /\ call \in [Workers -> {NoCall} \cup CallFrame]
      BY FrameInFlight
<1>2. f \in CallFrame /\ f = [call[w] EXCEPT !.stage = stage]
      BY <1>1 DEF CallFrame
<1>3. call' = [call EXCEPT ![w] = f]
      BY <1>2 DEF SetStage
<1>4. call'[w] = f
      BY <1>1, <1>3
<1> QED BY <1>2, <1>3, <1>4

\* A step that reads the table and moves the call to a stage the table
\* justifies keeps the invariant.
LEMMA QuietStep ==
    ASSUME WalletInv, NEW w \in Workers, call[w].stage \in CallStage,
           NEW stage \in CallStage, SetStage(w, stage), UNCHANGED <<wallets, schema>>,
           stage \in {"refetch", "refetchOuter"} => HasRow(call[w].address),
           stage = "rethrown" => HasVariant(call[w].address),
           stage = "ensured" => FindByAddress(call[w].address) # {}
    PROVE  WalletInv'
<1>1. PICK f \in CallFrame : /\ f.stage = stage /\ f.address = call[w].address
                             /\ call' = [call EXCEPT ![w] = f] /\ call'[w] = f
      BY SetStageFrame
<1>2. call[w].address = normalizeAddress(call[w].address)
      BY FrameInFlight
<1>3. FrameOK(w)'
      BY <1>1, <1>2 DEF FrameOK, HasRow, HasVariant, FindByAddress, normalizeAddress
<1>4. IdsUnique' /\ OneRowPerAccount' /\ wallets' \subseteq WalletRow /\ schema' \in {"old", "new"}
      BY DEF WalletInv, WalletTypeOK, IdsUnique, OneRowPerAccount, CanIndex
<1> QED BY <1>1, <1>3, <1>4, FrameStep

\* An accepted INSERT keeps the invariant, whether or not its reply arrives.
LEMMA InsertStep ==
    ASSUME WalletInv, NEW w \in Workers, InsertAccepted(w),
           NEW stage \in {"ensured", "faulted"}, SetStage(w, stage)
    PROVE  WalletInv'
<1>1. stage \in CallStage /\ call[w].stage \in CallStage
      BY DEF InsertAccepted, CallStage
<1>2. PICK f \in CallFrame : /\ f.stage = stage /\ f.address = call[w].address
                             /\ call' = [call EXCEPT ![w] = f] /\ call'[w] = f
      BY <1>1, SetStageFrame
<1>3. call[w].address = normalizeAddress(call[w].address)
      BY <1>1, FrameInFlight
<1>4. FindByAddress(f.address)' # {}
      BY <1>2, <1>3, InsertKeepsTable DEF FindByAddress
<1>5. FrameOK(w)'
      BY <1>2, <1>3, <1>4 DEF FrameOK, normalizeAddress
<1> QED BY <1>2, <1>5, InsertKeepsTable, FrameStep

\* Every step of a call keeps the invariant.
LEMMA CallStepInv ==
    ASSUME WalletInv, NEW w \in Workers, CallStep(w)
    PROVE  WalletInv'
<1>1. call[w].stage \in CallStage
      BY DEF CallStep, FindWallet, InsertWallet, InsertReplyLost, InsertAccepted,
             InsertConflict, Refetch, RefetchOuter, CallFaults, CallStage
<1>2. call[w].address \in Address /\ FrameOK(w)
      BY <1>1, FrameInFlight, WalletInvFrames
<1>3. CASE FindWallet(w)
      BY <1>1, <1>3, QuietStep DEF FindWallet, CallStage
<1>4. CASE InsertWallet(w)
      BY <1>4, InsertStep DEF InsertWallet
<1>5. CASE InsertReplyLost(w)
      BY <1>5, InsertStep DEF InsertReplyLost
<1>6. CASE InsertConflict(w)
  <2>1. HasRow(call[w].address)
        BY <1>6 DEF InsertConflict, AddressTaken, HasRow
  <2> QED BY <1>1, <1>6, <2>1, QuietStep DEF InsertConflict, CallStage
<1>7. CASE Refetch(w)
  <2>1. HasRow(call[w].address)
        BY <1>2, <1>7 DEF Refetch, FrameOK
  <2> QED BY <1>1, <1>7, <2>1, QuietStep DEF Refetch, CallStage
<1>8. CASE RefetchOuter(w)
  <2>1. HasRow(call[w].address)
        BY <1>2, <1>8 DEF RefetchOuter, FrameOK
  <2>2. FindByAddress(call[w].address) = {} => HasVariant(call[w].address)
        BY <1>2, <2>1, UnfoundIsVariant DEF WalletInv
  <2> QED BY <1>1, <1>8, <2>2, QuietStep DEF RefetchOuter, CallStage
<1>9. CASE CallFaults(w)
      BY <1>1, <1>9, QuietStep DEF CallFaults, CallStage
<1> QED BY <1>3, <1>4, <1>5, <1>6, <1>7, <1>8, <1>9 DEF CallStep

\* A step of one call never removes a row, and changes no other call.
LEMMA CallStepFrame ==
    ASSUME WalletInv, NEW w \in Workers, CallStep(w)
    PROVE  /\ wallets \subseteq wallets'
           /\ \A v \in Workers : v # w => call'[v] = call[v]
           /\ call'[w].stage \in CallStage /\ call'[w].address = call[w].address
<1>1. wallets \subseteq wallets'
      BY InsertKeepsTable DEF CallStep, FindWallet, InsertWallet, InsertReplyLost,
                              InsertConflict, Refetch, RefetchOuter, CallFaults
<1>2. call[w].stage \in CallStage /\ \E stage \in CallStage : SetStage(w, stage)
      BY DEF CallStep, FindWallet, InsertWallet, InsertReplyLost, InsertAccepted,
             InsertConflict, Refetch, RefetchOuter, CallFaults, CallStage
<1>3. PICK f \in CallFrame : /\ f.address = call[w].address
                             /\ call' = [call EXCEPT ![w] = f] /\ call'[w] = f
      BY <1>2, SetStageFrame
<1>4. \A v \in Workers : v # w => call'[v] = call[v]
      BY <1>2, <1>3, FrameInFlight
<1> QED BY <1>1, <1>3, <1>4 DEF CallFrame

\* Putting any address of the chain or of a client in a fresh frame, or
\* dropping a frame, keeps the invariant.
LEMMA FreshFrameInv ==
    ASSUME WalletInv, NEW w \in Workers, UNCHANGED <<wallets, schema>>,
           NEW addr \in Address,
           \/ call' = [call EXCEPT ![w] = NoCall]
           \/ call' = [call EXCEPT ![w] = [stage |-> "find", address |-> normalizeAddress(addr)]]
    PROVE  WalletInv'
<1>1. IdsUnique' /\ OneRowPerAccount' /\ wallets' \subseteq WalletRow /\ schema' \in {"old", "new"}
      BY DEF WalletInv, WalletTypeOK, IdsUnique, OneRowPerAccount, CanIndex
<1>2. call \in [Workers -> {NoCall} \cup CallFrame]
      BY DEF WalletInv, WalletTypeOK
<1>3. CASE call' = [call EXCEPT ![w] = NoCall]
  <2>1. FrameOK(w)'
        BY <1>2, <1>3 DEF FrameOK, NoCall
  <2> QED BY <1>1, <1>3, <2>1, FrameStep
<1>4. CASE call' = [call EXCEPT ![w] = [stage |-> "find", address |-> normalizeAddress(addr)]]
  <2>1. FrameOK(w)'
        BY <1>2, <1>4, NormalizeType DEF FrameOK, CallFrame, CallStage, normalizeAddress
  <2> QED BY <1>1, <1>4, <2>1, FrameStep
<1> QED BY <1>3, <1>4

\* The migration keeps the invariant: it installs the index only over a
\* table that satisfies it.
LEMMA MigrateInv == WalletInv /\ Migrate => WalletInv'
<1> SUFFICES ASSUME WalletInv, Migrate PROVE WalletInv'
    OBVIOUS
<1>1. OneRowPerAccount' /\ schema' \in {"old", "new"}
      BY DEF Migrate, OneRowPerAccount, CanIndex
<1> QED
    BY <1>1 DEF WalletInv, WalletTypeOK, Migrate, IdsUnique, ConflictHasRow, HasRow,
                RaceNeverRethrows, HasVariant, EnsuredIsStored, FindByAddress

\* Doing nothing to the registry keeps the invariant.
LEMMA WalletStutterInv == WalletInv /\ UNCHANGED walletVars => WalletInv'
BY DEF WalletInv, walletVars, WalletTypeOK, IdsUnique, OneRowPerAccount, CanIndex, ConflictHasRow,
       HasRow, RaceNeverRethrows, HasVariant, EnsuredIsStored, FindByAddress

\* Every step of the registry keeps the invariant.
LEMMA WalletNextInv ==
    ASSUME WalletInv, [WalletNext]_walletVars
    PROVE  WalletInv'
<1>1. CASE Migrate
      BY <1>1, MigrateInv
<1>2. ASSUME NEW w \in Workers, NEW addr \in Address, BeginCall(w, addr) PROVE WalletInv'
      BY <1>2, FreshFrameInv DEF BeginCall
<1>3. ASSUME NEW w \in Workers, CallStep(w) PROVE WalletInv'
      BY <1>3, CallStepInv
<1>4. ASSUME NEW w \in Workers, ReturnCall(w) PROVE WalletInv'
  <2>1. call[w].address \in Address
        BY <1>4, FrameInFlight DEF ReturnCall, Finished, CallStage
  <2> QED BY <1>4, <2>1, FreshFrameInv DEF ReturnCall
<1>5. CASE UNCHANGED walletVars
      BY <1>5, WalletStutterInv
<1> QED BY <1>1, <1>2, <1>3, <1>4, <1>5 DEF WalletNext

LEMMA WalletInvHolds == WalletSpec => []WalletInv
BY WalletInitInv, WalletNextInv, PTL DEF WalletSpec

\* The table and the calls in flight have their types, and a call works on a
\* normalised address, whoever called with whatever spelling.
THEOREM WalletTypes == WalletSpec => []WalletTypeOK
<1>1. WalletInv => WalletTypeOK
      BY DEF WalletInv
<1> QED BY WalletInvHolds, <1>1, PTL

\* For any accounts, spellings and callers: findOrCreateByAddress leaves an
\* account with one row.
THEOREM OneRowInRegistry == WalletSpec => []OneRowPerAccount
<1>1. WalletInv => OneRowPerAccount
      BY DEF WalletInv
<1> QED BY WalletInvHolds, <1>1, PTL

\* For any number of racing calls: the unique violation stays inside
\* findOrCreateByAddress, but for a row of the old schema spelled otherwise.
THEOREM RaceNeverRethrowsHolds == WalletSpec => []RaceNeverRethrows
<1>1. WalletInv => RaceNeverRethrows
      BY DEF WalletInv
<1> QED BY WalletInvHolds, <1>1, PTL

\* A wallet that findOrCreateByAddress returned is found again by the exact
\* lookup, whichever of its four statements found or made it.
THEOREM EnsuredIsStoredHolds == WalletSpec => []EnsuredIsStored
<1>1. WalletInv => EnsuredIsStored
      BY DEF WalletInv
<1> QED BY WalletInvHolds, <1>1, PTL
=============================================================================
