--------------------------- MODULE WalletRegistry ---------------------------
(***************************************************************************)
(* The wallets table and WalletService.findOrCreateByAddress, called       *)
(* concurrently by every event handler, checker task and login.            *)
(*                                                                         *)
(* An Ethereum address is an account and a spelling: two addresses that    *)
(* differ only in letter case are the same account.  "checksum" is the     *)
(* one spelling normalizeAddress produces; Variants are the other ones.    *)
(* Each await of the service is a step, so the calls of two workers        *)
(* interleave between a query and the write that relies on it.             *)
(***************************************************************************)
EXTENDS FiniteSets

CONSTANTS
    Accounts,   \* Ethereum accounts (an address modulo letter case)
    Variants,   \* spellings of an address other than the checksum one
    WalletIds,  \* the uuids the database can generate
    Workers     \* concurrent async call chains of the server

ASSUME VariantsAssumption == "checksum" \notin Variants

Address == [account : Accounts, spelling : {"checksum"} \cup Variants]

VARIABLES
    wallets,    \* rows of the wallets table
    schema,     \* "old" until the migrations have run, then "new"
    call        \* per worker, its findOrCreateByAddress call

walletVars == <<wallets, schema, call>>

WalletRow == [id : WalletIds, address : Address]

CallStage == {"find",          \* the first findByAddress is in flight
              "insert",        \* create's INSERT is in flight
              "refetch",       \* create's catch looks the row up
              "refetchOuter",  \* findOrCreateByAddress's catch looks again
              "ensured",       \* the call returned a wallet
              "rethrown",      \* the call rethrew the unique violation
              "faulted"}       \* the database did not answer

Finished == {"ensured", "rethrown", "faulted"}

(***************************************************************************)
(* Addresses, the lookup and the constraint.                               *)
(***************************************************************************)
Checksummed(a) == [account |-> a, spelling |-> "checksum"]

\* No normalisation: the caller's spelling goes to the database.
KeepSpelling(addr) == addr

normalizeAddress(addr) == Checksummed(addr.account)

CallFrame == [stage : CallStage, address : Address]

NoCall == [stage |-> "idle"]

\* findByAddress with its where clause lost: findOne returns any row.
FindAnyWallet(addr) == wallets

\* findByAddress: an exact match of the checksum spelling.
FindByAddress(addr) == {r \in wallets : r.address = normalizeAddress(addr)}

HasVariant(addr) == \E r \in wallets : /\ r.address.account = addr.account
                                       /\ r.address.spelling # "checksum"

\* The unique constraint of the schema before the migration.
AddressTakenExactly(addr) == \E r \in wallets : r.address = addr

\* The unique constraint an INSERT must satisfy: exact text in the old
\* schema, LOWER(address) in the new one.
AddressTaken(addr) ==
    \E r \in wallets : IF schema = "new" THEN r.address.account = addr.account
                                         ELSE r.address = addr

FreshIds == {i \in WalletIds : \A r \in wallets : r.id # i}

\* CREATE UNIQUE INDEX on LOWER(address) succeeds.
CanIndex == \A r, s \in wallets : r.address.account = s.address.account => r = s

(***************************************************************************)
(* The tables the service may find when it starts: rows written before the *)
(* migration, when the unique constraint compared the exact text.          *)
(***************************************************************************)
LegacyTable(rows) == \A r, s \in rows : r # s => r.id # s.id /\ r.address # s.address

SetStage(w, stage) == call' = [call EXCEPT ![w].stage = stage]

WalletInit ==
    /\ wallets \in {rows \in SUBSET WalletRow : LegacyTable(rows)}
    /\ schema = "old"
    /\ call = [w \in Workers |-> NoCall]

(***************************************************************************)
(* runMigrations, before the server listens and any worker starts.  The    *)
(* UPDATE of the migration assigns every address to itself.  The index     *)
(* cannot be created over two spellings of one account: the transaction    *)
(* rolls back and the bootstrap ends there, to be started again.           *)
(***************************************************************************)
Migrate ==
    /\ schema = "old"
    /\ schema' = IF CanIndex THEN "new" ELSE "old"
    /\ UNCHANGED <<wallets, call>>

BeginCall(w, addr) ==
    /\ schema = "new"
    /\ call[w].stage = "idle"
    /\ call' = [call EXCEPT ![w] = [stage |-> "find", address |-> normalizeAddress(addr)]]
    /\ UNCHANGED <<wallets, schema>>

FindWallet(w) ==
    /\ call[w].stage = "find"
    /\ SetStage(w, IF FindByAddress(call[w].address) # {} THEN "ensured" ELSE "insert")
    /\ UNCHANGED <<wallets, schema>>

InsertAccepted(w) ==
    /\ call[w].stage = "insert"
    /\ ~AddressTaken(call[w].address)
    /\ \E i \in FreshIds : wallets' = wallets \cup {[id |-> i, address |-> call[w].address]}
    /\ UNCHANGED schema

InsertWallet(w) == InsertAccepted(w) /\ SetStage(w, "ensured")

\* The row is committed and the reply is lost: the caller sees an error.
InsertReplyLost(w) == InsertAccepted(w) /\ SetStage(w, "faulted")

\* The unique violation leaves findOrCreateByAddress uncaught.
InsertConflictUncaught(w) ==
    /\ call[w].stage = "insert"
    /\ AddressTaken(call[w].address)
    /\ SetStage(w, "rethrown")
    /\ UNCHANGED <<wallets, schema>>

InsertConflict(w) ==
    /\ call[w].stage = "insert"
    /\ AddressTaken(call[w].address)
    /\ SetStage(w, "refetch")
    /\ UNCHANGED <<wallets, schema>>

\* create's catch returns what the lookup gave, found or not.
RefetchUnchecked(w) ==
    /\ call[w].stage = "refetch"
    /\ SetStage(w, "ensured")
    /\ UNCHANGED <<wallets, schema>>

Refetch(w) ==
    /\ call[w].stage = "refetch"
    /\ SetStage(w, IF FindByAddress(call[w].address) # {} THEN "ensured" ELSE "refetchOuter")
    /\ UNCHANGED <<wallets, schema>>

RefetchOuter(w) ==
    /\ call[w].stage = "refetchOuter"
    /\ SetStage(w, IF FindByAddress(call[w].address) # {} THEN "ensured" ELSE "rethrown")
    /\ UNCHANGED <<wallets, schema>>

\* Any of the four statements fails for a reason that is not a conflict.
CallFaults(w) ==
    /\ call[w].stage \in {"find", "insert", "refetch", "refetchOuter"}
    /\ SetStage(w, "faulted")
    /\ UNCHANGED <<wallets, schema>>

CallStep(w) ==
    \/ FindWallet(w) \/ InsertWallet(w) \/ InsertReplyLost(w) \/ InsertConflict(w)
    \/ Refetch(w) \/ RefetchOuter(w) \/ CallFaults(w)

ReturnCall(w) ==
    /\ call[w].stage \in Finished
    /\ call' = [call EXCEPT ![w] = NoCall]
    /\ UNCHANGED <<wallets, schema>>

WalletNext ==
    \/ Migrate
    \/ \E w \in Workers : \/ \E addr \in Address : BeginCall(w, addr)
                          \/ CallStep(w)
                          \/ ReturnCall(w)

WalletSpec == WalletInit /\ [][WalletNext]_walletVars

-----------------------------------------------------------------------------
\* The types of the wallets table and of the calls in flight; the address a
\* call works on is always normalised.
WalletTypeOK ==
    /\ wallets \subseteq WalletRow
    /\ schema \in {"old", "new"}
    /\ call \in [Workers -> {NoCall} \cup CallFrame]
    /\ \A w \in Workers :
           call[w].stage # "idle" => call[w].address = Checksummed(call[w].address.account)

\* Once the server runs, an account has one wallet row, whatever the
\* spellings its callers use and however their findOrCreate calls interleave
\* (the comment on findOrCreateByAddress: it "prevents race conditions").
OneRowPerAccount == schema = "new" => CanIndex

\* A findOrCreate call that lost a race never gives the unique violation to
\* its caller: only an account whose row was spelled otherwise before the
\* migration makes it rethrow (there the exact lookup never finds the row).
RaceNeverRethrows ==
    \A w \in Workers : call[w].stage = "rethrown" => HasVariant(call[w].address)

\* When findOrCreate returned a wallet, an exact lookup finds the row: what
\* the handlers rely on when they look the wallet up again later.
EnsuredIsStored ==
    \A w \in Workers : call[w].stage = "ensured" => FindByAddress(call[w].address) # {}
=============================================================================
