---------------------------- MODULE WalletCleanup ----------------------------
(***************************************************************************)
(* WalletService.cleanupDuplicateWallets over the registry: the rows of    *)
(* one account, written under several spellings before the migration, are  *)
(* merged into one, statement by statement, so that the migration can      *)
(* create its index.  Any statement may fail and the process may die; the  *)
(* cleanup is then called again and starts from what it finds.             *)
(*                                                                         *)
(* Of the columns of a wallet two stand for all: points, of which Math.max *)
(* keeps the greater, and the staking status, of which the more recently   *)
(* changed is kept.                                                        *)
(***************************************************************************)
EXTENDS WalletRegistry, Naturals

CONSTANTS
    CreatedAt,      \* when the row of an id was created
    Transactions,   \* rows of the transactions table
    StakingEvents,  \* rows of the staking_events table
    LegacyColumns   \* what the columns of a row may hold before the cleanup

\* There are finitely many uuids (128 bits), and "none" is not one.
ASSUME CleanupAssumption ==
    /\ IsFiniteSet(WalletIds) /\ "none" \notin WalletIds
    /\ CreatedAt \in [WalletIds -> Nat]
    /\ \A i, j \in WalletIds : CreatedAt[i] = CreatedAt[j] => i = j
    /\ Transactions \cap StakingEvents = {}
    /\ LegacyColumns \subseteq [points : Nat, changed : Nat, staking : BOOLEAN]

VARIABLES
    columns,    \* per wallet id, its points and its staking status
    walletId,   \* per row of the two history tables, the wallet it references
                \* ("none": there is no such row)
    removed,    \* ids of deleted rows: a uuid does not come again
    job         \* the cleanup call, between two of its statements

cleanupVars == <<wallets, schema, call, columns, walletId, removed, job>>

History == Transactions \cup StakingEvents

\* changed = 0 is lastStakingChangeTime NULL.
Defaults == [points |-> 0, changed |-> 0, staking |-> FALSE]

\* An entity of a wallet as find() returns it.
Entity(r) == [id |-> r.id, address |-> r.address, columns |-> columns[r.id]]

Off == [stage |-> "off"]
Done == [stage |-> "done"]

CleanupInit ==
    /\ WalletInit
    /\ columns \in {c \in [WalletIds -> {Defaults} \cup LegacyColumns] :
                        \A i \in WalletIds : IF \E r \in wallets : r.id = i THEN c[i] \in LegacyColumns
                                             ELSE c[i] = Defaults}
    /\ walletId \in [History -> {"none"} \cup {r.id : r \in wallets}]
    /\ removed = {}
    /\ job = Off

-----------------------------------------------------------------------------
\* Every address in a group of its own.
GroupsBySpelling(entities) ==
    {g \in {{e \in entities : e.address = f.address} : f \in entities} : Cardinality(g) > 1}

\* The groups with more than one wallet, by normalised address.
Groups(entities) ==
    {g \in {{e \in entities : normalizeAddress(e.address) = normalizeAddress(f.address)} : f \in entities} :
        Cardinality(g) > 1}

Oldest(entities) == CHOOSE e \in entities : \A f \in entities : CreatedAt[e.id] <= CreatedAt[f.id]

IsChecksum(e) == e.address = normalizeAddress(e.address)

Keep(group) == IF \E e \in group : IsChecksum(e) THEN CHOOSE e \in group : IsChecksum(e)
               ELSE Oldest(group)

\* The next group, that of the oldest wallet.  After the last one the query
\* for exact duplicates finds none: the column was always unique.
NextGroup(groups) ==
    IF groups = {} THEN Done
    ELSE LET group == CHOOSE g \in groups : Oldest(UNION groups) \in g
         IN [stage  |-> IF IsChecksum(Keep(group)) THEN "transactions" ELSE "address",
             keep   |-> Keep(group),
             dups   |-> group \ {Keep(group)},
             groups |-> groups \ {group}]

cleanupDuplicateWallets ==
    /\ job = Off
    /\ job' = NextGroup(Groups({Entity(r) : r \in wallets}))
    /\ UNCHANGED <<wallets, schema, call, columns, walletId, removed>>

\* The kept wallet left in its own spelling.
KeepAddress ==
    /\ job.stage = "address"
    /\ job' = [job EXCEPT !.stage = "transactions"]
    /\ UNCHANGED <<wallets, schema, call, columns, walletId, removed>>

\* The kept wallet's address becomes the checksum spelling.
UpdateAddress ==
    /\ job.stage = "address"
    /\ LET spelled == normalizeAddress(job.keep.address) IN
           /\ wallets' = {IF r.id = job.keep.id THEN [r EXCEPT !.address = spelled] ELSE r : r \in wallets}
           /\ job' = [job EXCEPT !.stage = "transactions", !.keep.address = spelled]
    /\ UNCHANGED <<schema, call, columns, walletId, removed>>

Duplicate == Oldest(job.dups)

\* The UPDATE with its WHERE clause lost.
ReferenceAll(rows) ==
    walletId' = [h \in History |-> IF h \in rows THEN job.keep.id ELSE walletId[h]]

Reference(rows) ==
    walletId' = [h \in History |-> IF h \in rows /\ walletId[h] = Duplicate.id THEN job.keep.id
                                   ELSE walletId[h]]

UpdateTransactions ==
    /\ job.stage = "transactions"
    /\ Reference(Transactions)
    /\ job' = [job EXCEPT !.stage = "staking"]
    /\ UNCHANGED <<wallets, schema, call, columns, removed>>

UpdateStakingEvents ==
    /\ job.stage = "staking"
    /\ Reference(StakingEvents)
    /\ job' = [job EXCEPT !.stage = "merge"]
    /\ UNCHANGED <<wallets, schema, call, columns, removed>>

Greater(m, n) == IF m > n THEN m ELSE n

\* mergedData; in the code a NULL time is never the later one.
MergedData(keep, dup) ==
    LET later == IF dup.changed > keep.changed THEN dup ELSE keep
    IN [points |-> Greater(keep.points, dup.points), changed |-> later.changed, staking |-> later.staking]

\* mergeDuplicateWalletData without its last line.
MergeForgetting ==
    /\ job.stage = "merge"
    /\ columns' = [columns EXCEPT ![job.keep.id] = MergedData(job.keep.columns, Duplicate.columns)]
    /\ job' = [job EXCEPT !.stage = "remove"]
    /\ UNCHANGED <<wallets, schema, call, walletId, removed>>

\* Both the row and the object the next duplicate is compared with.
MergeColumns ==
    /\ job.stage = "merge"
    /\ LET merged == MergedData(job.keep.columns, Duplicate.columns) IN
           /\ columns' = [columns EXCEPT ![job.keep.id] = merged]
           /\ job' = [job EXCEPT !.stage = "remove", !.keep.columns = merged]
    /\ UNCHANGED <<wallets, schema, call, walletId, removed>>

\* The foreign keys refuse to delete a wallet that is still referenced.
RemoveDuplicate ==
    /\ job.stage = "remove"
    /\ \A h \in History : walletId[h] # Duplicate.id
    /\ wallets' = {r \in wallets : r.id # Duplicate.id}
    /\ columns' = [columns EXCEPT ![Duplicate.id] = Defaults]
    /\ removed' = removed \cup {Duplicate.id}
    /\ job' = IF job.dups = {Duplicate} THEN NextGroup(job.groups)
              ELSE [job EXCEPT !.stage = "transactions", !.dups = @ \ {Duplicate}]
    /\ UNCHANGED <<schema, call, walletId>>

\* A statement fails, or the process dies: what is committed stays.
CleanupStops ==
    /\ job \notin {Off, Done}
    /\ job' = Off
    /\ UNCHANGED <<wallets, schema, call, columns, walletId, removed>>

CleanupReturns ==
    /\ job = Done
    /\ job' = Off
    /\ UNCHANGED <<wallets, schema, call, columns, walletId, removed>>

CleanupStep ==
    \/ cleanupDuplicateWallets \/ UpdateAddress \/ UpdateTransactions \/ UpdateStakingEvents
    \/ MergeColumns \/ RemoveDuplicate \/ CleanupStops \/ CleanupReturns

\* A step of the registry: the columns of a new row have their defaults.
RegistryStep ==
    /\ WalletNext
    /\ \A r \in wallets' \ wallets : r.id \notin removed
    /\ UNCHANGED <<columns, walletId, removed, job>>

CleanupNext == RegistryStep \/ CleanupStep

CleanupSpec == CleanupInit /\ [][CleanupNext]_cleanupVars

-----------------------------------------------------------------------------
AccountsOf(rows) == {r.address.account : r \in rows}

RowsNamed(rows, id) == {r \in rows : r.id = id}

RowsOfAccount(rows, a) == {r \in rows : r.address.account = a}

AccountsStay ==
    \A h \in History :
        AccountsOf(RowsNamed(wallets, walletId[h])) = AccountsOf(RowsNamed(wallets', walletId'[h]))

\* No statement of the cleanup, and no failure between two of them, moves a
\* row of history to another account or leaves it without its wallet.
HistoryStays == [][AccountsStay]_cleanupVars

Best(rows, cols) == {cols[r.id].points : r \in {s \in rows : \A t \in rows : cols[t.id].points <= cols[s.id].points}}

LastStatus(rows, cols) ==
    {[changed |-> cols[r.id].changed, staking |-> cols[r.id].staking] :
        r \in {s \in rows : \A t \in rows : cols[t.id].changed <= cols[s.id].changed}}

SameBest(before, cols, after, newCols) ==
    before # {} => /\ Best(after, newCols) = Best(before, cols)
                   /\ LastStatus(after, newCols) # {}
                   /\ LastStatus(after, newCols) \subseteq LastStatus(before, cols)

BestStays ==
    \A a \in Accounts : SameBest(RowsOfAccount(wallets, a), columns, RowsOfAccount(wallets', a), columns')

\* However many spellings an account has and wherever the merge of them stops
\* and starts again, its best points and its last staking status are those of
\* its rows before (of two statuses of one time, one of them).
MergeKeepsBest == [][BestStays]_cleanupVars

\* A cleanup that ends has made the index possible: the next start of the
\* server gets through its migrations, whatever earlier attempts left behind.
CleanupEnablesIndex == job = Done => CanIndex
=============================================================================
