------------------------- MODULE WalletCleanupProofs -------------------------
(***************************************************************************)
(* Proofs about the registry, its cleanup and the tokens that name its     *)
(* rows, for any accounts, spellings, ids, callers and history: all of     *)
(* them are one system here, so the registry's properties are proved again *)
(* on the table that a cleanup, ended or stopped, has left.                *)
(*                                                                         *)
(* What a cleanup keeps in memory are entities: copies of rows.  The heart *)
(* of the invariant says that between two statements these copies are      *)
(* still what the tables hold, group by group, and that no account with    *)
(* several rows is missing from what the job has left to do.               *)
(***************************************************************************)
EXTENDS AuthTokens, WalletRegistryProofs, FiniteSetTheorems, TLAPS

Columns == [points : Nat, changed : Nat, staking : BOOLEAN]

EntityIn(r, cols) == [id |-> r.id, address |-> r.address, columns |-> cols[r.id]]

\* All rows of an account as find() would return them now.
EntitiesOf(a, rows, cols) == {EntityIn(r, cols) : r \in RowsOfAccount(rows, a)}

\* The accounts that keep the index from being created.
SharedAccounts(rows) ==
    {a \in Accounts : \E r, s \in rows : r # s /\ r.address.account = a /\ s.address.account = a}

GroupsBut(a, rows, cols) == {EntitiesOf(b, rows, cols) : b \in SharedAccounts(rows) \ {a}}

\* A job between two statements: which row it keeps and its stage determine
\* it.  Its duplicates are all other rows of that account, and its groups all
\* other accounts with several rows, as the tables hold them now.
JobFor(stage, k, rows, cols) ==
    [stage  |-> stage,
     keep   |-> EntityIn(k, cols),
     dups   |-> {EntityIn(r, cols) : r \in RowsOfAccount(rows, k.address.account) \ {k}},
     groups |-> GroupsBut(k.address.account, rows, cols)]

\* The kept row comes to have the checksum spelling before any other is
\* deleted, and the data of one before that one is.
StageOK(j, k, rows, cols) ==
    /\ j.stage \in {"address", "transactions", "staking", "merge", "remove"}
    /\ IF j.stage = "address" THEN \A r \in RowsOfAccount(rows, k.address.account) : ~IsChecksum(r)
                              ELSE IsChecksum(k)
    /\ j.stage = "remove" => /\ Oldest(j.dups).columns.points <= cols[k.id].points
                             /\ Oldest(j.dups).columns.changed <= cols[k.id].changed

Keeping(j, k, rows, cols) ==
    /\ k.address.account \in SharedAccounts(rows)
    /\ j = JobFor(j.stage, k, rows, cols)
    /\ StageOK(j, k, rows, cols)

Working(j, rows, cols) == \E k \in rows : Keeping(j, k, rows, cols)

JobInv ==
    \/ job = Off
    \/ job = Done /\ CanIndex
    \/ Working(job, wallets, columns)

AddressesUnique == \A r, s \in wallets : r.address = s.address => r = s

\* The server answers no one before its migrations have run.
IdleBeforeMigration == schema = "old" => \A w \in Workers : call[w].stage = "idle"

HistoryReferences == \A h \in History : walletId[h] = "none" \/ \E r \in wallets : r.id = walletId[h]

RemovedStayAway == \A r \in wallets : r.id \notin removed

TokenInv ==
    token # NoToken =>
        \/ \E r \in NamedWallet : r.address.account = token.username.account
        \/ token.sub \in removed /\ FindByAddress(token.username) # {}

CleanupInv ==
    /\ WalletInv
    /\ AddressesUnique
    /\ IdleBeforeMigration
    /\ columns \in [WalletIds -> Columns]
    /\ HistoryReferences
    /\ RemovedStayAway
    /\ JobInv

AuthInv == CleanupInv /\ TokenInv

-----------------------------------------------------------------------------
\* A non-empty set of numbers has a least one.
LEMMA LeastExists ==
    ASSUME NEW K \in SUBSET Nat, K # {}
    PROVE  \E m \in K : \A n \in K : m <= n
<1> DEFINE R == OpToRel(<, Nat)
<1>1. \E m \in K : \A n \in K : ~(<<n, m>> \in R)
  <2> HIDE DEF R
  <2>1. IsWellFoundedOn(R, Nat)
        BY NatLessThanWellFounded DEF R
  <2> QED BY <2>1, WFMin
<1>2. \A m, n \in Nat : n < m => <<n, m>> \in R
      BY DEF OpToRel
<1> HIDE DEF R
<1>3. PICK m \in K : \A n \in K : ~(<<n, m>> \in R)
      BY <1>1
<1>4. \A n \in K : m <= n
  <2> TAKE n \in K
  <2>1. m \in Nat /\ n \in Nat
        OBVIOUS
  <2>2. ~(n < m)
        BY <1>2, <1>3, <2>1
  <2> QED BY <2>1, <2>2
<1> QED BY <1>4

\* A finite, non-empty set has an element with the greatest measure.
LEMMA GreatestExists ==
    ASSUME NEW S, IsFiniteSet(S), S # {}, NEW f \in [S -> Nat]
    PROVE  \E m \in S : \A n \in S : f[n] <= f[m]
<1> DEFINE HasGreatest(U) == \E m \in U : \A n \in U : f[n] <= f[m]
           Bad == {U \in FiniteSubsetsOf(S) : U # {} /\ ~HasGreatest(U)}
           R == StrictSubsetOrdering(S)
<1>1. Bad = {}
  <2> SUFFICES ASSUME Bad # {} PROVE FALSE
      OBVIOUS
  <2>1. PICK U \in Bad : \A V \in Bad : ~(<<V, U>> \in R)
    <3> HIDE DEF R, Bad
    <3>1. IsWellFoundedOn(R, FiniteSubsetsOf(S))
          BY FS_StrictSubsetOrderingWellFounded DEF R
    <3>2. Bad \subseteq FiniteSubsetsOf(S)
          BY DEF Bad
    <3> QED BY <3>1, <3>2, WFMin
  <2>2. U \subseteq S /\ IsFiniteSet(U) /\ U # {} /\ ~HasGreatest(U)
        BY DEF FiniteSubsetsOf
  <2>3. PICK x \in U : TRUE
        BY <2>2
  <2> DEFINE V == U \ {x}
  <2>4. V \in FiniteSubsetsOf(S)
        BY <2>2, FS_Subset DEF FiniteSubsetsOf
  <2>5. <<V, U>> \in R
        BY <2>2, <2>3 DEF StrictSubsetOrdering
  <2>6. CASE V = {}
    <3>1. \A n \in U : n = x
          BY <2>6
    <3>2. f[x] <= f[x]
          BY <2>2, <2>3
    <3> QED BY <3>1, <3>2, <2>2, <2>3
  <2>7. CASE V # {}
    <3>1. HasGreatest(V)
          BY <2>1, <2>4, <2>5, <2>7
    <3>2. PICK m \in V : \A n \in V : f[n] <= f[m]
          BY <3>1
    <3>3. \A n \in U : f[n] \in Nat
          BY <2>2
    <3>4. CASE f[x] <= f[m]
          BY <2>2, <3>2, <3>4
    <3>5. CASE ~(f[x] <= f[m])
      <4>1. \A n \in U : f[n] <= f[x]
            BY <2>3, <3>2, <3>3, <3>5
      <4> QED BY <2>2, <2>3, <4>1
    <3> QED BY <3>4, <3>5
  <2> QED BY <2>6, <2>7
<1> QED
  <2>1. S \in FiniteSubsetsOf(S)
        BY DEF FiniteSubsetsOf
  <2> QED BY <1>1, <2>1

\* Every non-empty set of entities has an oldest one.
LEMMA OldestExists ==
    ASSUME NEW S, S # {}, \A e \in S : e.id \in WalletIds
    PROVE  Oldest(S) \in S
<1> DEFINE K == {CreatedAt[e.id] : e \in S}
<1>1. K \subseteq Nat /\ K # {}
      BY CleanupAssumption
<1>2. PICK m \in K : \A n \in K : m <= n
      BY <1>1, LeastExists
<1>3. \E e \in S : \A f \in S : CreatedAt[e.id] <= CreatedAt[f.id]
      BY <1>2
<1> QED BY <1>3 DEF Oldest

\* A table whose rows have different ids is finite.
LEMMA RowsFinite ==
    ASSUME NEW rows \in SUBSET WalletRow, \A r, s \in rows : r.id = s.id => r = s
    PROVE  IsFiniteSet(rows)
<1> DEFINE f == [r \in rows |-> r.id]
<1>1. f \in [rows -> WalletIds]
      BY DEF WalletRow
<1>2. f \in Injection(rows, WalletIds)
      BY <1>1 DEF Injection, IsInjective
<1> QED BY <1>2, FS_Injection, CleanupAssumption

\* A finite set has more than one element when two of them differ.
LEMMA MoreThanOne ==
    ASSUME NEW S, IsFiniteSet(S)
    PROVE  Cardinality(S) > 1 <=> \E x, y \in S : x # y
<1>1. Cardinality(S) \in Nat
      BY FS_CardinalityType
<1>2. Cardinality(S) = 0 <=> S = {}
      BY FS_EmptySet
<1>3. Cardinality(S) = 1 <=> \E x : S = {x}
      BY FS_Singleton
<1>4. Cardinality(S) > 1 <=> Cardinality(S) # 0 /\ Cardinality(S) # 1
      BY <1>1
<1>5. Cardinality(S) > 1 <=> S # {} /\ ~\E x : S = {x}
      BY <1>2, <1>3, <1>4, Zenon
<1>6. S # {} /\ (~\E x : S = {x}) <=> \E x, y \in S : x # y
      OBVIOUS
<1> QED BY <1>5, <1>6, Zenon

-----------------------------------------------------------------------------
\* Rows as the table holds them: the primary key tells them apart.
Table(rows) == rows \subseteq WalletRow /\ \A r, s \in rows : r.id = s.id => r = s

LEMMA TableInv == WalletInv => Table(wallets)
BY DEF WalletInv, WalletTypeOK, IdsUnique, Table

LEMMA EntityFields ==
    ASSUME NEW r, NEW cols
    PROVE  /\ EntityIn(r, cols).id = r.id
           /\ EntityIn(r, cols).address = r.address
           /\ EntityIn(r, cols).columns = cols[r.id]
BY DEF EntityIn

\* The index can be created when no account has two rows.
LEMMA SharedMeansNoIndex ==
    ASSUME Table(wallets)
    PROVE  CanIndex <=> SharedAccounts(wallets) = {}
<1>1. \A r \in wallets : r.address.account \in Accounts
      BY DEF Table, WalletRow, Address
<1> QED BY <1>1 DEF CanIndex, SharedAccounts

\* An account has more than one entity when it is shared.
LEMMA SharedGroup ==
    ASSUME NEW rows, Table(rows), NEW cols, NEW a \in Accounts
    PROVE  Cardinality(EntitiesOf(a, rows, cols)) > 1 <=> a \in SharedAccounts(rows)
<1> DEFINE E == EntitiesOf(a, rows, cols)
           f == [e \in E |-> e.id]
<1>1. \A e \in E : \E r \in rows : r.address.account = a /\ e = EntityIn(r, cols)
      BY DEF EntitiesOf, RowsOfAccount
<1>2. f \in [E -> WalletIds]
      BY <1>1, EntityFields DEF Table, WalletRow
<1>3. \A d, e \in E : d.id = e.id => d = e
      BY <1>1, EntityFields DEF Table
<1>4. f \in Injection(E, WalletIds)
      BY <1>2, <1>3 DEF Injection, IsInjective
<1>5. IsFiniteSet(E)
      BY <1>4, FS_Injection, CleanupAssumption
<1>6. (\E d, e \in E : d # e) <=> a \in SharedAccounts(rows)
  <2>1. ASSUME NEW r \in rows, NEW s \in rows, r # s, r.address.account = a, s.address.account = a
        PROVE  \E d, e \in E : d # e
    <3>1. EntityIn(r, cols) \in E /\ EntityIn(s, cols) \in E
          BY <2>1 DEF EntitiesOf, RowsOfAccount
    <3>2. EntityIn(r, cols) # EntityIn(s, cols)
          BY <2>1, EntityFields DEF Table
    <3> QED BY <3>1, <3>2
  <2>2. ASSUME NEW d \in E, NEW e \in E, d # e PROVE a \in SharedAccounts(rows)
        BY <1>1, <2>2 DEF SharedAccounts
  <2> QED BY <2>1, <2>2 DEF SharedAccounts
<1> QED BY <1>5, <1>6, MoreThanOne

\* Grouping by normalised address gives the shared accounts, each whole.
LEMMA GroupsAreShared ==
    ASSUME NEW rows, Table(rows), NEW cols
    PROVE  Groups({EntityIn(r, cols) : r \in rows}) =
               {EntitiesOf(b, rows, cols) : b \in SharedAccounts(rows)}
<1> DEFINE E == {EntityIn(r, cols) : r \in rows}
           G(f) == {e \in E : normalizeAddress(e.address) = normalizeAddress(f.address)}
<1>1. \A r, s \in rows : normalizeAddress(r.address) = normalizeAddress(s.address)
                             <=> r.address.account = s.address.account
      BY DEF normalizeAddress, Checksummed
<1>2. ASSUME NEW s \in rows PROVE G(EntityIn(s, cols)) = EntitiesOf(s.address.account, rows, cols)
      BY <1>1, EntityFields DEF EntitiesOf, RowsOfAccount
<1>3. \A s \in rows : s.address.account \in Accounts
      BY DEF Table, WalletRow, Address
<1>4. ASSUME NEW g \in Groups(E) PROVE \E b \in SharedAccounts(rows) : g = EntitiesOf(b, rows, cols)
  <2>1. PICK f \in E : g = G(f) /\ Cardinality(g) > 1
        BY DEF Groups
  <2>2. PICK s \in rows : f = EntityIn(s, cols)
        OBVIOUS
  <2>3. g = EntitiesOf(s.address.account, rows, cols)
        BY <1>2, <2>1, <2>2
  <2> QED BY <1>3, <2>1, <2>3, SharedGroup
<1>5. ASSUME NEW b \in SharedAccounts(rows) PROVE EntitiesOf(b, rows, cols) \in Groups(E)
  <2>1. PICK s \in rows : s.address.account = b
        BY DEF SharedAccounts
  <2>2. G(EntityIn(s, cols)) = EntitiesOf(b, rows, cols) /\ EntityIn(s, cols) \in E
        BY <1>2, <2>1
  <2>3. Cardinality(EntitiesOf(b, rows, cols)) > 1
        BY SharedGroup DEF SharedAccounts
  <2> QED BY <2>2, <2>3 DEF Groups
<1> QED BY <1>4, <1>5

\* A group of one account is not that of another.
LEMMA GroupsDiffer ==
    ASSUME NEW rows, NEW cols, NEW a \in SharedAccounts(rows), NEW b \in SharedAccounts(rows),
           EntitiesOf(a, rows, cols) = EntitiesOf(b, rows, cols)
    PROVE  a = b
<1>1. PICK r \in rows : r.address.account = a
      BY DEF SharedAccounts
<1>2. EntityIn(r, cols) \in EntitiesOf(b, rows, cols)
      BY <1>1 DEF EntitiesOf, RowsOfAccount
<1>3. PICK s \in rows : s.address.account = b /\ EntityIn(s, cols) = EntityIn(r, cols)
      BY <1>2 DEF EntitiesOf, RowsOfAccount
<1> QED BY <1>1, <1>3, EntityFields

\* What is taken up next: nothing when no account is shared, else a job that
\* has all of the chosen account before it and all other shared ones after.
LEMMA NextGroupWorks ==
    ASSUME NEW rows, Table(rows), NEW cols
    PROVE  LET groups == {EntitiesOf(b, rows, cols) : b \in SharedAccounts(rows)}
           IN  IF SharedAccounts(rows) = {} THEN NextGroup(groups) = Done
               ELSE Working(NextGroup(groups), rows, cols)
<1> DEFINE groups == {EntitiesOf(b, rows, cols) : b \in SharedAccounts(rows)}
           group == CHOOSE g \in groups : Oldest(UNION groups) \in g
           j == NextGroup(groups)
<1>1. CASE SharedAccounts(rows) = {}
      BY <1>1 DEF NextGroup
<1>2. CASE SharedAccounts(rows) # {}
  <2>1. \A g \in groups : g # {} /\ \A e \in g : e.id \in WalletIds
    <3> TAKE g \in groups
    <3>1. PICK b \in SharedAccounts(rows) : g = EntitiesOf(b, rows, cols)
          OBVIOUS
    <3>2. \A e \in g : e.id \in WalletIds
          BY <3>1, EntityFields DEF EntitiesOf, RowsOfAccount, Table, WalletRow
    <3>3. g # {}
          BY <3>1 DEF EntitiesOf, RowsOfAccount, SharedAccounts
    <3> QED BY <3>2, <3>3
  <2>2. groups # {}
        BY <1>2
  <2>3. Oldest(UNION groups) \in UNION groups
        BY <2>1, <2>2, OldestExists
  <2>4. group \in groups
        BY <2>3
  <2>5. PICK a \in SharedAccounts(rows) : group = EntitiesOf(a, rows, cols)
        BY <2>4
  <2> HIDE DEF group
  <2>6. Keep(group) \in group /\ ((\E e \in group : IsChecksum(e)) => IsChecksum(Keep(group)))
        BY <2>1, <2>4, OldestExists DEF Keep
  <2>7. PICK k \in RowsOfAccount(rows, a) : Keep(group) = EntityIn(k, cols)
        BY <2>5, <2>6 DEF EntitiesOf
  <2>8. k \in rows /\ k.address.account = a
        BY <2>7 DEF RowsOfAccount
  <2>9. group \ {Keep(group)} = {EntityIn(r, cols) : r \in RowsOfAccount(rows, a) \ {k}}
    <3>1. \A r \in RowsOfAccount(rows, a) : r # k => EntityIn(r, cols) # EntityIn(k, cols)
          BY <2>8, EntityFields DEF Table, RowsOfAccount
    <3> QED BY <2>5, <2>7, <3>1 DEF EntitiesOf
  <2>10. groups \ {group} = GroupsBut(a, rows, cols)
        BY <2>5, GroupsDiffer DEF GroupsBut
  <2> DEFINE stage == IF IsChecksum(Keep(group)) THEN "transactions" ELSE "address"
  <2>11. j = [stage |-> stage, keep |-> Keep(group), dups |-> group \ {Keep(group)},
              groups |-> groups \ {group}]
        BY <2>2 DEF NextGroup, group
  <2>12. j = JobFor(j.stage, k, rows, cols)
    <3>1. j.stage = stage
          BY <2>11
    <3>2. group \ {Keep(group)} = {EntityIn(r, cols) : r \in RowsOfAccount(rows, k.address.account) \ {k}}
          BY <2>8, <2>9
    <3>3. groups \ {group} = GroupsBut(k.address.account, rows, cols)
          BY <2>8, <2>10
    <3>4. JobFor(stage, k, rows, cols) = [stage |-> stage, keep |-> Keep(group),
              dups |-> group \ {Keep(group)}, groups |-> groups \ {group}]
          BY <2>7, <3>2, <3>3, Zenon DEF JobFor
    <3> QED BY <2>11, <3>1, <3>4, Zenon
  <2>13. StageOK(j, k, rows, cols)
    <3>1. \A r \in rows : IsChecksum(EntityIn(r, cols)) <=> IsChecksum(r)
          BY EntityFields DEF IsChecksum
    <3>2. j.stage = stage
          BY <2>11
    <3>3. CASE IsChecksum(Keep(group))
          BY <2>7, <2>8, <3>1, <3>2, <3>3 DEF StageOK
    <3>4. CASE ~IsChecksum(Keep(group))
      <4>1. \A r \in RowsOfAccount(rows, a) : ~IsChecksum(r)
            BY <2>5, <2>6, <3>1, <3>4 DEF EntitiesOf, RowsOfAccount
      <4> QED BY <2>8, <3>2, <3>4, <4>1 DEF StageOK
    <3> QED BY <3>3, <3>4
  <2> QED BY <1>2, <2>8, <2>12, <2>13 DEF Working, Keeping
<1> QED BY <1>1, <1>2

-----------------------------------------------------------------------------
\* The tables before the server's first start satisfy the invariant.
LEMMA AuthInitInv == AuthInit => AuthInv
<1> SUFFICES ASSUME AuthInit PROVE AuthInv
    OBVIOUS
<1> USE DEF AuthInit, CleanupInit
<1>1. WalletInv
      BY WalletInitInv
<1>2. AddressesUnique
      BY DEF WalletInit, LegacyTable, AddressesUnique
<1>3. IdleBeforeMigration
      BY DEF WalletInit, NoCall, IdleBeforeMigration
<1>4. columns \in [WalletIds -> Columns]
  <2>0. Defaults \in Columns
        BY DEF Defaults, Columns
  <2>1. {Defaults} \cup LegacyColumns \subseteq Columns
        BY <2>0, CleanupAssumption, Zenon DEF Columns
  <2>2. columns \in [WalletIds -> {Defaults} \cup LegacyColumns]
        OBVIOUS
  <2> QED BY <2>1, <2>2
<1>5. HistoryReferences
      BY DEF HistoryReferences
<1>6. RemovedStayAway
      BY DEF RemovedStayAway
<1>7. JobInv
      BY DEF JobInv
<1>8. TokenInv
  <2>1. CASE token = NoToken
        BY <2>1 DEF TokenInv
  <2>2. CASE \E r \in wallets : token = TokenOf(r)
        BY <2>2 DEF TokenInv, NamedWallet, TokenOf
  <2> QED BY <2>1, <2>2
<1> QED BY <1>1, <1>2, <1>3, <1>4, <1>5, <1>6, <1>7, <1>8 DEF AuthInv, CleanupInv

\* The fields of a job, from what determines it.
LEMMA JobFields ==
    ASSUME NEW rows, NEW cols, NEW k, NEW j, NEW stage, j = JobFor(stage, k, rows, cols)
    PROVE  /\ j.stage = stage
           /\ j.keep = EntityIn(k, cols)
           /\ j.dups = {EntityIn(r, cols) : r \in RowsOfAccount(rows, k.address.account) \ {k}}
           /\ j.groups = GroupsBut(k.address.account, rows, cols)
BY DEF JobFor

\* The duplicate a job is at is another row of the account whose row it keeps.
LEMMA DuplicateRow ==
    ASSUME NEW rows, Table(rows), NEW cols, NEW k \in rows, NEW j, Keeping(j, k, rows, cols)
    PROVE  \E d \in RowsOfAccount(rows, k.address.account) \ {k} :
               Oldest(j.dups) = EntityIn(d, cols) /\ Oldest(j.dups) \in j.dups
<1> DEFINE others == RowsOfAccount(rows, k.address.account) \ {k}
<1>1. j.dups = {EntityIn(r, cols) : r \in others}
      BY JobFields DEF Keeping
<1>2. others # {}
      BY DEF Keeping, SharedAccounts, RowsOfAccount
<1>3. \A e \in j.dups : e.id \in WalletIds
      BY <1>1, EntityFields DEF RowsOfAccount, Table, WalletRow
<1>4. Oldest(j.dups) \in j.dups
      BY <1>1, <1>2, <1>3, OldestExists
<1> QED BY <1>1, <1>4

\* While the cleanup has two rows to merge the index is impossible, so the
\* server is not up and no call is in flight.
LEMMA AtWork ==
    ASSUME CleanupInv, job # Off, job # Done
    PROVE  /\ \E k, d \in wallets :
                  /\ Keeping(job, k, wallets, columns)
                  /\ job.keep = EntityIn(k, columns)
                  /\ Duplicate = EntityIn(d, columns) /\ Duplicate \in job.dups
                  /\ d # k /\ d.id # k.id /\ d.address.account = k.address.account
           /\ schema = "old" /\ ~CanIndex
           /\ \A w \in Workers : call[w].stage = "idle"
<1>1. PICK k \in wallets : Keeping(job, k, wallets, columns)
      BY DEF CleanupInv, JobInv, Working
<1>2. Table(wallets)
      BY TableInv DEF CleanupInv
<1>3. PICK d \in RowsOfAccount(wallets, k.address.account) \ {k} :
          Duplicate = EntityIn(d, columns) /\ Duplicate \in job.dups
      BY <1>1, <1>2, DuplicateRow DEF Duplicate
<1>4. d \in wallets /\ d # k /\ d.id # k.id /\ d.address.account = k.address.account
      BY <1>2, <1>3 DEF RowsOfAccount, Table
<1>5. job.keep = EntityIn(k, columns)
      BY <1>1 DEF Keeping, JobFor
<1>6. ~CanIndex
      BY <1>1, <1>2, SharedMeansNoIndex DEF Keeping
<1>7. schema = "old"
      BY <1>6 DEF CleanupInv, WalletInv, WalletTypeOK, OneRowPerAccount
<1>8. \A w \in Workers : call[w].stage = "idle"
      BY <1>7 DEF CleanupInv, IdleBeforeMigration
<1> QED BY <1>1, <1>3, <1>4, <1>5, <1>6, <1>7, <1>8

\* With no call in flight, the registry's invariant asks only for a table.
LEMMA QuietTable ==
    ASSUME WalletInv, schema = "old", \A w \in Workers : call[w].stage = "idle",
           UNCHANGED <<schema, call>>, Table(wallets')
    PROVE  WalletInv'
BY DEF WalletInv, WalletTypeOK, IdsUnique, OneRowPerAccount, ConflictHasRow, RaceNeverRethrows,
       EnsuredIsStored, Table

\* The groups of other accounts stay what they are when their rows do.
LEMMA OtherGroups ==
    ASSUME NEW rows, NEW cols, NEW rows2, NEW cols2, NEW a,
           \A r \in rows \cup rows2 : r.address.account # a => r \in rows \cap rows2,
           \A r \in rows : r.address.account # a => cols2[r.id] = cols[r.id]
    PROVE  GroupsBut(a, rows2, cols2) = GroupsBut(a, rows, cols)
<1>1. SharedAccounts(rows2) \ {a} = SharedAccounts(rows) \ {a}
      BY DEF SharedAccounts
<1>2. ASSUME NEW b \in Accounts \ {a} PROVE EntitiesOf(b, rows2, cols2) = EntitiesOf(b, rows, cols)
  <2>1. RowsOfAccount(rows2, b) = RowsOfAccount(rows, b)
        BY <1>2 DEF RowsOfAccount
  <2>2. \A r \in RowsOfAccount(rows, b) : EntityIn(r, cols2) = EntityIn(r, cols)
        BY <1>2 DEF RowsOfAccount, EntityIn
  <2> QED BY <2>1, <2>2 DEF EntitiesOf
<1>3. SharedAccounts(rows) \ {a} \subseteq Accounts \ {a}
      BY DEF SharedAccounts
<1> QED BY <1>1, <1>2, <1>3 DEF GroupsBut

-----------------------------------------------------------------------------
(* Every statement of the cleanup keeps the invariant. *)

LEMMA SameTables ==
    ASSUME CleanupInv, UNCHANGED <<wallets, schema, call, columns, removed>>,
           HistoryReferences', JobInv'
    PROVE  CleanupInv'
<1>1. WalletInv'
      BY WalletStutterInv DEF CleanupInv, walletVars
<1> QED BY <1>1 DEF CleanupInv, AddressesUnique, IdleBeforeMigration, RemovedStayAway

\* The first query and the grouping of what it found.
LEMMA StartInv ==
    ASSUME CleanupInv, cleanupDuplicateWallets
    PROVE  CleanupInv'
<1>1. Table(wallets)
      BY TableInv DEF CleanupInv
<1>2. {Entity(r) : r \in wallets} = {EntityIn(r, columns) : r \in wallets}
      BY DEF Entity, EntityIn
<1>3. job' = NextGroup({EntitiesOf(b, wallets, columns) : b \in SharedAccounts(wallets)})
  <2>1. Groups({EntityIn(r, columns) : r \in wallets}) = {EntitiesOf(b, wallets, columns) : b \in SharedAccounts(wallets)}
        BY <1>1, GroupsAreShared
  <2>2. job' = NextGroup(Groups({Entity(r) : r \in wallets}))
        BY DEF cleanupDuplicateWallets
  <2> QED BY <1>2, <2>1, <2>2, Zenon
<1>4. wallets' = wallets /\ columns' = columns
      BY DEF cleanupDuplicateWallets
<1>5. JobInv'
  <2>1. CASE SharedAccounts(wallets) = {}
        BY <1>1, <1>3, <1>4, <2>1, NextGroupWorks, SharedMeansNoIndex DEF JobInv, CanIndex
  <2>2. CASE SharedAccounts(wallets) # {}
        BY <1>1, <1>3, <1>4, <2>2, NextGroupWorks DEF JobInv
  <2> QED BY <2>1, <2>2
<1>6. HistoryReferences'
      BY DEF cleanupDuplicateWallets, CleanupInv, HistoryReferences
<1> QED BY <1>5, <1>6, SameTables DEF cleanupDuplicateWallets

LEMMA StopInv ==
    ASSUME CleanupInv, CleanupStops \/ CleanupReturns
    PROVE  CleanupInv'
<1>1. UNCHANGED <<wallets, schema, call, columns, walletId, removed>> /\ job' = Off
      BY DEF CleanupStops, CleanupReturns
<1>2. JobInv'
      BY <1>1 DEF JobInv
<1>3. HistoryReferences'
      BY <1>1 DEF CleanupInv, HistoryReferences
<1> QED BY <1>1, <1>2, <1>3, SameTables

\* The two statements that move history from the duplicate to the kept row.
LEMMA ReferenceInv ==
    ASSUME CleanupInv, UpdateTransactions \/ UpdateStakingEvents
    PROVE  CleanupInv'
<1>1. /\ job # Off /\ job # Done /\ job.stage \in {"transactions", "staking"}
      /\ UNCHANGED <<wallets, schema, call, columns, removed>>
      /\ \E rows \in SUBSET History : Reference(rows)
      BY DEF UpdateTransactions, UpdateStakingEvents, Off, Done, History
<1>2. PICK stage \in {"staking", "merge"} : job' = [job EXCEPT !.stage = stage]
      BY DEF UpdateTransactions, UpdateStakingEvents
<1>3. PICK k \in wallets : /\ Keeping(job, k, wallets, columns)
                           /\ job.keep = EntityIn(k, columns)
      BY <1>1, AtWork
<1>4. job' = JobFor(job'.stage, k, wallets, columns) /\ job'.stage = stage
      BY <1>2, <1>3 DEF Keeping, JobFor
<1>5. StageOK(job', k, wallets, columns)
      BY <1>1, <1>3, <1>4 DEF Keeping, StageOK
<1>6. Working(job', wallets', columns')
      BY <1>1, <1>3, <1>4, <1>5 DEF Working, Keeping
<1>7. JobInv'
      BY <1>6 DEF JobInv
<1>8. HistoryReferences'
  <2>1. PICK rows \in SUBSET History : Reference(rows)
        BY <1>1
  <2>2. \A h \in History : walletId'[h] = walletId[h] \/ walletId'[h] = k.id
        BY <1>3, <2>1, EntityFields DEF Reference
  <2> QED BY <1>1, <1>3, <2>2 DEF CleanupInv, HistoryReferences
<1> QED BY <1>1, <1>7, <1>8, SameTables

\* The kept row with its checksum spelling, which no row of its account had.
Respelled(k) == [id |-> k.id, address |-> Checksummed(k.address.account)]

LEMMA UpdateAddressEffect ==
    ASSUME CleanupInv, UpdateAddress, NEW k \in wallets, Keeping(job, k, wallets, columns)
    PROVE  /\ wallets' = (wallets \ {k}) \cup {Respelled(k)}
           /\ Table(wallets')
           /\ \A r \in wallets : r.address # Checksummed(k.address.account)
<1>1. Table(wallets)
      BY TableInv DEF CleanupInv
<1>2. job.keep = EntityIn(k, columns) /\ job.stage = "address"
      BY JobFields DEF Keeping, UpdateAddress
<1>3. k = [id |-> k.id, address |-> k.address] /\ k.address \in Address
      BY <1>1 DEF Table, WalletRow
<1>4. [k EXCEPT !.address = normalizeAddress(job.keep.address)] = Respelled(k)
  <2> DEFINE i == k.id
             addr == k.address
             spelled == normalizeAddress(job.keep.address)
  <2> HIDE DEF i, addr, spelled
  <2>1. k = [id |-> i, address |-> addr]
        BY <1>3 DEF i, addr
  <2>2. [k EXCEPT !.address = spelled] = [id |-> i, address |-> spelled]
        BY <2>1
  <2>3. spelled = Checksummed(k.address.account)
        BY <1>2, EntityFields DEF spelled, normalizeAddress
  <2> QED BY <2>2, <2>3 DEF Respelled, spelled, i
<1>5. wallets' = {IF r.id = job.keep.id THEN [r EXCEPT !.address = normalizeAddress(job.keep.address)]
                  ELSE r : r \in wallets}
      BY DEF UpdateAddress
<1>6. \A r \in wallets : r.id = job.keep.id <=> r = k
      BY <1>1, <1>2, EntityFields DEF Table
<1>7. wallets' = (wallets \ {k}) \cup {Respelled(k)}
  <2> DEFINE New(r) == IF r.id = job.keep.id THEN [r EXCEPT !.address = normalizeAddress(job.keep.address)]
                       ELSE r
  <2>1. \A r \in wallets : New(r) = IF r = k THEN Respelled(k) ELSE r
        BY <1>4, <1>6
  <2>2. wallets' = {New(r) : r \in wallets}
        BY <1>5
  <2> HIDE DEF New
  <2> QED BY <2>1, <2>2
<1>8. Respelled(k) \in WalletRow /\ Respelled(k).id = k.id
      BY <1>1, <1>3, NormalizeType DEF Respelled, normalizeAddress, Table, WalletRow
<1>9. Table(wallets')
      BY <1>1, <1>7, <1>8 DEF Table
<1>10. ASSUME NEW r \in wallets, r.address = Checksummed(k.address.account) PROVE FALSE
  <2>1. r \in RowsOfAccount(wallets, k.address.account) /\ IsChecksum(r)
        BY <1>10 DEF RowsOfAccount, IsChecksum, normalizeAddress, Checksummed
  <2> QED BY <1>2, <2>1 DEF Keeping, StageOK
<1> QED BY <1>7, <1>9, <1>10

LEMMA RespelledFields ==
    ASSUME NEW k
    PROVE  /\ Respelled(k).id = k.id
           /\ Respelled(k).address = Checksummed(k.address.account)
           /\ Respelled(k).address.account = k.address.account
           /\ IsChecksum(Respelled(k))
BY DEF Respelled, Checksummed, IsChecksum, normalizeAddress

LEMMA UpdateAddressInv ==
    ASSUME CleanupInv, UpdateAddress
    PROVE  CleanupInv'
<1>1. job # Off /\ job # Done /\ job.stage = "address"
      /\ UNCHANGED <<schema, call, columns, walletId, removed>>
      BY DEF UpdateAddress, Off, Done
<1>2. PICK k \in wallets, d \in wallets :
          /\ Keeping(job, k, wallets, columns) /\ job.keep = EntityIn(k, columns)
          /\ d # k /\ d.address.account = k.address.account
      BY <1>1, AtWork
<1> DEFINE a == k.address.account
           k2 == Respelled(k)
<1>3. /\ wallets' = (wallets \ {k}) \cup {k2}
      /\ Table(wallets) /\ Table(wallets')
      /\ \A r \in wallets : r.address # Checksummed(a)
      BY <1>2, UpdateAddressEffect, TableInv DEF CleanupInv
<1>4. k2.id = k.id /\ k2.address = Checksummed(a) /\ k2.address.account = a /\ IsChecksum(k2)
      BY RespelledFields
<1>5. WalletInv'
      BY <1>1, <1>3, AtWork, QuietTable DEF CleanupInv
<1>6. AddressesUnique'
      BY <1>3, <1>4 DEF CleanupInv, AddressesUnique
<1>7. IdleBeforeMigration'
      BY <1>1 DEF CleanupInv, IdleBeforeMigration
<1>8. HistoryReferences'
      BY <1>1, <1>3, <1>4 DEF CleanupInv, HistoryReferences
<1>9. RemovedStayAway'
      BY <1>1, <1>3, <1>4 DEF CleanupInv, RemovedStayAway
<1> HIDE DEF k2
<1>10. GroupsBut(a, wallets', columns) = GroupsBut(a, wallets, columns)
  <2>1. \A r \in wallets \cup wallets' : r.address.account # a => r \in wallets \cap wallets'
        BY <1>3, <1>4
  <2> QED BY <2>1, OtherGroups
<1>11. RowsOfAccount(wallets', a) \ {k2} = RowsOfAccount(wallets, a) \ {k}
       BY <1>3, <1>4 DEF RowsOfAccount
<1>12. a \in SharedAccounts(wallets')
  <2>1. d \in wallets' /\ k2 \in wallets' /\ d # k2
        BY <1>2, <1>3, <1>4
  <2>2. a \in Accounts
        BY <1>2 DEF Keeping, SharedAccounts
  <2> QED BY <1>2, <1>4, <2>1, <2>2 DEF SharedAccounts
<1>13. job' = JobFor("transactions", k2, wallets', columns)
  <2>1. job = JobFor("address", k, wallets, columns)
        BY <1>1, <1>2 DEF Keeping
  <2>2. EntityIn(k2, columns) = [EntityIn(k, columns) EXCEPT !.address = normalizeAddress(job.keep.address)]
        BY <1>2, <1>4, EntityFields DEF EntityIn, normalizeAddress
  <2>3. job' = [job EXCEPT !.stage = "transactions", !.keep = EntityIn(k2, columns)]
        BY <1>2, <2>2 DEF UpdateAddress
  <2>4. job' = [stage |-> "transactions", keep |-> EntityIn(k2, columns),
                dups |-> job.dups, groups |-> job.groups]
        BY <2>1, <2>3 DEF JobFor
  <2>5. /\ job.dups = {EntityIn(r, columns) : r \in RowsOfAccount(wallets', a) \ {k2}}
        /\ job.groups = GroupsBut(a, wallets', columns)
        BY <1>10, <1>11, <2>1, JobFields
  <2> QED BY <1>4, <2>4, <2>5, Zenon DEF JobFor
<1>14. job'.stage = "transactions"
       BY <1>13 DEF JobFor
<1>15. StageOK(job', k2, wallets', columns')
       BY <1>4, <1>14 DEF StageOK
<1>16. JobInv'
       BY <1>1, <1>3, <1>4, <1>12, <1>13, <1>14, <1>15 DEF JobInv, Working, Keeping
<1>17. (columns \in [WalletIds -> Columns])'
       BY <1>1 DEF CleanupInv
<1> QED BY <1>5, <1>6, <1>7, <1>8, <1>9, <1>16, <1>17 DEF CleanupInv

\* What the merge gives is a row's columns again, not worse than either.
LEMMA MergedDataOK ==
    ASSUME NEW x \in Columns, NEW y \in Columns
    PROVE  /\ MergedData(x, y) \in Columns
           /\ MergedData(x, y).points = Greater(x.points, y.points)
           /\ MergedData(x, y).points \in {x.points, y.points}
           /\ x.points <= MergedData(x, y).points /\ y.points <= MergedData(x, y).points
           /\ x.changed <= MergedData(x, y).changed /\ y.changed <= MergedData(x, y).changed
           /\ \/ MergedData(x, y).changed = x.changed /\ MergedData(x, y).staking = x.staking
              \/ MergedData(x, y).changed = y.changed /\ MergedData(x, y).staking = y.staking
<1>1. /\ x.points \in Nat /\ y.points \in Nat /\ x.changed \in Nat /\ y.changed \in Nat
      /\ x.staking \in BOOLEAN /\ y.staking \in BOOLEAN
      BY Zenon DEF Columns
<1> DEFINE later == IF y.changed > x.changed THEN y ELSE x
<1>2. /\ MergedData(x, y).points = Greater(x.points, y.points)
      /\ MergedData(x, y).changed = later.changed
      /\ MergedData(x, y).staking = later.staking
      BY DEF MergedData
<1>3. Greater(x.points, y.points) \in {x.points, y.points}
      /\ x.points <= Greater(x.points, y.points) /\ y.points <= Greater(x.points, y.points)
      BY <1>1 DEF Greater
<1>4. later \in {x, y} /\ x.changed <= later.changed /\ y.changed <= later.changed
      BY <1>1
<1>5. MergedData(x, y) = [points |-> Greater(x.points, y.points), changed |-> later.changed, staking |-> later.staking]
      BY DEF MergedData
<1>6. Greater(x.points, y.points) \in Nat /\ later.changed \in Nat /\ later.staking \in BOOLEAN
      BY <1>1, <1>3, <1>4
<1>7. MergedData(x, y) \in Columns
  <2> HIDE DEF later
  <2> QED BY <1>5, <1>6 DEF Columns
<1> QED BY <1>2, <1>3, <1>4, <1>7

\* What the merge writes: the kept row gets the merged columns.
LEMMA MergeEffect ==
    ASSUME CleanupInv, MergeColumns, NEW k \in wallets, NEW d \in wallets,
           job.keep = EntityIn(k, columns), Duplicate = EntityIn(d, columns)
    PROVE  /\ columns[k.id] \in Columns /\ columns[d.id] \in Columns
           /\ columns' = [columns EXCEPT ![k.id] = MergedData(columns[k.id], columns[d.id])]
           /\ columns' \in [WalletIds -> Columns]
           /\ columns'[k.id] = MergedData(columns[k.id], columns[d.id])
           /\ \A i \in WalletIds : i # k.id => columns'[i] = columns[i]
<1>1. k.id \in WalletIds /\ d.id \in WalletIds
      BY TableInv DEF CleanupInv, Table, WalletRow
<1>2. columns \in [WalletIds -> Columns]
      BY DEF CleanupInv
<1>3. job.keep.columns = columns[k.id] /\ Duplicate.columns = columns[d.id] /\ job.keep.id = k.id
      BY EntityFields
<1>4. columns' = [columns EXCEPT ![k.id] = MergedData(columns[k.id], columns[d.id])]
      BY <1>3, Zenon DEF MergeColumns
<1>5. columns[k.id] \in Columns /\ columns[d.id] \in Columns
      BY <1>1, <1>2
<1>6. MergedData(columns[k.id], columns[d.id]) \in Columns
      BY <1>5, MergedDataOK
<1> QED BY <1>1, <1>2, <1>4, <1>5, <1>6

LEMMA MergeInv ==
    ASSUME CleanupInv, MergeColumns
    PROVE  CleanupInv'
<1>1. job # Off /\ job # Done /\ job.stage = "merge"
      /\ UNCHANGED <<wallets, schema, call, walletId, removed>>
      BY DEF MergeColumns, Off, Done
<1>2. PICK k \in wallets, d \in wallets :
          /\ Keeping(job, k, wallets, columns) /\ job.keep = EntityIn(k, columns)
          /\ Duplicate = EntityIn(d, columns)
      BY <1>1, AtWork
<1> DEFINE a == k.address.account
           merged == MergedData(columns[k.id], columns[d.id])
<1>3. Table(wallets)
      BY TableInv DEF CleanupInv
<1>4. k.id \in WalletIds
      BY <1>3 DEF Table, WalletRow
<1>5. /\ columns[k.id] \in Columns /\ columns[d.id] \in Columns
      /\ columns' \in [WalletIds -> Columns]
      /\ columns'[k.id] = merged
      /\ \A i \in WalletIds : i # k.id => columns'[i] = columns[i]
      BY <1>1, <1>2, MergeEffect
<1>6. \A r \in wallets : r # k => EntityIn(r, columns') = EntityIn(r, columns) /\ columns'[r.id] = columns[r.id]
  <2> TAKE r \in wallets
  <2>1. r.id \in WalletIds /\ (r # k => r.id # k.id)
        BY <1>3 DEF Table, WalletRow
  <2> QED BY <1>5, <2>1 DEF EntityIn
<1>7. GroupsBut(a, wallets, columns') = GroupsBut(a, wallets, columns)
  <2>1. \A r \in wallets : r.address.account # a => columns'[r.id] = columns[r.id]
        BY <1>6
  <2>2. \A r \in wallets \cup wallets : r.address.account # a => r \in wallets \cap wallets
        OBVIOUS
  <2> QED BY <2>1, <2>2, OtherGroups
<1>8. job.dups = {EntityIn(r, columns') : r \in RowsOfAccount(wallets, a) \ {k}}
  <2>1. job.dups = {EntityIn(r, columns) : r \in RowsOfAccount(wallets, a) \ {k}}
        BY <1>2, JobFields DEF Keeping
  <2>2. \A r \in RowsOfAccount(wallets, a) \ {k} : EntityIn(r, columns') = EntityIn(r, columns)
        BY <1>6 DEF RowsOfAccount
  <2> QED BY <2>1, <2>2
<1>9. job' = JobFor("remove", k, wallets, columns')
  <2> HIDE DEF merged
  <2>1. job = JobFor("merge", k, wallets, columns)
        BY <1>1, <1>2 DEF Keeping
  <2>2. EntityIn(k, columns') = [EntityIn(k, columns) EXCEPT !.columns = merged]
        BY <1>5 DEF EntityIn
  <2>3. job.keep.columns = columns[k.id] /\ Duplicate.columns = columns[d.id]
        BY <1>2, EntityFields
  <2>4. job' = [job EXCEPT !.stage = "remove", !.keep.columns = merged]
        BY <2>3, Zenon DEF MergeColumns, merged
  <2>5. job' = [stage |-> "remove", keep |-> [job.keep EXCEPT !.columns = merged],
                dups |-> job.dups, groups |-> job.groups]
        BY <2>1, <2>4 DEF JobFor
  <2>6. job.groups = GroupsBut(a, wallets, columns')
        BY <1>7, <2>1, JobFields
  <2> QED BY <1>2, <1>8, <2>2, <2>5, <2>6, Zenon DEF JobFor
<1>10. job'.stage = "remove" /\ job'.dups = job.dups
       BY <1>8, <1>9, JobFields
<1>11. StageOK(job', k, wallets, columns')
  <2>1. Oldest(job'.dups).columns = columns[d.id]
        BY <1>2, <1>10, EntityFields DEF Duplicate
  <2>2. columns[d.id].points <= merged.points /\ columns[d.id].changed <= merged.changed
        BY <1>5, MergedDataOK
  <2>3. IsChecksum(k)
        BY <1>1, <1>2 DEF Keeping, StageOK
  <2> QED BY <1>5, <1>10, <2>1, <2>2, <2>3 DEF StageOK
<1>12. JobInv'
  <2>1. Keeping(job', k, wallets, columns')
        BY <1>2, <1>9, <1>10, <1>11 DEF Keeping
  <2> QED BY <1>1, <2>1 DEF JobInv, Working
<1>13. WalletInv'
       BY <1>1, WalletStutterInv DEF CleanupInv, walletVars
<1> QED BY <1>1, <1>5, <1>12, <1>13 DEF CleanupInv, AddressesUnique, IdleBeforeMigration,
                                     HistoryReferences, RemovedStayAway

\* What the DELETE leaves: every row but the duplicate, with its columns.
LEMMA RemoveEffect ==
    ASSUME CleanupInv, RemoveDuplicate, NEW d \in wallets, Duplicate = EntityIn(d, columns)
    PROVE  /\ wallets' = wallets \ {d} /\ Table(wallets')
           /\ removed' = removed \cup {d.id}
           /\ columns' \in [WalletIds -> Columns]
           /\ \A r \in wallets' : columns'[r.id] = columns[r.id] /\ EntityIn(r, columns') = EntityIn(r, columns)
           /\ \A h \in History : walletId[h] # d.id
<1>1. Table(wallets)
      BY TableInv DEF CleanupInv
<1>2. Duplicate.id = d.id
      BY EntityFields
<1>3. wallets' = wallets \ {d}
      BY <1>1, <1>2 DEF RemoveDuplicate, Table
<1>4. columns' = [columns EXCEPT ![d.id] = Defaults]
      BY <1>2, Zenon DEF RemoveDuplicate
<1>5. columns \in [WalletIds -> Columns] /\ Defaults \in Columns
      BY DEF CleanupInv, Defaults, Columns
<1>6. columns' \in [WalletIds -> Columns] /\ \A i \in WalletIds : i # d.id => columns'[i] = columns[i]
      BY <1>4, <1>5
<1>7. \A r \in wallets' : r.id \in WalletIds /\ r.id # d.id
      BY <1>1, <1>3 DEF Table, WalletRow
<1>8. removed' = removed \cup {d.id} /\ \A h \in History : walletId[h] # d.id
      BY <1>2 DEF RemoveDuplicate
<1>9. Table(wallets')
      BY <1>1, <1>3 DEF Table
<1> QED BY <1>3, <1>6, <1>7, <1>8, <1>9 DEF EntityIn

LEMMA RemoveInv ==
    ASSUME CleanupInv, RemoveDuplicate
    PROVE  CleanupInv'
<1>1. job # Off /\ job # Done /\ job.stage = "remove" /\ UNCHANGED <<schema, call, walletId>>
      BY DEF RemoveDuplicate, Off, Done
<1>2. PICK k \in wallets, d \in wallets :
          /\ Keeping(job, k, wallets, columns) /\ job.keep = EntityIn(k, columns)
          /\ Duplicate = EntityIn(d, columns) /\ Duplicate \in job.dups
          /\ d # k /\ d.id # k.id /\ d.address.account = k.address.account
      BY <1>1, AtWork
<1> DEFINE a == k.address.account
           rest == RowsOfAccount(wallets', a) \ {k}
<1>3. /\ wallets' = wallets \ {d} /\ Table(wallets) /\ Table(wallets')
      /\ removed' = removed \cup {d.id}
      /\ columns' \in [WalletIds -> Columns]
      /\ \A r \in wallets' : columns'[r.id] = columns[r.id] /\ EntityIn(r, columns') = EntityIn(r, columns)
      /\ \A h \in History : walletId[h] # d.id
      BY <1>2, RemoveEffect, TableInv DEF CleanupInv
<1>4. WalletInv'
      BY <1>1, <1>3, AtWork, QuietTable DEF CleanupInv
<1>5. AddressesUnique' /\ IdleBeforeMigration' /\ HistoryReferences'
      BY <1>1, <1>3 DEF CleanupInv, AddressesUnique, IdleBeforeMigration, HistoryReferences
<1>6. RemovedStayAway'
      BY <1>3 DEF CleanupInv, RemovedStayAway, Table
<1>7. job.groups = GroupsBut(a, wallets', columns')
  <2>1. \A r \in wallets \cup wallets' : r.address.account # a => r \in wallets \cap wallets'
        BY <1>2, <1>3
  <2>2. \A r \in wallets : r.address.account # a => columns'[r.id] = columns[r.id]
        BY <1>2, <1>3
  <2>3. GroupsBut(a, wallets', columns') = GroupsBut(a, wallets, columns)
        BY <2>1, <2>2, OtherGroups
  <2> QED BY <1>2, <2>3, JobFields DEF Keeping
<1>8. /\ job.dups = {EntityIn(r, columns) : r \in RowsOfAccount(wallets, a) \ {k}}
      /\ IsChecksum(k) /\ k \in wallets' /\ a \in Accounts
      BY <1>1, <1>2, <1>3, JobFields DEF Keeping, StageOK, SharedAccounts
<1>9. job.dups \ {Duplicate} = {EntityIn(r, columns') : r \in rest}
  <2>1. \A r \in wallets : r # d => EntityIn(r, columns) # Duplicate
        BY <1>2, <1>3, EntityFields DEF Table
  <2>2. rest = (RowsOfAccount(wallets, a) \ {k}) \ {d}
        BY <1>3 DEF RowsOfAccount
  <2>3. job.dups \ {Duplicate} = {EntityIn(r, columns) : r \in rest}
    <3> HIDE DEF rest
    <3>1. \A r \in RowsOfAccount(wallets, a) \ {k} : r \in wallets
          BY DEF RowsOfAccount
    <3> QED BY <1>2, <1>8, <2>1, <2>2, <3>1
  <2>4. \A r \in rest : EntityIn(r, columns') = EntityIn(r, columns)
        BY <1>3 DEF RowsOfAccount
  <2> QED BY <2>3, <2>4
<1>10. CASE job.dups = {Duplicate}
  <2>1. rest = {}
        BY <1>9, <1>10
  <2>2. a \notin SharedAccounts(wallets')
        BY <2>1 DEF RowsOfAccount, SharedAccounts
  <2>3. job.groups = {EntitiesOf(b, wallets', columns') : b \in SharedAccounts(wallets')}
        BY <1>7, <2>2 DEF GroupsBut
  <2>4. job' = NextGroup(job.groups)
        BY <1>10 DEF RemoveDuplicate
  <2>5. CASE SharedAccounts(wallets') = {}
    <3>1. job' = Done
          BY <1>3, <2>3, <2>4, <2>5, NextGroupWorks
    <3>2. CanIndex'
      <4>1. \A r \in wallets' : r.address.account \in Accounts
            BY <1>3 DEF Table, WalletRow, Address
      <4> QED BY <2>5, <4>1 DEF SharedAccounts, CanIndex
    <3> QED BY <1>3, <1>4, <1>5, <1>6, <3>1, <3>2 DEF CleanupInv, JobInv
  <2>6. CASE SharedAccounts(wallets') # {}
    <3>0. Working(NextGroup({EntitiesOf(b, wallets', columns') : b \in SharedAccounts(wallets')}), wallets', columns')
          BY <1>3, <2>6, NextGroupWorks
    <3>1. Working(job', wallets', columns')
          BY <2>3, <2>4, <3>0, Zenon
    <3> QED BY <1>3, <1>4, <1>5, <1>6, <3>1 DEF CleanupInv, JobInv
  <2> QED BY <2>5, <2>6
<1>11. CASE job.dups # {Duplicate}
  <2>1. job' = [job EXCEPT !.stage = "transactions", !.dups = job.dups \ {Duplicate}]
        BY <1>11 DEF RemoveDuplicate
  <2>2. job = JobFor("remove", k, wallets, columns)
        BY <1>1, <1>2 DEF Keeping
  <2>3. job' = [stage |-> "transactions", keep |-> job.keep,
                dups |-> job.dups \ {Duplicate}, groups |-> job.groups]
        BY <2>1, <2>2 DEF JobFor
  <2>4. job.keep = EntityIn(k, columns')
        BY <1>2, <1>3, <1>8
  <2>5. job' = JobFor("transactions", k, wallets', columns')
        BY <1>7, <1>9, <2>3, <2>4, Zenon DEF JobFor
  <2>6. job'.stage = "transactions"
        BY <2>5, JobFields
  <2>7. a \in SharedAccounts(wallets')
    <3>1. rest # {}
          BY <1>2, <1>9, <1>11
    <3> QED BY <1>8, <3>1 DEF RowsOfAccount, SharedAccounts
  <2>8. StageOK(job', k, wallets', columns')
        BY <1>8, <2>6 DEF StageOK
  <2>9. JobInv'
        BY <1>8, <2>5, <2>6, <2>7, <2>8 DEF JobInv, Working, Keeping
  <2> QED BY <1>3, <1>4, <1>5, <1>6, <2>9 DEF CleanupInv
<1> QED BY <1>10, <1>11

LEMMA CleanupStepInv ==
    ASSUME CleanupInv, CleanupStep
    PROVE  CleanupInv'
BY StartInv, UpdateAddressInv, ReferenceInv, MergeInv, RemoveInv, StopInv DEF CleanupStep

-----------------------------------------------------------------------------
(* The registry's own steps, on what a cleanup has left before them.     *)

\* Before the migrations the registry is still; after them it only grows.
LEMMA RegistryMoves ==
    ASSUME CleanupInv, WalletNext
    PROVE  /\ wallets \subseteq wallets' /\ IdleBeforeMigration'
           /\ schema = "old" => wallets' = wallets
           /\ schema' = "old" => schema = "old"
<1>1. CASE Migrate
      BY <1>1 DEF Migrate, CleanupInv, IdleBeforeMigration
<1>2. ASSUME NEW w \in Workers, NEW addr \in Address, BeginCall(w, addr)
      PROVE  wallets' = wallets /\ schema' = schema /\ schema = "new"
      BY <1>2 DEF BeginCall
<1>3. ASSUME NEW w \in Workers, ReturnCall(w)
      PROVE  wallets' = wallets /\ schema' = schema /\ schema # "old"
  <2>1. call[w].stage # "idle"
        BY <1>3 DEF ReturnCall, Finished
  <2> QED BY <1>3, <2>1 DEF ReturnCall, CleanupInv, IdleBeforeMigration
<1>4. ASSUME NEW w \in Workers, CallStep(w)
      PROVE  wallets \subseteq wallets' /\ schema' = schema /\ schema # "old"
  <2>1. call[w].stage # "idle" /\ schema' = schema
        BY <1>4 DEF CallStep, FindWallet, InsertWallet, InsertReplyLost, InsertAccepted,
                    InsertConflict, Refetch, RefetchOuter, CallFaults
  <2>2. wallets \subseteq wallets'
        BY <1>4, CallStepFrame DEF CleanupInv
  <2> QED BY <2>1, <2>2 DEF CleanupInv, IdleBeforeMigration
<1> QED BY <1>1, <1>2, <1>3, <1>4 DEF WalletNext, IdleBeforeMigration

\* A new row has an id and an account of its own.
LEMMA NewRows ==
    ASSUME CleanupInv, WalletNext
    PROVE  /\ WalletInv'
           /\ \A r \in wallets' \ wallets : /\ r.id \in WalletIds
                                            /\ \A s \in wallets : /\ r.id # s.id
                                                                  /\ r.address.account # s.address.account
<1>1. WalletInv'
      BY WalletNextInv DEF CleanupInv
<1>2. wallets \subseteq wallets' /\ (schema = "old" => wallets' = wallets)
      /\ (schema' = "old" => schema = "old")
      BY RegistryMoves
<1>3. Table(wallets')
      BY <1>1 DEF WalletInv, WalletTypeOK, IdsUnique, Table
<1>4. wallets' # wallets => CanIndex'
  <2>1. schema \in {"old", "new"} /\ schema' \in {"old", "new"}
        BY <1>1 DEF CleanupInv, WalletInv, WalletTypeOK
  <2> QED BY <1>1, <1>2, <2>1 DEF WalletInv, OneRowPerAccount
<1>5. ASSUME NEW r \in wallets' \ wallets, NEW s \in wallets
      PROVE  r.id # s.id /\ r.address.account # s.address.account
      BY <1>2, <1>3, <1>4 DEF Table, CanIndex
<1> QED BY <1>1, <1>3, <1>5 DEF Table, WalletRow

LEMMA DoneIndexes == CleanupInv => CleanupEnablesIndex
<1>1. job = Done => ~Working(job, wallets, columns)
      BY DEF Working, Keeping, StageOK, Done
<1>2. job = Done => job # Off
      BY DEF Done, Off
<1> QED BY <1>1, <1>2 DEF CleanupInv, JobInv, CleanupEnablesIndex

LEMMA RegistryInv ==
    ASSUME CleanupInv, WalletNext, \A r \in wallets' \ wallets : r.id \notin removed,
           UNCHANGED <<columns, walletId, removed, job>>
    PROVE  CleanupInv'
<1>1. /\ WalletInv' /\ wallets \subseteq wallets' /\ IdleBeforeMigration'
      /\ schema = "old" => wallets' = wallets
      /\ schema' = "old" => schema = "old"
      BY RegistryMoves, NewRows
<1>2. schema \in {"old", "new"} /\ schema' \in {"old", "new"}
      BY <1>1 DEF CleanupInv, WalletInv, WalletTypeOK
<1>3. AddressesUnique'
  <2>1. CASE schema' = "new"
        BY <1>1, <2>1 DEF WalletInv, OneRowPerAccount, CanIndex, AddressesUnique
  <2>2. CASE schema' = "old"
        BY <1>1, <2>2 DEF CleanupInv, AddressesUnique
  <2> QED BY <1>2, <2>1, <2>2
<1>4. HistoryReferences' /\ RemovedStayAway' /\ (columns \in [WalletIds -> Columns])'
      BY <1>1 DEF CleanupInv, HistoryReferences, RemovedStayAway
<1>5. JobInv'
  <2>1. CASE job = Off
    <3>1. job' = Off
          BY <2>1
    <3> QED BY <3>1 DEF JobInv
  <2>2. CASE job = Done
    <3>0. CanIndex
          BY <2>2, DoneIndexes DEF CleanupEnablesIndex
    <3>1. CASE schema = "new"
          BY <1>1, <1>2, <2>2, <3>1 DEF WalletInv, OneRowPerAccount, JobInv
    <3>2. CASE schema = "old"
          BY <1>1, <2>2, <3>0, <3>2 DEF JobInv, CanIndex
    <3> QED BY <1>2, <3>1, <3>2
  <2>3. CASE job # Off /\ job # Done
    <3>1. wallets' = wallets
          BY <1>1, <2>3, AtWork
    <3> QED BY <2>3, <3>1 DEF CleanupInv, JobInv
  <2> QED BY <2>1, <2>2, <2>3
<1> QED BY <1>1, <1>3, <1>4, <1>5 DEF CleanupInv

-----------------------------------------------------------------------------
(* The token a client holds, whatever the cleanup does to the row it names. *)

\* While rows are only added, a token stays as good as it was.
LEMMA TokenOverGrowth ==
    ASSUME TokenInv, UNCHANGED <<removed, token>>, wallets \subseteq wallets'
    PROVE  TokenInv'
BY DEF TokenInv, NamedWallet, FindByAddress

\* The respelled row keeps its id and its account.
LEMMA TokenOverRespelling ==
    ASSUME CleanupInv, TokenInv, UpdateAddress, UNCHANGED token
    PROVE  TokenInv'
<1>1. job # Off /\ job # Done /\ removed' = removed
      BY DEF UpdateAddress, Off, Done
<1>2. PICK k \in wallets : Keeping(job, k, wallets, columns)
      BY <1>1, AtWork
<1>3. /\ wallets' = (wallets \ {k}) \cup {Respelled(k)}
      /\ \A r \in wallets : r.address # Checksummed(k.address.account)
      BY <1>2, UpdateAddressEffect
<1>4. /\ Respelled(k).id = k.id
      /\ Respelled(k).address.account = k.address.account
      BY RespelledFields
<1>5. FindByAddress(token.username) # {} => FindByAddress(token.username)' # {}
  <2> SUFFICES ASSUME NEW r \in wallets, r.address = normalizeAddress(token.username)
               PROVE  r \in wallets'
      BY DEF FindByAddress
  <2>1. r.address = Checksummed(r.address.account)
        BY DEF normalizeAddress, Checksummed
  <2> QED BY <1>2, <1>3, <2>1
<1>6. \A r \in NamedWallet : \E s \in NamedWallet' : s.address.account = r.address.account
      BY <1>3, <1>4 DEF NamedWallet
<1> QED BY <1>1, <1>5, <1>6 DEF TokenInv

\* The deleted row leaves behind the checksum row of its account, which the
\* next login of that account finds.
LEMMA TokenOverRemoval ==
    ASSUME CleanupInv, TokenInv, RemoveDuplicate, UNCHANGED token
    PROVE  TokenInv'
<1>1. job # Off /\ job # Done /\ job.stage = "remove"
      BY DEF RemoveDuplicate, Off, Done
<1>2. PICK k \in wallets, d \in wallets :
          /\ Keeping(job, k, wallets, columns)
          /\ Duplicate = EntityIn(d, columns)
          /\ d # k /\ d.address.account = k.address.account
      BY <1>1, AtWork
<1>3. wallets' = wallets \ {d} /\ removed' = removed \cup {d.id}
      BY <1>2, RemoveEffect
<1>4. k.address = Checksummed(k.address.account) /\ k \in wallets'
      BY <1>1, <1>2, <1>3 DEF Keeping, StageOK, IsChecksum, normalizeAddress
<1>5. d.address # k.address
      BY <1>2 DEF CleanupInv, AddressesUnique
<1>6. CASE token = NoToken
      BY <1>6 DEF TokenInv
<1>7. ASSUME NEW r \in NamedWallet, r.address.account = token.username.account
      PROVE  TokenInv'
  <2>1. CASE r = d
    <3>1. token.sub \in removed' /\ k \in FindByAddress(token.username)'
          BY <1>2, <1>3, <1>4, <1>7, <2>1 DEF NamedWallet, FindByAddress, normalizeAddress
    <3> QED BY <3>1 DEF TokenInv
  <2>2. CASE r # d
        BY <1>3, <1>7, <2>2 DEF TokenInv, NamedWallet
  <2> QED BY <2>1, <2>2
<1>8. ASSUME token.sub \in removed, FindByAddress(token.username) # {}
      PROVE  TokenInv'
  <2>1. PICK r \in wallets : r.address = Checksummed(token.username.account)
        BY <1>8 DEF FindByAddress, normalizeAddress
  <2>2. r # d
    <3> SUFFICES ASSUME r = d PROVE FALSE
        OBVIOUS
    <3>1. d.address.account = token.username.account
          BY <2>1 DEF Checksummed
    <3> QED BY <1>2, <1>4, <1>5, <2>1, <3>1
  <2>3. r \in FindByAddress(token.username)'
        BY <1>3, <2>1, <2>2 DEF FindByAddress, normalizeAddress
  <2> QED BY <1>3, <1>8, <2>3 DEF TokenInv
<1> QED BY <1>6, <1>7, <1>8 DEF TokenInv

LEMMA TokenOverCleanup ==
    ASSUME CleanupInv, TokenInv, CleanupStep, UNCHANGED token
    PROVE  TokenInv'
<1>1. ASSUME wallets' = wallets, removed' = removed
      PROVE  TokenInv'
      BY <1>1, TokenOverGrowth
<1> QED
    BY <1>1, TokenOverRespelling, TokenOverRemoval
    DEF CleanupStep, cleanupDuplicateWallets, UpdateTransactions, UpdateStakingEvents,
        MergeColumns, CleanupStops, CleanupReturns

\* Login and refresh sign what they have just read.
LEMMA SignedToken ==
    ASSUME NEW r \in wallets', token' = TokenOf(r)
    PROVE  TokenInv'
BY DEF TokenInv, NamedWallet, TokenOf

LEMMA AuthStutter == AuthInv /\ UNCHANGED authVars => AuthInv'
<1> SUFFICES ASSUME AuthInv, UNCHANGED authVars PROVE AuthInv'
    OBVIOUS
<1> USE DEF authVars, AuthInv
<1>1. HistoryReferences'
      BY DEF CleanupInv, HistoryReferences
<1>2. JobInv'
      BY DEF CleanupInv, JobInv, CanIndex
<1>3. CleanupInv'
      BY <1>1, <1>2, SameTables
<1>4. TokenInv'
      BY TokenOverGrowth
<1> QED BY <1>3, <1>4

LEMMA AuthNextInv == AuthInv /\ [AuthNext]_authVars => AuthInv'
<1> SUFFICES ASSUME AuthInv, [AuthNext]_authVars PROVE AuthInv'
    OBVIOUS
<1> USE DEF AuthInv
<1>1. CASE RegistryStep /\ UNCHANGED token
  <2>1. CleanupInv'
        BY <1>1, RegistryInv DEF RegistryStep
  <2>2. TokenInv'
        BY <1>1, RegistryMoves, TokenOverGrowth DEF RegistryStep
  <2> QED BY <2>1, <2>2
<1>2. CASE CleanupStep /\ UNCHANGED token
      BY <1>2, CleanupStepInv, TokenOverCleanup
<1>3. ASSUME NEW w \in Workers, LoginEnds(w) PROVE AuthInv'
  <2>1. WalletNext /\ wallets' = wallets /\ UNCHANGED <<columns, walletId, removed, job>>
        BY <1>3 DEF LoginEnds, ReturnCall, WalletNext
  <2>2. CleanupInv'
        BY <2>1, RegistryInv
  <2>3. TokenInv'
        BY <1>3, <2>1, SignedToken DEF LoginEnds, FindByAddress
  <2> QED BY <2>2, <2>3
<1>4. CASE refreshTokenUser \/ TokenExpires
  <2>1. UNCHANGED cleanupVars
        BY <1>4 DEF refreshTokenUser, TokenExpires
  <2>2. HistoryReferences' /\ JobInv'
        BY <2>1 DEF cleanupVars, CleanupInv, HistoryReferences, JobInv, CanIndex
  <2>3. CleanupInv'
        BY <2>1, <2>2, SameTables DEF cleanupVars
  <2>4. CASE refreshTokenUser
        BY <2>1, <2>3, <2>4, SignedToken DEF refreshTokenUser, NamedWallet, cleanupVars
  <2>5. CASE TokenExpires
        BY <2>3, <2>5 DEF TokenExpires, TokenInv
  <2> QED BY <1>4, <2>4, <2>5
<1>5. CASE UNCHANGED authVars
      BY <1>5, AuthStutter
<1> QED BY <1>1, <1>2, <1>3, <1>4, <1>5 DEF AuthNext, CleanupNext

LEMMA AuthInvHolds == AuthSpec => []AuthInv
BY AuthInitInv, AuthNextInv, PTL DEF AuthSpec

-----------------------------------------------------------------------------
\* The registry keeps the promises it was proved to keep alone on the table
\* that a cleanup leaves, complete or stopped: types, one row per account once
\* the server is up, and findOrCreateByAddress safe under races.  Only an empty
\* cleanup runs beside calls of the registry: IdleBeforeMigration.
THEOREM RegistryUnderCleanup ==
    AuthSpec => [](WalletTypeOK /\ OneRowPerAccount /\ RaceNeverRethrows /\ EnsuredIsStored)
<1>1. AuthInv => WalletTypeOK /\ OneRowPerAccount /\ RaceNeverRethrows /\ EnsuredIsStored
      BY DEF AuthInv, CleanupInv, WalletInv
<1> QED BY AuthInvHolds, <1>1, PTL

\* For any number of accounts and spellings, and wherever earlier attempts
\* stopped: a cleanup that ends has left a table the index fits on.
THEOREM CleanupEnablesIndexHolds == AuthSpec => []CleanupEnablesIndex
<1>1. AuthInv => CleanupEnablesIndex
      BY DoneIndexes DEF AuthInv
<1> QED BY AuthInvHolds, <1>1, PTL

\* A client's token names a wallet of its account, or a login finds one.
THEOREM TokenOrLoginHolds == AuthSpec => []TokenOrLogin
<1>1. AuthInv => TokenOrLogin
      BY DEF AuthInv, CleanupInv, TokenInv, TokenOrLogin, RemovedStayAway, NamedWallet
<1> QED BY AuthInvHolds, <1>1, PTL

-----------------------------------------------------------------------------
(* History stays with its account, step by step. *)

\* The rows of a reference keep their accounts when the reference stays and
\* the rows it names are the same.
LEMMA SameReference ==
    ASSUME walletId' = walletId,
           \A h \in History : RowsNamed(wallets', walletId[h]) = RowsNamed(wallets, walletId[h])
    PROVE  AccountsStay
BY DEF AccountsStay

\* New rows have ids no history refers to.
LEMMA HistoryOverGrowth ==
    ASSUME CleanupInv, WalletNext, walletId' = walletId
    PROVE  AccountsStay
<1>1. wallets \subseteq wallets'
      BY RegistryMoves
<1>2. ASSUME NEW h \in History, NEW r \in wallets' \ wallets PROVE r.id # walletId[h]
  <2>1. r.id \in WalletIds /\ \A s \in wallets : r.id # s.id
        BY NewRows
  <2>2. walletId[h] = "none" \/ \E s \in wallets : s.id = walletId[h]
        BY DEF CleanupInv, HistoryReferences
  <2> QED BY <2>1, <2>2, CleanupAssumption
<1> QED BY <1>1, <1>2, SameReference DEF RowsNamed

\* The two statements that move history move it within an account.
LEMMA HistoryOverReference ==
    ASSUME CleanupInv, UpdateTransactions \/ UpdateStakingEvents
    PROVE  AccountsStay
<1>1. /\ job # Off /\ job # Done /\ wallets' = wallets
      /\ \E rows \in SUBSET History : Reference(rows)
      BY DEF UpdateTransactions, UpdateStakingEvents, Off, Done, History
<1>2. PICK k \in wallets, d \in wallets :
          /\ job.keep = EntityIn(k, columns) /\ Duplicate = EntityIn(d, columns)
          /\ d.address.account = k.address.account
      BY <1>1, AtWork
<1>3. Table(wallets)
      BY TableInv DEF CleanupInv
<1>4. RowsNamed(wallets, k.id) = {k} /\ RowsNamed(wallets, d.id) = {d}
      BY <1>3 DEF RowsNamed, Table
<1>5. AccountsOf(RowsNamed(wallets, k.id)) = AccountsOf(RowsNamed(wallets, d.id))
      BY <1>2, <1>4 DEF AccountsOf
<1>6. \A h \in History : \/ walletId'[h] = walletId[h]
                         \/ walletId[h] = d.id /\ walletId'[h] = k.id
      BY <1>1, <1>2, EntityFields DEF Reference
<1> QED BY <1>1, <1>5, <1>6 DEF AccountsStay

LEMMA HistoryOverRespelling ==
    ASSUME CleanupInv, UpdateAddress
    PROVE  AccountsStay
<1>1. job # Off /\ job # Done /\ walletId' = walletId
      BY DEF UpdateAddress, Off, Done
<1>2. PICK k \in wallets : Keeping(job, k, wallets, columns)
      BY <1>1, AtWork
<1>3. wallets' = (wallets \ {k}) \cup {Respelled(k)}
      BY <1>2, UpdateAddressEffect
<1>4. Respelled(k).id = k.id /\ Respelled(k).address.account = k.address.account
      BY RespelledFields
<1>5. ASSUME NEW h \in History
      PROVE  AccountsOf(RowsNamed(wallets, walletId[h])) = AccountsOf(RowsNamed(wallets', walletId[h]))
  <2>1. \A r \in RowsNamed(wallets, walletId[h]) : \E s \in RowsNamed(wallets', walletId[h]) :
            s.address.account = r.address.account
        BY <1>3, <1>4 DEF RowsNamed
  <2>2. \A s \in RowsNamed(wallets', walletId[h]) : \E r \in RowsNamed(wallets, walletId[h]) :
            s.address.account = r.address.account
        BY <1>3, <1>4 DEF RowsNamed
  <2> QED BY <2>1, <2>2 DEF AccountsOf
<1> QED BY <1>1, <1>5 DEF AccountsStay

\* The foreign key kept the DELETE from any row that history names.
LEMMA HistoryOverRemoval ==
    ASSUME CleanupInv, RemoveDuplicate
    PROVE  AccountsStay
<1>1. job # Off /\ job # Done /\ walletId' = walletId
      BY DEF RemoveDuplicate, Off, Done
<1>2. PICK d \in wallets : Duplicate = EntityIn(d, columns)
      BY <1>1, AtWork
<1>3. wallets' = wallets \ {d} /\ \A h \in History : walletId[h] # d.id
      BY <1>2, RemoveEffect
<1> QED BY <1>1, <1>3, SameReference DEF RowsNamed

LEMMA HistoryOverCleanup ==
    ASSUME CleanupInv, CleanupStep
    PROVE  AccountsStay
<1>1. ASSUME wallets' = wallets, walletId' = walletId PROVE AccountsStay
      BY <1>1, SameReference
<1> QED
    BY <1>1, HistoryOverReference, HistoryOverRespelling, HistoryOverRemoval
    DEF CleanupStep, cleanupDuplicateWallets, MergeColumns, CleanupStops, CleanupReturns

LEMMA HistoryOverAuth == AuthInv /\ [AuthNext]_authVars => [AccountsStay]_cleanupVars
<1> SUFFICES ASSUME AuthInv, [AuthNext]_authVars, ~UNCHANGED cleanupVars PROVE AccountsStay
    OBVIOUS
<1> USE DEF AuthInv
<1>1. CASE RegistryStep
      BY <1>1, HistoryOverGrowth DEF RegistryStep
<1>2. CASE CleanupStep
      BY <1>2, HistoryOverCleanup
<1>3. ASSUME NEW w \in Workers, LoginEnds(w) PROVE AccountsStay
      BY <1>3, SameReference DEF LoginEnds, ReturnCall
<1> QED
    BY <1>1, <1>2, <1>3 DEF AuthNext, CleanupNext, refreshTokenUser, TokenExpires, authVars, cleanupVars

\* For any history and any number of spellings: whatever statement of the
\* cleanup ran last and whichever fails next, a row of history belongs to the
\* account it belonged to.
THEOREM HistoryStaysHolds == AuthSpec => HistoryStays
BY AuthInvHolds, HistoryOverAuth, PTL DEF AuthSpec, HistoryStays

-----------------------------------------------------------------------------
(* The best points and the last status of an account's rows. *)

\* Rows and columns as the tables hold them: what is compared are numbers.
LEMMA Numbers ==
    ASSUME NEW rows, rows \subseteq WalletRow, NEW cols \in [WalletIds -> Columns]
    PROVE  \A r \in rows : /\ r.id \in WalletIds /\ cols[r.id] \in Columns
                           /\ cols[r.id].points \in Nat /\ cols[r.id].changed \in Nat
<1>1. \A r \in rows : r.id \in WalletIds /\ cols[r.id] \in Columns
      BY DEF WalletRow
<1>2. \A c \in Columns : c.points \in Nat /\ c.changed \in Nat
      BY DEF Columns
<1> QED BY <1>1, <1>2

\* Among the rows of an account, one changed its status last.
LEMMA LastStatusExists ==
    ASSUME NEW rows, Table(rows), rows # {}, NEW cols \in [WalletIds -> Columns]
    PROVE  LastStatus(rows, cols) # {}
<1> DEFINE f == [r \in rows |-> cols[r.id].changed]
<1>1. f \in [rows -> Nat]
      BY Numbers DEF Table
<1>2. IsFiniteSet(rows)
      BY RowsFinite DEF Table
<1>3. PICK m \in rows : \A n \in rows : f[n] <= f[m]
  <2> HIDE DEF f
  <2> QED BY <1>1, <1>2, GreatestExists
<1>4. \A n \in rows : cols[n.id].changed <= cols[m.id].changed
      BY <1>3
<1> QED BY <1>4 DEF LastStatus

\* They depend on the ids of the rows and the columns of those ids only.
LEMMA BestByIds ==
    ASSUME NEW before, NEW after, Table(before), Table(after),
           NEW cols, NEW newCols \in [WalletIds -> Columns],
           \A r \in before : \E s \in after : s.id = r.id,
           \A s \in after : (\E r \in before : r.id = s.id) /\ newCols[s.id] = cols[s.id]
    PROVE  SameBest(before, cols, after, newCols)
<1> SUFFICES ASSUME before # {} PROVE SameBest(before, cols, after, newCols)
    BY DEF SameBest
<1>1. after # {}
      OBVIOUS
<1>2. LastStatus(after, newCols) # {}
      BY <1>1, LastStatusExists
<1>3. Best(after, newCols) = Best(before, cols)
  <2>1. ASSUME NEW v \in Best(after, newCols) PROVE v \in Best(before, cols)
    <3>1. PICK s \in after : /\ \A t \in after : newCols[t.id].points <= newCols[s.id].points
                             /\ v = newCols[s.id].points
          BY DEF Best
    <3>2. PICK r \in before : r.id = s.id
          OBVIOUS
    <3>3. \A q \in before : cols[q.id].points <= cols[r.id].points
          BY <3>1, <3>2
    <3>4. v = cols[r.id].points
          BY <3>1, <3>2
    <3> QED BY <3>3, <3>4 DEF Best
  <2>2. ASSUME NEW v \in Best(before, cols) PROVE v \in Best(after, newCols)
    <3>1. PICK r \in before : /\ \A q \in before : cols[q.id].points <= cols[r.id].points
                              /\ v = cols[r.id].points
          BY DEF Best
    <3>2. PICK s \in after : s.id = r.id
          OBVIOUS
    <3>3. \A t \in after : newCols[t.id].points <= newCols[s.id].points
          BY <3>1, <3>2
    <3>4. v = newCols[s.id].points
          BY <3>1, <3>2
    <3> QED BY <3>3, <3>4 DEF Best
  <2> QED BY <2>1, <2>2
<1>4. ASSUME NEW v \in LastStatus(after, newCols) PROVE v \in LastStatus(before, cols)
  <2>1. PICK s \in after : /\ \A t \in after : newCols[t.id].changed <= newCols[s.id].changed
                           /\ v = [changed |-> newCols[s.id].changed, staking |-> newCols[s.id].staking]
        BY DEF LastStatus
  <2>2. PICK r \in before : r.id = s.id
        OBVIOUS
  <2>3. \A q \in before : cols[q.id].changed <= cols[r.id].changed
        BY <2>1, <2>2
  <2>4. v = [changed |-> cols[r.id].changed, staking |-> cols[r.id].staking]
        BY <2>1, <2>2
  <2> QED BY <2>3, <2>4 DEF LastStatus
<1> QED BY <1>2, <1>3, <1>4 DEF SameBest

\* Merging one row's columns into another's changes neither.
LEMMA BestOverMerge ==
    ASSUME NEW rows, Table(rows), NEW k \in rows, NEW d \in rows,
           NEW cols \in [WalletIds -> Columns], NEW newCols \in [WalletIds -> Columns],
           newCols[k.id] = MergedData(cols[k.id], cols[d.id]),
           \A i \in WalletIds : i # k.id => newCols[i] = cols[i]
    PROVE  SameBest(rows, cols, rows, newCols)
<1>1. \A r \in rows : /\ r.id \in WalletIds /\ cols[r.id] \in Columns
                      /\ cols[r.id].points \in Nat /\ cols[r.id].changed \in Nat
                      /\ newCols[r.id].points \in Nat /\ newCols[r.id].changed \in Nat
      BY Numbers DEF Table
<1>2. \A r \in rows : r # k => newCols[r.id] = cols[r.id]
      BY <1>1 DEF Table
<1>3. /\ newCols[k.id].points \in {cols[k.id].points, cols[d.id].points}
      /\ cols[k.id].points <= newCols[k.id].points /\ cols[d.id].points <= newCols[k.id].points
      /\ cols[k.id].changed <= newCols[k.id].changed /\ cols[d.id].changed <= newCols[k.id].changed
      /\ \E x \in {k, d} : /\ newCols[k.id].changed = cols[x.id].changed
                           /\ newCols[k.id].staking = cols[x.id].staking
  <2>1. cols[k.id] \in Columns /\ cols[d.id] \in Columns
        BY <1>1
  <2> QED BY <2>1, MergedDataOK
<1>4. \A r \in rows : cols[r.id].points <= newCols[r.id].points /\ cols[r.id].changed <= newCols[r.id].changed
      BY <1>1, <1>2, <1>3
<1>5. ASSUME NEW v \in Best(rows, newCols) PROVE v \in Best(rows, cols)
  <2>1. PICK s \in rows : /\ \A t \in rows : newCols[t.id].points <= newCols[s.id].points
                          /\ v = newCols[s.id].points
        BY DEF Best
  <2>2. PICK x \in rows : cols[x.id].points = newCols[s.id].points
        BY <1>2, <1>3
  <2>3. \A t \in rows : cols[t.id].points <= cols[x.id].points
        BY <1>1, <1>4, <2>1, <2>2
  <2> QED BY <2>1, <2>2, <2>3 DEF Best
<1>6. ASSUME NEW v \in Best(rows, cols) PROVE v \in Best(rows, newCols)
  <2>1. PICK s \in rows : /\ \A t \in rows : cols[t.id].points <= cols[s.id].points
                          /\ v = cols[s.id].points
        BY DEF Best
  <2>2. \A t \in rows : newCols[t.id].points <= cols[s.id].points
        BY <1>1, <1>2, <1>3, <2>1
  <2>3. newCols[s.id].points = cols[s.id].points
        BY <1>1, <1>4, <2>2
  <2> QED BY <2>1, <2>2, <2>3 DEF Best
<1>7. ASSUME NEW v \in LastStatus(rows, newCols) PROVE v \in LastStatus(rows, cols)
  <2>1. PICK s \in rows : /\ \A t \in rows : newCols[t.id].changed <= newCols[s.id].changed
                          /\ v = [changed |-> newCols[s.id].changed, staking |-> newCols[s.id].staking]
        BY DEF LastStatus
  <2>2. PICK x \in rows : /\ cols[x.id].changed = newCols[s.id].changed
                          /\ cols[x.id].staking = newCols[s.id].staking
        BY <1>2, <1>3
  <2>3. \A t \in rows : cols[t.id].changed <= cols[x.id].changed
        BY <1>1, <1>4, <2>1, <2>2
  <2>4. v = [changed |-> cols[x.id].changed, staking |-> cols[x.id].staking]
        BY <2>1, <2>2
  <2> QED BY <2>3, <2>4 DEF LastStatus
<1>8. LastStatus(rows, newCols) # {}
      BY LastStatusExists
<1>9. Best(rows, newCols) = Best(rows, cols)
      BY <1>5, <1>6
<1> QED BY <1>7, <1>8, <1>9 DEF SameBest

\* Deleting a row that another one is not worse than changes neither.
LEMMA BestOverRemoval ==
    ASSUME NEW rows, Table(rows), NEW k \in rows, NEW d \in rows, k # d,
           NEW cols \in [WalletIds -> Columns], NEW newCols \in [WalletIds -> Columns],
           \A r \in rows \ {d} : newCols[r.id] = cols[r.id],
           cols[d.id].points <= cols[k.id].points, cols[d.id].changed <= cols[k.id].changed
    PROVE  SameBest(rows, cols, rows \ {d}, newCols)
<1> DEFINE rest == rows \ {d}
<1>1. \A r \in rows : cols[r.id].points \in Nat /\ cols[r.id].changed \in Nat
      BY Numbers DEF Table
<1>2. k \in rest /\ Table(rest) /\ \A r \in rest : newCols[r.id] = cols[r.id]
      BY DEF Table
<1>3. \A r \in rows : r \in rest \/ r = d
      OBVIOUS
<1> HIDE DEF rest
<1>4. rest \subseteq rows
      BY DEF rest
<1>5. ASSUME NEW v \in Best(rest, newCols) PROVE v \in Best(rows, cols)
  <2>1. PICK s \in rest : /\ \A t \in rest : newCols[t.id].points <= newCols[s.id].points
                          /\ v = newCols[s.id].points
        BY DEF Best
  <2>2. \A t \in rest : cols[t.id].points <= cols[s.id].points
        BY <1>2, <2>1
  <2>3. cols[d.id].points <= cols[s.id].points
        BY <1>1, <1>2, <1>4, <2>2
  <2>4. \A t \in rows : cols[t.id].points <= cols[s.id].points
        BY <1>3, <2>2, <2>3
  <2> QED BY <1>2, <1>4, <2>1, <2>4 DEF Best
<1>6. ASSUME NEW v \in Best(rows, cols) PROVE v \in Best(rest, newCols)
  <2>1. PICK s \in rows : /\ \A t \in rows : cols[t.id].points <= cols[s.id].points
                          /\ v = cols[s.id].points
        BY DEF Best
  <2>2. PICK x \in rest : cols[x.id].points = cols[s.id].points
        BY <1>1, <1>2, <1>3, <2>1
  <2>3. \A t \in rest : newCols[t.id].points <= newCols[x.id].points
        BY <1>2, <1>4, <2>1, <2>2
  <2>4. v = newCols[x.id].points
        BY <1>2, <2>1, <2>2
  <2> QED BY <2>3, <2>4 DEF Best
<1>7. ASSUME NEW v \in LastStatus(rest, newCols) PROVE v \in LastStatus(rows, cols)
  <2>1. PICK s \in rest : /\ \A t \in rest : newCols[t.id].changed <= newCols[s.id].changed
                          /\ v = [changed |-> newCols[s.id].changed, staking |-> newCols[s.id].staking]
        BY DEF LastStatus
  <2>2. \A t \in rest : cols[t.id].changed <= cols[s.id].changed
        BY <1>2, <2>1
  <2>3. cols[d.id].changed <= cols[s.id].changed
        BY <1>1, <1>2, <1>4, <2>2
  <2>4. \A t \in rows : cols[t.id].changed <= cols[s.id].changed
        BY <1>3, <2>2, <2>3
  <2>5. v = [changed |-> cols[s.id].changed, staking |-> cols[s.id].staking]
        BY <1>2, <2>1
  <2> QED BY <1>4, <2>4, <2>5 DEF LastStatus
<1>8. LastStatus(rest, newCols) # {}
      BY <1>2, LastStatusExists
<1>9. Best(rest, newCols) = Best(rows, cols)
      BY <1>5, <1>6
<1> QED BY <1>7, <1>8, <1>9 DEF SameBest, rest

-----------------------------------------------------------------------------
(* No step of the system loses the best points or the last status. *)

LEMMA AccountTable ==
    ASSUME NEW rows, Table(rows), NEW a
    PROVE  Table(RowsOfAccount(rows, a)) /\ RowsOfAccount(rows, a) \subseteq rows
BY DEF Table, RowsOfAccount

LEMMA BestUnchanged ==
    ASSUME CleanupInv, wallets' = wallets, columns' = columns
    PROVE  BestStays
<1> SUFFICES ASSUME NEW a \in Accounts
             PROVE  SameBest(RowsOfAccount(wallets, a), columns, RowsOfAccount(wallets, a), columns)
    BY DEF BestStays
<1> DEFINE rows == RowsOfAccount(wallets, a)
<1>1. Table(rows)
      BY TableInv, AccountTable DEF CleanupInv
<1>2. columns \in [WalletIds -> Columns]
      BY DEF CleanupInv
<1> HIDE DEF rows
<1>3. SameBest(rows, columns, rows, columns)
      BY <1>1, <1>2, BestByIds
<1> QED BY <1>3 DEF rows

LEMMA BestOverGrowth ==
    ASSUME CleanupInv, WalletNext, columns' = columns
    PROVE  BestStays
<1>1. wallets \subseteq wallets' /\ columns \in [WalletIds -> Columns] /\ Table(wallets)
      BY RegistryMoves, TableInv DEF CleanupInv
<1> SUFFICES ASSUME NEW a \in Accounts
             PROVE  SameBest(RowsOfAccount(wallets, a), columns, RowsOfAccount(wallets', a), columns)
    BY DEF BestStays
<1> DEFINE rows == RowsOfAccount(wallets, a)
<1>2. CASE rows = {}
      BY <1>2 DEF SameBest
<1>3. CASE rows # {}
  <2>1. RowsOfAccount(wallets', a) = rows
    <3>1. ASSUME NEW r \in wallets' \ wallets PROVE r.address.account # a
          BY <1>3, NewRows DEF RowsOfAccount
    <3> QED BY <1>1, <3>1 DEF RowsOfAccount
  <2>2. Table(rows)
        BY <1>1, AccountTable
  <2> HIDE DEF rows
  <2>3. SameBest(rows, columns, rows, columns)
        BY <1>1, <2>2, BestByIds
  <2> QED BY <2>1, <2>3 DEF rows
<1> QED BY <1>2, <1>3

LEMMA BestOverRespelling ==
    ASSUME CleanupInv, UpdateAddress
    PROVE  BestStays
<1>1. job # Off /\ job # Done /\ columns' = columns
      BY DEF UpdateAddress, Off, Done
<1>2. PICK k \in wallets : Keeping(job, k, wallets, columns)
      BY <1>1, AtWork
<1>3. /\ wallets' = (wallets \ {k}) \cup {Respelled(k)}
      /\ Table(wallets) /\ Table(wallets') /\ columns \in [WalletIds -> Columns]
      BY <1>2, UpdateAddressEffect, TableInv DEF CleanupInv
<1>4. Respelled(k).id = k.id /\ Respelled(k).address.account = k.address.account
      BY RespelledFields
<1> SUFFICES ASSUME NEW a \in Accounts
             PROVE  SameBest(RowsOfAccount(wallets, a), columns, RowsOfAccount(wallets', a), columns)
    BY <1>1 DEF BestStays
<1> DEFINE before == RowsOfAccount(wallets, a)
           after == RowsOfAccount(wallets', a)
<1>5. Table(before) /\ Table(after)
      BY <1>3, AccountTable
<1>6. \A r \in before : \E s \in after : s.id = r.id
      BY <1>3, <1>4 DEF RowsOfAccount
<1>7. \A s \in after : \E r \in before : r.id = s.id
      BY <1>3, <1>4 DEF RowsOfAccount
<1> HIDE DEF before, after
<1>8. SameBest(before, columns, after, columns)
      BY <1>3, <1>5, <1>6, <1>7, BestByIds
<1> QED BY <1>8 DEF before, after

LEMMA BestOverColumns ==
    ASSUME CleanupInv, MergeColumns
    PROVE  BestStays
<1>1. job # Off /\ job # Done /\ wallets' = wallets
      BY DEF MergeColumns, Off, Done
<1>2. PICK k \in wallets, d \in wallets :
          /\ job.keep = EntityIn(k, columns) /\ Duplicate = EntityIn(d, columns)
          /\ d.address.account = k.address.account
      BY <1>1, AtWork
<1>3. /\ columns \in [WalletIds -> Columns] /\ columns' \in [WalletIds -> Columns]
      /\ columns'[k.id] = MergedData(columns[k.id], columns[d.id])
      /\ \A i \in WalletIds : i # k.id => columns'[i] = columns[i]
      BY <1>2, MergeEffect DEF CleanupInv
<1>4. Table(wallets)
      BY TableInv DEF CleanupInv
<1> SUFFICES ASSUME NEW a \in Accounts
             PROVE  SameBest(RowsOfAccount(wallets, a), columns, RowsOfAccount(wallets, a), columns')
    BY <1>1 DEF BestStays
<1> DEFINE rows == RowsOfAccount(wallets, a)
<1>5. Table(rows) /\ rows \subseteq wallets
      BY <1>4, AccountTable
<1>6. CASE a = k.address.account
  <2>1. k \in rows /\ d \in rows
        BY <1>2, <1>6 DEF RowsOfAccount
  <2> HIDE DEF rows
  <2>2. SameBest(rows, columns, rows, columns')
        BY <1>3, <1>5, <2>1, BestOverMerge
  <2> QED BY <2>2 DEF rows
<1>7. CASE a # k.address.account
  <2>1. \A r \in rows : columns'[r.id] = columns[r.id]
    <3>1. \A r \in rows : r.id \in WalletIds /\ r.id # k.id
          BY <1>4, <1>5, <1>7 DEF RowsOfAccount, Table, WalletRow
    <3> QED BY <1>3, <3>1
  <2> HIDE DEF rows
  <2>2. SameBest(rows, columns, rows, columns')
        BY <1>3, <1>5, <2>1, BestByIds
  <2> QED BY <2>2 DEF rows
<1> QED BY <1>6, <1>7

LEMMA BestOverDeletion ==
    ASSUME CleanupInv, RemoveDuplicate
    PROVE  BestStays
<1>1. job # Off /\ job # Done /\ job.stage = "remove"
      BY DEF RemoveDuplicate, Off, Done
<1>2. PICK k \in wallets, d \in wallets :
          /\ Keeping(job, k, wallets, columns) /\ Duplicate = EntityIn(d, columns)
          /\ d # k /\ d.address.account = k.address.account
      BY <1>1, AtWork
<1>3. /\ wallets' = wallets \ {d} /\ Table(wallets) /\ Table(wallets')
      /\ columns \in [WalletIds -> Columns] /\ columns' \in [WalletIds -> Columns]
      /\ \A r \in wallets' : columns'[r.id] = columns[r.id]
      BY <1>2, RemoveEffect, TableInv DEF CleanupInv
<1>4. columns[d.id].points <= columns[k.id].points /\ columns[d.id].changed <= columns[k.id].changed
      BY <1>1, <1>2, EntityFields DEF Keeping, StageOK, Duplicate
<1> SUFFICES ASSUME NEW a \in Accounts
             PROVE  SameBest(RowsOfAccount(wallets, a), columns, RowsOfAccount(wallets', a), columns')
    BY DEF BestStays
<1> DEFINE before == RowsOfAccount(wallets, a)
           after == RowsOfAccount(wallets', a)
<1>5. Table(before) /\ Table(after) /\ after = before \ {d} /\ after \subseteq wallets'
  <2>1. Table(before) /\ Table(after) /\ after \subseteq wallets'
        BY <1>3, AccountTable
  <2>2. after = before \ {d}
        BY <1>3 DEF RowsOfAccount
  <2> QED BY <2>1, <2>2
<1>6. CASE a = k.address.account
  <2>1. k \in before /\ d \in before
        BY <1>2, <1>6 DEF RowsOfAccount
  <2> HIDE DEF before, after
  <2>2. \A r \in before \ {d} : columns'[r.id] = columns[r.id]
        BY <1>3, <1>5
  <2>3. SameBest(before, columns, before \ {d}, columns')
        BY <1>2, <1>3, <1>4, <1>5, <2>1, <2>2, BestOverRemoval
  <2> QED BY <1>5, <2>3 DEF before, after
<1>7. CASE a # k.address.account
  <2>1. d \notin before
        BY <1>2, <1>7 DEF RowsOfAccount
  <2> HIDE DEF before, after
  <2>2. after = before /\ \A r \in after : columns'[r.id] = columns[r.id]
        BY <1>3, <1>5, <2>1
  <2>3. SameBest(before, columns, after, columns')
        BY <1>3, <1>5, <2>2, BestByIds
  <2> QED BY <2>3 DEF before, after
<1> QED BY <1>6, <1>7

LEMMA BestOverAuth == AuthInv /\ [AuthNext]_authVars => [BestStays]_cleanupVars
<1> SUFFICES ASSUME AuthInv, [AuthNext]_authVars PROVE [BestStays]_cleanupVars
    OBVIOUS
<1> USE DEF AuthInv
<1>1. CASE RegistryStep
      BY <1>1, BestOverGrowth DEF RegistryStep
<1>2. CASE CleanupStep
  <2>1. ASSUME wallets' = wallets, columns' = columns PROVE BestStays
        BY <2>1, BestUnchanged
  <2> QED
      BY <1>2, <2>1, BestOverRespelling, BestOverColumns, BestOverDeletion
      DEF CleanupStep, cleanupDuplicateWallets, UpdateTransactions, UpdateStakingEvents,
          CleanupStops, CleanupReturns
<1>3. ASSUME NEW w \in Workers, LoginEnds(w) PROVE BestStays
      BY <1>3, BestUnchanged DEF LoginEnds, ReturnCall
<1> QED
    BY <1>1, <1>2, <1>3 DEF AuthNext, CleanupNext, refreshTokenUser, TokenExpires, authVars, cleanupVars

\* For any number of spellings of an account, and wherever its merge stops and
\* starts again: the account keeps its best points and its last status.
THEOREM MergeKeepsBestHolds == AuthSpec => MergeKeepsBest
BY AuthInvHolds, BestOverAuth, PTL DEF AuthSpec, MergeKeepsBest
=============================================================================
