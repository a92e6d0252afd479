----------------------------- MODULE EventLedger -----------------------------
(***************************************************************************)
(* What the transactions table promises the views and the API that read    *)
(* it: a ledger of on-chain events, at most one per blockchain             *)
(* transaction, each credited to the account that emitted it, and nothing  *)
(* ever credited to an account without a wallet.  EventStore implements    *)
(* it.                                                                     *)
(***************************************************************************)
CONSTANTS
    Accounts,   \* Ethereum accounts
    Logs,       \* on-chain events of the lending pool
    TxOf,       \* the transaction that emitted a log
    OwnerOf     \* the account a log is about

VARIABLES
    known,      \* accounts with a wallet
    entries     \* recorded events, with the account each is credited to

ledgerVars == <<known, entries>>

LedgerInit == known \in SUBSET Accounts /\ entries = {}

Register(a) ==
    /\ a \notin known
    /\ known' = known \cup {a}
    /\ UNCHANGED entries

Record(l) ==
    /\ OwnerOf[l] \in known
    /\ \A e \in entries : TxOf[e.log] # TxOf[l]
    /\ entries' = entries \cup {[log |-> l, account |-> OwnerOf[l]]}
    /\ UNCHANGED known

LedgerNext == (\E a \in Accounts : Register(a)) \/ (\E l \in Logs : Record(l))

LedgerSpec == LedgerInit /\ [][LedgerNext]_ledgerVars
=============================================================================
