----------------------------- MODULE AuthTokens -----------------------------
(***************************************************************************)
(* The tokens of AuthService over the registry and its cleanup, seen from  *)
(* one client: a login ensures the wallet of a verified address and signs  *)
(* a token with its id (sub) and address (username); a refresh looks the   *)
(* wallet up by that id, which the cleanup may have merged away.           *)
(*                                                                         *)
(* Verifying the signature asks a chain and changes no state: a login that *)
(* fails there does nothing.  Access and refresh token carry the same      *)
(* payload and differ in their lifetime only.                              *)
(***************************************************************************)
EXTENDS WalletCleanup

VARIABLE token      \* what the client holds: the payload of its last tokens

authVars == <<wallets, schema, call, columns, walletId, removed, job, token>>

NoToken == [sub |-> "none"]

\* tokenForPayload
TokenOf(r) == [sub |-> r.id, username |-> r.address]

\* A client may hold a token that the server signed before the migration.
AuthInit == CleanupInit /\ token \in {NoToken} \cup {TokenOf(r) : r \in wallets}

\* findOrCreateByAddress returns to the login that called it.
LoginEnds(w) ==
    /\ call[w].stage = "ensured"
    /\ \E r \in FindByAddress(call[w].address) : token' = TokenOf(r)
    /\ ReturnCall(w)
    /\ UNCHANGED <<columns, walletId, removed, job>>

NamedWallet == {r \in wallets : r.id = token.sub}

\* A token whose wallet is gone is refused (401) and stays with the client.
refreshTokenUser ==
    /\ schema = "new"
    /\ token # NoToken
    /\ \E r \in NamedWallet : token' = TokenOf(r)
    /\ UNCHANGED cleanupVars

TokenExpires ==
    /\ token # NoToken
    /\ token' = NoToken
    /\ UNCHANGED cleanupVars

AuthNext ==
    \/ CleanupNext /\ UNCHANGED token
    \/ \E w \in Workers : LoginEnds(w)
    \/ refreshTokenUser \/ TokenExpires

AuthSpec == AuthInit /\ [][AuthNext]_authVars

-----------------------------------------------------------------------------
\* A client never loses its account: its token names a wallet of the account
\* it logged in with, or the cleanup has merged that wallet into one that a
\* new login finds.
TokenOrLogin ==
    token # NoToken =>
        \/ \E r \in NamedWallet : r.address.account = token.username.account
        \/ NamedWallet = {} /\ FindByAddress(token.username) # {}
=============================================================================
