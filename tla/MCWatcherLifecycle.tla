------------------------- MODULE MCWatcherLifecycle -------------------------
(* Two deposits of the past, the older outside the window of the sync, and  *)
(* two events mined while the server starts and runs; two of the five names,  *)
(* in the order of the sync.                                                *)
EXTENDS WatcherLifecycle, TLC

MCEventsToSync == <<"Deposit", "Borrow">>

MCKindOf == "old" :> "Deposit" @@ "past" :> "Deposit" @@ "soon" :> "Borrow" @@ "later" :> "Deposit"
MCBlockOf == "old" :> 1 @@ "past" :> 3 @@ "soon" :> 4 @@ "later" :> 5
=============================================================================
