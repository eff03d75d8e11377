----------------------------- MODULE MCAccount ------------------------------
(***************************************************************************)
(* Small instances of the account service and of the transfer form for     *)
(* TLC.  The form's model takes from the service what every history of the *)
(* service allows, so they share no state: in a behaviour one of them      *)
(* moves, and the other stays where it starts.                             *)
(***************************************************************************)
EXTENDS AccountCache, TransferForm

MCVars == << cacheVars, formVars >>

MCInit == CacheInit /\ FormInit

MCNext ==
    \/ FormInit /\ CacheNext /\ UNCHANGED formVars
    \/ CacheInit /\ FormNext /\ UNCHANGED cacheVars

MCSpec == MCInit /\ [][MCNext]_MCVars /\ CacheFairness
=============================================================================
