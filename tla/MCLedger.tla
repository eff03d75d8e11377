------------------------------ MODULE MCLedger ------------------------------
(* Small instances of VaultLedger for TLC. *)
EXTENDS VaultLedger, TLC

CONSTANTS a1, a2, frozen, give, back, cash, draw, into, outof

(* give and back are opposite transfers between the same two accounts;     *)
(* cash and draw are a deposit into and a withdrawal from one of them;     *)
(* into and outof are transfers with an account that is not active.        *)
MCRequest ==
    [k \in Keys |->
        CASE k = give -> [kind |-> "TRANSFER", source |-> a1, target |-> a2, amount |-> 2]
          [] k = back -> [kind |-> "TRANSFER", source |-> a2, target |-> a1, amount |-> 1]
          [] k = cash -> [kind |-> "DEPOSIT", source |-> NoAccount, target |-> a1, amount |-> 1]
          [] k = draw -> [kind |-> "WITHDRAWAL", source |-> a1, target |-> NoAccount, amount |-> 2]
          [] k = into -> [kind |-> "TRANSFER", source |-> a1, target |-> frozen, amount |-> 1]
          [] k = outof -> [kind |-> "TRANSFER", source |-> frozen, target |-> a1, amount |-> 1]]

MCInitialBalance == [a \in Accounts |-> 2]

=============================================================================
