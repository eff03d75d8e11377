----------------------------- MODULE MCPayment ------------------------------
(* Small instances of PaymentService for TLC. *)
EXTENDS PaymentService, TLC

CONSTANTS a1, a2, c1, c2, back, cash, draw

(* back is a transfer between two accounts; cash and draw are a deposit    *)
(* into and a withdrawal from its target.                                  *)
MCRequest ==
    [k \in Keys |->
        CASE k = back -> [kind |-> "TRANSFER", source |-> a2, target |-> a1, amount |-> 1]
          [] k = cash -> [kind |-> "DEPOSIT", source |-> NoAccount, target |-> a1, amount |-> 1]
          [] k = draw -> [kind |-> "WITHDRAWAL", source |-> a1, target |-> NoAccount, amount |-> 1]]

(* a2 can afford back more often than it is ever tried. *)
MCInitialBalance == [a \in Accounts |-> IF a = a2 THEN 4 ELSE 2]

(* Every combination of faults that some property is conditional on. *)
MCScenarios ==
    {FaultKinds \ kinds :
        kinds \in {{}, {"timeout"}, {"expiry"}, {"timeout", "db"},
                  {"timeout", "expiry", "crash"}, {"timeout", "expiry", "crash", "db"}}}

(* Two calls are interchangeable: of each two assignments of keys that      *)
(* differ in the names of the calls only, one is left out.  With liveness  *)
(* to check, this takes the place of TLC's symmetry reduction.             *)
Ordered == << key[c1], key[c2] >> \notin {<< draw, back >>, << cash, back >>, << cash, draw >>}

MCInit == Init /\ Ordered

MCSpec == MCInit /\ [][Next]_vars /\ SagaFairness
=============================================================================
