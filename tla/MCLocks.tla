------------------------------ MODULE MCLocks -------------------------------
(* Small instances of LockService for TLC. *)
EXTENDS LockService, TLC

CONSTANTS p1, p2, p3, p4

(* Three transfers that contend in a ring, and a cash operation. *)
MCWant == [p \in Operations |->
             CASE p = p1 -> {1, 2} [] p = p2 -> {2, 3} [] p = p3 -> {1, 3} [] p = p4 -> {1}]
=============================================================================
