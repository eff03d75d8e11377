------------------------------ MODULE MCOutbox ------------------------------
(***************************************************************************)
(* One replica under every fault, under those that spare its buffer, and   *)
(* under those that leave it undisturbed; and two that overwrite each      *)
(* other's rows, while connections break and while buffers are full.       *)
(***************************************************************************)
EXTENDS OutboxWorker

CONSTANTS First, Second

MCWorkers == {First, Second}
Rejected == {"broker", "connection"}

MCScenarios ==
    [running : {{First}}, faults : {FaultKinds, {"broker", "buffer", "db"}, Rejected}]
      \cup [running : {MCWorkers}, faults : {Rejected, {"buffer"}}]
=============================================================================
