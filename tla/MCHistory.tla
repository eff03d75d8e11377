----------------------------- MODULE MCHistory -----------------------------
(***************************************************************************)
(* One table seen through an account, one filter of it and another         *)
(* account.                                                                *)
(***************************************************************************)
EXTENDS HistoryPages

MCViews == {"a", "a filtered", "b"}
MCBase == [v \in MCViews |-> IF v = "b" THEN "b" ELSE "a"]
MCRow(in, kind) == [in |-> in, kind |-> kind]
MCShapes ==
    [s \in Screens |->
       IF s = "ledger" THEN {MCRow({"a"}, "TRANSFER"), MCRow({"a"}, "FEE"), MCRow({"b"}, "FEE")}
       ELSE {MCRow({"a"}, "FEE"), MCRow({"a", "a filtered"}, "FEE")}]
=============================================================================
