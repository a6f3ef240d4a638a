---------------------------- MODULE MC_Listeners ----------------------------
(***************************************************************************)
(* Instances of Listeners: one tag t and one other device f.  With one     *)
(* adapter each has a path of its own; with two adapters the other device  *)
(* is seen through both.                                                   *)
(***************************************************************************)
EXTENDS Listeners

OneAdapter == [p \in {"hci0/t", "hci0/f"} |-> IF p = "hci0/t" THEN "t" ELSE "f"]

TwoAdapters ==
    [p \in {"hci0/t", "hci0/f", "hci1/f"} |-> IF p = "hci0/t" THEN "t" ELSE "f"]
=============================================================================
