----------------------------- MODULE MC_Pipeline -----------------------------
(***************************************************************************)
(* An instance of Pipeline: one adapter that sees a tag t and a device r   *)
(* that relays another tag's packets.                                      *)
(***************************************************************************)
EXTENDS Pipeline

OneAdapter == [p \in {"hci0/t", "hci0/r"} |-> IF p = "hci0/t" THEN "t" ELSE "r"]
=============================================================================
