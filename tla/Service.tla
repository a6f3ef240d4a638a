------------------------------- MODULE Service -------------------------------
(***************************************************************************)
(* What the exposer process promises to whoever supervises it (systemd,    *)
(* systemd/ruuvi-prometheus-exposer.service): it works until it is asked   *)
(* to stop or its Bluetooth side fails, it then closes, and the exit code  *)
(* it leaves behind tells the two cases apart.                             *)
(***************************************************************************)

VARIABLES
    phase,    \* "active", "closing" or "closed"
    failed,   \* TRUE once the process could not do its work any more
    code      \* exit code: "none" while the process lives

svars == <<phase, failed, code>>

Init == phase = "active" /\ failed = FALSE /\ code = "none"

\* A stop is requested (SIGTERM or SIGINT).
AskStop ==
    /\ phase = "active"
    /\ phase' = "closing"
    /\ UNCHANGED <<failed, code>>

\* The process cannot go on; it may already have been closing.
Fail ==
    /\ phase # "closed"
    /\ phase' = "closing"
    /\ failed' = TRUE
    /\ UNCHANGED code

\* The process ends, and its exit code says whether it had failed.
Close ==
    /\ phase = "closing"
    /\ phase' = "closed"
    /\ code' = IF failed THEN "failure" ELSE "success"
    /\ UNCHANGED failed

Next == AskStop \/ Fail \/ Close

Spec == Init /\ [][Next]_svars
=============================================================================
