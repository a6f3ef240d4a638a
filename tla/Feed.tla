-------------------------------- MODULE Feed --------------------------------
(***************************************************************************)
(* What the Bluetooth side promises to whoever reads the metrics: for each *)
(* device the value shown is one the device really sent, and it is never   *)
(* replaced by an older one.  Values may be skipped; none is invented.     *)
(***************************************************************************)
EXTENDS Naturals

CONSTANT Macs

VARIABLES
    latest,     \* number of the newest measurement of each device
    shown       \* number of the measurement shown for it, 0 before the first

fvars == <<latest, shown>>

Init ==
    /\ latest \in [Macs -> Nat]
    /\ shown = [m \in Macs |-> 0]

Measure(m) ==
    /\ latest' = [latest EXCEPT ![m] = @ + 1]
    /\ UNCHANGED shown

\* Some of the devices are shown anew.
Show ==
    /\ shown' \in [Macs -> Nat]
    /\ \A m \in Macs : shown'[m] # shown[m] => shown'[m] \in shown[m]..latest[m]
    /\ UNCHANGED latest

Next == Show \/ \E m \in Macs : Measure(m)

Spec == Init /\ [][Next]_fvars
=============================================================================
