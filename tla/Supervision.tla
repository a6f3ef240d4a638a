----------------------------- MODULE Supervision -----------------------------
(***************************************************************************)
(* How long the exposer survives an adapter that goes away and comes back: *)
(* the timing of the process (src/main.cpp, retry_discovery() of           *)
(* src/ble/receiver.cpp) against the restart limits of its unit            *)
(* (systemd/ruuvi-prometheus-exposer.service).  Module Lifecycle has the   *)
(* process without time; here its threads are one state and the clock is   *)
(* in whole seconds.                                                       *)
(*                                                                         *)
(* External, modelled from how the code and the unit use them: systemd's   *)
(* limit on starts, a window of fixed length that opens with a start, and  *)
(* the adapter, which is up or down and answers at once.                   *)
(***************************************************************************)
EXTENDS Naturals

CONSTANTS
    MaxOutage,    \* assumption: seconds the adapter stays away at most
    MinUp         \* assumption: seconds it stays up at least

ASSUME SupervisionAssumption == MaxOutage \in Nat \ {0} /\ MinUp \in Nat \ {0}

\* retry_discovery(times, wait) is called with its defaults.
Times == 2
Wait  == 1

\* Mutants of RestartSec: systemd's own default, 100 ms; half a minute.
RestartSec_Default == 0

RestartSec_Long == 30

RestartSec == 10

StartLimitIntervalSec == 60

StartLimitBurst == 3

VARIABLES
    up, since,    \* the adapter, and for how long it has been as it is
    proc,         \* the process, "none" between two of them
    attempt,      \* rounds of retry_discovery() begun
    timer,        \* seconds left of what proc, or systemd, waits for
    unit,         \* "active", "activating" (waiting to restart) or "failed"
    age, starts   \* the window of the limit: its age, the starts in it

procVars == <<proc, attempt, timer>>
unitVars == <<unit, age, starts>>
vars == <<up, since, procVars, unitVars>>

Longest == IF MaxOutage > MinUp THEN MaxOutage ELSE MinUp   \* since stops counting there

\* The unit is started at boot, with an adapter that is there or yet to come.
Init ==
    /\ up \in BOOLEAN /\ since = IF up THEN MinUp ELSE 0
    /\ proc = "starting" /\ attempt = 0 /\ timer = 0
    /\ unit = "active" /\ age = 0 /\ starts = 1

-----------------------------------------------------------------------------
(* The adapter.                                                             *)

Up ==
    /\ ~up
    /\ up' = TRUE /\ since' = 0
    /\ UNCHANGED <<procVars, unitVars>>

Down ==
    /\ up /\ since >= MinUp
    /\ up' = FALSE /\ since' = 0
    /\ UNCHANGED <<procVars, unitVars>>

-----------------------------------------------------------------------------
(* The process.                                                             *)

\* start(): discovery begins, or the runner ends, and the process with it once
\* main() has slept its second and the stopper its half.
Begin ==
    /\ proc = "starting"
    /\ IF up THEN proc' = "listening" /\ UNCHANGED timer
       ELSE proc' = "ending" /\ timer' \in 1..2
    /\ UNCHANGED <<up, since, attempt, unitVars>>

\* discovery_failed_cb(): the first round of retry_discovery() sleeps.
Lose ==
    /\ proc = "listening" /\ ~up
    /\ proc' = "retrying" /\ attempt' = 1 /\ timer' = Wait
    /\ UNCHANGED <<up, since, unitVars>>

\* Mutant of Retry: the adapter is asked once.
Retry_Once ==
    /\ proc = "retrying" /\ timer = 0
    /\ IF up THEN proc' = "listening" /\ attempt' = 0 /\ UNCHANGED timer
       ELSE proc' = "ending" /\ attempt' = 0 /\ timer' \in 0..1
    /\ UNCHANGED <<up, since, unitVars>>

\* A round of retry_discovery() ends: it listens again, sleeps for another
\* round, or gives up, and the stopper is up to half a second late.
Retry ==
    /\ proc = "retrying" /\ timer = 0
    /\ \/ /\ up
          /\ proc' = "listening" /\ attempt' = 0 /\ UNCHANGED timer
       \/ /\ ~up /\ attempt < Times
          /\ attempt' = attempt + 1 /\ timer' = Wait /\ UNCHANGED proc
       \/ /\ ~up /\ attempt = Times
          /\ proc' = "ending" /\ attempt' = 0 /\ timer' \in 0..1
    /\ UNCHANGED <<up, since, unitVars>>

-----------------------------------------------------------------------------
(* systemd.                                                                 *)

\* Restart=always: whatever the exit code, after RestartSec.
Exit ==
    /\ proc = "ending" /\ timer = 0
    /\ proc' = "none" /\ timer' = RestartSec
    /\ unit' = "activating"
    /\ UNCHANGED <<up, since, attempt, age, starts>>

\* Mutant of Restart: the window never closes.
Restart_OneWindow ==
    /\ unit = "activating" /\ timer = 0
    /\ \/ /\ starts < StartLimitBurst
          /\ starts' = starts + 1 /\ UNCHANGED age
          /\ unit' = "active" /\ proc' = "starting"
       \/ /\ starts = StartLimitBurst
          /\ unit' = "failed" /\ UNCHANGED <<proc, age, starts>>
    /\ UNCHANGED <<up, since, attempt, timer>>

\* A start opens a new window, counts in the one that is open, or is refused,
\* and then the unit has failed and stays so.
Restart ==
    /\ unit = "activating" /\ timer = 0
    /\ \/ /\ age > StartLimitIntervalSec
          /\ age' = 0 /\ starts' = 1
          /\ unit' = "active" /\ proc' = "starting"
       \/ /\ age <= StartLimitIntervalSec /\ starts < StartLimitBurst
          /\ starts' = starts + 1 /\ UNCHANGED age
          /\ unit' = "active" /\ proc' = "starting"
       \/ /\ age <= StartLimitIntervalSec /\ starts = StartLimitBurst
          /\ unit' = "failed" /\ UNCHANGED <<proc, age, starts>>
    /\ UNCHANGED <<up, since, attempt, timer>>

-----------------------------------------------------------------------------
Waiting == proc = "retrying" \/ proc = "ending" \/ unit = "activating"

\* What is due happens before the second is over.
Due ==
    \/ proc = "starting" \/ (proc = "listening" /\ ~up)
    \/ Waiting /\ timer = 0
    \/ ~up /\ since = MaxOutage

Tick ==
    /\ ~Due
    /\ since' = IF since < Longest THEN since + 1 ELSE since
    /\ timer' = IF Waiting THEN timer - 1 ELSE timer
    /\ age' = IF age <= StartLimitIntervalSec THEN age + 1 ELSE age
    /\ UNCHANGED <<up, proc, attempt, unit, starts>>

Process == Begin \/ Lose \/ Retry

Systemd == Exit \/ Restart

Next == Up \/ Down \/ Process \/ Systemd \/ Tick

Spec == Init /\ [][Next]_vars

\* Time passes, and what is due happens.
FairSpec == Spec /\ WF_vars(Next)

-----------------------------------------------------------------------------
(* Properties.                                                              *)

\* Outages no longer than MaxOutage, MinUp apart, never use up the three starts
\* that the unit allows in a minute, at boot or later: each costs the time of
\* the retries and of RestartSec, and then a start.
StaysUp == unit # "failed"

\* The adapter is back for longer than Recovery seconds (RestartSec, and
\* two for main()'s sleep and the stopper's): the process listens,
\* or starts to at this very moment, whatever it was about when the adapter came,
\* be it on its way out or waiting to be restarted.
Recovery == 12

RecoversSoon == (up /\ since > Recovery) => proc \in {"starting", "listening"}

\* An outage is ridden out, without a restart, unless it lasts as long as both
\* rounds of retry_discovery().
RidesOut ==
    [][(proc = "retrying" /\ proc' = "ending") => (~up /\ since >= Times * Wait)]_vars

\* The process listens again and again, however often the adapter goes.
ListensAgain == []<>(proc = "listening")
=============================================================================
