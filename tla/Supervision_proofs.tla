-------------------------- MODULE Supervision_proofs --------------------------
(***************************************************************************)
(* Proofs about module Supervision: which outages are ridden out, how soon *)
(* the process listens again, and why the unit's limit is never reached.   *)
(* They are sums of seconds: each invariant says what "since" or "age" and *)
(* "timer" add up to in each state of the process.                         *)
(***************************************************************************)
EXTENDS Supervision, TLAPS

USE SupervisionAssumption
USE DEF Times, Wait, RestartSec, StartLimitIntervalSec, StartLimitBurst, Recovery

LEMMA LongestBounds ==
    Longest \in Nat /\ MinUp <= Longest /\ MaxOutage <= Longest /\ MinUp \in Nat /\ MaxOutage \in Nat
  BY DEF Longest

USE LongestBounds

Types ==
    /\ up \in BOOLEAN /\ since \in 0..Longest
    /\ proc \in {"starting", "listening", "retrying", "ending", "none"}
    /\ attempt \in 0..Times /\ timer \in 0..RestartSec
    /\ unit \in {"active", "activating", "failed"}
    /\ unit = "active" <=> proc # "none"
    /\ age \in 0..(StartLimitIntervalSec + 1) /\ starts \in 1..StartLimitBurst

LEMMA TypeInduction == Spec => []Types
  <1>1. Init => Types BY DEF Init, Types
  <1>2. Types /\ [Next]_vars => Types'
    <2> SUFFICES ASSUME Types, [Next]_vars PROVE Types' OBVIOUS
    <2> USE DEF Types
    <2>1. CASE Up BY <2>1 DEF Up, procVars, unitVars
    <2>2. CASE Down
      <3>1. up' = FALSE /\ since' = 0 /\ UNCHANGED <<procVars, unitVars>> BY <2>2 DEF Down
      <3>2. up' \in BOOLEAN BY <3>1
      <3>3. since' \in 0..Longest BY <3>1
      <3>4. QED BY <3>1, <3>2, <3>3 DEF procVars, unitVars
    <2>3. CASE Begin BY <2>3 DEF Begin, unitVars
    <2>4. CASE Lose BY <2>4 DEF Lose, unitVars
    <2>5. CASE Retry BY <2>5 DEF Retry, unitVars
    <2>6. CASE Exit BY <2>6 DEF Exit
    <2>7. CASE Restart BY <2>7 DEF Restart
    <2>8. CASE Tick BY <2>8 DEF Tick, Due, Waiting
    <2>9. CASE UNCHANGED vars BY <2>9 DEF vars, procVars, unitVars
    <2>10. QED BY <2>1, <2>2, <2>3, <2>4, <2>5, <2>6, <2>7, <2>8, <2>9
               DEF Next, Process, Systemd
  <1>3. QED BY <1>1, <1>2, PTL DEF Spec

-----------------------------------------------------------------------------
(* Riding an outage out.                                                    *)

\* A loss is noticed in the second it happens, and from then on the rounds of
\* retry_discovery() keep count of the seconds.
RoundInv ==
    /\ (proc = "listening" /\ ~up) => since = 0
    /\ proc = "retrying" =>
           /\ attempt \in 1..Times /\ timer <= Wait
           /\ IF up THEN since + timer <= Wait ELSE since + timer = attempt

LEMMA RoundStep ==
    ASSUME MinUp > Wait, Types, RoundInv, [Next]_vars PROVE RoundInv'
  <1> USE DEF Types, RoundInv
  <1>1. CASE Up BY <1>1 DEF Up, procVars, unitVars
  <1>2. CASE Down BY <1>2 DEF Down, procVars, unitVars
  <1>3. CASE Begin BY <1>3 DEF Begin, unitVars
  <1>4. CASE Lose BY <1>4 DEF Lose, unitVars
  <1>5. CASE Retry BY <1>5 DEF Retry, unitVars
  <1>6. CASE Exit BY <1>6 DEF Exit
  <1>7. CASE Restart BY <1>7 DEF Restart
  <1>8. CASE Tick BY <1>8 DEF Tick, Due, Waiting
  <1>9. CASE UNCHANGED vars BY <1>9 DEF vars, procVars, unitVars
  <1>10. QED BY <1>1, <1>2, <1>3, <1>4, <1>5, <1>6, <1>7, <1>8, <1>9
             DEF Next, Process, Systemd

\* Whatever the outages, an adapter that stays up for longer than a round once
\* it is back costs a restart only if it was away for both rounds.
THEOREM ShortOutagesRiddenOut == MinUp > Wait => (Spec => RidesOut)
  <1> SUFFICES ASSUME MinUp > Wait PROVE Spec => RidesOut OBVIOUS
  <1>1. Init => RoundInv BY DEF Init, RoundInv
  <1>2. Types /\ RoundInv /\ [Next]_vars
            => [(proc = "retrying" /\ proc' = "ending") => (~up /\ since >= Times * Wait)]_vars
    <2> SUFFICES ASSUME Types, RoundInv, [Next]_vars, proc = "retrying", proc' = "ending"
                 PROVE  ~up /\ since >= Times * Wait
      OBVIOUS
    <2>1. Retry
      BY DEF Next, Process, Systemd, Up, Down, Begin, Lose, Exit, Restart, Tick, vars, procVars,
             unitVars, Types
    <2>2. QED BY <2>1 DEF Retry, Types, RoundInv
  <1>3. Types /\ RoundInv /\ [Next]_vars => RoundInv' BY RoundStep
  <1>4. QED BY <1>1, <1>2, <1>3, TypeInduction, PTL DEF Spec, RidesOut

-----------------------------------------------------------------------------
(* Listening again.                                                         *)

\* The process has just been started for the first time.
Fresh == age = 0 /\ starts = 1

\* An adapter that is back is found by the next start, however far off that is:
\* the start is at most a way out of two seconds and a RestartSec away.
ReturnInv ==
    /\ proc = "ending" => timer <= 2 /\ (up => since + timer <= 2)
    /\ (unit = "activating" /\ up) => since + timer <= Recovery
    /\ (proc = "starting" /\ up) => since <= Recovery \/ (Fresh /\ since = MinUp)

LEMMA ReturnStep ==
    ASSUME MinUp > Recovery, Types, RoundInv, ReturnInv, [Next]_vars PROVE ReturnInv'
  <1> USE DEF Types, ReturnInv, Fresh
  <1>1. CASE Up BY <1>1 DEF Up, procVars, unitVars
  <1>2. CASE Down BY <1>2 DEF Down, procVars, unitVars
  <1>3. CASE Begin BY <1>3 DEF Begin, unitVars
  <1>4. CASE Lose BY <1>4 DEF Lose, unitVars
  <1>5. CASE Retry BY <1>5 DEF Retry, unitVars, RoundInv
  <1>6. CASE Exit BY <1>6 DEF Exit
  <1>7. CASE Restart BY <1>7 DEF Restart
  <1>8. CASE Tick BY <1>8 DEF Tick, Due, Waiting
  <1>9. CASE UNCHANGED vars BY <1>9 DEF vars, procVars, unitVars
  <1>10. QED BY <1>1, <1>2, <1>3, <1>4, <1>5, <1>6, <1>7, <1>8, <1>9
             DEF Next, Process, Systemd

\* With an adapter that stays up for longer than Recovery once it is back, the
\* process listens again that soon, unless the unit has been given up.
THEOREM RecoversUnlessFailed == MinUp > Recovery => (Spec => [](StaysUp => RecoversSoon))
  <1> SUFFICES ASSUME MinUp > Recovery PROVE Spec => [](StaysUp => RecoversSoon) OBVIOUS
  <1>1. Init => RoundInv /\ ReturnInv BY DEF Init, RoundInv, ReturnInv, Fresh
  <1>2. Types /\ RoundInv /\ ReturnInv /\ [Next]_vars => RoundInv' /\ ReturnInv'
    BY RoundStep, ReturnStep
  <1>3. Types /\ RoundInv /\ ReturnInv => (StaysUp => RecoversSoon)
    BY DEF Types, RoundInv, ReturnInv, StaysUp, RecoversSoon
  <1>4. QED BY <1>1, <1>2, <1>3, TypeInduction, PTL DEF Spec

-----------------------------------------------------------------------------
(* The limit of the unit.                                                   *)

\* What the limit bears: 21 and 38 seconds.  An outage ends within two waits of
\* RestartSec and the second that main() sleeps, so that it costs two restarts at
\* most.  And the adapter stays up for so long that, when it goes twice in the
\* window, its outages' waits and retries take the rest of it.  With either bound a
\* second weaker TLC finds the unit failed.
Bearable ==
    /\ MaxOutage <= 2 * RestartSec + 1
    /\ MinUp >= StartLimitIntervalSec - 2 * RestartSec - Times * Wait

\* Where in an outage the process is: before its first restart, or after that one
\* has failed, and then the outage ends before the second.
PhaseInv ==
    /\ ~up => since <= MaxOutage
    /\ (proc = "starting" /\ ~up) => since \in 11..13 \/ (Fresh /\ since = 0)
    /\ (proc = "ending" /\ ~up) => since + timer \in (1..3) \cup (12..15)
    /\ (unit = "activating" /\ ~up) => since + timer \in (11..13) \cup (22..25)

LEMMA PhaseStep ==
    ASSUME Bearable, Types, RoundInv, ReturnInv, PhaseInv, [Next]_vars PROVE PhaseInv'
  <1> USE DEF Types, Fresh, PhaseInv, Bearable
  <1>1. CASE Up BY <1>1 DEF Up, procVars, unitVars
  <1>2. CASE Down BY <1>2 DEF Down, procVars, unitVars, ReturnInv
  <1>3. CASE Begin BY <1>3 DEF Begin, unitVars
  <1>4. CASE Lose BY <1>4 DEF Lose, unitVars
  <1>5. CASE Retry BY <1>5 DEF Retry, unitVars, RoundInv
  <1>6. CASE Exit BY <1>6 DEF Exit
  <1>7. CASE Restart BY <1>7 DEF Restart
  <1>8. CASE Tick BY <1>8 DEF Tick, Due, Waiting
  <1>9. CASE UNCHANGED vars BY <1>9 DEF vars, procVars, unitVars
  <1>10. QED BY <1>1, <1>2, <1>3, <1>4, <1>5, <1>6, <1>7, <1>8, <1>9
             DEF Next, Process, Systemd

Old == age > StartLimitIntervalSec     \* the window is over

Leaving == proc \in {"ending", "none"}

\* How old the window is at least, by the starts it has seen.  One start:
OneInv == starts = 1 =>
    /\ proc = "retrying" => age + timer >= attempt
    /\ proc = "ending" => age + timer >= 1
    /\ unit = "activating" => age + timer >= 11
    /\ (proc \notin {"starting", "listening"} /\ up) => Old \/ age >= since

\* Two: if the second failed in the outage of the first, the third will not.
TwoInv == starts = 2 =>
    /\ up => Old \/ age >= since
    /\ (Leaving /\ up) => Old \/ age >= since + 11
    /\ (proc = "starting" /\ ~up) => age >= 11
    /\ (Leaving /\ ~up) => age >= 11
    /\ (proc = "listening" /\ ~up) => age >= 38
    /\ (proc = "retrying" /\ ~up) => age + timer >= 38 + attempt
    /\ (proc = "ending" /\ ~up /\ since + timer <= 3) => age + timer >= 40
    /\ (unit = "activating" /\ ~up /\ since + timer <= 13) => age + timer >= 50

\* Three: the window is over before a fourth.
ThreeInv == starts = 3 =>
    /\ (proc \in {"starting", "listening", "retrying"} /\ up) => Old \/ age >= since + 11
    /\ (proc = "starting" /\ ~up) => age >= 50
    /\ (proc = "listening" /\ ~up) => age >= 49
    /\ (proc = "retrying" /\ ~up) => age + timer >= 49 + attempt
    /\ proc = "ending" => age + timer >= 51
    /\ unit = "activating" => age + timer >= 61

Budget == StaysUp /\ OneInv /\ TwoInv /\ ThreeInv

ClockInv == Types /\ RoundInv /\ ReturnInv /\ PhaseInv

LEMMA BudgetStep ==
    ASSUME Bearable, ClockInv, Budget, [Next]_vars PROVE Budget'
  <1> USE DEF ClockInv, Types, Fresh, Bearable, Budget, StaysUp, OneInv, TwoInv, ThreeInv, Old,
              Leaving
  <1>1. CASE Up BY <1>1 DEF Up, procVars, unitVars
  <1>2. CASE Down
    <2>1. /\ up /\ since >= MinUp /\ ~up' /\ since' = 0
          /\ UNCHANGED <<proc, attempt, timer, unit, age, starts>>
      BY <1>2 DEF Down, procVars, unitVars
    <2>2. proc = "listening" \/ proc = "retrying" \/ (proc = "starting" /\ starts = 1)
      BY <2>1 DEF ReturnInv
    <2>3. proc # "retrying" BY <2>1 DEF RoundInv
    <2>4. OneInv' BY <2>1, <2>2, <2>3
    <2>5. TwoInv' BY <2>1, <2>2, <2>3
    <2>6. ThreeInv' BY <2>1, <2>2, <2>3
    <2>7. QED BY <2>1, <2>4, <2>5, <2>6
  <1>3. CASE Begin BY <1>3 DEF Begin, unitVars, PhaseInv
  <1>4. CASE Lose BY <1>4 DEF Lose, unitVars, RoundInv
  <1>5. CASE Retry BY <1>5 DEF Retry, unitVars, RoundInv
  <1>6. CASE Exit BY <1>6 DEF Exit
  <1>7. CASE Restart BY <1>7 DEF Restart, PhaseInv, ReturnInv
  <1>8. CASE Tick BY <1>8 DEF Tick, Due, Waiting, RoundInv
  <1>9. CASE UNCHANGED vars BY <1>9 DEF vars, procVars, unitVars
  <1>10. QED BY <1>1, <1>2, <1>3, <1>4, <1>5, <1>6, <1>7, <1>8, <1>9
             DEF Next, Process, Systemd

LEMMA Invariance == Bearable => (Spec => [](ClockInv /\ Budget))
  <1> SUFFICES ASSUME Bearable PROVE Spec => [](ClockInv /\ Budget) OBVIOUS
  <1>1. Init => ClockInv /\ Budget
    BY DEF Init, ClockInv, Types, RoundInv, ReturnInv, PhaseInv, Fresh, Budget, StaysUp, OneInv,
           TwoInv, ThreeInv, Old, Leaving
  <1>2. MinUp > Wait /\ MinUp > Recovery BY DEF Bearable
  <1>3. Types /\ RoundInv /\ ReturnInv /\ PhaseInv /\ Budget /\ [Next]_vars
            => RoundInv' /\ ReturnInv' /\ PhaseInv' /\ Budget'
    BY <1>2, RoundStep, ReturnStep, PhaseStep, BudgetStep DEF ClockInv
  <1>4. ClockInv <=> Types /\ RoundInv /\ ReturnInv /\ PhaseInv BY DEF ClockInv
  <1>5. QED BY <1>1, <1>3, <1>4, TypeInduction, PTL DEF Spec

\* No sequence of outages within these bounds, at boot or later, costs four
\* starts within a minute.
THEOREM LimitNeverReached == Bearable => (Spec => []StaysUp)
  <1> SUFFICES ASSUME Bearable PROVE Spec => []StaysUp OBVIOUS
  <1>1. Budget => StaysUp BY DEF Budget
  <1>2. QED BY <1>1, Invariance, PTL

\* Then the process listens again within Recovery seconds of each outage.
THEOREM AlwaysRecovers == Bearable => (Spec => []RecoversSoon)
  <1> SUFFICES ASSUME Bearable PROVE Spec => []RecoversSoon OBVIOUS
  <1>1. MinUp > Recovery BY DEF Bearable
  <1>2. QED BY <1>1, LimitNeverReached, RecoversUnlessFailed, PTL
===============================================================================
