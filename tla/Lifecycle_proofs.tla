--------------------------- MODULE Lifecycle_proofs ---------------------------
(***************************************************************************)
(* Proofs about module Lifecycle, for every number of retries, every bound *)
(* on the queue and every environment the constants allow.                 *)
(***************************************************************************)
EXTENDS Lifecycle, TLAPS, SequenceTheorems

USE DEF StopSteps, history

-----------------------------------------------------------------------------
(* The queue of signals.                                                    *)

Signals == {"started", "stopped"}

LEMMA AnnounceType ==
    ASSUME signals \in Seq(Signals), NEW before \in BOOLEAN, NEW after \in BOOLEAN
    PROVE  Announce(before, after) \in Seq(Signals)
  BY DEF Announce, Signals

LEMMA TailType ==
    ASSUME signals \in Seq(Signals), signals # <<>>
    PROVE  Tail(signals) \in Seq(Signals)
  OBVIOUS

\* Announcing a loss puts it in the queue; nothing announced takes one out.
LEMMA AnnounceLoss ==
    ASSUME signals \in Seq(Signals), NEW before \in BOOLEAN, NEW after \in BOOLEAN,
           signals' = Announce(before, after)
    PROVE  LossPending' <=> (LossPending \/ (before /\ ~after))
  <1>1. CASE before = after BY <1>1 DEF Announce, LossPending
  <1>2. CASE before # after
    <2> DEFINE s == IF after THEN "started" ELSE "stopped"
    <2>1. signals' = Append(signals, s) BY <1>2 DEF Announce
    <2>2. Len(signals') = Len(signals) + 1 /\ Len(signals) \in Nat
          /\ signals'[Len(signals) + 1] = s
          /\ \A i \in 1..Len(signals) : signals'[i] = signals[i]
      BY <2>1 DEF Signals
    <2>3. LossPending => LossPending' BY <2>2 DEF LossPending
    <2>4. s = "stopped" => LossPending' BY <2>2 DEF LossPending
    <2>5. LossPending' => LossPending \/ s = "stopped"
      <3> SUFFICES ASSUME NEW i \in 1..Len(signals'), signals'[i] = "stopped"
                   PROVE  LossPending \/ s = "stopped"
        BY DEF LossPending
      <3>1. i \in 1..Len(signals) \/ i = Len(signals) + 1 BY <2>2
      <3>2. QED BY <3>1, <2>2 DEF LossPending
    <2>6. QED BY <1>2, <2>3, <2>4, <2>5
  <1>3. QED BY <1>1, <1>2

\* Reading the head leaves the other losses in the queue.
LEMMA TailLoss ==
    ASSUME signals \in Seq(Signals), signals # <<>>, signals' = Tail(signals)
    PROVE  LossPending => (Head(signals) = "stopped" \/ LossPending')
  <1> SUFFICES ASSUME NEW i \in 1..Len(signals), signals[i] = "stopped", i # 1
               PROVE  LossPending'
    BY DEF LossPending
  <1>1. i - 1 \in 1..Len(signals') /\ signals'[i - 1] = signals[i]
    BY DEF Signals
  <1>2. QED BY <1>1 DEF LossPending

-----------------------------------------------------------------------------
(* Types.                                                                   *)

\* stop() keeps the types, whichever thread runs it.
LEMMA TypeStop ==
    ASSUME TypeOK, NEW t \in {"main", "runner", "stopper"}, Stop(t)
    PROVE  TypeOK'
  <1> USE DEF TypeOK, GoTo, adapterVars, bleVars
  <1>1. CASE StopCheck(t) BY <1>1 DEF StopCheck
  <1>2. CASE StopClear(t) BY <1>2 DEF StopClear
  <1>3. CASE StopDiscovery(t) BY <1>3, AnnounceType DEF StopDiscovery, Signals
  <1>4. CASE LeaveEventLoop(t) BY <1>4 DEF LeaveEventLoop, Resume
  <1>5. QED BY <1>1, <1>2, <1>3, <1>4 DEF Stop

LEMMA TypeRunner == ASSUME TypeOK, Runner PROVE TypeOK'
  <1> USE ConstantsAssumption DEF TypeOK, adapterVars, bleVars
  <1>1. CASE SetDiscoveryFilter BY <1>1 DEF SetDiscoveryFilter, Throw
  <1>2. CASE Arm BY <1>2 DEF Arm
  <1>3. CASE StartDiscovery
    <2>1. Announce(other, TRUE) \in Seq(Signals) BY AnnounceType DEF Signals
    <2>2. Throw => runner' \in {"threw", "filter", "giveup"} /\ attempt' \in 0..Retries
      BY DEF Throw
    <2>3. runner' \in {"loop", "threw", "filter", "giveup"} /\ attempt' \in 0..Retries
      BY <1>3, <2>2 DEF StartDiscovery
    <2>4. session' \in BOOLEAN /\ signals' \in Seq(Signals)
      BY <1>3, <2>1 DEF StartDiscovery, Grant, Signals
    <2>5. UNCHANGED <<powered, other, bus>> BY <1>3 DEF StartDiscovery, Grant
    <2>6. alone' \in BOOLEAN /\ abandoned' \in BOOLEAN
      BY <1>3 DEF StartDiscovery, Grant
    <2>7. QED BY <1>3, <2>3, <2>4, <2>5, <2>6 DEF StartDiscovery, Signals
  <1>4. CASE DiscoveryFailedCb BY <1>4, TailType DEF DiscoveryFailedCb, Signals
  <1>5. CASE GiveUp BY <1>5 DEF GiveUp
  <1>6. CASE LeaveLoop BY <1>6 DEF LeaveLoop
  <1>7. CASE LoopFails \/ StartReturns \/ RunnerCatch
    BY <1>7 DEF LoopFails, StartReturns, RunnerCatch
  <1>8. CASE Stop("runner") BY <1>8, TypeStop
  <1>9. QED BY <1>1, <1>2, <1>3, <1>4, <1>5, <1>6, <1>7, <1>8 DEF Runner

LEMMA TypeAdapter == ASSUME TypeOK, Adapter PROVE TypeOK'
  <1> USE DEF TypeOK, mainVars, bleVars
  <1>1. CASE PowerOff BY <1>1, AnnounceType DEF PowerOff, Signals
  <1>2. CASE PowerOn BY <1>2 DEF PowerOn
  <1>3. CASE OtherToggles BY <1>3, AnnounceType DEF OtherToggles, Signals
  <1>4. CASE DaemonRestarts
    <2>1. abandoned' \in BOOLEAN BY <1>4, Zenon DEF DaemonRestarts
    <2>2. powered' \in BOOLEAN /\ session' \in BOOLEAN /\ other' \in BOOLEAN
      BY <1>4 DEF DaemonRestarts
    <2>3. UNCHANGED <<mainVars, bleVars, bus, signals, calm, alone>>
      BY <1>4 DEF DaemonRestarts
    <2>4. QED BY <2>1, <2>2, <2>3
  <1>5. CASE BusDies BY <1>5 DEF BusDies
  <1>6. QED BY <1>1, <1>2, <1>3, <1>4, <1>5 DEF Adapter

\* Every variable keeps its type in every step.
LEMMA TypeStep == ASSUME TypeOK, [Next]_vars PROVE TypeOK'
  <1>1. CASE UNCHANGED vars
    BY <1>1 DEF TypeOK, vars, mainVars, bleVars, adapterVars
  <1>2. CASE Stopper
    BY <1>2, TypeStop
    DEF TypeOK, Stopper, StopperPoll, StopperNap, adapterVars, bleVars
  <1>3. CASE Main
    BY <1>3, TypeStop
    DEF TypeOK, Main, Construct, SpawnStopper, InstallHandlers, Join, Return,
        adapterVars, bleVars
  <1>4. CASE Signal
    BY <1>4 DEF TypeOK, Signal, Sigterm, Sigusr1, adapterVars, bleVars
  <1>5. QED
    BY <1>1, <1>2, <1>3, <1>4, TypeRunner, TypeAdapter DEF Next, Ended

\* The type invariant of module Lifecycle, for all constants.
THEOREM TypeCorrect == Spec => []TypeOK
  <1>1. Init => TypeOK
    <2> SUFFICES ASSUME Init PROVE TypeOK
      OBVIOUS
    <2>1. attempt \in 0..Retries BY ConstantsAssumption DEF Init
    <2>2. signals \in Seq({"started", "stopped"}) BY DEF Init
    <2>3. {powered, session, other, bus, calm, alone, abandoned} \subseteq BOOLEAN
      BY DEF Init
    <2>4. QED BY <2>1, <2>2, <2>3 DEF Init, TypeOK
  <1>2. QED BY <1>1, TypeStep, PTL DEF Spec

-----------------------------------------------------------------------------
(* A stop request is never lost.                                            *)

\* ExitPending, and what makes it inductive: the stopper thread does not exist
\* before the runner does, and a runner past its event loop never goes back.
ExitIInv ==
    /\ ExitPending
    /\ main \in {"construct", "spawn"} => stopper = "new"

LEMMA ExitPendingStep ==
    ASSUME TypeOK, ExitIInv, [Next]_vars PROVE ExitIInv'
  <1> USE DEF ExitIInv, ExitPending, adapterVars, bleVars, mainVars
  <1>1. CASE UNCHANGED vars BY <1>1 DEF vars
  <1>2. CASE Runner
    <2>1. CASE SetDiscoveryFilter \/ Arm \/ StartDiscovery
      BY <2>1 DEF SetDiscoveryFilter, Arm, StartDiscovery
    <2>2. CASE DiscoveryFailedCb \/ GiveUp
      BY <2>2 DEF DiscoveryFailedCb, GiveUp
    <2>3. CASE LeaveLoop \/ LoopFails \/ StartReturns \/ RunnerCatch
      BY <2>3 DEF LeaveLoop, LoopFails, StartReturns, RunnerCatch
    <2>4. CASE Stop("runner")
      BY <2>4 DEF Stop, StopCheck, StopClear, StopDiscovery, LeaveEventLoop, GoTo
    <2>5. QED BY <1>2, <2>1, <2>2, <2>3, <2>4 DEF Runner
  <1>3. CASE Stopper
    BY <1>3 DEF Stopper, StopperPoll, StopperNap, Stop, StopCheck, StopClear,
                StopDiscovery, LeaveEventLoop, GoTo, Resume
  <1>4. CASE Main
    <2>1. CASE Construct \/ SpawnStopper \/ InstallHandlers \/ Join \/ Return
      BY <2>1 DEF Construct, SpawnStopper, InstallHandlers, Join, Return, TypeOK
    <2>2. CASE Stop("main")
      BY <2>2 DEF Stop, StopCheck, StopClear, StopDiscovery, LeaveEventLoop, GoTo, Resume
    <2>3. QED BY <1>4, <2>1, <2>2 DEF Main
  <1>5. CASE Signal \/ Adapter
    BY <1>5 DEF Signal, Sigterm, Sigusr1, Adapter, PowerOff, PowerOn, OtherToggles,
                DaemonRestarts, BusDies
  <1>6. QED BY <1>1, <1>2, <1>3, <1>4, <1>5 DEF Next, Ended

\* The stop request of main.cpp's stopper reaches the event loop even if stop()
\* runs before start() has entered it or while a callback retries.
THEOREM ExitNeverLost == Spec => []ExitPending
  <1>1. Init => ExitIInv BY DEF Init, ExitIInv, ExitPending
  <1>2. ExitIInv => ExitPending BY DEF ExitIInv
  <1>3. QED BY <1>1, <1>2, TypeCorrect, ExitPendingStep, PTL DEF Spec

-----------------------------------------------------------------------------
(* No deaf process.                                                         *)

\* The order in which main() starts and joins its threads.
ThreadsInv ==
    /\ main = "construct" => runner = "new"
    /\ main \in {"construct", "spawn"} => stopper = "new"
    /\ main \in {"join_runner"} \cup StopSteps => stopper = "done"
    /\ main \in StopSteps => runner = "done"
    /\ main \in {"return", "exited"} =>
           (runner = "done" /\ stopper = "done") \/ (runner = "new" /\ stopped_with_error)

\* Discovery is wanted whenever nobody is stopping: this is what makes the loop
\* answer a loss, and with it NotDeaf inductive.
WantedInv ==
    (runner \in {"start", "loop"} /\ ~Stopping /\ ~loop_exit) => should_discover

DeafIInv == ThreadsInv /\ WantedInv /\ NotDeaf

LEMMA ThreadsStep == ASSUME TypeOK, ThreadsInv, [Next]_vars PROVE ThreadsInv'
  <1> USE DEF ThreadsInv, adapterVars, bleVars, mainVars
  <1>1. CASE UNCHANGED vars BY <1>1 DEF vars
  <1>2. CASE main # "exited" /\ Runner
    <2>1. CASE SetDiscoveryFilter \/ Arm \/ StartDiscovery
      BY <1>2, <2>1 DEF SetDiscoveryFilter, Arm, StartDiscovery
    <2>2. CASE DiscoveryFailedCb \/ GiveUp
      BY <1>2, <2>2 DEF DiscoveryFailedCb, GiveUp
    <2>3. CASE LeaveLoop \/ LoopFails \/ StartReturns \/ RunnerCatch
      BY <1>2, <2>3 DEF LeaveLoop, LoopFails, StartReturns, RunnerCatch
    <2>4. CASE Stop("runner")
      BY <1>2, <2>4
      DEF Stop, StopCheck, StopClear, StopDiscovery, LeaveEventLoop, GoTo
    <2>5. QED BY <1>2, <2>1, <2>2, <2>3, <2>4 DEF Runner
  <1>3. CASE main # "exited" /\ Stopper
    <2>1. CASE StopperPoll \/ StopperNap BY <1>3, <2>1 DEF StopperPoll, StopperNap
    <2>2. CASE Stop("stopper")
      <3>1. stopper \in StopSteps /\ stopper' \in StopSteps \cup {"done"}
            /\ UNCHANGED <<main, runner, stopped_with_error>>
        BY <2>2
        DEF Stop, StopCheck, StopClear, StopDiscovery, LeaveEventLoop, GoTo, Resume
      <3>2. QED BY <1>3, <3>1
    <2>3. QED BY <1>3, <2>1, <2>2 DEF Stopper
  <1>4. CASE main # "exited" /\ Main
    <2>1. CASE Construct \/ SpawnStopper \/ InstallHandlers \/ Join \/ Return
      BY <2>1 DEF Construct, SpawnStopper, InstallHandlers, Join, Return, TypeOK
    <2>2. CASE Stop("main")
      BY <2>2
      DEF Stop, StopCheck, StopClear, StopDiscovery, LeaveEventLoop, GoTo, Resume
    <2>3. QED BY <1>4, <2>1, <2>2 DEF Main
  <1>5. CASE Signal \/ Adapter
    BY <1>5 DEF Signal, Sigterm, Sigusr1, Adapter, PowerOff, PowerOn, OtherToggles,
                DaemonRestarts, BusDies
  <1>6. QED BY <1>1, <1>2, <1>3, <1>4, <1>5 DEF Next, Ended

LEMMA WantedStep ==
    ASSUME TypeOK, ThreadsInv, WantedInv, [Next]_vars
    PROVE  WantedInv'
  <1> USE DEF WantedInv, Stopping, adapterVars, bleVars, mainVars
  <1>1. CASE UNCHANGED vars BY <1>1 DEF vars
  <1>2. CASE main # "exited" /\ Runner
    <2>1. CASE SetDiscoveryFilter BY <2>1 DEF SetDiscoveryFilter, Throw
    <2>2. CASE Arm \/ StartDiscovery BY <2>2 DEF Arm, StartDiscovery, Throw
    <2>3. CASE DiscoveryFailedCb \/ GiveUp BY <2>3 DEF DiscoveryFailedCb, GiveUp
    <2>4. CASE LeaveLoop \/ LoopFails \/ StartReturns \/ RunnerCatch
      BY <2>4 DEF LeaveLoop, LoopFails, StartReturns, RunnerCatch
    <2>5. CASE Stop("runner")
      BY <2>5
      DEF Stop, StopCheck, StopClear, StopDiscovery, LeaveEventLoop, GoTo, Resume
    <2>6. QED BY <1>2, <2>1, <2>2, <2>3, <2>4, <2>5 DEF Runner
  <1>3. CASE Stopper
    <2>1. CASE StopperPoll \/ StopperNap BY <2>1 DEF StopperPoll, StopperNap
    <2>2. CASE Stop("stopper")
      BY <2>2
      DEF Stop, StopCheck, StopClear, StopDiscovery, LeaveEventLoop, GoTo, Resume
    <2>3. QED BY <1>3, <2>1, <2>2 DEF Stopper
  <1>4. CASE main # "exited" /\ Main
    <2>1. CASE Construct \/ SpawnStopper \/ InstallHandlers \/ Join \/ Return
      BY <2>1 DEF Construct, SpawnStopper, InstallHandlers, Join, Return, ThreadsInv
    <2>2. CASE Stop("main")
      <3>1. stopper = "done" BY <2>2, ThreadsInv
        DEF ThreadsInv, Stop, StopCheck, StopClear, StopDiscovery, LeaveEventLoop, GoTo
      <3>2. UNCHANGED stopper
        BY <2>2 DEF Stop, StopCheck, StopClear, StopDiscovery, LeaveEventLoop, GoTo
      <3>3. QED BY <3>1, <3>2
    <2>3. QED BY <1>4, <2>1, <2>2 DEF Main
  <1>5. CASE Signal \/ Adapter
    BY <1>5 DEF Signal, Sigterm, Sigusr1, Adapter, PowerOff, PowerOn, OtherToggles,
                DaemonRestarts, BusDies
  <1>6. QED BY <1>1, <1>2, <1>3, <1>4, <1>5 DEF Next, Ended

LEMMA DeafStep ==
    ASSUME TypeOK, ThreadsInv, WantedInv, NotDeaf, [Next]_vars
    PROVE  NotDeaf'
  <1> SUFFICES ASSUME runner' = "loop", bus', ~Stopping', ~loop_exit', ~LossPending'
               PROVE  session' \/ abandoned'
    BY DEF NotDeaf
  <1> USE DEF Stopping, adapterVars, bleVars, mainVars
  <1>1. CASE UNCHANGED vars BY <1>1 DEF vars, NotDeaf, LossPending
  <1>2. CASE main # "exited" /\ Runner
    <2>1. CASE SetDiscoveryFilter BY <2>1 DEF SetDiscoveryFilter, Throw
    <2>2. CASE Arm BY <2>2 DEF Arm
    <2>3. CASE StartDiscovery BY <2>3 DEF StartDiscovery, Throw, Grant
    <2>4. CASE DiscoveryFailedCb
      <3>1. signals \in Seq(Signals) BY DEF TypeOK, Signals
      <3>2. Head(signals) # "stopped" BY <2>4 DEF DiscoveryFailedCb, WantedInv
      <3>3. ~LossPending BY <2>4, <3>1, <3>2, TailLoss DEF DiscoveryFailedCb
      <3>4. QED BY <2>4, <3>3 DEF DiscoveryFailedCb, NotDeaf
    <2>5. CASE GiveUp \/ LeaveLoop \/ LoopFails \/ StartReturns \/ RunnerCatch
      BY <2>5 DEF GiveUp, LeaveLoop, LoopFails, StartReturns, RunnerCatch
    <2>6. CASE Stop("runner")
      BY <2>6
      DEF Stop, StopCheck, StopClear, StopDiscovery, LeaveEventLoop, GoTo, Resume
    <2>7. QED BY <1>2, <2>1, <2>2, <2>3, <2>4, <2>5, <2>6 DEF Runner
  <1>3. CASE Stopper
    <2>1. CASE StopperPoll \/ StopperNap
      BY <2>1 DEF StopperPoll, StopperNap, NotDeaf, LossPending
    <2>2. CASE Stop("stopper")
      BY <2>2
      DEF Stop, StopCheck, StopClear, StopDiscovery, LeaveEventLoop, GoTo, Resume
    <2>3. QED BY <1>3, <2>1, <2>2 DEF Stopper
  <1>4. CASE main # "exited" /\ Main
    <2>1. CASE Construct \/ SpawnStopper \/ InstallHandlers \/ Join
      BY <2>1
      DEF Construct, SpawnStopper, InstallHandlers, Join, NotDeaf, LossPending,
          ThreadsInv
    <2>2. CASE Return BY <2>2 DEF Return, ThreadsInv
    <2>3. CASE Stop("main")
      <3>1. stopper = "done" BY <2>3
        DEF ThreadsInv, Stop, StopCheck, StopClear, StopDiscovery, LeaveEventLoop, GoTo
      <3>2. UNCHANGED stopper
        BY <2>3 DEF Stop, StopCheck, StopClear, StopDiscovery, LeaveEventLoop, GoTo
      <3>3. QED BY <3>1, <3>2
    <2>4. QED BY <1>4, <2>1, <2>2, <2>3 DEF Main
  <1>5. CASE Signal
    BY <1>5 DEF Signal, Sigterm, Sigusr1, NotDeaf, LossPending
  <1>6. CASE Adapter
    <2>1. signals \in Seq(Signals) /\ session \in BOOLEAN /\ other \in BOOLEAN
      BY DEF TypeOK, Signals
    <2>2. CASE PowerOff
      BY <2>1, <2>2, AnnounceLoss DEF PowerOff, NotDeaf
    <2>3. CASE PowerOn BY <2>3 DEF PowerOn, NotDeaf, LossPending
    <2>4. CASE OtherToggles
      <3>1. (session \/ other) \in BOOLEAN /\ (session \/ ~other) \in BOOLEAN
        BY <2>1
      <3>2. LossPending => LossPending'
        BY <2>1, <3>1, <2>4, AnnounceLoss DEF OtherToggles
      <3>3. QED BY <2>4, <3>2 DEF OtherToggles, NotDeaf
    <2>5. CASE DaemonRestarts BY <2>5 DEF DaemonRestarts, NotDeaf, LossPending
    <2>6. CASE BusDies BY <2>6 DEF BusDies
    <2>7. QED BY <1>6, <2>2, <2>3, <2>4, <2>5, <2>6 DEF Adapter
  <1>7. QED BY <1>1, <1>2, <1>3, <1>4, <1>5, <1>6 DEF Next, Ended

\* Whatever the adapter, the bus and other programs do, and however often
\* retry_discovery() tries: a waiting listener is discovering, or has a loss of
\* discovery still to read.
THEOREM NeverDeaf == Spec => []NotDeaf
  <1>1. Init => DeafIInv
    BY DEF Init, DeafIInv, ThreadsInv, WantedInv, NotDeaf
  <1>2. TypeOK /\ DeafIInv /\ [Next]_vars => DeafIInv'
    BY ThreadsStep, WantedStep, DeafStep DEF DeafIInv
  <1>3. DeafIInv => NotDeaf BY DEF DeafIInv
  <1>4. QED BY <1>1, <1>2, <1>3, TypeCorrect, PTL DEF Spec

-----------------------------------------------------------------------------
(* No restart of a discovery that works.                                    *)

OneLoss ==
    \A i, j \in 1..Len(signals) :
        (signals[i] = "stopped" /\ signals[j] = "stopped") => i = j

\* While this is the only client, a queued loss is the loss of the session there
\* was, so that a restart, which follows the reading of one, starts with no
\* session and with no older loss behind it.
SoleIInv ==
    /\ ~other
    /\ OneLoss
    /\ session => ~LossPending
    /\ (Starting \/ runner = "new") => ~session /\ ~LossPending

LEMMA AnnounceOne ==
    ASSUME signals \in Seq(Signals), OneLoss,
           NEW before \in BOOLEAN, NEW after \in BOOLEAN,
           (before /\ ~after) => ~LossPending,
           signals' = Announce(before, after)
    PROVE  OneLoss'
  <1>1. CASE before = after BY <1>1 DEF Announce, OneLoss
  <1>2. CASE before # after
    <2> DEFINE s == IF after THEN "started" ELSE "stopped"
    <2>1. signals' = Append(signals, s) BY <1>2 DEF Announce
    <2>2. Len(signals') = Len(signals) + 1 /\ Len(signals) \in Nat
          /\ signals'[Len(signals) + 1] = s
          /\ \A i \in 1..Len(signals) : signals'[i] = signals[i]
      BY <2>1 DEF Signals
    <2>3. CASE after
      <3>1. s # "stopped" BY <2>3
      <3>2. ASSUME NEW i \in 1..Len(signals'), signals'[i] = "stopped"
            PROVE  i \in 1..Len(signals) /\ signals[i] = "stopped"
        <4>1. i # Len(signals) + 1 BY <2>2, <3>1, <3>2
        <4>2. i \in 1..Len(signals) BY <2>2, <4>1
        <4>3. QED BY <2>2, <3>2, <4>2
      <3>3. QED BY <3>2 DEF OneLoss
    <2>4. CASE ~after
      <3>1. \A i \in 1..Len(signals) : signals[i] # "stopped"
        BY <1>2, <2>4 DEF LossPending
      <3>2. \A i \in 1..Len(signals') :
               signals'[i] = "stopped" => i = Len(signals) + 1
        BY <2>2, <3>1
      <3>3. QED BY <3>2 DEF OneLoss
    <2>5. QED BY <2>3, <2>4
  <1>3. QED BY <1>1, <1>2

LEMMA TailOne ==
    ASSUME signals \in Seq(Signals), OneLoss, signals # <<>>, signals' = Tail(signals)
    PROVE  /\ OneLoss'
           /\ (Head(signals) = "stopped" \/ ~LossPending) => ~LossPending'
  <1>1. /\ Len(signals) \in Nat \ {0} /\ Len(signals') = Len(signals) - 1
        /\ \A i \in 1..Len(signals') : signals'[i] = signals[i + 1]
        /\ Head(signals) = signals[1]
    BY DEF Signals
  <1>2. OneLoss' BY <1>1 DEF OneLoss
  <1>3. (Head(signals) = "stopped" \/ ~LossPending) => ~LossPending'
    BY <1>1 DEF OneLoss, LossPending
  <1>4. QED BY <1>2, <1>3

LEMMA SoleStopDiscovery ==
    ASSUME TypeOK, SoleIInv, NEW t \in {"main", "runner", "stopper"}, Stop(t)
    PROVE  SoleIInv'
  <1> USE DEF SoleIInv, Starting, adapterVars, bleVars
  <1>1. CASE StopDiscovery(t)
    <2>1. ~other' /\ (runner' = "leave" \/ UNCHANGED runner)
      BY <1>1 DEF StopDiscovery, GoTo
    <2>2. CASE UNCHANGED <<session, signals>>
      BY <1>1, <2>1, <2>2 DEF OneLoss, LossPending
    <2>3. CASE session /\ ~session' /\ signals' = Announce(TRUE, other)
      <3>1. signals \in Seq(Signals) BY DEF TypeOK, Signals
      <3>2. signals' = Announce(TRUE, FALSE) BY <2>3 DEF TypeOK
      <3>3. OneLoss' BY <2>3, <3>1, <3>2, AnnounceOne
      <3>4. QED BY <1>1, <2>1, <2>3, <3>3
    <2>4. QED BY <1>1, <2>2, <2>3 DEF StopDiscovery
  <1>2. CASE StopCheck(t) \/ StopClear(t) \/ LeaveEventLoop(t)
    <2>1. UNCHANGED adapterVars BY <1>2 DEF StopCheck, StopClear, LeaveEventLoop
    <2>2. runner' \notin {"new", "filter", "arm", "start"} \/ UNCHANGED runner
      BY <1>2 DEF StopCheck, StopClear, LeaveEventLoop, GoTo, Resume
    <2>3. QED BY <2>1, <2>2 DEF OneLoss, LossPending
  <1>3. QED BY <1>1, <1>2 DEF Stop

LEMMA SoleStep ==
    ASSUME alone', TypeOK, ThreadsInv, SoleIInv, [Next]_vars
    PROVE  SoleIInv'
  <1> USE DEF Starting, adapterVars, bleVars, mainVars
  <1>1. signals \in Seq(Signals) /\ session \in BOOLEAN /\ other = FALSE
    BY DEF TypeOK, SoleIInv, Signals
  <1>2. CASE UNCHANGED <<runner, adapterVars>>
    BY <1>2 DEF SoleIInv, OneLoss, LossPending
  <1>3. CASE Runner
    <2>1. CASE SetDiscoveryFilter \/ Arm
      <3>1. UNCHANGED adapterVars /\ Starting BY <2>1 DEF SetDiscoveryFilter, Arm
      <3>2. QED BY <3>1 DEF SoleIInv, OneLoss, LossPending
    <2>2. CASE StartDiscovery
      <3>1. CASE UNCHANGED adapterVars
        BY <2>2, <3>1 DEF StartDiscovery, SoleIInv, OneLoss, LossPending
      <3>2. CASE Grant /\ runner' = "loop"
        <4>1. signals' = Announce(FALSE, TRUE) BY <1>1, <3>2 DEF Grant
        <4>2. ~LossPending BY <2>2 DEF StartDiscovery, SoleIInv
        <4>3. ~LossPending' BY <1>1, <4>1, <4>2, AnnounceLoss
        <4>4. OneLoss' BY <1>1, <4>1, AnnounceOne DEF SoleIInv
        <4>5. QED BY <1>1, <3>2, <4>3, <4>4 DEF Grant, SoleIInv
      <3>3. QED BY <1>1, <2>2, <3>1, <3>2 DEF StartDiscovery
    <2>3. CASE DiscoveryFailedCb
      <3>1. signals # <<>> /\ signals' = Tail(signals) /\ UNCHANGED <<session, other>>
        BY <2>3 DEF DiscoveryFailedCb
      <3>2. OneLoss' /\ ((Head(signals) = "stopped" \/ ~LossPending) => ~LossPending')
        BY <1>1, <3>1, TailOne DEF SoleIInv
      <3>3. CASE Head(signals) = "stopped"
        <4>1. LossPending
          <5>1. Len(signals) \in Nat \ {0} /\ Head(signals) = signals[1]
            BY <1>1, <3>1 DEF Signals
          <5>2. QED BY <3>3, <5>1 DEF LossPending
        <4>2. ~session' BY <3>1, <4>1 DEF SoleIInv
        <4>3. QED BY <1>1, <3>1, <3>2, <3>3, <4>2 DEF SoleIInv
      <3>4. CASE Head(signals) # "stopped"
        <4>1. runner' = "loop" BY <2>3, <3>4 DEF DiscoveryFailedCb
        <4>2. QED BY <1>1, <3>1, <3>2, <4>1 DEF SoleIInv
      <3>5. QED BY <3>3, <3>4
    <2>4. CASE GiveUp \/ LeaveLoop \/ LoopFails \/ StartReturns \/ RunnerCatch
      <3>1. UNCHANGED adapterVars /\ ~Starting' /\ runner' # "new"
        BY <2>4 DEF GiveUp, LeaveLoop, LoopFails, StartReturns, RunnerCatch
      <3>2. QED BY <3>1 DEF SoleIInv, OneLoss, LossPending
    <2>5. CASE Stop("runner") BY <2>5, SoleStopDiscovery
    <2>6. QED BY <1>3, <2>1, <2>2, <2>3, <2>4, <2>5 DEF Runner
  <1>4. CASE Stopper
    BY <1>2, <1>4, SoleStopDiscovery DEF Stopper, StopperPoll, StopperNap
  <1>5. CASE Main
    <2>1. CASE SpawnStopper \/ InstallHandlers \/ Join
      BY <1>2, <2>1 DEF SpawnStopper, InstallHandlers, Join
    <2>2. CASE Construct
      <3>1. UNCHANGED adapterVars /\ (runner' = runner \/ runner' = "filter")
        BY <2>2 DEF Construct
      <3>2. OneLoss' /\ (LossPending' <=> LossPending)
        BY <3>1 DEF SoleIInv, OneLoss, LossPending
      <3>3. runner = "new" \/ UNCHANGED runner
        BY <2>2, ThreadsInv DEF Construct, ThreadsInv
      <3>4. QED BY <3>1, <3>2, <3>3 DEF SoleIInv
    <2>3. CASE Return BY <2>3 DEF Return, SoleIInv, OneLoss, LossPending
    <2>4. QED BY <1>5, <2>1, <2>2, <2>3, SoleStopDiscovery DEF Main
  <1>6. CASE Signal BY <1>2, <1>6 DEF Signal, Sigterm, Sigusr1
  <1>7. CASE Adapter
    <2>1. CASE PowerOff
      <3>1. (session \/ other) = session BY <1>1
      <3>2. signals' = Announce(session, FALSE) /\ ~session' /\ ~other'
            /\ UNCHANGED runner
        BY <2>1, <3>1 DEF PowerOff
      <3>3. OneLoss' BY <1>1, <3>2, AnnounceOne DEF SoleIInv
      <3>4. LossPending' <=> (LossPending \/ session) BY <1>1, <3>2, AnnounceLoss
      <3>5. QED BY <3>2, <3>3, <3>4 DEF SoleIInv
    <2>2. CASE PowerOn BY <1>1, <2>2 DEF PowerOn, SoleIInv, OneLoss, LossPending
    <2>3. CASE OtherToggles BY <1>1, <2>3 DEF OtherToggles
    <2>4. CASE DaemonRestarts
      BY <1>1, <2>4 DEF DaemonRestarts, SoleIInv, OneLoss, LossPending
    <2>5. CASE BusDies BY <1>1, <2>5 DEF BusDies, SoleIInv, OneLoss, LossPending
    <2>6. QED BY <1>7, <2>1, <2>2, <2>3, <2>4, <2>5 DEF Adapter
  <1>8. QED BY <1>2, <1>3, <1>4, <1>5, <1>6, <1>7 DEF Next, Ended, vars

\* Once another client has scanned or a reply was lost, that stays so.
LEMMA AloneBefore == ASSUME [Next]_vars, alone' PROVE alone
  <1> USE DEF adapterVars, bleVars, mainVars
  <1>1. CASE UNCHANGED vars BY <1>1 DEF vars
  <1>2. CASE Runner
    <2>1. CASE SetDiscoveryFilter \/ Arm \/ StartDiscovery
      BY <2>1 DEF SetDiscoveryFilter, Arm, StartDiscovery
    <2>2. CASE DiscoveryFailedCb \/ GiveUp \/ LeaveLoop \/ LoopFails
      BY <2>2 DEF DiscoveryFailedCb, GiveUp, LeaveLoop, LoopFails
    <2>3. CASE StartReturns \/ RunnerCatch BY <2>3 DEF StartReturns, RunnerCatch
    <2>4. CASE Stop("runner")
      BY <2>4 DEF Stop, StopCheck, StopClear, StopDiscovery, LeaveEventLoop
    <2>5. QED BY <1>2, <2>1, <2>2, <2>3, <2>4 DEF Runner
  <1>3. CASE Stopper
    BY <1>3 DEF Stopper, StopperPoll, StopperNap, Stop, StopCheck, StopClear,
                StopDiscovery, LeaveEventLoop
  <1>4. CASE Main
    BY <1>4 DEF Main, Construct, SpawnStopper, InstallHandlers, Join, Return, Stop,
                StopCheck, StopClear, StopDiscovery, LeaveEventLoop
  <1>5. CASE Signal \/ Adapter
    BY <1>5 DEF Signal, Sigterm, Sigusr1, Adapter, PowerOff, PowerOn, OtherToggles,
                DaemonRestarts, BusDies
  <1>6. QED BY <1>1, <1>2, <1>3, <1>4, <1>5 DEF Next, Ended

\* discovery_failed_cb() and retry_discovery() ask for a new discovery only when
\* theirs is gone, however the signals of stops and starts interleave.
THEOREM NoStaleRestart == Spec => []RestartOnlyWhenLost
  <1> DEFINE Inv == ThreadsInv /\ (alone => SoleIInv)
  <1>1. Init => Inv
    BY DEF Init, ThreadsInv, SoleIInv, OneLoss, LossPending, Starting
  <1>2. TypeOK /\ Inv /\ [Next]_vars => Inv'
    BY ThreadsStep, SoleStep, AloneBefore
  <1>3. Inv => RestartOnlyWhenLost BY DEF SoleIInv, RestartOnlyWhenLost
  <1> HIDE DEF Inv
  <1>4. QED BY <1>1, <1>2, <1>3, TypeCorrect, PTL DEF Spec

-----------------------------------------------------------------------------
(* A calm stop is final.                                                    *)

\* The stopper disarmed an idle loop: from then on discovery is not wanted, and
\* only start_discovery(), which is not running, could want it again.
CalmIInv == calm => (~Starting /\ ~should_discover /\ runner # "new")

LEMMA CalmStep ==
    ASSUME TypeOK, ThreadsInv, CalmIInv, [Next]_vars PROVE CalmIInv'
  <1> USE DEF CalmIInv, Starting, adapterVars, bleVars, mainVars
  <1>1. CASE UNCHANGED vars BY <1>1 DEF vars
  <1>2. CASE Runner
    <2>1. CASE SetDiscoveryFilter \/ Arm \/ StartDiscovery
      BY <2>1 DEF SetDiscoveryFilter, Arm, StartDiscovery
    <2>2. CASE DiscoveryFailedCb \/ GiveUp BY <2>2 DEF DiscoveryFailedCb, GiveUp
    <2>3. CASE LeaveLoop \/ LoopFails \/ StartReturns \/ RunnerCatch
      BY <2>3 DEF LeaveLoop, LoopFails, StartReturns, RunnerCatch
    <2>4. CASE Stop("runner")
      BY <2>4 DEF Stop, StopCheck, StopClear, StopDiscovery, LeaveEventLoop, GoTo, Resume
    <2>5. QED BY <1>2, <2>1, <2>2, <2>3, <2>4 DEF Runner
  <1>3. CASE Stopper
    <2>1. CASE StopperPoll \/ StopperNap BY <2>1 DEF StopperPoll, StopperNap
    <2>2. CASE Stop("stopper")
      BY <2>2 DEF Stop, StopCheck, StopClear, StopDiscovery, LeaveEventLoop, GoTo
    <2>3. QED BY <1>3, <2>1, <2>2 DEF Stopper
  <1>4. CASE Main
    <2>1. CASE Construct BY <2>1 DEF Construct, ThreadsInv
    <2>2. CASE SpawnStopper \/ InstallHandlers \/ Join \/ Return
      BY <2>2 DEF SpawnStopper, InstallHandlers, Join, Return
    <2>3. CASE Stop("main")
      BY <2>3 DEF Stop, StopCheck, StopClear, StopDiscovery, LeaveEventLoop, GoTo
    <2>4. QED BY <1>4, <2>1, <2>2, <2>3 DEF Main
  <1>5. CASE Signal \/ Adapter
    BY <1>5 DEF Signal, Sigterm, Sigusr1, Adapter, PowerOff, PowerOn, OtherToggles,
                DaemonRestarts, BusDies
  <1>6. QED BY <1>1, <1>2, <1>3, <1>4, <1>5 DEF Next, Ended

\* stop_discovery() clears should_discover before it calls BlueZ, so that the
\* Discovering = FALSE it causes does not start discovery again.
THEOREM StopStays == Spec => []CalmStop
  <1>1. Init => ThreadsInv /\ CalmIInv BY DEF Init, ThreadsInv, CalmIInv
  <1>2. TypeOK /\ ThreadsInv /\ CalmIInv /\ [Next]_vars => ThreadsInv' /\ CalmIInv'
    BY ThreadsStep, CalmStep
  <1>3. CalmIInv => CalmStop BY DEF CalmIInv, CalmStop
  <1>4. QED BY <1>1, <1>2, <1>3, TypeCorrect, PTL DEF Spec

-----------------------------------------------------------------------------
(* Lifecycle implements Service.                                            *)

\* A failure that a callback recorded is on record in main() once the runner is
\* done: what the exit code is computed from.
RecordInv ==
    /\ (runner = "done" /\ exited_with_error) => stopped_with_error
    /\ runner = "new" => ~exited_with_error

\* One step of stop() in thread t moves t alone, and only inside stop() or out
\* of it, and records nothing.
LEMMA StopMoves ==
    ASSUME NEW t \in {"main", "runner", "stopper"}, Stop(t)
    PROVE  /\ \/ t = "main" /\ main \in StopSteps /\ main' \in StopSteps \cup {"return"}
                 /\ UNCHANGED <<runner, stopper>>
              \/ t = "runner" /\ runner \in StopSteps
                 /\ runner' \in StopSteps \cup {"loop"} /\ UNCHANGED <<main, stopper>>
              \/ t = "stopper" /\ stopper \in StopSteps
                 /\ stopper' \in StopSteps \cup {"done"} /\ UNCHANGED <<main, runner>>
           /\ UNCHANGED <<stop_all, stopped_with_error, status, exited_with_error>>
  <1> USE DEF GoTo, bleVars
  <1>1. CASE StopCheck(t) BY <1>1 DEF StopCheck
  <1>2. CASE StopClear(t) BY <1>2 DEF StopClear
  <1>3. CASE StopDiscovery(t) BY <1>3 DEF StopDiscovery
  <1>4. CASE LeaveEventLoop(t) BY <1>4 DEF LeaveEventLoop, Resume
  <1>5. QED BY <1>1, <1>2, <1>3, <1>4 DEF Stop

\* A step of the runner records failures and never takes one back.
LEMMA RunnerMoves ==
    ASSUME TypeOK, RecordInv, Runner
    PROVE  /\ RecordInv' /\ (Failed => Failed')
           /\ UNCHANGED <<main, stopper, status>> /\ (stop_all' => stop_all)
           /\ runner' # "new"
  <1> USE DEF RecordInv, Failed, bleVars, TypeOK
  <1>1. CASE SetDiscoveryFilter BY <1>1 DEF SetDiscoveryFilter, Throw
  <1>2. CASE Arm \/ StartDiscovery BY <1>2 DEF Arm, StartDiscovery, Throw
  <1>3. CASE DiscoveryFailedCb \/ GiveUp BY <1>3 DEF DiscoveryFailedCb, GiveUp
  <1>4. CASE LeaveLoop \/ LoopFails BY <1>4 DEF LeaveLoop, LoopFails
  <1>5. CASE StartReturns BY <1>5 DEF StartReturns
  <1>6. CASE RunnerCatch BY <1>6 DEF RunnerCatch
  <1>7. CASE Stop("runner") BY <1>7, StopMoves
  <1>8. QED BY <1>1, <1>2, <1>3, <1>4, <1>5, <1>6, <1>7 DEF Runner

\* Signals and the adapter touch no thread, and a signal can only ask to stop.
LEMMA OutsideMoves ==
    ASSUME Signal \/ Adapter
    PROVE  /\ UNCHANGED <<main, runner, stopper, stopped_with_error, status,
                          exited_with_error>>
           /\ stop_all' => stop_all
  <1> USE DEF mainVars, bleVars
  <1>1. CASE Sigterm BY <1>1 DEF Sigterm
  <1>2. CASE Sigusr1 BY <1>2 DEF Sigusr1
  <1>3. CASE PowerOff BY <1>3 DEF PowerOff
  <1>4. CASE PowerOn BY <1>4 DEF PowerOn
  <1>5. CASE OtherToggles BY <1>5 DEF OtherToggles
  <1>6. CASE DaemonRestarts BY <1>6 DEF DaemonRestarts
  <1>7. CASE BusDies BY <1>7 DEF BusDies
  <1>8. QED BY <1>1, <1>2, <1>3, <1>4, <1>5, <1>6, <1>7 DEF Signal, Adapter

LEMMA RecordStep ==
    ASSUME TypeOK, ThreadsInv, RecordInv, [Next]_vars
    PROVE  RecordInv'
  <1> USE DEF RecordInv, bleVars, mainVars
  <1>1. CASE UNCHANGED vars BY <1>1 DEF vars
  <1>2. CASE Runner BY <1>2, RunnerMoves
  <1>3. CASE Stopper
    BY <1>3, StopMoves DEF Stopper, StopperPoll, StopperNap
  <1>4. CASE Main
    BY <1>4, StopMoves DEF Main, Construct, SpawnStopper, InstallHandlers, Join, Return
  <1>5. CASE Signal \/ Adapter BY <1>5, OutsideMoves
  <1>6. QED BY <1>1, <1>2, <1>3, <1>4, <1>5 DEF Next, Ended

\* A step that does not end the process fails, asks to stop, or does neither.
LEMMA ServeOn ==
    ASSUME main # "exited", main' # "exited", UNCHANGED status,
           Failed => Failed', Closing => Closing'
    PROVE  [Svc!Next]_(Svc!svars)
  <1>1. Failed' => Closing' BY DEF Closing
  <1>2. CASE ~Failed /\ Failed' BY <1>1, <1>2 DEF Svc!Next, Svc!Fail
  <1>3. CASE Failed' <=> Failed
    <2>1. Failed' = Failed BY <1>3 DEF Failed
    <2>2. CASE ~Closing /\ Closing' BY <2>1, <2>2 DEF Svc!Next, Svc!AskStop
    <2>3. CASE Closing' <=> Closing BY <2>1, <2>3 DEF Svc!svars
    <2>4. QED BY <2>2, <2>3
  <1>4. QED BY <1>2, <1>3

LEMMA ServiceStep ==
    ASSUME TypeOK, ThreadsInv, RecordInv, [Next]_vars
    PROVE  [Svc!Next]_(Svc!svars)
  <1> USE DEF Stopping
  <1>1. CASE UNCHANGED vars
    BY <1>1 DEF vars, mainVars, bleVars, Svc!svars, Closing, Failed
  <1>2. CASE main # "exited" /\ Runner
    <2>1. Closing => Closing' BY <1>2, RunnerMoves DEF Closing
    <2>2. QED BY <1>2, <2>1, RunnerMoves, ServeOn
  <1>3. CASE main # "exited" /\ Stopper
    <2>1. CASE StopperPoll
      BY <1>3, <2>1, ServeOn DEF StopperPoll, bleVars, Closing, Failed
    <2>2. CASE StopperNap
      BY <1>3, <2>2, ServeOn DEF StopperNap, bleVars, Closing, Failed
    <2>3. CASE Stop("stopper")
      BY <1>3, <2>3, StopMoves, ServeOn DEF Closing, Failed
    <2>4. QED BY <1>3, <2>1, <2>2, <2>3 DEF Stopper
  <1>4. CASE main # "exited" /\ Main
    <2>1. CASE Construct
      BY <1>4, <2>1, ServeOn DEF Construct, bleVars, Closing, Failed, ThreadsInv
    <2>2. CASE SpawnStopper
      BY <1>4, <2>2, ServeOn DEF SpawnStopper, bleVars, Closing, Failed, ThreadsInv
    <2>3. CASE InstallHandlers \/ Join
      BY <1>4, <2>3, ServeOn DEF InstallHandlers, Join, bleVars, Closing, Failed
    <2>4. CASE Stop("main")
      BY <1>4, <2>4, StopMoves, ServeOn DEF Closing, Failed
    <2>5. CASE Return
      <3>1. Closing BY <2>5 DEF Return, ThreadsInv, Closing, Failed
      <3>2. Failed <=> stopped_with_error
        BY <2>5 DEF Return, ThreadsInv, RecordInv, Failed
      <3>3. Failed' = Failed BY <2>5 DEF Return, bleVars, Failed
      <3>4. QED BY <2>5, <3>1, <3>2, <3>3 DEF Return, Svc!Next, Svc!Close
    <2>6. QED BY <1>4, <2>1, <2>2, <2>3, <2>4, <2>5 DEF Main
  <1>5. CASE main # "exited" /\ (Signal \/ Adapter)
    BY <1>5, OutsideMoves, ServeOn DEF Closing, Failed
  <1>6. QED BY <1>1, <1>2, <1>3, <1>4, <1>5 DEF Next, Ended

\* The process keeps the promise of module Service: a failure or a request to
\* stop is never taken back, and main()'s exit code says which of the two it was.
THEOREM ImplementsService == Spec => ServiceSpec
  <1>1. Init => Svc!Init
    BY DEF Init, Svc!Init, Failed, Closing, Stopping
  <1>2. Init => ThreadsInv /\ RecordInv BY DEF Init, ThreadsInv, RecordInv
  <1>3. TypeOK /\ ThreadsInv /\ RecordInv /\ [Next]_vars => ThreadsInv' /\ RecordInv'
    BY ThreadsStep, RecordStep
  <1>4. TypeOK /\ ThreadsInv /\ RecordInv /\ [Next]_vars => [Svc!Next]_(Svc!svars)
    BY ServiceStep
  <1>5. QED BY <1>1, <1>2, <1>3, <1>4, TypeCorrect, PTL
             DEF Spec, ServiceSpec, Svc!Spec
=============================================================================
