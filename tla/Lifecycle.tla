------------------------------ MODULE Lifecycle ------------------------------
(***************************************************************************)
(* The life of the exposer process: main() with its two threads and its    *)
(* signal handlers (src/main.cpp), and the part of BleListener::Impl that  *)
(* starts, watches, restarts and stops Bluetooth discovery                 *)
(* (src/ble/receiver.cpp).                                                 *)
(*                                                                         *)
(* Each thread has a program counter; a step ends where another thread,    *)
(* the D-Bus peer or a signal handler can see or change the state: at each *)
(* access to an atomic and at each D-Bus call.  A call's step may be       *)
(* delayed for as long as we like, which covers the sleeps of the code.    *)
(*                                                                         *)
(* External, modelled from how the code uses it: the BlueZ adapter         *)
(* (powered, session, other), the connection's FIFO of PropertiesChanged   *)
(* signals (signals), and the event loop's exit request, which             *)
(* leaveEventLoop() leaves behind until a loop consumes it (loop_exit).    *)
(***************************************************************************)
EXTENDS Naturals, Sequences

CONSTANTS
    Retries,       \* times: how often retry_discovery() tries
    MaxQueue       \* bound: the adapter stays quiet while this many signals wait

ASSUME ConstantsAssumption == Retries \in Nat \ {0} /\ MaxQueue \in Nat \ {0}

VARIABLES
    main, runner, stopper,       \* program counters
    stop_all, debug_print,       \* atomic_flags: TRUE when set, cleared by a request
    stopped_with_error,
    status,                      \* what main() returned
    should_discover, exited_with_error,
    attempt,                     \* 0 in start(), i + 1 in round i of retry_discovery()
    loop_exit,
    powered, session, other, bus, signals,
    calm,         \* history: the stopper disarmed an idle event loop
    alone,        \* history: no other client scanned and no reply of ours was lost
    abandoned     \* history: our session ended with bluetoothd, which told nobody

mainVars    == <<main, runner, stopper, stop_all, debug_print, stopped_with_error, status>>
bleVars     == <<should_discover, exited_with_error, attempt, loop_exit>>
adapterVars == <<powered, session, other, bus, signals>>
history     == <<calm, alone, abandoned>>
vars        == <<mainVars, bleVars, adapterVars, history>>

StopSteps == {"check", "clear", "call", "leave"}   \* BleListener::Impl::stop()

TypeOK ==
    /\ main \in {"construct", "spawn", "handlers", "join_stopper", "join_runner",
                 "return", "exited"} \cup StopSteps
    /\ runner \in {"new", "filter", "arm", "start", "loop", "giveup", "flag", "left",
                   "threw", "record", "done"} \cup StopSteps
    /\ stopper \in {"new", "poll", "nap", "done"} \cup StopSteps
    /\ {stop_all, debug_print, stopped_with_error} \subseteq BOOLEAN
    /\ status \in {"none", "success", "failure"}
    /\ {should_discover, exited_with_error, loop_exit} \subseteq BOOLEAN
    /\ attempt \in 0..Retries
    /\ {powered, session, other, bus, calm, alone, abandoned} \subseteq BOOLEAN
    /\ signals \in Seq({"started", "stopped"})

Init ==
    /\ main = "construct" /\ runner = "new" /\ stopper = "new"
    /\ stop_all = FALSE /\ debug_print = FALSE       \* ATOMIC_FLAG_INIT
    /\ stopped_with_error = FALSE /\ status = "none"
    /\ should_discover = FALSE /\ exited_with_error = FALSE
    /\ attempt = 0 /\ loop_exit = FALSE
    /\ powered \in BOOLEAN /\ session = FALSE /\ other = FALSE /\ bus = TRUE
    /\ signals = <<>>
    /\ calm = FALSE /\ alone = TRUE /\ abandoned = FALSE

-----------------------------------------------------------------------------
(* The adapter as the listener sees it.  Its Discovering property is TRUE   *)
(* while any client's session runs, and each change of it is one signal.    *)

\* The signals waiting after Discovering went from before to after.
Announce(before, after) ==
    IF before = after THEN signals
    ELSE Append(signals, IF after THEN "started" ELSE "stopped")

Quiet == Len(signals) < MaxQueue     \* bound on what the environment may queue

\* A power loss (rfkill, suspend, unplugging) ends every session.
PowerOff ==
    /\ Quiet /\ powered
    /\ powered' = FALSE /\ session' = FALSE /\ other' = FALSE
    /\ signals' = Announce(session \/ other, FALSE)
    /\ UNCHANGED <<mainVars, bleVars, bus, history>>

PowerOn ==
    /\ ~powered
    /\ powered' = TRUE
    /\ UNCHANGED <<mainVars, bleVars, session, other, bus, signals, history>>

OtherToggles ==
    /\ Quiet /\ powered
    /\ other' = ~other
    /\ alone' = FALSE
    /\ signals' = Announce(session \/ other, session \/ other')
    /\ UNCHANGED <<mainVars, bleVars, powered, session, bus, calm, abandoned>>

\* The connection breaks, and BlueZ drops the session of a lost client.
BusDies ==
    /\ bus
    /\ bus' = FALSE /\ session' = FALSE
    /\ UNCHANGED <<mainVars, bleVars, powered, other, signals, history>>

\* bluetoothd ends and is started again: the sessions it kept are gone, nobody
\* was told of it, and the adapter may or may not come up with power.
DaemonRestarts ==
    /\ powered' \in BOOLEAN
    /\ session' = FALSE /\ other' = FALSE
    /\ abandoned' = (abandoned \/ session)
    /\ UNCHANGED <<mainVars, bleVars, bus, signals, calm, alone>>

\* BlueZ grants a StartDiscovery: at most one session per client.
CanStart == bus /\ powered /\ ~session

Grant ==
    /\ session' = TRUE /\ abandoned' = FALSE
    /\ signals' = Announce(other, TRUE)
    /\ UNCHANGED <<powered, other, bus>>

-----------------------------------------------------------------------------
(* Runner thread: start_discovery(), called by start() and, once the event  *)
(* loop runs, by retry_discovery() inside discovery_failed_cb().            *)

\* Mutants of Throw: one round too many; a failed retry reported as success.
Throw_ExtraRound ==
    IF attempt = 0 THEN runner' = "threw" /\ UNCHANGED attempt
    ELSE IF attempt <= Retries THEN runner' = "filter" /\ attempt' = attempt + 1
    ELSE runner' = "giveup" /\ attempt' = 0

Throw_Ignored ==
    IF attempt = 0 THEN runner' = "threw" /\ UNCHANGED attempt
    ELSE IF attempt < Retries THEN runner' = "filter" /\ attempt' = attempt + 1
    ELSE runner' = "loop" /\ attempt' = 0

\* start_discovery() throws sdbus::Error: out of start() into the runner's
\* catch, or into the next round of retry_discovery(), or out of rounds.
Throw ==
    IF attempt = 0 THEN runner' = "threw" /\ UNCHANGED attempt
    ELSE IF attempt < Retries THEN runner' = "filter" /\ attempt' = attempt + 1
    ELSE runner' = "giveup" /\ attempt' = 0

SetDiscoveryFilter ==
    /\ runner = "filter"
    /\ \/ bus /\ runner' = "arm" /\ UNCHANGED attempt
       \/ Throw
    /\ UNCHANGED <<main, stopper, stop_all, debug_print, stopped_with_error, status,
                   should_discover, exited_with_error, loop_exit, adapterVars, history>>

\* Mutant of Arm: the wish to discover is never recorded.
Arm_Forgotten ==
    /\ runner = "arm"
    /\ runner' = "start"
    /\ UNCHANGED <<main, stopper, stop_all, debug_print, stopped_with_error, status,
                   should_discover, exited_with_error, attempt, loop_exit,
                   adapterVars, history>>

Arm ==
    /\ runner = "arm"
    /\ should_discover' = TRUE
    /\ runner' = "start"
    /\ UNCHANGED <<main, stopper, stop_all, debug_print, stopped_with_error, status,
                   exited_with_error, attempt, loop_exit, adapterVars, history>>

\* The call succeeds, fails, or takes effect although its reply is lost.
StartDiscovery ==
    /\ runner = "start"
    /\ \/ CanStart /\ Grant /\ runner' = "loop" /\ attempt' = 0 /\ UNCHANGED alone
       \/ Throw /\ UNCHANGED <<adapterVars, alone, abandoned>>
       \/ CanStart /\ Grant /\ Throw /\ alone' = FALSE
    /\ UNCHANGED <<main, stopper, stop_all, debug_print, stopped_with_error, status,
                   should_discover, exited_with_error, loop_exit, calm>>

-----------------------------------------------------------------------------
(* Runner thread: the event loop and what it dispatches.                    *)

\* Mutant of DiscoveryFailedCb: restarts on every change of Discovering.
DiscoveryFailedCb_AnyChange ==
    /\ runner = "loop" /\ bus /\ signals # <<>>
    /\ signals' = Tail(signals)
    /\ IF should_discover
       THEN runner' = "filter" /\ attempt' = 1
       ELSE UNCHANGED <<runner, attempt>>
    /\ UNCHANGED <<main, stopper, stop_all, debug_print, stopped_with_error, status,
                   should_discover, exited_with_error, loop_exit,
                   powered, session, other, bus, history>>

\* discovery_failed_cb(): only Discovering = FALSE matters, and only while
\* discovery is wanted; the first round of retry_discovery() follows.
DiscoveryFailedCb ==
    /\ runner = "loop" /\ bus /\ signals # <<>>
    /\ signals' = Tail(signals)
    /\ IF should_discover /\ Head(signals) = "stopped"
       THEN runner' = "filter" /\ attempt' = 1
       ELSE UNCHANGED <<runner, attempt>>
    /\ UNCHANGED <<main, stopper, stop_all, debug_print, stopped_with_error, status,
                   should_discover, exited_with_error, loop_exit,
                   powered, session, other, bus, history>>

\* retry_discovery() returned false: disarm, record, stop.
GiveUp ==
    /\ \/ runner = "giveup" /\ should_discover' = FALSE /\ runner' = "flag"
          /\ UNCHANGED exited_with_error
       \/ runner = "flag" /\ exited_with_error' = TRUE /\ runner' = "check"
          /\ UNCHANGED should_discover
    /\ UNCHANGED <<main, stopper, stop_all, debug_print, stopped_with_error, status,
                   attempt, loop_exit, adapterVars, history>>

LeaveLoop ==
    /\ runner = "loop" /\ loop_exit
    /\ loop_exit' = FALSE
    /\ runner' = "left"
    /\ UNCHANGED <<main, stopper, stop_all, debug_print, stopped_with_error, status,
                   should_discover, exited_with_error, attempt, adapterVars, history>>

\* enterEventLoop() throws when the connection is gone.
LoopFails ==
    /\ runner = "loop" /\ ~bus
    /\ runner' = "threw"
    /\ UNCHANGED <<main, stopper, stop_all, debug_print, stopped_with_error, status,
                   bleVars, adapterVars, history>>

\* Mutant of StartReturns: the failure seen by the callback is forgotten.
StartReturns_Silent ==
    /\ runner = "left"
    /\ runner' = "done"
    /\ UNCHANGED <<main, stopper, stop_all, debug_print, stopped_with_error, status,
                   bleVars, adapterVars, history>>

\* start() after the loop: throw if a callback gave up, else the thread ends.
StartReturns ==
    /\ runner = "left"
    /\ runner' = IF exited_with_error THEN "threw" ELSE "done"
    /\ UNCHANGED <<main, stopper, stop_all, debug_print, stopped_with_error, status,
                   bleVars, adapterVars, history>>

\* Mutant of RunnerCatch: the stopper is not woken.
RunnerCatch_NoWake ==
    /\ \/ runner = "threw" /\ runner' = "record"
          /\ UNCHANGED <<stop_all, stopped_with_error>>
       \/ runner = "record" /\ stopped_with_error' = TRUE /\ runner' = "done"
          /\ UNCHANGED stop_all
    /\ UNCHANGED <<main, stopper, debug_print, status, bleVars, adapterVars, history>>

\* The runner's catch block: first wake the stopper, then record the failure.
RunnerCatch ==
    /\ \/ runner = "threw" /\ stop_all' = FALSE /\ runner' = "record"
          /\ UNCHANGED stopped_with_error
       \/ runner = "record" /\ stopped_with_error' = TRUE /\ runner' = "done"
          /\ UNCHANGED stop_all
    /\ UNCHANGED <<main, stopper, debug_print, status, bleVars, adapterVars, history>>

-----------------------------------------------------------------------------
(* BleListener::Impl::stop(), which three threads call: the stopper, the    *)
(* runner when it gives up, and main in the listener's destructor.          *)

\* Thread t goes from step a of stop() to step b.
GoTo(t, a, b) ==
    \/ /\ t = "main" /\ main = a /\ main' = b
       /\ UNCHANGED <<runner, stopper>>
    \/ /\ t = "runner" /\ runner = a /\ runner' = b
       /\ UNCHANGED <<main, stopper>>
    \/ /\ t = "stopper" /\ stopper = a /\ stopper' = b
       /\ UNCHANGED <<main, runner>>

Resume == [main |-> "return", runner |-> "loop", stopper |-> "done"]

StopCheck(t) ==
    /\ GoTo(t, "check", IF should_discover THEN "clear" ELSE "leave")
    /\ UNCHANGED <<stop_all, debug_print, stopped_with_error, status,
                   bleVars, adapterVars, history>>

\* Mutant of StopClear: StopDiscovery is called with should_discover still set.
StopClear_KeepsArmed(t) ==
    /\ GoTo(t, "clear", "call")
    /\ calm' = (calm \/ (t = "stopper" /\ runner = "loop"))
    /\ UNCHANGED <<stop_all, debug_print, stopped_with_error, status, should_discover,
                   exited_with_error, attempt, loop_exit, adapterVars, alone, abandoned>>

StopClear(t) ==
    /\ GoTo(t, "clear", "call")
    /\ should_discover' = FALSE
    /\ calm' = (calm \/ (t = "stopper" /\ runner = "loop"))
    /\ UNCHANGED <<stop_all, debug_print, stopped_with_error, status,
                   exited_with_error, attempt, loop_exit, adapterVars, alone, abandoned>>

\* The call ends our session, or fails, and stop() swallows the error.
StopDiscovery(t) ==
    /\ GoTo(t, "call", "leave")
    /\ \/ /\ bus /\ session
          /\ session' = FALSE
          /\ signals' = Announce(TRUE, other)
       \/ UNCHANGED <<session, signals>>
    /\ UNCHANGED <<stop_all, debug_print, stopped_with_error, status,
                   bleVars, powered, other, bus, history>>

\* Mutant of LeaveEventLoop: only a loop that already runs notices.
LeaveEventLoop_NotSticky(t) ==
    /\ GoTo(t, "leave", Resume[t])
    /\ loop_exit' = (runner = "loop")
    /\ UNCHANGED <<stop_all, debug_print, stopped_with_error, status,
                   should_discover, exited_with_error, attempt, adapterVars, history>>

LeaveEventLoop(t) ==
    /\ GoTo(t, "leave", Resume[t])
    /\ loop_exit' = TRUE
    /\ UNCHANGED <<stop_all, debug_print, stopped_with_error, status,
                   should_discover, exited_with_error, attempt, adapterVars, history>>

Stop(t) == StopCheck(t) \/ StopClear(t) \/ StopDiscovery(t) \/ LeaveEventLoop(t)

-----------------------------------------------------------------------------
(* Stopper thread and signal handlers.                                      *)

\* while (stop_all.test_and_set()): a cleared flag is consumed by being set.
StopperPoll ==
    /\ stopper = "poll"
    /\ stop_all' = TRUE
    /\ stopper' = IF stop_all THEN "nap" ELSE "check"
    /\ UNCHANGED <<main, runner, debug_print, stopped_with_error, status,
                   bleVars, adapterVars, history>>

\* 500 ms later: consume a request to print the blacklist.
StopperNap ==
    /\ stopper = "nap"
    /\ debug_print' = TRUE
    /\ stopper' = "poll"
    /\ UNCHANGED <<main, runner, stop_all, stopped_with_error, status,
                   bleVars, adapterVars, history>>

HandlersInstalled == stopper # "new" /\ main \notin {"handlers", "exited"}

Sigterm ==
    /\ HandlersInstalled
    /\ stop_all' = FALSE
    /\ UNCHANGED <<main, runner, stopper, debug_print, stopped_with_error, status,
                   bleVars, adapterVars, history>>

Sigusr1 ==
    /\ HandlersInstalled
    /\ debug_print' = FALSE
    /\ UNCHANGED <<main, runner, stopper, stop_all, stopped_with_error, status,
                   bleVars, adapterVars, history>>

-----------------------------------------------------------------------------
(* Main thread.                                                             *)

\* Construct the Ruuvitag, set both flags and create the runner; or fail to.
Construct ==
    /\ main = "construct"
    /\ \/ /\ main' = "spawn" /\ runner' = "filter"
          /\ stop_all' = TRUE /\ debug_print' = TRUE
          /\ UNCHANGED stopped_with_error
       \/ /\ main' = "return" /\ stopped_with_error' = TRUE
          /\ UNCHANGED <<runner, stop_all, debug_print>>
    /\ UNCHANGED <<stopper, status, bleVars, adapterVars, history>>

SpawnStopper ==
    /\ main = "spawn"
    /\ main' = "handlers" /\ stopper' = "poll"
    /\ UNCHANGED <<runner, stop_all, debug_print, stopped_with_error, status,
                   bleVars, adapterVars, history>>

InstallHandlers ==
    /\ main = "handlers"
    /\ main' = "join_stopper"
    /\ UNCHANGED <<runner, stopper, stop_all, debug_print, stopped_with_error, status,
                   bleVars, adapterVars, history>>

\* stopper.join(), runner.join(), then the destructor of the listener.
Join ==
    /\ \/ main = "join_stopper" /\ stopper = "done" /\ main' = "join_runner"
       \/ main = "join_runner" /\ runner = "done" /\ main' = "check"
    /\ UNCHANGED <<runner, stopper, stop_all, debug_print, stopped_with_error, status,
                   bleVars, adapterVars, history>>

\* The connection is closed with the listener, and main() returns.
Return ==
    /\ main = "return"
    /\ main' = "exited"
    /\ status' = IF stopped_with_error THEN "failure" ELSE "success"
    /\ session' = FALSE
    /\ UNCHANGED <<runner, stopper, stop_all, debug_print, stopped_with_error,
                   bleVars, powered, other, bus, signals, history>>

-----------------------------------------------------------------------------
Runner == \/ SetDiscoveryFilter \/ Arm \/ StartDiscovery
          \/ DiscoveryFailedCb \/ GiveUp \/ LeaveLoop \/ LoopFails
          \/ StartReturns \/ RunnerCatch \/ Stop("runner")

Stopper == StopperPoll \/ StopperNap \/ Stop("stopper")

Main == Construct \/ SpawnStopper \/ InstallHandlers \/ Join \/ Return \/ Stop("main")

Signal == Sigterm \/ Sigusr1

Adapter == PowerOff \/ PowerOn \/ OtherToggles \/ DaemonRestarts \/ BusDies

\* The process is gone; nothing is left to happen to it.
Ended == main = "exited" /\ UNCHANGED vars

Next == \/ main # "exited" /\ (Runner \/ Stopper \/ Main \/ Signal \/ Adapter)
        \/ Ended

Spec == Init /\ [][Next]_vars

(***************************************************************************)
(* Fairness: the operating system runs each thread, and a D-Bus call       *)
(* returns (it times out).  LeaveLoop is strongly fair because the loop    *)
(* polls its exit descriptor between any two callbacks.  Nothing is        *)
(* assumed of the adapter, the bus or whoever sends signals.               *)
(***************************************************************************)
Fairness == /\ WF_vars(Runner) /\ WF_vars(Stopper) /\ WF_vars(Main)
            /\ SF_vars(LeaveLoop)

FairSpec == Spec /\ Fairness

-----------------------------------------------------------------------------
(* Properties.                                                              *)

Starting == runner \in {"filter", "arm", "start"}
Stopping == stopper \in StopSteps \cup {"done"}
LossPending == \E i \in 1..Len(signals) : signals[i] = "stopped"

\* A listener that waits in its event loop, with no stop under way and no
\* unread loss of discovery, is discovering: no sequence of power cycles,
\* failed restarts, lost replies and other programs' scans leaves the process
\* alive and deaf (should_discover, discovery_failed_cb and retry_discovery
\* together).  A restart of bluetoothd during a session is the one thing that
\* does, until another program's scan ends and wakes the listener.
NotDeaf ==
    (runner = "loop" /\ bus /\ ~Stopping /\ ~loop_exit /\ ~LossPending)
        => (session \/ abandoned)

\* While this program is the adapter's only client, and no reply was lost,
\* start_discovery() runs only when its session is really gone: a stale
\* Discovering = FALSE never makes it restart (BlueZ would refuse, and the
\* refusals would end a process that works).
RestartOnlyWhenLost == alone => (Starting => ~session)

\* A stop that finds the event loop idle is final: the Discovering = FALSE that
\* stop_discovery() itself causes is not answered by a restart, because
\* should_discover is cleared before StopDiscovery is called.
CalmStop == calm => ~Starting

\* A stop request is never lost, even when stop() runs before start() has
\* entered the event loop or while a callback retries: once the stopper is
\* done, a runner that has not left the loop still has the request before it.
ExitPending ==
    (stopper = "done" /\ runner \notin {"left", "threw", "record", "done"}) => loop_exit

Failed == stopped_with_error \/ exited_with_error \/ runner \in {"threw", "record"}

Closing == Failed \/ Stopping \/ (main # "construct" /\ ~stop_all)

\* The process keeps the promise of module Service: once failing or asked to
\* stop it never works on as if nothing had happened, and the exit code is
\* EXIT_FAILURE exactly when construction, the runner or a callback failed.
Svc == INSTANCE Service WITH
    phase  <- IF main = "exited" THEN "closed" ELSE IF Closing THEN "closing" ELSE "active",
    failed <- Failed,
    code   <- status

ServiceSpec == Svc!Spec

\* A signal or a failure ends the process, whatever the adapter does meanwhile.
Termination == Closing ~> (main = "exited")

\* A session that was lost aloud is regained, or the process ends (and systemd
\* restarts it), even when bluetoothd restarts while the loss is being answered.
LossAnswered ==
    (runner = "loop" /\ ~session /\ ~abandoned) ~> (session \/ main = "exited")
=============================================================================
