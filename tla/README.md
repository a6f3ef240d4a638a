# Formal models of ruuvi-exposer

This directory is a TLA+ development of the Ruuvi exposer: a daemon that hears
RuuviTag advertisements through BlueZ, decodes them, and offers them to
Prometheus together with metrics of the operating system and its disks. The
modules are translated from the C++ under `src/`; TLC checks them on small
instances, and TLAPS proves the results that matter most for every value of
the constants.

Paths below are those of the repository (`src/main.cpp` is the main program).

## 1. The system

### Threads and what they share

| thread | code | runs |
|---|---|---|
| main | `main()` in `src/main.cpp` | constructs, spawns, installs the handlers, joins, destroys the listener, returns the exit code |
| runner | lambda in `main()` | `BleListener::start()`: discovery and the D-Bus event loop, so every D-Bus callback, so decoding and `RuuviExposer::update()` |
| stopper | lambda in `main()` | polls `stop_all` twice a second, serves `debug_print`, calls `BleListener::stop()` |
| HTTP threads | prometheus-cpp's `Exposer` | `Collect()` of the three collectables |
| signal handlers | `stop_handler`, `sigusr_handler` | clear one atomic flag each |

`sysbus -> runner`: signals (`InterfacesAdded`, `PropertiesChanged`), in order,
one at a time. `runner -> sysbus`: blocking calls, between which anything may
happen outside. `main/stopper/runner -> BleListener::stop()`. `runner ->
RuuviExposer <- HTTP threads`: one mutex. `HTTP threads -> system_info`:
function statics and one atomic counter. `runner -> blist <- stopper`: a
mutex-protected copy for printing.

### Inventory

| component | state | operations | what is hard | what makes it correct |
|---|---|---|---|---|
| Process lifecycle (`main.cpp`) | `stop_all`, `debug_print`, `stopped_with_error`, three threads | construct, spawn, handlers, poll, join, return | three threads that end each other through flags which mean a request when *clear*; failure of one thread while another waits | a stop or failure ends the process; the exit code tells which |
| Discovery (`ble/receiver.cpp`: `start`, `start_discovery`, `discovery_failed_cb`, `retry_discovery`, `stop`) | `should_discover`, `exited_with_error`, the loop's exit request; BlueZ's session | start, restart after a loss, stop from three threads | signals older than the state they speak of; a stop that overlaps a start or a retry; a bluetoothd that restarts | never alive and deaf; never a needless restart; a stop is never lost nor undone |
| Listeners and blacklist (`ble/receiver.cpp`: `add_cb`, `properties_cb`, `emit_packet`, `blacklist`; `Ruuvitag::ble_callback`) | `listeners`, `blist`; BlueZ's objects and signals | announce, register, read, publish or blacklist | objects change between two D-Bus calls of a handler; a callback erases the entry being worked on | tags are shown, newest value last; others are silenced; no empty proxy is used |
| Decoding (`ruuvi/ruuvi.cpp`) | none | `identify_format`, `convert_data_format_5` with and without `throw_on_error`, `_3` | bit fields, signs, invalid marks, two byte orders of facts in one packet | what a tag packs is read back; what is missing is flagged |
| RuuviExposer (`ruuvi/ruuvi_prometheus_exposer.cpp`) | metric families by mac, `mtx` | `update_data`, `Collect` | a scrape against an update that writes fourteen families | scrapes see whole measurements; counters never go back |
| SystemInfoCollector (`ruuvi/system_info*.cpp`) | statics per file, clock, sensor list, `errors_count` | `create`, `Collect` | statics initialised once by racing scrapes, six sources that fail separately | each failed scrape is counted once, and no number is shown without an error that no source gave |
| DiskstatExposer (`ruuvi/diskstat*.cpp`) | static "file exists", static families | `create`, `Collect` | `getline` and `>>` on one stream, lines longer or shorter than the chain | no column of one disk in another's basic counters; no label twice |
| `raw_gauge`, printing, command line | none | | | not modelled |
| Ruuvitag (`Ruuvitag` in `main.cpp`) | owns the listener and the exposer | `ble_callback`: decode and update | a measurement passes a queue, two D-Bus reads, a callback and a lock, with scrapes in between; packets that carry another tag's mac | a scrape never goes back and, when all is quiet, shows the newest; a relay disturbs no series |
| systemd unit (`systemd/ruuvi-prometheus-exposer.service`) | the restart limit's window | restart | three starts in a minute, then no more: against retries a second apart and restarts ten seconds apart | which outages of the adapter the unit survives, and how soon it listens again |

The hazards this code is exposed to, line by line, with the property that
covers each or the reason none does, are in `PROJECT.json` under `hazards`.

## 2. The modules

| module | models | abstract specification |
|---|---|---|
| `Lifecycle` | `main()` after the command line, the threads, flags, handlers, and discovery | `Service` |
| `Listeners` (`MC_Listeners`) | the table of devices, the blacklist, the consumer | `Feed` |
| `RuuviStore` | `RuuviExposer::Impl` and its lock | `MetricStore` |
| `Pipeline` (`MC_Pipeline`) | `Ruuvitag`: extends `Listeners`, its consumer updates an instance of `MetricStore`, threads scrape it | `Feed`, once for each scraper |
| `Supervision` | the times of the process against the restart limits of its unit | |
| `DataFormats` (`MC_DataFormats`) | the two decoders, against an encoder | the encoder itself |
| `Diskstats` | the stream loop over `/proc/diskstats` and its publication | |
| `SystemInfo` | the order, statics and error accounting of a system scrape | |
| `Lifecycle_proofs`, `Listeners_proofs`, `RuuviStore_proofs`, `Pipeline_proofs`, `DataFormats_proofs`, `SystemInfo_proofs`, `Supervision_proofs`, `Diskstats_proofs` | theorems | |

Operators named `X_Something` that stand before an operator `X` are variants
of `X` with one plausible mistake in it. No specification uses them: each
shows, put in the place of `X`, that one property notices the mistake.

### Lifecycle

Every thread has a program counter (`main`, `runner`, `stopper`); a step ends at
each access to an atomic and at each D-Bus call. `stop_all` and `debug_print`
are TRUE when the flag is set, which is when *nothing* is asked. `attempt` is 0
while `start()` is at work and i+1 in round i of `retry_discovery()`. `Throw`
is `sdbus::Error` leaving `start_discovery()`: out of `start()`, into the next
round, or out of rounds. `Stop(t)` is `BleListener::Impl::stop()`, in the four
steps in which others can see it, on each of the three threads that call it
(main calls it from the destructor).

Outside, modelled from how the code uses it: BlueZ's adapter (`powered`, our
`session`, another client's `other`), the queue of `Discovering` signals, the
bus, and the exit request of the event loop, which stays until a loop takes it.
`Announce` queues a signal exactly when the adapter's `Discovering` changes.
`DaemonRestarts` is a bluetoothd that dies and comes back: all sessions are
gone and nobody is told. Three history variables, read by no action, say which
of the promises can be expected: `calm` (the stopper disarmed an event loop that
was idle), `alone` (no other client scanned, and no reply of ours was lost) and
`abandoned` (our session ended with bluetoothd).
The sleeps of the code (one second before a retry, 500 ms between two polls)
are delays before steps and need no action.

### Listeners

`pc` is the point a handler has reached: after `add_cb` found the object new
(`address`), after the address was got and the blacklist asked (`register`),
before `GetAll` (`getall`), before the consumer (`callback`). Between any two of
these BlueZ may let devices `Appear`, `Advertise`, change otherwise or `Vanish`.
Advertisements are numbered per object, so that "older" and "newer" mean
something; number 0 is empty `manufacturer_data`. `shape` says how many
`ManufacturerData` entries an object has: `emit_packet()` fills the packet from
exactly one. With none `manufacturer_id` stays uninitialised, and with two an
assertion ends a debug build and a release build is left with the same: both are
choices in `EmitPacket` and `Filled`. Decoding empty data is undefined behaviour
and ends the behaviour (`undefined`).

### RuuviStore

A family maps macs to series. `update_data()` writes family after family under
`mtx` (`UpdateBegins`, `UpdateWrites`), `Collect()` reads family after family
under `mtx` (`CollectBegins`, `CollectReads`). The code's twelve gauges are
`Gauges` families, in all of which the one number `value` is stored: two gauges
of one mac that differ come from two measurements.

### Pipeline

`Publish` is `ble_callback()` whole: the step of `Listeners` in which the consumer
decides, and for a tag's packet the decoding and `update()`, which is one step
because `RuuviStore_proofs` shows it atomic. A measurement is known by the number
of the advertisement it came in. A packet may carry the mac of another sender
(`Relayed`); the decoder then returns no mac, and `Label` is the empty name
under which all such packets are stored. `Scrape` is `Collect()` of one thread
of the HTTP server, between any two steps of the handler.

### Supervision

`Lifecycle` has no time; here the process is one state (`starting`, `listening`,
`retrying`, `ending`) and the clock counts whole seconds. `timer` is what the
process or systemd waits for: a second in each round of `retry_discovery()`, the
second that `main()` sleeps and the half of the stopper on the way out,
`RestartSec`. What is `Due` happens before `Tick` lets a second pass. systemd's limit
is a window that opens with a start and counts the starts in it: external, like
the adapter, which answers at once. `MaxOutage` and `MinUp` are assumptions about
the adapter, and the run shows for which of them the unit holds.

### DataFormats

A reading is a set, empty when not available, in whole units of the format.
`Pack5` and `Pack3` are the tag; `convert_data_format_5` and `_3` are the code.
`At` reads past the end of a packet that is too short, which the code does not
prevent: what each byte of memory holds there, up to the 24 the decoders reach
for, is a choice (`Beyond`; the runs have memory of all ones and memory whose
bytes all differ). That the reading itself is undefined no property here tells. A
packet has at least its first byte: the `data[0]` of an empty vector ends the
behaviour in `Listeners` (`pc = "undefined"`). All packets are Ruuvi's, which is
what `ble_callback()` asks before it decodes, so `identify_format()` never takes
its first branch. The decoders keep no state, so a behaviour is one packet.
`throw_on_error` is chosen with the packet, and `decoded` stays empty when the
call throws. `ReceiveOther` sends format 5 what does not have its length or its
header, for `ble_callback()` decodes without asking `identify_format()`.

### Diskstats

The file has `lines` lines of `columns` words, and the stream is where it has
come to: a line, and how many of its words are read (`line`, `col`). The loop's
condition, `getline(ifs, line)`, goes to the next line, and the chain of
nineteen `>>` meets the words from there on (`Word`), across line ends. A `>>`
fails on a word that is not a number, does not fit 32 bits, or is not there
(`Reads`). The kernel prints two of the columns that land in a field of 32 bits
with more than that, the discarded sectors and the flushes: `huge` says which of
them do not fit. `Taken` is how many fields are read before one fails, and `Stored` one
more when the failure leaves the largest number in the field. A record is the
sequence of words its fields were read from.

### SystemInfo

`create()` reads six sources in a fixed order (`Following`), each in one step,
since only the statics and `errors_count` are shared and each source touches them
once. Of the values a source fills, `info` keeps what is wrong with any: a `gap`
is the zero of the fresh record, where the source, or the entry in it, was not
there; `misread` is what `>>` makes of something that is no number (0, or the
largest number for one too large) or of nothing (the variable stays as it was,
uninitialised). `read_stat()` and `read_netstat()` look at the stream after their
`>>` and make an error of either, so there both are gaps; `parse_lines()` and
`read_thermal_sensors()` do not, and a misread value is no error of theirs.
`Error` is `system_info::error()`: only the first of a record is counted. C++
initialises a function static once and makes others wait, so a step that sets one
is atomic.

## 3. What is checked

Twelve runs. Nine must find no error, three show a disagreement (section 6).

| run | bounds | shows |
|---|---|---|
| `lifecycle` | 2 retries, 2 waiting signals; power cycles, other clients, lost replies, restarts of bluetoothd, a dead bus | `NotDeaf`, `RestartOnlyWhenLost`, `CalmStop`, `ExitPending`, the promise of `Service`, `Termination`, `LossAnswered` |
| `supervision` | outages of up to 21 s, at least 38 s apart, for ever | `StaysUp`, `RecoversSoon`, `RidesOut`, `ListensAgain` |
| `listeners_one` | a tag and another device, one adapter, one entry each, 2 advertisements, 3 waiting signals | `RuuviOnly`, `Current`, the promise of `Feed`, `AnnouncedHeard`, `ForeignSilenced` |
| `listeners_any` | the other device on two adapters, 0 to 2 entries, failing calls, 1 advertisement, 1 waiting signal | `BlacklistHolds`, `NoNullProxy` |
| `pipeline` | a tag and a relay, 2 advertisements each, 2 waiting signals, one scraper | the promise of `Feed` to the scraper, `FreshScrapes`, `Delivered` |
| `store` | 2 macs, 2 gauges, 2 values, 2 scrapers, 2 measurements per mac | `WholeScrapes`, `CountersGrow`, the promise of `MetricStore` |
| `formats_edges` | all combinations of edge values, both modes of `throw_on_error` | `Reads5`, `Flags5`, `Strict5`, `Reads3`, ranges |
| `diskstats_kernels` | kernels with 14, 18 and 20 columns, up to 4 lines, any of them with too many discarded sectors or flushes | `DistinctSamples`, `Aligned`, `WhichDisks` |
| `system_info` | 2 scrapers, 2 scrapes each | `ErrorsCounted`, `OwnErrorsShown`, `MissingReported`, `GapsTold` |
| `formats_header`, `diskstats_help`, `system_info_unread` | small | the findings |

Why the bounds are enough:

* `Retries = 2` has a first and a last round that differ; the code has 2 as well
  (`retry_discovery()` is called with its default).
* `MaxQueue` bounds only what the environment may add: with 2 the queue holds a
  loss and a recovery, with one or two more from `stop_discovery()` and from a
  start that is granted. The theorems hold without the bound.
* Outages of 21 s, 38 s apart, are the worst that the limits bear: with 22 s, or
  with 37 s, TLC finds the third start refused. Longer times between outages add
  nothing, since `since` and `age` count no further than their limits.
* One scraper is enough in `pipeline`: scrapers do not act on each other, and
  `ScrapersFed` proves it for any number.
* Two advertisements are enough for one to be read twice, skipped or overtaken;
  three signals for an announcement and a change of each device.
* Two scrapers and two measurements per mac give every overlap of an update with
  two scrapes, and an earlier and a later scrape of each thread.
* Edge values of `DataFormats`: least, greatest, the neighbours of the invalid
  marks, and missing, for each field, in every combination.
* Four lines are more than a record can cross: a chain of 19 columns spans two
  lines of 14, and `getline` then discards part of the second or third.
* Two scrapes of each thread: one that initialises the statics, one that finds
  them; two threads for one that is under way meanwhile.

`CHECK_DEADLOCK FALSE` is set where behaviours end by design: `Listeners`
(an aborted process, or all advertisements sent), `DataFormats` (one packet),
`SystemInfo` (all scrapes done); `Pipeline` extends `Listeners`.

### The properties

Lifecycle. `NotDeaf`: a listener waiting in its loop with no stop under way and
no unread loss is discovering. It relates BlueZ's session to the queue and to
three variables of two threads, and is what `should_discover`,
`discovery_failed_cb` and the retries are for. The one exception is a session
`abandoned` by bluetoothd: the listener then stays deaf until somebody else's
scan ends and wakes it, and no other event does that to it.
`RestartOnlyWhenLost`: a stale `Discovering = false` causes no restart, which
BlueZ would refuse, and two refusals end the process. It needs the adapter to
itself (`alone`): another client's scan ending makes it false, and so does a
`StartDiscovery` whose reply was lost. `CalmStop`: the loss that
`stop_discovery()` causes is not answered by a restart. `ExitPending`: a stop
request survives until the loop takes it. `ServiceSpec`: after a request or a
failure the process only closes, and exits with `EXIT_FAILURE` exactly if
something failed.

Supervision. `StaysUp`: outages within the assumed limits never exhaust the starts
of the unit. `RecoversSoon`: 12 s after the adapter is back (`RestartSec` and two
sleeps) the process listens or is about to, wherever the return caught it.
`RidesOut`: only an outage as long as both retries costs a restart.
`ListensAgain`: and so for ever.

Listeners. `BlacklistHolds` and `NoNullProxy` relate the table, the blacklist and
the point the handler has reached. `RuuviOnly` needs one entry per object.
`Current` says what the order *register, then read* is for: once no signal of a
tag waits, its newest advertisement is shown. It excludes tags that vanished and
were announced again while their proxy lived: `add_cb` leaves a known object
alone, and since `rem_cb` is registered nowhere the table still knows it.
`FeedSpec`: what is shown is never older than what was shown.

Pipeline. `EachScraperFed`: what a scraper sees of a tag is one of its
advertisements and never older than what it saw, and nothing of a relay appears
under a tag's name. `FreshScrapes`: a scrape while no signal of a tag waits and no
handler runs shows its newest advertisement (with the exception that `Current`
makes). `Delivered`: an advertisement, or a
newer one, reaches every scraper unless BlueZ drops the tag.

RuuviStore. `StoreSpec` says that updates and scrapes are atomic. An update counts
from the moment it takes the lock (`Settled`), since no scrape can be under way.
`WholeScrapes` and `CountersGrow` say it from the side of a scraper.

DataFormats. `Reads5`, `Reads3`: each field comes back by itself. `Flags5`: exactly
the incomplete or foreign packets are flagged. `Strict5`: with `throw_on_error`
the decoder returns exactly for what has the length and header of format 5 and
misses nothing; without it the header is not part of what is flagged
(section 6).

Diskstats. `Aligned` and `DistinctSamples` hold for every kernel, although with
fewer than twenty columns the chain runs into the next line. `WhichDisks` says what
a scrape then has. On every kernel the loop *loses the first line* of the file,
for `getline` runs before anything is read. With 20 columns it has the others;
with 18 the chain ends with the major number of the next line, `getline`
takes the rest of that one, and *every second disk is lost*; with 14 the chain fails
on the next line's device name, and only the second line's disk is shown. A number
that exceeds its field ends the list on any kernel that has it.

SystemInfo. `ErrorsCounted`: the shared counter equals the number of scrapes with
errors at every moment. `OwnErrorsShown`: a scrape with errors shows a count
above that of the last scrape of its thread. `MissingReported`: a file found
missing or a clock that failed when first asked for makes every later scrape an
erroneous one, a missing `/sys/class/thermal` each one until it is there.
`GapsTold`: an error-free scrape shows no zero that stands for nothing: each of
its numbers had a source with an entry for it. That the entry was a number it does
*not* say, and a scrape may show what nobody read (section 6).

### Fairness

`Lifecycle!FairSpec`: weak fairness of each thread, because the operating system
schedules threads and a D-Bus call returns or times out; strong fairness of
`LeaveLoop`, because sd-bus' event loop polls its exit descriptor in every round
and a stream of signals cannot keep it from leaving, while weak fairness would
let callbacks disable it for ever. Nothing is assumed of the adapter, the bus or
whoever sends signals: the adapter may flap for ever. `Listeners!FairSpec`: the
loop dispatches what waits and calls return. `Pipeline!PipeFairSpec` adds that each
thread is asked to scrape again and again, which is what Prometheus does; of
BlueZ nothing is assumed. `Supervision!FairSpec`: time passes, and what is due
happens; the adapter may stay up for ever, but not away for longer than
`MaxOutage`. All other properties are safety.

## 4. What is proved

All theorems hold for every value of the constants that the modules' named
assumptions allow; the bounds of the runs appear in them as arbitrary numbers.

**Lifecycle_proofs.** `TypeCorrect` by induction. The rest from inductive
invariants that say more than the properties:

* `ExitNeverLost` (`ExitPending`): the stopper leaves `stop()` with the exit
  request made, and only the runner consumes it, by leaving its loop. Main can
  reach `stop()` only after both are done.
* `NeverDeaf` (`NotDeaf`): while discovery is armed and the loop idle there is a
  session, or the last signal in the queue is the one that tells of its end, or
  a stop is under way. The invariant needs to know where each thread may be, and
  that nobody but a stopping thread disarms.
* `NoStaleRestart` (`RestartOnlyWhenLost`): for a sole client the queue has an
  unread loss only if the session has not been regained since: at most one loss
  per session, the last signal agreeing with the session.
* `StopStays` (`CalmStop`): once the stopper has disarmed an idle loop nothing arms
  it again, since only `start_discovery()` arms and only an armed loop calls it.
* `ImplementsService` (`ServiceSpec`): the recorded failure and the status
  agree, and each step maps to a step of `Service` or to none.

**Listeners_proofs.** `TypeCorrect`; `ProxyThere` (`NoNullProxy`), inductive as it
stands; `BlacklistStays` (`BlacklistHolds`), strengthened with "what is about to
be registered is not listed", which holds because only the callback lists, and
handlers do not overlap; `TagsToldApart` (`RuuviOnly`), strengthened with "every
object in the queue, the table or the handler has its entry"; `TagsCurrent`
(`Current`), strengthened with "a tag whose newest advertisement is not shown has a
signal in the queue or a handler on its way to read it" (`Followed`, `Heard`);
`ImplementsFeed`,
under one path per address, strengthened with "the packet on its way is neither
older than what is shown nor newer than what was sent".

**RuuviStore_proofs.** `TypeCorrect`; then `LockInv` (a scraper holds the mutex
exactly while it reads, and its copy equals the families up to where it is), and
"the families, once the current update is through, show every mac whole": from
these `ScrapesWhole`, `CountersNeverGoBack` (the order "no series lost, no
counter less" between what a thread has seen and the families) and
`ImplementsStore`.

**Pipeline_proofs.** `ListenerKept` (every behaviour of `Pipeline` is one of
`Listeners`) brings in all of `Listeners_proofs`. With the invariant "the store
shows exactly what was published of every tag, and what a scraper has is not newer"
(`UpToDate`, `Sound`) it gives `ScrapesFresh` from `Current`, and `ScrapersFed`
(`EachScraperFed`) under one path per address, for any number of scrapers.
`StoreServed`: the pipeline uses its store only as `MetricStore` provides for, so
that what `ImplementsStore` says of the store with its lock applies to it.

**DataFormats_proofs.** For every measurement a tag can send, not only the edges:
`ReadsBack5`, `ReadsBack3` (each field's decoder inverts its encoder, with its sign,
its mark for "missing" and the byte two fields share), `FlagsErrors5`,
`StrictWhenThrowing5`, and `InRange5`, also for packets of any other length but 0
or header and whatever bytes lie behind them. No invariant is needed beyond the properties: a
behaviour decodes one packet.

**SystemInfo_proofs.** For any number of threads and scrapes: `TypeCorrect`;
`AbsenceReported` (`MissingReported`), `NoGapUntold` (`GapsTold`) and `ErrorsShown`
(`OwnErrorsShown`) from an invariant that says how far a scrape has come and what
it then knows of the statics, and that the shared counter is never behind what
any thread has shown; `EachScrapeCounted` (`ErrorsCounted`), which adds `Finished`:
the finished scrapes with errors are finitely many and none is still under way,
so that each is counted once.

**Supervision_proofs.** The constants are the outages; the times of the program
and the unit are those of the source. Every invariant is a sum of seconds.
`ShortOutagesRiddenOut` (`RidesOut`) needs only an adapter that stays up for more
than a second: while the process retries, the seconds since the loss and those
still to wait make the number of the round (`RoundInv`).
`RecoversUnlessFailed` needs one that stays up for more than 12 s, and lets outages
last for any time: wherever the return of the adapter finds the process, what is
left of the way out, of `RestartSec` and of the last sleep is 12 s at most
(`ReturnInv`). The limit on starts needs both bounds (`Bearable`:
21 s and 38 s, written in terms of the unit's and the program's times).
`PhaseInv` says where in an outage the process can be: before its first restart,
or after it and so before the second. `OneInv`, `TwoInv` and `ThreeInv` say
how old the window then is at least, after one, two and three starts; after
three the next start is due at 61 s. This gives `LimitNeverReached` (`StaysUp`)
and, with the one before, `AlwaysRecovers` (`RecoversSoon`), for every such
adapter and not only the worst.

**Diskstats_proofs.** For files of any length. Every chain begins at the start of a
line (`AtLine`), and there are few ways it can go: lemma `Chain` says how many
fields are read and stored, and that the stream goes on unless the kernel, the end
of the file or a number that does not fit ends it there (`Ends`). `DisksNotMixed`
(`Aligned`) follows from what a record is then made of (`Extracted`).
`LabelsDistinct` (`DistinctSamples`) is strengthened with "the names of the records
are of lines that rise, none beyond the stream, and only the last record may have
none" (`LabelInv`); `DisksKnown` (`WhichDisks`) with "so far record k is of line
`At(k)`, none of these lines ended the stream, and the stream is just before the
line of the next record" (`StreamInv`), for all three kernels at once.

Assumptions used: `ConstantsAssumption`, `ListenersAssumption`, `StoreAssumption`,
`PipelineAssumption`, `MeasurementAssumption`, `SystemInfoAssumption`,
`SupervisionAssumption` and `DiskstatsAssumption`, which say that the constants
have their types, that at least one retry and one path exist, that numbers of
readings, seconds and lines are natural, that readings lie in the ranges of their
formats, that a kernel prints 14, 18 or 20 columns, that there are finitely many
threads, that relays are among the tags, and that the names for "nobody", "no mac"
and "the runner" are not names of anything else. TLC evaluates them in the runs.
`OnePathEach`, `OneEntry` and `Bearable` are not among them: theorems that need one
say so in their statement.

Every invariant, action property and refinement of the runs that pass is proved.
Only model-checked is liveness, which needs fairness and `ENABLED`: `Termination`,
`LossAnswered`, `ListensAgain`, `AnnouncedHeard`, `ForeignSilenced`, `Delivered`.

## 5. What is not modelled, and why

* The command line, printing and logging, `raw_gauge`, build files: no state that
  any behaviour depends on.
* `rem_cb`, `is_discovering`: nobody in the program calls them.
* Signals before the handlers are installed: their default action ends the
  process, and there is nothing left to say about it.
* Devices BlueZ knows when the program starts: they exist in `Init`, but nobody
  announces them and the code does not ask.
* The duration of D-Bus calls: `Lifecycle` lets them take any time, but
  `Supervision` takes an absent adapter to refuse at once. A call that times out
  takes longer, and longer failures only spread the starts.
* What is published for a missing pressure or transmit power: constants of the
  structure (`Flags5` says that the packet is flagged).
* Families of `SystemInfoExposer` that have one name, and thermal zones of one
  type: they depend on the code's constants or the machine alone.
* Floating-point rounding, `acceleration_total` (published as a gauge: the
  `hypot()` of three floats), and the conversion of sectors and clock ticks.
* Empty lines in `/proc/meminfo`, of whose empty name `parse_lines()` would take the
  last character: the kernel prints none.

## 6. Findings

1. `convert_data_format_5` notes a wrong size or a wrong first byte and then
   resets `contains_errors` (`src/ruuvi/ruuvi.cpp:81`). `test/test-ruuvi.cpp`
   expects invalid data to be flagged, and its own data are, but only because
   values are missing in them too. Run `formats_header`.
2. The chain that reads a line of `/proc/diskstats` has no field for the
   discarded sectors (`src/ruuvi/diskstat.cpp:58`): the last three families show
   the column before the one their Help text names. Run `diskstats_help`.
3. `read_thermal_sensors()` and `parse_lines()` do not look at the stream after
   their `>>` (`src/ruuvi/system_info.cpp:319` and `:268`). A temperature file that
   opens but cannot be read, or a line of `/proc/meminfo` without a number, publishes
   an uninitialised value; text in place of the number publishes 0. The scrape
   counts as free of errors, which `sysinfo_errors_count` promises to tell from
   the others. Run `system_info_unread`.

## 7. Plan

Done, in this order because the process ending and hearing is what all else
depends on: `Service` and `Lifecycle`; `Feed` and `Listeners`; `MetricStore` and
`RuuviStore`; `DataFormats`; `Diskstats`; `SystemInfo`; the proofs of the first
three; restarts of bluetoothd in `Lifecycle`; `Supervision`; `Pipeline`, which
composes listener, decoder and store; the proofs of `Pipeline`, `DataFormats` and
`SystemInfo`, and of `CalmStop` and `Current`; `Diskstats` with a stream that is a
position in the file; the proofs of `Supervision` and `Diskstats`.

Left:

1. A bluetoothd that is away for good: its D-Bus errors are those of an adapter
   without power in `Lifecycle`.
