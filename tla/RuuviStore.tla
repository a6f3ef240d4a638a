----------------------------- MODULE RuuviStore -----------------------------
(***************************************************************************)
(* RuuviExposer::Impl (src/ruuvi/ruuvi_prometheus_exposer.cpp): the runner *)
(* thread puts measurements into the metric families with update_data()    *)
(* while threads of the HTTP server read them with Collect().  A step      *)
(* writes or reads one family; mtx makes each call one whole.              *)
(*                                                                         *)
(* A family is a function from the macs that have a series in it to the    *)
(* series' value; the collector of family f is field f of the measurement, *)
(* here its number for every field.  External: prometheus::Registry, whose *)
(* Collect() reads family after family.                                    *)
(***************************************************************************)
EXTENDS Naturals

CONSTANTS
    Gauges,       \* how many families of gauges there are
    Macs,         \* addresses, the empty one of a packet in error included
    Values,       \* measurements
    Scrapers,     \* threads of the HTTP server
    MaxCount      \* bound: measurements per mac

ASSUME StoreAssumption ==
    /\ Gauges \in Nat \ {0} /\ Values \subseteq Nat /\ MaxCount \in Nat
    /\ "free" \notin Scrapers /\ "runner" \notin Scrapers

Measured == Gauges + 1                \* measurements_total
Errors   == Gauges + 2                \* errors_counter
Families == 1..Errors

VARIABLES
    mtx,         \* who holds the mutex: "free", "runner" or a scraper
    family,      \* the families
    data,        \* the argument of the update_data() that runs, or ran last
    todo,        \* the family it writes next
    reading,     \* by scraper: the family Collect() reads next, 0 outside of it
    copy,        \* by scraper: what Collect() has read so far
    result       \* by scraper: what its last Collect() returned

vars == <<mtx, family, data, todo, reading, copy, result>>

Empty == [m \in {} |-> 0]

Datum == [mac : Macs, value : Values, contains_errors : BOOLEAN]

IsSeries(s) == DOMAIN s \subseteq Macs /\ s \in [DOMAIN s -> Nat]

IsTable(t) == t = [f \in Families |-> t[f]] /\ \A f \in Families : IsSeries(t[f])

TypeOK ==
    /\ mtx \in {"free", "runner"} \cup Scrapers
    /\ IsTable(family)
    /\ data \in Datum
    /\ todo \in Families
    /\ reading \in [Scrapers -> {0} \cup Families]
    /\ copy = [s \in Scrapers |-> copy[s]] /\ \A s \in Scrapers : IsTable(copy[s])
    /\ result = [s \in Scrapers |-> result[s]] /\ \A s \in Scrapers : IsTable(result[s])

Init ==
    /\ mtx = "free"
    /\ family = [f \in Families |-> Empty]
    /\ data \in Datum
    /\ todo = 1
    /\ reading = [s \in Scrapers |-> 0]
    /\ copy = [s \in Scrapers |-> [f \in Families |-> Empty]]
    /\ result = copy

-----------------------------------------------------------------------------
(* update_data().                                                           *)

Put(series, m, v) == [x \in DOMAIN series \cup {m} |-> IF x = m THEN v ELSE series[x]]

Count(series, m) == IF m \in DOMAIN series THEN series[m] ELSE 0

\* Mutant of Written: counting starts anew with every measurement.
Written_Reset(f) ==
    CASE f <= Gauges  -> Put(family[f], data.mac, data.value)
      [] f = Measured -> Put(family[f], data.mac, 1)
      [] OTHER        -> Put(family[f], data.mac, IF data.contains_errors THEN 1 ELSE 0)

\* Mutant of Written: a mac has a series of errors only after its first error.
Written_ErrorsOnly(f) ==
    CASE f <= Gauges  -> Put(family[f], data.mac, data.value)
      [] f = Measured -> Put(family[f], data.mac, Count(family[f], data.mac) + 1)
      [] OTHER        -> IF data.contains_errors
                         THEN Put(family[f], data.mac, Count(family[f], data.mac) + 1)
                         ELSE family[f]

\* Family f once data is in it: gauges are set, measurements counted, errors
\* counted if there are any; the series of errors exists in either case.
Written(f) ==
    CASE f <= Gauges  -> Put(family[f], data.mac, data.value)
      [] f = Measured -> Put(family[f], data.mac, Count(family[f], data.mac) + 1)
      [] OTHER        -> Put(family[f], data.mac,
                             Count(family[f], data.mac)
                                 + (IF data.contains_errors THEN 1 ELSE 0))

\* The runner takes the lock with new data.
UpdateBegins ==
    /\ mtx = "free"
    /\ mtx' = "runner"
    /\ data' \in {d \in Datum : Count(family[Measured], d.mac) < MaxCount}
    /\ todo' = 1
    /\ UNCHANGED <<family, reading, copy, result>>

\* Mutant of UpdateWrites: the collectors are run through once too often.
UpdateWrites_NoEnd ==
    /\ mtx = "runner"
    /\ family' = [family EXCEPT ![todo] = Written(todo)]
    /\ IF todo > Errors THEN mtx' = "free" /\ todo' = 1
       ELSE todo' = todo + 1 /\ UNCHANGED mtx
    /\ UNCHANGED <<data, reading, copy, result>>

\* One family is written; after the last one the lock is given back.
UpdateWrites ==
    /\ mtx = "runner"
    /\ family' = [family EXCEPT ![todo] = Written(todo)]
    /\ IF todo = Errors THEN mtx' = "free" /\ todo' = 1
       ELSE todo' = todo + 1 /\ UNCHANGED mtx
    /\ UNCHANGED <<data, reading, copy, result>>

-----------------------------------------------------------------------------
(* Collect().                                                               *)

\* Mutant of CollectBegins: the registry is read without the lock.
CollectBegins_NoLock(s) ==
    /\ reading[s] = 0
    /\ reading' = [reading EXCEPT ![s] = 1]
    /\ UNCHANGED <<mtx, family, data, todo, copy, result>>

CollectBegins(s) ==
    /\ mtx = "free" /\ reading[s] = 0
    /\ mtx' = s
    /\ reading' = [reading EXCEPT ![s] = 1]
    /\ UNCHANGED <<family, data, todo, copy, result>>

\* One family is read; after the last one Collect() returns and unlocks.
CollectReads(s) ==
    /\ reading[s] # 0
    /\ copy' = [copy EXCEPT ![s][reading[s]] = family[reading[s]]]
    /\ IF reading[s] = Errors
       THEN /\ mtx' = "free"
            /\ reading' = [reading EXCEPT ![s] = 0]
            /\ result' = [result EXCEPT ![s] = copy'[s]]
       ELSE /\ reading' = [reading EXCEPT ![s] = @ + 1]
            /\ UNCHANGED <<mtx, result>>
    /\ UNCHANGED <<family, data, todo>>

Next ==
    \/ UpdateBegins \/ UpdateWrites
    \/ \E s \in Scrapers : CollectBegins(s) \/ CollectReads(s)

Spec == Init /\ [][Next]_vars

-----------------------------------------------------------------------------
(* Properties.                                                              *)

\* The families as a table by mac, as module MetricStore sees them.
Table(fams) ==
    [m \in DOMAIN fams[Measured] |->
        [values   |-> {fams[f][m] : f \in {g \in 1..Gauges : m \in DOMAIN fams[g]}},
         measured |-> fams[Measured][m],
         errors   |-> Count(fams[Errors], m)]]

\* The families once the update that holds the lock is through: an update counts
\* from the moment it takes the lock, when no scrape can be under way.
Settled == [f \in Families |-> IF mtx = "runner" /\ f >= todo THEN Written(f) ELSE family[f]]

Store == INSTANCE MetricStore WITH
    store <- Table(Settled),
    seen  <- [s \in Scrapers |-> Table(result[s])]

\* update() and Collect() take effect as a whole, one after the other, whatever
\* the threads of the HTTP server and the runner interleave (module MetricStore).
StoreSpec == Store!Spec

\* A scrape never mixes two measurements: whatever mac it shows has a series in
\* every family, all gauges of a mac come from one measurement, and no mac has
\* more errors than measurements.
WholeScrapes ==
    \A s \in Scrapers :
        LET got == result[s]
        IN  /\ \A f, g \in Families : DOMAIN got[f] = DOMAIN got[g]
            /\ \A m \in DOMAIN got[Measured] :
                   /\ \A f, g \in 1..Gauges : got[f][m] = got[g][m]
                   /\ got[Errors][m] <= got[Measured][m]

\* From one scrape to the next of the same thread no counter goes back and no
\* series disappears: Prometheus would take it for a restart of the process.
CountersGrow ==
    [][\A s \in Scrapers : \A f \in {Measured, Errors} :
           \A m \in DOMAIN result[s][f] :
               m \in DOMAIN result'[s][f] /\ result[s][f][m] <= result'[s][f][m]]_vars
=============================================================================
