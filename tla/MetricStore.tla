----------------------------- MODULE MetricStore -----------------------------
(***************************************************************************)
(* What RuuviExposer promises to a scraper (its header: "Updates           *)
(* prometheus with values from data, with respect to its mac.  This is     *)
(* done in thread-safe manner"): a measurement enters the store as a       *)
(* whole, and a scrape shows the store as it was at one moment.            *)
(***************************************************************************)
EXTENDS Naturals

CONSTANTS Macs, Values, Scrapers

VARIABLES
    store,      \* by mac: the gauges' values, measurements and errors counted
    seen        \* what each scraper got last

mvars == <<store, seen>>

Empty == [m \in {} |-> 0]

Init == store = Empty /\ seen = [s \in Scrapers |-> Empty]

\* All gauges show the new measurement, and the mac's counters go on from where
\* they were.
Entry(m, v, bad) ==
    LET before == IF m \in DOMAIN store THEN store[m] ELSE [measured |-> 0, errors |-> 0]
    IN  [values   |-> {v},
         measured |-> before.measured + 1,
         errors   |-> IF bad THEN before.errors + 1 ELSE before.errors]

Update(m, v, bad) ==
    /\ store' = [x \in DOMAIN store \cup {m} |-> IF x = m THEN Entry(m, v, bad) ELSE store[x]]
    /\ UNCHANGED seen

Scrape(s) ==
    /\ seen' = [seen EXCEPT ![s] = store]
    /\ UNCHANGED store

Next == \/ \E m \in Macs, v \in Values, bad \in BOOLEAN : Update(m, v, bad)
        \/ \E s \in Scrapers : Scrape(s)

Spec == Init /\ [][Next]_mvars
=============================================================================
