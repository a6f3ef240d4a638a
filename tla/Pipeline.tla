------------------------------- MODULE Pipeline -------------------------------
(***************************************************************************)
(* From an advertisement to a scrape: module Listeners, whose consumer     *)
(* decodes a tag's packet and updates the metric store, and the threads of *)
(* the HTTP server that read the store while devices come, go and change   *)
(* (Ruuvitag in src/main.cpp).  The store is that of module MetricStore,   *)
(* in which updates and scrapes are atomic: RuuviStore_proofs shows that   *)
(* src/ruuvi/ruuvi_prometheus_exposer.cpp implements it.                   *)
(***************************************************************************)
EXTENDS Listeners

CONSTANTS
    Scrapers,    \* threads of the HTTP server
    Relayed      \* tags whose packets carry another MAC than their sender's

ASSUME PipelineAssumption == Relayed \subseteq Macs /\ "" \notin Macs

VARIABLES
    store, seen    \* what the store holds, and what each scraper got last

Store == INSTANCE MetricStore WITH Macs <- Macs \cup {""}, Values <- 1..MaxAdv

pipeVars == <<vars, store, seen>>

PipeInit == Init /\ Store!Init

\* Mutant of Label: the series of another tag's packet is named for its sender.
Label_Sender(m) == m

\* The mac of the decoder's result: empty if the packet's is not the sender's.
Label(m) == IF m \in Relayed THEN "" ELSE m

\* Mutant of Publish: erroneous measurements are not stored.
Publish_GoodOnly ==
    /\ BleCallback
    /\ IF packet.tag /\ packet.adv # 0
       THEN \E flagged \in BOOLEAN :
              /\ MacOf[cur] \in Relayed => flagged
              /\ IF flagged THEN UNCHANGED <<store, seen>>
                 ELSE Store!Update(Label(MacOf[cur]), packet.adv, flagged)
       ELSE UNCHANGED <<store, seen>>

\* ble_callback() with the update it makes: a tag's packet is decoded and stored,
\* flagged or not; any value of it may be missing.
Publish ==
    /\ BleCallback
    /\ IF packet.tag /\ packet.adv # 0
       THEN \E flagged \in BOOLEAN :
              /\ MacOf[cur] \in Relayed => flagged
              /\ Store!Update(Label(MacOf[cur]), packet.adv, flagged)
       ELSE UNCHANGED <<store, seen>>

\* A thread of the HTTP server collects.
Scrape(s) ==
    /\ pc \notin {"aborted", "undefined"}
    /\ Store!Scrape(s)
    /\ UNCHANGED vars

PipeRunner ==
    \/ /\ AddCb \/ GetAddress \/ Register \/ PropertiesCb \/ EmitPacket
       /\ UNCHANGED <<store, seen>>
    \/ Publish

PipeNext ==
    \/ Bluez /\ UNCHANGED <<store, seen>>
    \/ PipeRunner
    \/ \E s \in Scrapers : Scrape(s)

PipeSpec == PipeInit /\ [][PipeNext]_pipeVars

\* The event loop runs, calls return, and Prometheus scrapes now and then.
PipeFairSpec ==
    PipeSpec /\ WF_pipeVars(PipeRunner) /\ \A s \in Scrapers : WF_pipeVars(Scrape(s))

-----------------------------------------------------------------------------
(* Properties.                                                              *)

\* The measurement of m that a copy of the store shows, 0 for none.
Shown(copy, m) ==
    IF m \in DOMAIN copy THEN CHOOSE n \in copy[m].values : TRUE ELSE 0

\* The newest advertisement with the mac of its own sender.
Own(m) == IF m \in Relayed THEN 0 ELSE Newest(m)

\* What Prometheus sees of a tag never goes back and is never invented, from
\* advertisement to scrape: module Feed again, for each scraper, across the
\* signal queue, the late GetAll, the callback, the decoder and the store.  A relay
\* is never shown as the tag whose packets it sends, or as itself.
ScraperFeed(s) == INSTANCE Feed WITH
    latest <- [m \in Macs |-> Own(m)],
    shown  <- [m \in Macs |-> Shown(seen[s], m)]

EachScraperFed ==
    /\ \A s \in Scrapers : ScraperFeed(s)!Init
    /\ [][\A s \in Scrapers : [ScraperFeed(s)!Next]_(ScraperFeed(s)!fvars)]_pipeVars

\* A scrape while no signal of a heard tag waits and no handler runs shows the
\* tag's newest advertisement.
FreshScrapes ==
    [][(OnePathEach /\ OneEntry /\ ~CallsFail /\ pc = "idle") =>
           \A s \in Scrapers, p \in listeners \cap present :
               (Scrape(s) /\ MacOf[p] \in Tags \ Relayed
                    /\ ~Waiting(p) /\ p \notin reannounced)
                   => Shown(seen'[s], MacOf[p]) = adv[p]]_pipeVars

\* The advertisement of a tag that is heard reaches every scraper, or a newer one
\* does, unless BlueZ drops the tag.
Delivered ==
    \A p \in Paths, n \in 1..MaxAdv, s \in Scrapers :
        (p \in listeners /\ MacOf[p] \in Tags \ Relayed /\ adv[p] >= n
            /\ \E i \in 1..Len(signals) : signals[i] = <<"changed", p>>)
            ~> (Shown(seen[s], MacOf[p]) >= n \/ p \notin present)
=============================================================================
