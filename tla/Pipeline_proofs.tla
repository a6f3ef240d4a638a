--------------------------- MODULE Pipeline_proofs ---------------------------
(***************************************************************************)
(* Proofs about module Pipeline, for any devices, relays, scrapers and     *)
(* bounds: they carry what Listeners_proofs shows of the published         *)
(* measurements through the metric store to the scrapes.                   *)
(***************************************************************************)
EXTENDS Pipeline, Listeners_proofs

LEMMA ListenerSteps == [PipeNext]_pipeVars => [Next]_vars
  BY DEF PipeNext, PipeRunner, Publish, Scrape, Next, Runner, pipeVars

\* The pipeline takes nothing from the listener and adds nothing to it.
THEOREM ListenerKept == PipeSpec => Spec
  <1>1. PipeInit => Init BY DEF PipeInit
  <1>2. QED BY <1>1, ListenerSteps, PTL DEF PipeSpec, Spec

\* The pipeline updates and scrapes its store as module MetricStore provides for,
\* so that the one of RuuviStore, which implements that, can take its place.
THEOREM StoreServed == PipeSpec => Store!Spec
  <1>1. PipeInit => Store!Init BY DEF PipeInit
  <1>2. TypeOK /\ [PipeNext]_pipeVars => [Store!Next]_(Store!mvars)
    <2> SUFFICES ASSUME TypeOK, [PipeNext]_pipeVars PROVE [Store!Next]_(Store!mvars)
      OBVIOUS
    <2>1. CASE Publish
      <3>1. CASE packet.tag /\ packet.adv # 0
        <4>1. PICK bad \in BOOLEAN : Store!Update(Label(MacOf[cur]), packet.adv, bad)
          BY <2>1, <3>1 DEF Publish
        <4>2. Label(MacOf[cur]) \in Macs \cup {""}
          BY ListenersAssumption DEF TypeOK, Label
        <4>3. packet.adv \in 1..MaxAdv BY <3>1, ListenersAssumption DEF TypeOK, Packet
        <4>4. QED BY <4>1, <4>2, <4>3 DEF Store!Next
      <3>2. CASE ~(packet.tag /\ packet.adv # 0)
        BY <2>1, <3>2 DEF Publish, Store!mvars
      <3>3. QED BY <3>1, <3>2
    <2>2. CASE \E s \in Scrapers : Scrape(s) BY <2>2 DEF Scrape, Store!Next
    <2>3. CASE UNCHANGED <<store, seen>> BY <2>3 DEF Store!mvars
    <2>4. QED BY <2>1, <2>2, <2>3 DEF PipeNext, PipeRunner, pipeVars
  <1>3. PipeSpec => []TypeOK BY ListenerKept, TypeCorrect
  <1>4. QED BY <1>1, <1>2, <1>3, PTL DEF PipeSpec, Store!Spec

-----------------------------------------------------------------------------
(* What the store and the scrapes hold.                                     *)

\* A copy of the store names no relay, and each tag's series has one measurement,
\* not newer than what was published.
Sound(copy) ==
    /\ DOMAIN copy \cap Relayed = {}
    /\ \A m \in Macs \cap DOMAIN copy :
           \E n \in Nat : copy[m].values = {n} /\ n <= published[m]

\* The store shows what was published of every tag that is not relayed.
UpToDate == \A m \in Macs \ Relayed : Shown(store, m) = published[m]

PipeIInv ==
    /\ Sound(store) /\ UpToDate
    /\ seen = [s \in Scrapers |-> seen[s]]
    /\ \A s \in Scrapers : Sound(seen[s])

LEMMA ShownOne ==
    ASSUME NEW copy, NEW m \in Macs \cap DOMAIN copy, NEW n, copy[m].values = {n}
    PROVE  Shown(copy, m) = n
  BY DEF Shown

\* A sound copy shows a number not above what was published, 0 for a relay.
LEMMA ShownSound ==
    ASSUME TypeOK, NEW copy, Sound(copy), NEW m \in Macs
    PROVE  /\ Shown(copy, m) \in 0..published[m]
           /\ m \in Relayed => Shown(copy, m) = 0
  <1>1. published[m] \in Nat BY ListenersAssumption DEF TypeOK
  <1>2. CASE m \in DOMAIN copy
    <2>1. PICK n \in Nat : copy[m].values = {n} /\ n <= published[m] BY <1>2 DEF Sound
    <2>2. Shown(copy, m) = n BY <1>2, <2>1, ShownOne
    <2>3. QED BY <1>1, <1>2, <2>1, <2>2 DEF Sound
  <1>3. CASE m \notin DOMAIN copy BY <1>1, <1>3 DEF Shown
  <1>4. QED BY <1>2, <1>3

\* What the callback stores of the packet it publishes.
LEMMA PublishMoves ==
    ASSUME TypeOK, Publish
    PROVE  /\ UNCHANGED seen
           /\ \/ UNCHANGED <<store, published>>
              \/ /\ published' = [published EXCEPT ![MacOf[cur]] = packet.adv]
                 /\ pc = "callback" /\ packet.adv # 0 /\ packet.adv \in Nat
                 /\ DOMAIN store' = DOMAIN store \cup {Label(MacOf[cur])}
                 /\ \A m \in DOMAIN store \ {Label(MacOf[cur])} : store'[m] = store[m]
                 /\ store'[Label(MacOf[cur])].values = {packet.adv}
  <1>1. CASE packet.tag /\ packet.adv # 0
    <2>1. PICK bad \in BOOLEAN : Store!Update(Label(MacOf[cur]), packet.adv, bad)
      BY <1>1 DEF Publish
    <2> DEFINE m == Label(MacOf[cur])
               entry == Store!Entry(m, packet.adv, bad)
    <2>2. /\ store' = [x \in DOMAIN store \cup {m} |-> IF x = m THEN entry ELSE store[x]]
          /\ UNCHANGED seen
      BY <2>1 DEF Store!Update
    <2>3. entry.values = {packet.adv} BY DEF Store!Entry
    <2>4. published' = [published EXCEPT ![MacOf[cur]] = packet.adv] /\ pc = "callback"
      BY <1>1 DEF Publish, BleCallback
    <2>5. packet.adv \in Nat BY DEF TypeOK, Packet
    <2>6. QED BY <1>1, <2>2, <2>3, <2>4, <2>5
  <1>2. CASE ~(packet.tag /\ packet.adv # 0)
    BY <1>2 DEF Publish, BleCallback
  <1>3. QED BY <1>1, <1>2

LEMMA PublishKeeps ==
    ASSUME OnePathEach, TypeOK, FeedIInv, PipeIInv, Publish
    PROVE  PipeIInv'
  <1>1. CASE UNCHANGED <<store, published>>
    BY <1>1, PublishMoves DEF PipeIInv, Sound, UpToDate, Shown
  <1>2. CASE ~UNCHANGED <<store, published>>
    <2> DEFINE c == MacOf[cur]
               l == Label(c)
    <2>1. /\ published' = [published EXCEPT ![c] = packet.adv]
          /\ pc = "callback" /\ packet.adv # 0 /\ packet.adv \in Nat
          /\ DOMAIN store' = DOMAIN store \cup {l}
          /\ \A m \in DOMAIN store \ {l} : store'[m] = store[m]
          /\ store'[l].values = {packet.adv}
          /\ UNCHANGED seen
      BY <1>2, PublishMoves
    <2>2. c \in Macs /\ cur \in Paths BY ListenersAssumption DEF TypeOK
    <2>3. \A m \in Macs : published[m] \in Nat
      BY ListenersAssumption DEF TypeOK
    <2>4. published[c] <= packet.adv BY <2>1, <2>2, <2>3 DEF FeedIInv
    <2>5. \A m \in Macs : published'[m] = IF m = c THEN packet.adv ELSE published[m]
      BY <2>1, <2>2 DEF TypeOK
    <2>6. \A m \in Macs : published'[m] \in Nat /\ published[m] <= published'[m]
      BY <2>1, <2>3, <2>4, <2>5
    <2>7. l \notin Relayed /\ (l \in Macs => l = c) /\ (c \notin Relayed => l = c)
      BY PipelineAssumption DEF Label
    <2>8. ASSUME NEW copy, Sound(copy)
          PROVE  \A m \in Macs \cap DOMAIN copy :
                     \E n \in Nat : copy[m].values = {n} /\ n <= published'[m]
      <3>1. SUFFICES ASSUME NEW m \in Macs \cap DOMAIN copy
                     PROVE  \E n \in Nat : copy[m].values = {n} /\ n <= published'[m]
        OBVIOUS
      <3>2. PICK n \in Nat : copy[m].values = {n} /\ n <= published[m] BY <2>8 DEF Sound
      <3>3. n <= published'[m] BY <2>3, <2>6, <3>2
      <3>4. QED BY <3>2, <3>3
    <2>9. \A m \in Macs \cap DOMAIN store' :
              \E n \in Nat : store'[m].values = {n} /\ n <= published'[m]
      <3>1. SUFFICES ASSUME NEW m \in Macs \cap DOMAIN store'
                     PROVE  \E n \in Nat : store'[m].values = {n} /\ n <= published'[m]
        OBVIOUS
      <3>2. CASE m = l
        <4>1. published'[m] = packet.adv BY <2>5, <2>7, <3>2
        <4>2. QED BY <2>1, <3>2, <4>1
      <3>3. CASE m # l
        <4>1. m \in DOMAIN store /\ store'[m] = store[m] BY <2>1, <3>3
        <4>2. QED BY <2>8, <4>1 DEF PipeIInv
      <3>4. QED BY <3>2, <3>3
    <2>10. DOMAIN store' \cap Relayed = {} BY <2>1, <2>7 DEF PipeIInv, Sound
    <2>11. Sound(store)' BY <2>9, <2>10 DEF Sound
    <2>12. \A s \in Scrapers : Sound(seen[s])'
      <3>1. SUFFICES ASSUME NEW s \in Scrapers PROVE Sound(seen[s])'
        OBVIOUS
      <3>2. Sound(seen[s]) BY DEF PipeIInv
      <3>3. QED BY <2>1, <2>8, <3>2 DEF Sound
    <2>13. UpToDate'
      <3>1. SUFFICES ASSUME NEW m \in Macs \ Relayed PROVE Shown(store', m) = published'[m]
        BY DEF UpToDate, Shown
      <3>2. CASE m = c
        <4>1. m \in DOMAIN store' /\ store'[m].values = {packet.adv} BY <2>1, <2>7, <3>2
        <4>2. Shown(store', m) = packet.adv BY <4>1, ShownOne
        <4>3. QED BY <2>5, <3>2, <4>2
      <3>3. CASE m # c
        <4>1. m # l BY <2>7, <3>3
        <4>2. m \in DOMAIN store' <=> m \in DOMAIN store BY <2>1, <4>1
        <4>3. CASE m \in DOMAIN store
          <5>1. PICK n \in Nat : store[m].values = {n} BY <4>3 DEF PipeIInv, Sound
          <5>2. store'[m].values = {n} BY <2>1, <4>1, <4>3, <5>1
          <5>3. Shown(store', m) = Shown(store, m) BY <4>2, <4>3, <5>1, <5>2, ShownOne
          <5>4. QED BY <2>5, <3>3, <5>3 DEF PipeIInv, UpToDate
        <4>4. CASE m \notin DOMAIN store
          BY <2>5, <3>3, <4>2, <4>4 DEF PipeIInv, UpToDate, Shown
        <4>5. QED BY <4>3, <4>4
      <3>4. QED BY <3>2, <3>3
    <2>14. QED BY <2>1, <2>11, <2>12, <2>13 DEF PipeIInv
  <1>3. QED BY <1>1, <1>2

\* Everything but the callback and the scrapes leaves what is published alone.
LEMMA PublishedKept ==
    ASSUME Bluez \/ AddCb \/ GetAddress \/ Register \/ PropertiesCb \/ EmitPacket
    PROVE  UNCHANGED published
  BY BluezMoves, HandlerMoves

LEMMA PipeStep ==
    ASSUME OnePathEach, TypeOK, FeedIInv, PipeIInv, [PipeNext]_pipeVars
    PROVE  PipeIInv'
  <1>1. CASE UNCHANGED <<store, seen, published>>
    BY <1>1 DEF PipeIInv, Sound, UpToDate, Shown
  <1>2. CASE Publish BY <1>2, PublishKeeps
  <1>3. ASSUME NEW s \in Scrapers, Scrape(s) PROVE PipeIInv'
    <2>1. /\ UNCHANGED <<store, published>>
          /\ seen' = [seen EXCEPT ![s] = store]
      BY <1>3 DEF Scrape, Store!Scrape, vars
    <2>2. \A x \in Scrapers : seen'[x] = IF x = s THEN store ELSE seen[x]
      BY <2>1 DEF PipeIInv
    <2>3. seen' = [x \in Scrapers |-> seen'[x]] BY <2>1 DEF PipeIInv
    <2>4. QED BY <2>1, <2>2, <2>3 DEF PipeIInv, Sound, UpToDate, Shown
  <1>4. QED BY <1>1, <1>2, <1>3, PublishedKept
    DEF PipeNext, PipeRunner, pipeVars, vars

LEMMA PipeStart == PipeInit => PipeIInv
  BY DEF PipeInit, Init, Store!Init, Store!Empty, PipeIInv, Sound, UpToDate, Shown

LEMMA PipeInduction == OnePathEach => (PipeSpec => []PipeIInv)
  <1> SUFFICES ASSUME OnePathEach PROVE PipeSpec => []PipeIInv
    OBVIOUS
  <1>1. ListenersIInv /\ PipeIInv /\ [PipeNext]_pipeVars => PipeIInv'
    BY PipeStep DEF ListenersIInv
  <1>2. QED BY <1>1, PipeStart, ListenerKept, ListenersInduction, PTL DEF PipeSpec

-----------------------------------------------------------------------------
(* Scrapes that show the present.                                           *)

\* A scrape that no signal of a tag precedes shows its newest advertisement, for
\* any number of devices, signals and scrapers.
THEOREM ScrapesFresh == PipeSpec => FreshScrapes
  <1> DEFINE Fresh ==
        (OnePathEach /\ OneEntry /\ ~CallsFail /\ pc = "idle") =>
           \A s \in Scrapers, p \in listeners \cap present :
               (Scrape(s) /\ MacOf[p] \in Tags \ Relayed
                    /\ ~Waiting(p) /\ p \notin reannounced)
                   => Shown(seen'[s], MacOf[p]) = adv[p]
  <1>1. CASE ~OnePathEach
    <2>1. Fresh BY <1>1
    <2>2. PipeSpec => [][Fresh]_pipeVars BY <2>1, PTL
    <2>3. QED BY <2>2 DEF FreshScrapes
  <1>2. CASE OnePathEach
    <2>1. ListenersIInv /\ PipeIInv => Fresh
      <3>1. SUFFICES ASSUME ListenersIInv, PipeIInv, OneEntry, ~CallsFail, pc = "idle",
                            NEW s \in Scrapers, NEW p \in listeners \cap present,
                            Scrape(s), MacOf[p] \in Tags \ Relayed,
                            ~Waiting(p), p \notin reannounced
                     PROVE  Shown(seen'[s], MacOf[p]) = adv[p]
        BY <1>2
      <3>2. published[MacOf[p]] = adv[p] BY <1>2, <3>1, CurrentFollows DEF Current
      <3>3. seen' = [seen EXCEPT ![s] = store] BY <3>1 DEF Scrape, Store!Scrape
      <3>4. MacOf[p] \in Macs \ Relayed
        BY <3>1, ListenersAssumption DEF ListenersIInv, TypeOK
      <3>5. seen'[s] = store BY <3>1, <3>3 DEF PipeIInv
      <3>6. Shown(store, MacOf[p]) = adv[p] BY <3>1, <3>2, <3>4 DEF PipeIInv, UpToDate
      <3>7. QED BY <3>5, <3>6
    <2>2. PipeSpec => [][Fresh]_pipeVars
      BY <1>2, <2>1, PipeInduction, ListenerKept, ListenersInduction, PTL
    <2>3. QED BY <2>2 DEF FreshScrapes
  <1>3. QED BY <1>1, <1>2

-----------------------------------------------------------------------------
(* Each scraper's view implements Feed.                                     *)

\* Nothing published is newer than what its sender sent: the invariant of Feed.
Behind == \A m \in Macs : Newest(m) \in Nat /\ published[m] \in Nat /\ published[m] <= Newest(m)

LEMMA NewestNat == ASSUME OnePathEach, TypeOK, NEW m \in Macs PROVE Newest(m) \in Nat
  <1>1. CASE \E p \in Paths : MacOf[p] = m
    <2>1. PICK p \in Paths : MacOf[p] = m BY <1>1
    <2>2. Newest(m) = adv[p] BY <2>1, NewestOf
    <2>3. QED BY <2>2 DEF TypeOK
  <1>2. CASE ~ \E p \in Paths : MacOf[p] = m BY <1>2 DEF Newest
  <1>3. QED BY <1>1, <1>2

\* What devices send, as the feed of the listener has it: only numbers that grow.
LEMMA NewestMoves ==
    ASSUME OnePathEach, TypeOK, FeedIInv, [Next]_vars
    PROVE  \/ \A m \in Macs : Newest(m)' = Newest(m)
           \/ \E c \in Macs : \A m \in Macs :
                  Newest(m)' = IF m = c THEN Newest(m) + 1 ELSE Newest(m)
  <1> DEFINE newest == [m \in Macs |-> Newest(m)]
  <1>1. [MeasurementFeed!Next]_(MeasurementFeed!fvars) BY FeedStep
  <1>2. CASE newest' = newest
    <2>1. \A m \in Macs : newest'[m] = newest[m] BY <1>2
    <2>2. QED BY <2>1
  <1>3. CASE \E c \in Macs : newest' = [newest EXCEPT ![c] = @ + 1]
    <2>1. PICK c \in Macs : newest' = [newest EXCEPT ![c] = @ + 1] BY <1>3
    <2>2. \A m \in Macs : newest'[m] = IF m = c THEN newest[m] + 1 ELSE newest[m]
      BY <2>1
    <2>3. QED BY <2>2
  <1>4. QED BY <1>1, <1>2, <1>3
    DEF MeasurementFeed!Next, MeasurementFeed!fvars, MeasurementFeed!Show,
        MeasurementFeed!Measure

LEMMA BehindStep ==
    ASSUME OnePathEach, TypeOK, TypeOK', FeedIInv, Behind, [Next]_vars
    PROVE  Behind'
  <1>1. SUFFICES ASSUME NEW m \in Macs PROVE published'[m] <= Newest(m)'
    <2>1. \A m \in Macs : Newest(m)' \in Nat
      <3>1. SUFFICES ASSUME NEW m \in Macs PROVE Newest(m)' \in Nat
        OBVIOUS
      <3>2. CASE \E p \in Paths : MacOf[p] = m
        <4>1. PICK p \in Paths : MacOf[p] = m BY <3>2
        <4>2. Newest(m)' = adv'[p] BY <4>1, NewestOf
        <4>3. QED BY <4>2 DEF TypeOK
      <3>3. CASE ~ \E p \in Paths : MacOf[p] = m BY <3>3 DEF Newest
      <3>4. QED BY <3>2, <3>3
    <2>2. \A m \in Macs : published'[m] \in Nat BY ListenersAssumption DEF TypeOK
    <2>3. QED BY <2>1, <2>2 DEF Behind
  <1>2. Newest(m) \in Nat /\ published[m] <= Newest(m) /\ published[m] \in Nat BY DEF Behind
  <1>3. Newest(m) <= Newest(m)' BY <1>2, NewestMoves
  <1>4. CASE published'[m] = published[m] BY <1>2, <1>3, <1>4, NewestMoves
  <1>5. CASE published'[m] # published[m]
    <2>1. BleCallback BY <1>5, PublishedKept DEF Next, Runner, vars
    <2>2. /\ published' = [published EXCEPT ![MacOf[cur]] = packet.adv]
          /\ pc = "callback" /\ packet.adv # 0 /\ UNCHANGED adv
      BY <1>5, <2>1, CallbackMoves
    <2>3. m = MacOf[cur] /\ published'[m] = packet.adv BY <1>5, <2>2 DEF TypeOK
    <2>4. cur \in Paths /\ adv'[cur] = adv[cur] BY <2>2 DEF TypeOK
    <2>5. packet.adv <= adv[cur]
      BY <2>2, <2>4, ListenersAssumption DEF FeedIInv, TypeOK
    <2>6. Newest(m)' = adv[cur] BY <2>3, <2>4, NewestOf
    <2>7. QED BY <2>3, <2>5, <2>6
  <1>6. QED BY <1>4, <1>5

\* No scraper sees a tag go back.
LEMMA ScraperStep ==
    ASSUME OnePathEach, TypeOK, FeedIInv, Behind, PipeIInv, PipeIInv',
           [PipeNext]_pipeVars, NEW s \in Scrapers
    PROVE  [ScraperFeed(s)!Next]_(ScraperFeed(s)!fvars)
  <1> DEFINE own == [m \in Macs |-> Own(m)]
             shows == [m \in Macs |-> Shown(seen[s], m)]
  <1>1. [Next]_vars BY ListenerSteps
  <1>2. CASE UNCHANGED seen
    <2>1. shows' = shows BY <1>2 DEF Shown
    <2>2. CASE \A m \in Macs : Newest(m)' = Newest(m)
      <3>1. own' = own BY <2>2 DEF Own
      <3>2. QED BY <2>1, <3>1 DEF ScraperFeed!fvars
    <2>3. ASSUME NEW c \in Macs,
                 \A m \in Macs : Newest(m)' = IF m = c THEN Newest(m) + 1 ELSE Newest(m)
          PROVE  [ScraperFeed(s)!Next]_(ScraperFeed(s)!fvars)
      <3>1. CASE c \in Relayed
        <4>1. \A m \in Macs : Own(m)' = Own(m) BY <2>3, <3>1 DEF Own
        <4>2. own' = own BY <4>1
        <4>3. QED BY <2>1, <4>2 DEF ScraperFeed!fvars
      <3>2. CASE c \notin Relayed
        <4>1. \A m \in Macs : Own(m)' = IF m = c THEN Own(m) + 1 ELSE Own(m)
          BY <2>3, <3>2 DEF Own
        <4>2. own' = [own EXCEPT ![c] = @ + 1] BY <4>1
        <4>3. ScraperFeed(s)!Measure(c) BY <2>1, <4>2 DEF ScraperFeed!Measure
        <4>4. QED BY <4>3 DEF ScraperFeed!Next
      <3>3. QED BY <3>1, <3>2
    <2>4. QED BY <1>1, <2>2, <2>3, NewestMoves
  <1>3. ASSUME NEW t \in Scrapers, Scrape(t)
        PROVE  [ScraperFeed(s)!Next]_(ScraperFeed(s)!fvars)
    <2>1. UNCHANGED vars /\ seen' = [seen EXCEPT ![t] = store]
      BY <1>3 DEF Scrape, Store!Scrape
    <2>2. CASE t # s
      <3>1. seen'[s] = seen[s] BY <2>1, <2>2 DEF PipeIInv
      <3>2. shows' = shows BY <3>1 DEF Shown
      <3>3. own' = own BY <2>1 DEF vars, bluezVars, Own, Newest
      <3>4. QED BY <3>2, <3>3 DEF ScraperFeed!fvars
    <2>3. CASE t = s
      <3>1. seen'[s] = store BY <2>1, <2>3 DEF PipeIInv
      <3>2. own' = own BY <2>1 DEF vars, bluezVars, Own, Newest
      <3>3. \A m \in Macs : shows'[m] = Shown(store, m) BY <3>1
      <3>4. \A m \in Macs : shows'[m] \in shows[m]..own[m]
        <4>1. SUFFICES ASSUME NEW m \in Macs PROVE Shown(store, m) \in shows[m]..own[m]
          BY <3>3
        <4>2. shows[m] \in 0..published[m] /\ (m \in Relayed => shows[m] = 0)
          BY ShownSound DEF PipeIInv
        <4>3. m \in Relayed => Shown(store, m) = 0 BY ShownSound DEF PipeIInv
        <4>4. m \notin Relayed => Shown(store, m) = published[m] BY DEF PipeIInv, UpToDate
        <4>5. published[m] \in Nat /\ Newest(m) \in Nat /\ published[m] <= Newest(m)
          BY DEF Behind
        <4>6. own[m] = IF m \in Relayed THEN 0 ELSE Newest(m) BY DEF Own
        <4>7. QED BY <4>2, <4>3, <4>4, <4>5, <4>6
      <3>5. \A m \in Macs : shows[m] \in Nat /\ own[m] \in Nat
        <4>1. SUFFICES ASSUME NEW m \in Macs PROVE shows[m] \in Nat /\ own[m] \in Nat
          OBVIOUS
        <4>2. shows[m] \in 0..published[m] /\ published[m] \in Nat
          BY ShownSound DEF PipeIInv, Behind
        <4>3. own[m] \in Nat BY DEF Own, Behind
        <4>4. QED BY <4>2, <4>3
      <3>6. shows' \in [Macs -> Nat]
        <4>1. \A m \in Macs : shows'[m] \in Nat BY <3>4, <3>5
        <4>2. QED BY <4>1
      <3>7. ScraperFeed(s)!Show BY <3>2, <3>4, <3>6 DEF ScraperFeed!Show
      <3>8. QED BY <3>7 DEF ScraperFeed!Next
    <2>4. QED BY <2>2, <2>3
  <1>4. QED BY <1>2, <1>3, PublishMoves DEF PipeNext, PipeRunner, pipeVars

\* Prometheus never sees a tag go back to an older measurement, nor one the tag
\* did not send, nor anything under the name of a relay, for any number of tags,
\* relays, scrapers and advertisements.
THEOREM ScrapersFed == OnePathEach => (PipeSpec => EachScraperFed)
  <1> SUFFICES ASSUME OnePathEach PROVE PipeSpec => EachScraperFed
    OBVIOUS
  <1> DEFINE Fed == \A s \in Scrapers : [ScraperFeed(s)!Next]_(ScraperFeed(s)!fvars)
  <1>1. PipeInit /\ TypeOK => Behind
    <2> SUFFICES ASSUME PipeInit, TypeOK PROVE Behind
      OBVIOUS
    <2>1. \A m \in Macs : published[m] = 0 BY DEF PipeInit, Init
    <2>2. QED BY <2>1, NewestNat DEF Behind
  <1>2. PipeInit /\ TypeOK => \A s \in Scrapers : ScraperFeed(s)!Init
    <2> SUFFICES ASSUME PipeInit, TypeOK, NEW s \in Scrapers PROVE ScraperFeed(s)!Init
      OBVIOUS
    <2>1. \A m \in Macs : Own(m) \in Nat BY NewestNat DEF Own
    <2>2. \A m \in Macs : Shown(seen[s], m) = 0
      BY DEF PipeInit, Store!Init, Store!Empty, Shown
    <2>3. QED BY <2>1, <2>2 DEF ScraperFeed!Init
  <1>3. ListenersIInv /\ ListenersIInv' /\ Behind /\ [PipeNext]_pipeVars => Behind'
    BY BehindStep, ListenerSteps DEF ListenersIInv
  <1>4. ListenersIInv /\ Behind /\ PipeIInv /\ PipeIInv' /\ [PipeNext]_pipeVars => Fed
    BY ScraperStep DEF ListenersIInv
  <1>5. ListenersIInv => TypeOK BY DEF ListenersIInv
  <1>6. PipeSpec => []PipeIInv BY PipeInduction
  <1>7. PipeSpec => (\A s \in Scrapers : ScraperFeed(s)!Init) /\ [][Fed]_pipeVars
    BY <1>1, <1>2, <1>3, <1>4, <1>5, <1>6, ListenerKept, ListenersInduction, PTL
    DEF PipeSpec
  <1>8. QED BY <1>7 DEF EachScraperFed
=============================================================================
