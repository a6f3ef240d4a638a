------------------------------ MODULE Listeners ------------------------------
(***************************************************************************)
(* The table of devices the listener hears and the blacklist of those it   *)
(* must not hear (src/ble/receiver.cpp: add_cb, properties_cb, emit_packet *)
(* and blacklist), with the consumer that fills the blacklist              *)
(* (Ruuvitag::ble_callback in src/main.cpp).                               *)
(*                                                                         *)
(* All of it runs on the thread of the event loop; stop() does not touch   *)
(* it and get_blacklist(), which the stopper thread calls, copies blist    *)
(* under blist_mtx.  What interleaves with a handler is BlueZ: between any *)
(* two D-Bus calls of a handler devices come, go and advertise, and their  *)
(* signals wait in the connection's queue.                                 *)
(*                                                                         *)
(* External, modelled from how the code uses it: BlueZ's device objects    *)
(* (present, shape, adv) and the queue of signals.  A Changed signal is    *)
(* sent to a listener only while its proxy lives.                          *)
(***************************************************************************)
EXTENDS Naturals, Sequences

CONSTANTS
    Paths,      \* D-Bus paths of device objects
    Macs,       \* device addresses
    MacOf,      \* the address at each path; two adapters give one mac two paths
    Tags,       \* the addresses of Ruuvi tags
    Contents,   \* how many ManufacturerData entries an object may have
    CallsFail,  \* may a D-Bus call fail although its object exists?
    MaxAdv,     \* bound: advertisements with data per object
    MaxQueue    \* bound: signals in the queue while BlueZ sends another

ASSUME ListenersAssumption ==
    /\ Paths # {} /\ MacOf \in [Paths -> Macs]
    /\ Tags \subseteq Macs
    /\ Contents \subseteq {"none", "one", "two"}
    /\ CallsFail \in BOOLEAN
    /\ MaxAdv \in Nat /\ MaxQueue \in Nat \ {0}

VARIABLES
    present, shape, adv,      \* objects: which exist, entries, newest advertisement
    signals,                  \* waiting signals: <<kind, path>>
    pc, cur, packet,          \* the handler that runs, its object, its BlePacket
    listeners,                \* paths with a proxy
    blist,
    published,                \* newest advertisement given to RuuviExposer, by mac
    reannounced               \* history: announced since GetAll last read them

bluezVars == <<present, shape, adv, signals>>
vars == <<bluezVars, pc, cur, packet, listeners, blist, published, reannounced>>

Packet == [tag : BOOLEAN, adv : 0..MaxAdv]    \* adv 0: manufacturer_data is empty

TypeOK ==
    /\ present \subseteq Paths
    /\ shape \in [Paths -> Contents \cup {"none"}]
    /\ adv \in [Paths -> 0..MaxAdv]
    /\ signals \in Seq({"added", "changed", "rssi"} \X Paths)
    /\ pc \in {"idle", "address", "register", "getall", "callback",
               "aborted", "undefined"}
    /\ cur \in Paths
    /\ packet \in Packet
    /\ listeners \subseteq Paths
    /\ blist \subseteq Macs
    /\ published \in [Macs -> 0..MaxAdv]
    /\ reannounced \subseteq Paths

\* BlueZ may know devices from before: create_connection() subscribes to
\* InterfacesAdded and never asks for the objects that are there already.
Init ==
    /\ present \in SUBSET Paths
    /\ shape = [p \in Paths |-> "none"]
    /\ adv = [p \in Paths |-> 0]
    /\ signals = <<>>
    /\ pc = "idle" /\ cur = (CHOOSE p \in Paths : TRUE) /\ packet = [tag |-> FALSE, adv |-> 0]
    /\ listeners = {} /\ blist = {}
    /\ published = [m \in Macs |-> 0]
    /\ reannounced = {}

-----------------------------------------------------------------------------
(* BlueZ.                                                                   *)

Quiet == Len(signals) < MaxQueue

\* A device is found: its object appears, and everybody is told.
Appear(p) ==
    /\ Quiet /\ p \notin present
    /\ present' = present \cup {p}
    /\ \/ /\ "none" \in Contents
          /\ shape' = [shape EXCEPT ![p] = "none"] /\ UNCHANGED adv
       \/ /\ adv[p] < MaxAdv
          /\ \E c \in Contents \ {"none"} : shape' = [shape EXCEPT ![p] = c]
          /\ adv' = [adv EXCEPT ![p] = @ + 1]
    /\ signals' = Append(signals, <<"added", p>>)
    /\ reannounced' = reannounced \cup {p}
    /\ UNCHANGED <<pc, cur, packet, listeners, blist, published>>

\* The signals after a change of p: a living proxy has a match for it.
Told(kind, p) == IF p \in listeners THEN Append(signals, <<kind, p>>) ELSE signals

Advertise(p) ==
    /\ Quiet /\ p \in present /\ adv[p] < MaxAdv
    /\ \E c \in Contents \ {"none"} : shape' = [shape EXCEPT ![p] = c]
    /\ adv' = [adv EXCEPT ![p] = @ + 1]
    /\ signals' = Told("changed", p)
    /\ UNCHANGED <<present, pc, cur, packet, listeners, blist, published, reannounced>>

\* A change of other properties, such as RSSI alone.
OtherChange(p) ==
    /\ Quiet /\ p \in present \cap listeners
    /\ signals' = Told("rssi", p)
    /\ UNCHANGED <<present, shape, adv, pc, cur, packet, listeners, blist, published,
                   reannounced>>

\* BlueZ drops a device.  Nobody listens to InterfacesRemoved: rem_cb() is
\* registered nowhere, and the proxy stays.
Vanish(p) ==
    /\ p \in present
    /\ present' = present \ {p}
    /\ UNCHANGED <<shape, adv, signals, pc, cur, packet, listeners, blist, published,
                   reannounced>>

Bluez == \E p \in Paths : Appear(p) \/ Advertise(p) \/ OtherChange(p) \/ Vanish(p)

-----------------------------------------------------------------------------
(* Handlers, on the thread of the event loop.                               *)

Read(kind) ==
    /\ pc = "idle" /\ signals # <<>> /\ Head(signals)[1] = kind
    /\ signals' = Tail(signals)
    /\ cur' = Head(signals)[2]
    /\ UNCHANGED <<present, shape, adv, packet, listeners, blist, published,
                   reannounced>>

\* Mutant of AddCb: new objects are left alone.
AddCb_Inverted ==
    /\ Read("added")
    /\ pc' = IF cur' \in listeners THEN "address" ELSE "idle"

\* add_cb(): a known object is left alone, else its address is asked for.
AddCb ==
    /\ Read("added")
    /\ pc' = IF cur' \in listeners THEN "idle" ELSE "address"

\* Mutant of GetAddress: add_cb() without its look at the blacklist.
GetAddress_NoBlacklist ==
    /\ pc = "address"
    /\ \/ (CallsFail \/ cur \notin present) /\ pc' = "idle"
       \/ cur \in present /\ pc' = "register"
    /\ UNCHANGED <<bluezVars, cur, packet, listeners, blist, published, reannounced>>

\* The Get of Address answers and the blacklist is consulted, or it fails and
\* add_cb() gives up.
GetAddress ==
    /\ pc = "address"
    /\ \/ (CallsFail \/ cur \notin present) /\ pc' = "idle"
       \/ cur \in present /\ pc' = IF MacOf[cur] \in blist THEN "idle" ELSE "register"
    /\ UNCHANGED <<bluezVars, cur, packet, listeners, blist, published, reannounced>>

\* Mutant of Register: emit_packet() before the insertion.
Register_Late ==
    /\ pc = "register"
    /\ pc' = "getall"
    /\ UNCHANGED <<bluezVars, cur, packet, listeners, blist, published, reannounced>>

\* The proxy is registered for PropertiesChanged and put into the table; only
\* then does emit_packet() read the object.
Register ==
    /\ pc = "register"
    /\ listeners' = listeners \cup {cur}
    /\ pc' = "getall"
    /\ UNCHANGED <<bluezVars, cur, packet, blist, published, reannounced>>

\* Mutant of PropertiesCb: a change of ManufacturerData is not looked at.
PropertiesCb_Deaf ==
    \/ Read("changed") /\ pc' = "idle"
    \/ Read("rssi") /\ pc' = "idle"

\* properties_cb(): only a change of ManufacturerData is emitted.  A signal
\* whose proxy is gone is dropped by the library.
PropertiesCb ==
    \/ Read("changed") /\ pc' = IF cur' \in listeners THEN "getall" ELSE "idle"
    \/ Read("rssi") /\ pc' = "idle"

\* Mutants of Filled: the data of any earlier signal; a measurement to come.
Filled_Stale(p) == [tag : {MacOf[p] \in Tags}, adv : 1..adv[p]]

Filled_Early(p) == {[tag |-> MacOf[p] \in Tags, adv |-> adv[p] + 1]}

\* The packets emit_packet() may make of p.  Without exactly one entry it leaves
\* manufacturer_id uninitialised and manufacturer_data empty.
Filled(p) ==
    IF shape[p] = "one" THEN {[tag |-> MacOf[p] \in Tags, adv |-> adv[p]]}
    ELSE [tag : BOOLEAN, adv : {0}]

\* emit_packet(): GetAll reads the object as it is now, whatever the signal
\* told; an error ends the handler.  Two entries end a debug build, which compiles
\* assert() in; a release build goes on.
EmitPacket ==
    /\ pc = "getall"
    /\ \/ (CallsFail \/ cur \notin present) /\ pc' = "idle"
          /\ UNCHANGED <<packet, reannounced>>
       \/ /\ cur \in present /\ shape[cur] = "two"
          /\ pc' = "aborted" /\ UNCHANGED <<packet, reannounced>>
       \/ /\ cur \in present
          /\ packet' \in Filled(cur)
          /\ reannounced' = reannounced \ {cur}
          /\ pc' = "callback"
    /\ UNCHANGED <<bluezVars, cur, listeners, blist, published>>

\* Mutant of Blacklist: the device is listed and its proxy kept.
Blacklist_KeepsProxy(mac) ==
    blist' = blist \cup {mac} /\ UNCHANGED listeners

\* blacklist(): list the address once, and erase the first proxy that has it.
Blacklist(mac) ==
    IF mac \in blist THEN UNCHANGED <<blist, listeners>>
    ELSE /\ blist' = blist \cup {mac}
         /\ LET its == {p \in listeners : MacOf[p] = mac}
            IN  IF its = {} THEN UNCHANGED listeners
                ELSE \E p \in its : listeners' = listeners \ {p}

\* Mutant of BleCallback: any packet with data is taken for a Ruuvi tag's.
BleCallback_AnyMaker ==
    /\ pc = "callback"
    /\ \/ /\ packet.adv # 0
          /\ published' = [published EXCEPT ![MacOf[cur]] = packet.adv]
          /\ pc' = "idle" /\ UNCHANGED <<listeners, blist>>
       \/ /\ packet.adv = 0
          /\ Blacklist(MacOf[cur])
          /\ pc' = "idle" /\ UNCHANGED published
    /\ UNCHANGED <<bluezVars, cur, packet, reannounced>>

\* Ruuvitag::ble_callback(): publish a Ruuvi tag, blacklist anything else.  To
\* decode empty data is undefined behaviour: nothing is said of what follows.
BleCallback ==
    /\ pc = "callback"
    /\ \/ /\ packet.tag /\ packet.adv # 0
          /\ published' = [published EXCEPT ![MacOf[cur]] = packet.adv]
          /\ pc' = "idle" /\ UNCHANGED <<listeners, blist>>
       \/ /\ packet.tag /\ packet.adv = 0
          /\ pc' = "undefined"
          /\ UNCHANGED <<listeners, blist, published>>
       \/ /\ ~packet.tag
          /\ Blacklist(MacOf[cur])
          /\ pc' = "idle" /\ UNCHANGED published
    /\ UNCHANGED <<bluezVars, cur, packet, reannounced>>

Runner == AddCb \/ GetAddress \/ Register \/ PropertiesCb \/ EmitPacket \/ BleCallback

Next == Bluez \/ Runner

Spec == Init /\ [][Next]_vars

\* The event loop dispatches what waits, and a D-Bus call returns.
FairSpec == Spec /\ WF_vars(Runner)

-----------------------------------------------------------------------------
(* Properties.                                                              *)

OnlyPath(p) == \A q \in Paths : MacOf[q] = MacOf[p] => q = p

OnePathEach == \A p, q \in Paths : MacOf[p] = MacOf[q] => p = q

OneEntry == Contents = {"one"}

Waiting(p) == \E i \in 1..Len(signals) : signals[i][2] = p

\* emit_packet() reads listeners[obj] without a look whether obj is there, and
\* would make an empty proxy and call through it: it runs only for objects that
\* are in the table, although the callback it makes may erase them.
NoNullProxy == pc = "getall" => cur \in listeners

\* A device on the blacklist has no proxy, however its announcements and its
\* changes interleave with add_cb().  A device seen through two adapters may keep
\* one, because blacklist() erases one proxy only.
BlacklistHolds == \A p \in listeners : OnlyPath(p) => MacOf[p] \notin blist

\* As long as every object has one ManufacturerData entry, a Ruuvi tag is never
\* blacklisted and nothing else is published.
RuuviOnly ==
    OneEntry => \A m \in Macs : IF m \in Tags THEN m \notin blist ELSE published[m] = 0

\* A tag that is heard, and of which no signal waits, is shown with its newest
\* advertisement: GetAll after the registration closes every gap.  Not so for a
\* tag that BlueZ dropped and announced again while its proxy lived on: add_cb()
\* ignores the announcement, and the tag is out of date until it changes.
Current ==
    (OnePathEach /\ OneEntry /\ ~CallsFail /\ pc = "idle") =>
        \A p \in listeners \cap present :
            (MacOf[p] \in Tags /\ ~Waiting(p) /\ p \notin reannounced)
                => published[MacOf[p]] = adv[p]

\* What is shown of a device never goes back and is never invented (module
\* Feed), although emit_packet() reads the object later than the signal it is
\* called for, and the object changes between that and the callback.
Newest(m) ==
    IF \E p \in Paths : MacOf[p] = m THEN adv[CHOOSE p \in Paths : MacOf[p] = m] ELSE 0

MeasurementFeed == INSTANCE Feed WITH
    latest <- [m \in Macs |-> Newest(m)],
    shown  <- published

FeedSpec == MeasurementFeed!Spec

\* A device that is announced gets a proxy or is on the blacklist, unless it
\* vanishes first.
AnnouncedHeard ==
    \A p \in Paths :
        (\E i \in 1..Len(signals) : signals[i] = <<"added", p>>)
            ~> (p \in listeners \/ MacOf[p] \in blist \/ p \notin present)

\* A device that is no Ruuvi tag loses its proxy once it advertises.
ForeignSilenced ==
    \A p \in Paths :
        (p \in listeners /\ MacOf[p] \notin Tags
            /\ \E i \in 1..Len(signals) : signals[i] = <<"changed", p>>)
            ~> (p \notin listeners \/ p \notin present)
=============================================================================
