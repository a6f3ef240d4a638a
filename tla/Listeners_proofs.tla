--------------------------- MODULE Listeners_proofs ---------------------------
(***************************************************************************)
(* Proofs about module Listeners, for any devices, addresses, contents and *)
(* bounds.                                                                 *)
(***************************************************************************)
EXTENDS Listeners, TLAPS, SequenceTheorems

Kinds == {"added", "changed", "rssi"}

-----------------------------------------------------------------------------
(* Types.                                                                   *)

LEMMA ToldType ==
    ASSUME signals \in Seq(Kinds \X Paths), NEW k \in Kinds, NEW p \in Paths
    PROVE  /\ Told(k, p) \in Seq(Kinds \X Paths)
           /\ Append(signals, <<k, p>>) \in Seq(Kinds \X Paths)
  <1>1. <<k, p>> \in Kinds \X Paths OBVIOUS
  <1>2. QED BY <1>1 DEF Told

\* What a handler that starts has read.
LEMMA ReadType ==
    ASSUME TypeOK, NEW k, Read(k)
    PROVE  /\ signals \in Seq(Kinds \X Paths) /\ signals # <<>>
           /\ signals' \in Seq(Kinds \X Paths) /\ cur' \in Paths
           /\ signals[1] = <<k, cur'>>
  <1>1. signals \in Seq(Kinds \X Paths) /\ signals # <<>>
    BY DEF TypeOK, Kinds, Read
  <1>2. signals' \in Seq(Kinds \X Paths) BY <1>1 DEF Read
  <1>3. Head(signals) \in Kinds \X Paths /\ Head(signals) = signals[1] BY <1>1
  <1>4. Head(signals)[1] = k /\ Head(signals)[2] = cur' BY DEF Read
  <1>5. QED BY <1>1, <1>2, <1>3, <1>4

LEMMA BlacklistType ==
    ASSUME TypeOK, NEW m \in Macs, Blacklist(m)
    PROVE  /\ blist \subseteq blist' /\ blist' \subseteq Macs /\ m \in blist'
           /\ listeners' \subseteq listeners
           /\ \A x \in blist' : x \in blist \/ x = m
  BY DEF Blacklist, TypeOK

LEMMA FilledType ==
    ASSUME TypeOK, NEW p \in Paths, NEW q \in Filled(p)
    PROVE  q \in Packet
  <1>1. adv[p] \in 0..MaxAdv /\ 0 \in 0..MaxAdv
    BY ListenersAssumption DEF TypeOK
  <1>2. (MacOf[p] \in Tags) \in BOOLEAN OBVIOUS
  <1>3. CASE shape[p] = "one"
    <2>1. \A b \in BOOLEAN, n \in 0..MaxAdv : [tag |-> b, adv |-> n] \in Packet
      BY DEF Packet
    <2>2. q = [tag |-> MacOf[p] \in Tags, adv |-> adv[p]] BY <1>3 DEF Filled
    <2>3. QED BY <1>1, <1>2, <2>1, <2>2, Zenon
  <1>4. CASE shape[p] # "one" BY <1>1, <1>4 DEF Filled, Packet
  <1>5. QED BY <1>3, <1>4

\* A handler keeps the types.
LEMMA TypeRunner == ASSUME TypeOK, Runner PROVE TypeOK'
  <1> USE DEF TypeOK, bluezVars
  <1>1. CASE AddCb BY <1>1, ReadType DEF AddCb, Read, Kinds
  <1>2. CASE GetAddress BY <1>2 DEF GetAddress
  <1>3. CASE Register BY <1>3 DEF Register
  <1>4. CASE PropertiesCb
    <2>1. PICK k \in Kinds : Read(k) BY <1>4 DEF PropertiesCb, Kinds
    <2>2. pc' \in {"idle", "getall"} BY <1>4 DEF PropertiesCb
    <2>3. QED BY <2>1, <2>2, ReadType DEF Read, Kinds
  <1>5. CASE EmitPacket
    <2>1. packet' \in Packet BY <1>5, FilledType DEF EmitPacket
    <2>2. reannounced' \subseteq Paths BY <1>5 DEF EmitPacket
    <2>3. pc' \in {"idle", "aborted", "callback"} BY <1>5 DEF EmitPacket
    <2>4. QED BY <1>5, <2>1, <2>2, <2>3 DEF EmitPacket
  <1>6. CASE BleCallback
    <2>1. MacOf[cur] \in Macs BY ListenersAssumption
    <2>2. packet.adv \in 0..MaxAdv BY DEF Packet
    <2>3. published' \in [Macs -> 0..MaxAdv] BY <1>6, <2>1, <2>2 DEF BleCallback
    <2>4. blist' \subseteq Macs /\ listeners' \subseteq Paths
      BY <1>6, <2>1, BlacklistType DEF BleCallback
    <2>5. pc' \in {"idle", "undefined"} BY <1>6 DEF BleCallback
    <2>6. QED BY <1>6, <2>3, <2>4, <2>5 DEF BleCallback
  <1>7. QED BY <1>1, <1>2, <1>3, <1>4, <1>5, <1>6 DEF Runner

LEMMA TypeBluez == ASSUME TypeOK, Bluez PROVE TypeOK'
  <1> USE DEF TypeOK
  <1>1. PICK p \in Paths : Appear(p) \/ Advertise(p) \/ OtherChange(p) \/ Vanish(p)
    BY DEF Bluez
  <1>2. signals \in Seq(Kinds \X Paths) BY DEF Kinds
  <1>3. adv[p] < MaxAdv => adv[p] + 1 \in 0..MaxAdv BY ListenersAssumption
  <1>4. CASE Appear(p)
    <2>1. signals' \in Seq(Kinds \X Paths)
      BY <1>2, <1>4, ToldType DEF Appear, Kinds
    <2>2. shape' \in [Paths -> Contents \cup {"none"}] /\ adv' \in [Paths -> 0..MaxAdv]
      BY <1>3, <1>4 DEF Appear
    <2>3. QED BY <1>4, <2>1, <2>2 DEF Appear, Kinds
  <1>5. CASE Advertise(p)
    <2>1. signals' \in Seq(Kinds \X Paths)
      BY <1>2, <1>5, ToldType DEF Advertise, Kinds
    <2>2. shape' \in [Paths -> Contents \cup {"none"}] /\ adv' \in [Paths -> 0..MaxAdv]
      BY <1>3, <1>5 DEF Advertise
    <2>3. QED BY <1>5, <2>1, <2>2 DEF Advertise, Kinds
  <1>6. CASE OtherChange(p)
    BY <1>2, <1>6, ToldType DEF OtherChange, Kinds
  <1>7. CASE Vanish(p) BY <1>7 DEF Vanish
  <1>8. QED BY <1>1, <1>4, <1>5, <1>6, <1>7

\* The type invariant of module Listeners, for all constants.
THEOREM TypeCorrect == Spec => []TypeOK
  <1>1. Init => TypeOK
    <2> SUFFICES ASSUME Init PROVE TypeOK
      OBVIOUS
    <2>1. 0 \in 0..MaxAdv /\ cur \in Paths BY ListenersAssumption DEF Init
    <2>2. packet \in Packet BY <2>1 DEF Init, Packet
    <2>3. QED BY <2>1, <2>2 DEF Init, TypeOK
  <1>2. TypeOK /\ [Next]_vars => TypeOK'
    <2>1. CASE UNCHANGED vars BY <2>1 DEF TypeOK, vars, bluezVars
    <2>2. QED BY <2>1, TypeRunner, TypeBluez DEF Next
  <1>3. QED BY <1>1, <1>2, PTL DEF Spec

-----------------------------------------------------------------------------
(* The table and the blacklist.                                             *)

\* BlueZ moves nothing of the listener's.
LEMMA BluezMoves ==
    ASSUME Bluez
    PROVE  UNCHANGED <<pc, cur, packet, listeners, blist, published>>
  BY DEF Bluez, Appear, Advertise, OtherChange, Vanish

\* An object enters the table only in add_cb(), right before it is read, and
\* leaves it only in the callback, right before the handler ends.
LEMMA NullStep == ASSUME NoNullProxy, [Next]_vars PROVE NoNullProxy'
  <1> USE DEF NoNullProxy
  <1>1. CASE UNCHANGED vars BY <1>1 DEF vars
  <1>2. CASE Bluez BY <1>2, BluezMoves
  <1>3. CASE AddCb BY <1>3 DEF AddCb, Read
  <1>4. CASE GetAddress BY <1>4 DEF GetAddress
  <1>5. CASE Register BY <1>5 DEF Register
  <1>6. CASE PropertiesCb BY <1>6 DEF PropertiesCb, Read
  <1>7. CASE EmitPacket BY <1>7 DEF EmitPacket
  <1>8. CASE BleCallback BY <1>8 DEF BleCallback
  <1>9. QED BY <1>1, <1>2, <1>3, <1>4, <1>5, <1>6, <1>7, <1>8 DEF Next, Runner

\* emit_packet() never calls through a proxy that is not there.
THEOREM ProxyThere == Spec => []NoNullProxy
  <1>1. Init => NoNullProxy BY DEF Init, NoNullProxy
  <1>2. QED BY <1>1, NullStep, PTL DEF Spec

\* Where an address has one path: what is in the table, and what is about to
\* enter it, is not on the blacklist.
BlackIInv ==
    /\ \A p \in listeners : OnlyPath(p) => MacOf[p] \notin blist
    /\ (pc = "register" /\ OnlyPath(cur)) => MacOf[cur] \notin blist

LEMMA BlackStep == ASSUME TypeOK, BlackIInv, [Next]_vars PROVE BlackIInv'
  <1> SUFFICES /\ \A p \in listeners' : OnlyPath(p) => MacOf[p] \notin blist'
               /\ (pc' = "register" /\ OnlyPath(cur')) => MacOf[cur'] \notin blist'
    BY DEF BlackIInv, OnlyPath
  <1> USE DEF BlackIInv
  <1>1. CASE UNCHANGED vars BY <1>1 DEF vars
  <1>2. CASE Bluez BY <1>2, BluezMoves
  <1>3. CASE AddCb BY <1>3 DEF AddCb, Read
  <1>4. CASE GetAddress BY <1>4 DEF GetAddress
  <1>5. CASE Register BY <1>5 DEF Register
  <1>6. CASE PropertiesCb BY <1>6 DEF PropertiesCb, Read
  <1>7. CASE EmitPacket BY <1>7 DEF EmitPacket
  <1>8. CASE BleCallback
    <2>1. CASE UNCHANGED <<listeners, blist>> BY <1>8, <2>1 DEF BleCallback
    <2>2. CASE Blacklist(MacOf[cur])
      <3>1. MacOf[cur] \in Macs BY ListenersAssumption DEF TypeOK
      <3>2. listeners' \subseteq listeners
            /\ \A x \in blist' : x \in blist \/ x = MacOf[cur]
        BY <2>2, <3>1, BlacklistType
      <3>3. ASSUME NEW p \in listeners', OnlyPath(p), MacOf[p] = MacOf[cur] PROVE FALSE
        <4>1. p \in listeners /\ p \in Paths /\ cur \in Paths BY <3>2 DEF TypeOK
        <4>2. p = cur BY <3>3, <4>1 DEF OnlyPath
        <4>3. MacOf[cur] \notin blist BY <3>3, <4>1
        <4>4. PICK q \in {r \in listeners : MacOf[r] = MacOf[cur]} :
                  listeners' = listeners \ {q}
          BY <2>2, <3>3, <4>1, <4>3 DEF Blacklist
        <4>5. q = p BY <3>3, <4>1, <4>4 DEF OnlyPath, TypeOK
        <4>6. QED BY <3>3, <4>4, <4>5
      <3>4. pc' = "idle" \/ pc' = "undefined" BY <1>8 DEF BleCallback
      <3>5. QED BY <3>2, <3>3, <3>4
    <2>3. QED BY <1>8, <2>1, <2>2 DEF BleCallback
  <1>9. QED BY <1>1, <1>2, <1>3, <1>4, <1>5, <1>6, <1>7, <1>8 DEF Next, Runner

\* A blacklisted device that has one path is not heard again, whatever order its
\* announcements, changes and disappearances come in.
THEOREM BlacklistStays == Spec => []BlacklistHolds
  <1>1. Init => BlackIInv BY DEF Init, BlackIInv
  <1>2. BlackIInv => BlacklistHolds BY DEF BlackIInv, BlacklistHolds
  <1>3. QED BY <1>1, <1>2, BlackStep, TypeCorrect, PTL DEF Spec

-----------------------------------------------------------------------------
(* What is published.                                                       *)

\* With one entry in every object: what was announced since the start has its
\* entry, so that every packet tells whether its sender is a Ruuvi tag.
EntryIInv ==
    OneEntry =>
        /\ \A i \in 1..Len(signals) : signals[i][1] = "added" => shape[signals[i][2]] = "one"
        /\ \A p \in listeners : shape[p] = "one"
        /\ pc \in {"address", "register", "getall"} => shape[cur] = "one"
        /\ pc = "callback" => (packet.tag <=> MacOf[cur] \in Tags)

\* BlueZ announces objects with an entry, and keeps the entries there are.
LEMMA EntryBluez == ASSUME TypeOK, EntryIInv, Bluez PROVE EntryIInv'
  <1> SUFFICES ASSUME OneEntry PROVE EntryIInv'
    BY DEF EntryIInv
  <1>1. PICK p \in Paths : Appear(p) \/ Advertise(p) \/ OtherChange(p) \/ Vanish(p)
    BY DEF Bluez
  <1>2. \A q \in Paths : shape[q] = "one" => shape'[q] = "one"
    BY <1>1 DEF Appear, Advertise, OtherChange, Vanish, OneEntry, TypeOK
  <1>3. \/ UNCHANGED signals
        \/ \E k \in Kinds : signals' = Append(signals, <<k, p>>)
                            /\ (k = "added" => shape'[p] = "one")
    BY <1>1 DEF Appear, Advertise, OtherChange, Vanish, Told, Kinds, OneEntry, TypeOK
  <1>4. signals \in Seq(Kinds \X Paths) BY DEF TypeOK, Kinds
  <1>5. \A i \in 1..Len(signals') :
            signals'[i][1] = "added" => shape'[signals'[i][2]] = "one"
    <2>1. CASE UNCHANGED signals
      <3>1. \A i \in 1..Len(signals) : signals[i][2] \in Paths BY <1>4
      <3>2. QED BY <1>2, <2>1, <3>1 DEF EntryIInv
    <2>2. ASSUME NEW k \in Kinds, signals' = Append(signals, <<k, p>>),
                 k = "added" => shape'[p] = "one",
                 NEW i \in 1..Len(signals'), signals'[i][1] = "added"
          PROVE  shape'[signals'[i][2]] = "one"
      <3>1. Len(signals') = Len(signals) + 1 /\ Len(signals) \in Nat
        BY <1>4, <2>2
      <3>2. CASE i = Len(signals) + 1
        <4>1. signals'[i] = <<k, p>> BY <1>4, <2>2, <3>2
        <4>2. QED BY <2>2, <4>1
      <3>3. CASE i \in 1..Len(signals)
        <4>1. signals'[i] = signals[i] /\ signals[i] \in Kinds \X Paths
          BY <1>4, <2>2, <3>3
        <4>2. QED BY <1>2, <2>2, <3>3, <4>1 DEF EntryIInv
      <3>4. QED BY <3>1, <3>2, <3>3
    <2>3. QED BY <1>3, <2>1, <2>2
  <1>6. QED BY <1>2, <1>5, BluezMoves DEF EntryIInv, TypeOK

\* A handler that reads a signal finds the entry of what was announced.
LEMMA EntryRead ==
    ASSUME TypeOK, EntryIInv, OneEntry, NEW k, Read(k)
    PROVE  /\ \A i \in 1..Len(signals') :
                  signals'[i][1] = "added" => shape'[signals'[i][2]] = "one"
           /\ k = "added" => shape'[cur'] = "one"
           /\ \A p \in listeners' : shape'[p] = "one"
  <1>1. signals \in Seq(Kinds \X Paths) /\ signals # <<>> /\ signals[1] = <<k, cur'>>
    BY ReadType
  <1>2. signals' = Tail(signals) /\ UNCHANGED <<shape, listeners>> BY DEF Read
  <1>3. \A i \in 1..Len(signals') : signals'[i] = signals[i + 1] /\ i + 1 \in 1..Len(signals)
    BY <1>1, <1>2
  <1>4. 1 \in 1..Len(signals) BY <1>1
  <1>5. QED BY <1>1, <1>2, <1>3, <1>4 DEF EntryIInv

LEMMA EntryRunner == ASSUME TypeOK, NoNullProxy, EntryIInv, Runner PROVE EntryIInv'
  <1> SUFFICES ASSUME OneEntry PROVE EntryIInv'
    BY DEF EntryIInv
  <1> USE DEF bluezVars
  <1>1. CASE AddCb
    BY <1>1, EntryRead DEF AddCb, Read, EntryIInv
  <1>2. CASE GetAddress BY <1>2 DEF GetAddress, EntryIInv
  <1>3. CASE Register BY <1>3 DEF Register, EntryIInv
  <1>4. CASE PropertiesCb
    <2>1. PICK k : Read(k) BY <1>4 DEF PropertiesCb
    <2>2. pc' = "idle" \/ (pc' = "getall" /\ cur' \in listeners')
      BY <1>4 DEF PropertiesCb, Read
    <2>3. QED BY <2>1, <2>2, EntryRead DEF EntryIInv
  <1>5. CASE EmitPacket
    <2>1. UNCHANGED <<signals, shape, listeners, cur>> BY <1>5 DEF EmitPacket
    <2>2. CASE pc' = "callback"
      <3>1. shape[cur] = "one" BY <1>5 DEF EmitPacket, EntryIInv
      <3>2. packet' = [tag |-> MacOf[cur] \in Tags, adv |-> adv[cur]]
        BY <1>5, <2>2, <3>1 DEF EmitPacket, Filled
      <3>3. packet'.tag <=> MacOf[cur] \in Tags BY <3>2
      <3>4. QED BY <2>1, <2>2, <3>3 DEF EntryIInv
    <2>3. CASE pc' # "callback"
      <3>1. pc' \in {"idle", "aborted"} BY <1>5, <2>3 DEF EmitPacket
      <3>2. QED BY <2>1, <3>1 DEF EntryIInv
    <2>4. QED BY <2>2, <2>3
  <1>6. CASE BleCallback
    <2>1. UNCHANGED <<signals, shape, cur>> /\ pc' \in {"idle", "undefined"}
      BY <1>6 DEF BleCallback
    <2>2. MacOf[cur] \in Macs BY ListenersAssumption DEF TypeOK
    <2>3. listeners' \subseteq listeners BY <1>6, <2>2, BlacklistType DEF BleCallback
    <2>4. QED BY <2>1, <2>3 DEF EntryIInv
  <1>7. QED BY <1>1, <1>2, <1>3, <1>4, <1>5, <1>6 DEF Runner

LEMMA RuuviStep == ASSUME TypeOK, EntryIInv, RuuviOnly, [Next]_vars PROVE RuuviOnly'
  <1> SUFFICES ASSUME OneEntry PROVE RuuviOnly'
    BY DEF RuuviOnly
  <1>1. CASE UNCHANGED <<blist, published>> BY <1>1 DEF RuuviOnly
  <1>2. CASE BleCallback
    <2>1. MacOf[cur] \in Macs BY ListenersAssumption DEF TypeOK
    <2>2. pc = "callback" BY <1>2 DEF BleCallback
    <2>3. packet.tag <=> MacOf[cur] \in Tags BY <2>2 DEF EntryIInv
    <2>4. CASE Blacklist(MacOf[cur]) /\ ~packet.tag /\ UNCHANGED published
      BY <2>1, <2>3, <2>4, BlacklistType DEF RuuviOnly
    <2>5. CASE packet.tag /\ published' = [published EXCEPT ![MacOf[cur]] = packet.adv]
               /\ UNCHANGED blist
      BY <2>1, <2>3, <2>5 DEF RuuviOnly, TypeOK
    <2>6. QED BY <1>1, <1>2, <2>4, <2>5 DEF BleCallback
  <1>3. CASE UNCHANGED vars BY <1>1, <1>3 DEF vars
  <1>4. CASE Bluez BY <1>1, <1>4, BluezMoves
  <1>5. CASE AddCb \/ GetAddress \/ Register \/ PropertiesCb \/ EmitPacket
    BY <1>1, <1>5 DEF AddCb, GetAddress, Register, PropertiesCb, EmitPacket, Read
  <1>6. QED BY <1>2, <1>3, <1>4, <1>5 DEF Next, Runner

\* Objects with one ManufacturerData entry are told apart without fail: no tag
\* is blacklisted, no other device published.
THEOREM TagsToldApart == Spec => []RuuviOnly
  <1>1. Init => EntryIInv /\ RuuviOnly BY DEF Init, EntryIInv, RuuviOnly
  <1>2. TypeOK /\ NoNullProxy /\ EntryIInv /\ RuuviOnly /\ [Next]_vars
            => EntryIInv' /\ RuuviOnly'
    <2> SUFFICES ASSUME TypeOK, NoNullProxy, EntryIInv, RuuviOnly, [Next]_vars
                 PROVE  EntryIInv' /\ RuuviOnly'
      OBVIOUS
    <2>1. CASE UNCHANGED vars
      BY <2>1 DEF vars, bluezVars, EntryIInv, RuuviOnly
    <2>2. EntryIInv' BY <2>1, EntryBluez, EntryRunner DEF Next
    <2>3. QED BY <2>2, RuuviStep
  <1>3. QED BY <1>1, <1>2, TypeCorrect, ProxyThere, PTL DEF Spec

-----------------------------------------------------------------------------
(* Listeners implements Feed.                                               *)

\* The packet on its way to the callback is no older than what is published, and
\* nothing published or on its way is newer than what the device sent.
FeedIInv ==
    OnePathEach =>
        /\ \A p \in Paths : published[MacOf[p]] <= adv[p]
        /\ (pc = "callback" /\ packet.adv # 0) =>
               packet.adv \in published[MacOf[cur]]..adv[cur]

LEMMA NewestOf ==
    ASSUME OnePathEach, NEW p \in Paths
    PROVE  Newest(MacOf[p]) = adv[p] /\ Newest(MacOf[p])' = adv'[p]
  <1>1. \A q \in Paths : MacOf[q] = MacOf[p] <=> q = p BY DEF OnePathEach
  <1>2. (CHOOSE q \in Paths : MacOf[q] = MacOf[p]) = p BY <1>1
  <1>3. QED BY <1>2 DEF Newest

\* Devices send, one at a time; their numbers only grow.
LEMMA AdvGrows ==
    ASSUME TypeOK, Bluez
    PROVE  \/ UNCHANGED adv
           \/ \E p \in Paths : adv' = [adv EXCEPT ![p] = @ + 1]
  BY DEF Bluez, Appear, Advertise, OtherChange, Vanish

\* What the handlers leave alone until the callback.
LEMMA HandlerMoves ==
    ASSUME AddCb \/ GetAddress \/ Register \/ PropertiesCb \/ EmitPacket
    PROVE  UNCHANGED <<adv, published>> /\ (pc' = "callback" => EmitPacket)
  <1> USE DEF bluezVars
  <1>1. CASE AddCb BY <1>1 DEF AddCb, Read
  <1>2. CASE GetAddress BY <1>2 DEF GetAddress
  <1>3. CASE Register BY <1>3 DEF Register
  <1>4. CASE PropertiesCb BY <1>4 DEF PropertiesCb, Read
  <1>5. CASE EmitPacket BY <1>5 DEF EmitPacket
  <1>6. QED BY <1>1, <1>2, <1>3, <1>4, <1>5

\* The callback publishes the packet, or nothing.
LEMMA CallbackMoves ==
    ASSUME BleCallback
    PROVE  /\ UNCHANGED adv /\ pc = "callback" /\ pc' # "callback"
           /\ \/ UNCHANGED published
              \/ packet.adv # 0
                 /\ published' = [published EXCEPT ![MacOf[cur]] = packet.adv]
  BY DEF BleCallback, bluezVars

LEMMA FeedInvStep == ASSUME TypeOK, FeedIInv, [Next]_vars PROVE FeedIInv'
  <1> SUFFICES ASSUME OnePathEach PROVE FeedIInv'
    BY DEF FeedIInv
  <1>1. /\ \A p \in Paths : adv[p] \in Nat /\ MacOf[p] \in Macs
        /\ \A m \in Macs : published[m] \in Nat
        /\ cur \in Paths /\ packet.adv \in Nat
    BY ListenersAssumption DEF TypeOK, Packet
  <1>2. CASE UNCHANGED vars BY <1>2 DEF vars, bluezVars, FeedIInv
  <1>3. CASE Bluez
    <2>1. \A p \in Paths : adv[p] <= adv'[p] /\ adv'[p] \in Nat
      <3>1. CASE UNCHANGED adv BY <1>1, <3>1
      <3>2. CASE \E p \in Paths : adv' = [adv EXCEPT ![p] = @ + 1]
        BY <1>1, <3>2 DEF TypeOK
      <3>3. QED BY <1>3, <3>1, <3>2, AdvGrows
    <2>2. \A p \in Paths : published[MacOf[p]] <= adv'[p] BY <1>1, <2>1 DEF FeedIInv
    <2>3. (pc = "callback" /\ packet.adv # 0) =>
              packet.adv \in published[MacOf[cur]]..adv'[cur]
      BY <1>1, <2>1 DEF FeedIInv
    <2>4. QED BY <1>3, <2>2, <2>3, BluezMoves DEF FeedIInv
  <1>4. CASE AddCb \/ GetAddress \/ Register \/ PropertiesCb \/ EmitPacket
    <2>1. CASE pc' = "callback"
      <3>1. EmitPacket BY <1>4, <2>1, HandlerMoves
      <3>2. packet' \in Filled(cur) /\ cur' = cur BY <2>1, <3>1 DEF EmitPacket
      <3>3. packet'.adv = 0 \/ packet'.adv = adv[cur] BY <3>2 DEF Filled
      <3>4. packet'.adv # 0 => packet'.adv \in published[MacOf[cur]]..adv[cur]
        BY <1>1, <3>3 DEF FeedIInv
      <3>5. QED BY <1>4, <3>2, <3>4, HandlerMoves DEF FeedIInv
    <2>2. CASE pc' # "callback" BY <1>4, <2>2, HandlerMoves DEF FeedIInv
    <2>3. QED BY <2>1, <2>2
  <1>5. CASE BleCallback
    <2>1. CASE UNCHANGED published BY <1>5, <2>1, CallbackMoves DEF FeedIInv
    <2>2. CASE packet.adv # 0 /\ published' = [published EXCEPT ![MacOf[cur]] = packet.adv]
      <3>1. packet.adv <= adv[cur] BY <1>1, <1>5, <2>2, CallbackMoves DEF FeedIInv
      <3>2. \A p \in Paths : published'[MacOf[p]] <= adv[p]
        <4>1. SUFFICES ASSUME NEW p \in Paths PROVE published'[MacOf[p]] <= adv[p]
          OBVIOUS
        <4>2. CASE p = cur BY <1>1, <2>2, <3>1, <4>2 DEF TypeOK
        <4>3. CASE p # cur
          <5>1. MacOf[p] # MacOf[cur] BY <1>1, <4>3 DEF OnePathEach
          <5>2. QED BY <1>1, <2>2, <5>1 DEF TypeOK, FeedIInv
        <4>4. QED BY <4>2, <4>3
      <3>3. QED BY <1>5, <3>2, CallbackMoves DEF FeedIInv
    <2>3. QED BY <1>5, <2>1, <2>2, CallbackMoves
  <1>6. QED BY <1>2, <1>3, <1>4, <1>5 DEF Next, Runner

LEMMA FeedStep ==
    ASSUME OnePathEach, TypeOK, FeedIInv, [Next]_vars
    PROVE  [MeasurementFeed!Next]_(MeasurementFeed!fvars)
  <1> DEFINE newest == [m \in Macs |-> Newest(m)]
  <1>1. CASE UNCHANGED <<adv, published>>
    <2>1. newest' = newest BY <1>1 DEF Newest
    <2>2. QED BY <1>1, <2>1 DEF MeasurementFeed!fvars
  <1>2. CASE Bluez
    <2>1. CASE UNCHANGED adv BY <1>1, <1>2, <2>1, BluezMoves
    <2>2. CASE \E p \in Paths : adv' = [adv EXCEPT ![p] = @ + 1]
      <3>1. PICK p \in Paths : adv' = [adv EXCEPT ![p] = @ + 1] BY <2>2
      <3>2. MacOf[p] \in Macs BY ListenersAssumption
      <3>3. newest' = [newest EXCEPT ![MacOf[p]] = @ + 1]
        <4>1. \A m \in Macs \ {MacOf[p]} : Newest(m)' = Newest(m)
          <5>1. SUFFICES ASSUME NEW m \in Macs, m # MacOf[p] PROVE Newest(m)' = Newest(m)
            OBVIOUS
          <5>2. CASE \E q \in Paths : MacOf[q] = m
            <6>1. PICK q \in Paths : MacOf[q] = m BY <5>2
            <6>2. q # p BY <5>1, <6>1
            <6>3. adv'[q] = adv[q] BY <3>1, <6>2 DEF TypeOK
            <6>4. QED BY <6>1, <6>3, NewestOf
          <5>3. CASE ~ \E q \in Paths : MacOf[q] = m BY <5>3 DEF Newest
          <5>4. QED BY <5>2, <5>3
        <4>2. Newest(MacOf[p])' = Newest(MacOf[p]) + 1 BY <3>1, NewestOf DEF TypeOK
        <4>3. QED BY <3>2, <4>1, <4>2
      <3>4. MeasurementFeed!Measure(MacOf[p])
        BY <1>2, <3>3, BluezMoves DEF MeasurementFeed!Measure
      <3>5. QED BY <3>2, <3>4 DEF MeasurementFeed!Next
    <2>3. QED BY <1>2, <2>1, <2>2, AdvGrows
  <1>3. CASE BleCallback
    <2>1. CASE UNCHANGED published BY <1>1, <1>3, <2>1, CallbackMoves
    <2>2. CASE packet.adv # 0 /\ published' = [published EXCEPT ![MacOf[cur]] = packet.adv]
      <3>1. cur \in Paths /\ MacOf[cur] \in Macs BY ListenersAssumption DEF TypeOK
      <3>2. packet.adv \in published[MacOf[cur]]..newest[MacOf[cur]]
        BY <1>3, <2>2, <3>1, NewestOf, CallbackMoves DEF FeedIInv
      <3>3. newest' = newest BY <1>3, CallbackMoves DEF Newest
      <3>4. published' \in [Macs -> Nat] BY <1>3, <2>2, <3>1 DEF TypeOK, Packet
      <3>5. \A m \in Macs : published'[m] # published[m] =>
                published'[m] \in published[m]..newest[m]
        BY <2>2, <3>2 DEF TypeOK
      <3>6. MeasurementFeed!Show BY <3>3, <3>4, <3>5 DEF MeasurementFeed!Show
      <3>7. QED BY <3>6 DEF MeasurementFeed!Next
    <2>3. QED BY <1>3, <2>1, <2>2, CallbackMoves
  <1>4. CASE UNCHANGED vars BY <1>1, <1>4 DEF vars, bluezVars
  <1>5. CASE AddCb \/ GetAddress \/ Register \/ PropertiesCb \/ EmitPacket
    BY <1>1, <1>5, HandlerMoves
  <1>6. QED BY <1>2, <1>3, <1>4, <1>5 DEF Next, Runner

\* With one adapter, the measurement shown of a tag is one it sent and never an
\* older one than before, whatever happens between a signal and its GetAll.
THEOREM ImplementsFeed == OnePathEach => (Spec => FeedSpec)
  <1> SUFFICES ASSUME OnePathEach PROVE Spec => FeedSpec
    OBVIOUS
  <1>1. Init => MeasurementFeed!Init
    <2> SUFFICES ASSUME Init PROVE MeasurementFeed!Init
      OBVIOUS
    <2>1. ASSUME NEW m \in Macs PROVE Newest(m) \in Nat
      <3>1. CASE \E p \in Paths : MacOf[p] = m
        <4>1. PICK p \in Paths : MacOf[p] = m BY <3>1
        <4>2. Newest(m) = adv[p] BY <4>1, NewestOf
        <4>3. QED BY <4>2 DEF Init
      <3>2. CASE ~ \E p \in Paths : MacOf[p] = m BY <3>2 DEF Newest
      <3>3. QED BY <3>1, <3>2
    <2>2. QED BY <2>1 DEF Init, MeasurementFeed!Init
  <1>2. Init => FeedIInv
    <2> SUFFICES ASSUME Init PROVE FeedIInv
      OBVIOUS
    <2>1. \A p \in Paths : MacOf[p] \in Macs BY ListenersAssumption
    <2>2. QED BY <2>1 DEF Init, FeedIInv
  <1>3. TypeOK /\ FeedIInv /\ [Next]_vars => FeedIInv' BY FeedInvStep
  <1>4. TypeOK /\ FeedIInv /\ [Next]_vars => [MeasurementFeed!Next]_(MeasurementFeed!fvars)
    BY FeedStep
  <1>5. QED BY <1>1, <1>2, <1>3, <1>4, TypeCorrect, PTL
             DEF Spec, FeedSpec, MeasurementFeed!Spec

-----------------------------------------------------------------------------
(* A tag that is heard is shown up to date.                                 *)

\* The tag at p is shown with its newest advertisement, or will be: a signal of
\* the change waits, or the handler that reads the object is under way.
Followed(p) ==
    \/ published[MacOf[p]] = adv[p]
    \/ \E i \in 1..Len(signals) : signals[i] = <<"changed", p>>
    \/ pc = "getall" /\ cur = p
    \/ pc = "callback" /\ cur = p /\ packet.tag /\ packet.adv = adv[p]

Wellformed == OnePathEach /\ OneEntry /\ ~CallsFail

Heard == {p \in (listeners \cap present) \ reannounced : MacOf[p] \in Tags}

CurrentIInv == Wellformed => \A p \in Heard : Followed(p)

\* BlueZ tells of every change of a tag that is heard.
LEMMA CurrentBluez ==
    ASSUME TypeOK, Wellformed, CurrentIInv, Bluez, NEW p \in Heard' PROVE Followed(p)'
  <1>1. PICK q \in Paths : Appear(q) \/ Advertise(q) \/ OtherChange(q) \/ Vanish(q)
    BY DEF Bluez
  <1>2. signals \in Seq(Kinds \X Paths) BY DEF TypeOK, Kinds
  <1>3. p \in Heard
    BY <1>1 DEF Heard, Appear, Advertise, OtherChange, Vanish
  <1>4. p \in Paths /\ Followed(p) BY <1>3 DEF CurrentIInv, Heard, TypeOK
  <1>5. \/ UNCHANGED signals
        \/ \E x \in Kinds \X Paths : signals' = Append(signals, x)
    BY <1>1 DEF Appear, Advertise, OtherChange, Vanish, Told, Kinds
  <1>6. ASSUME NEW i \in 1..Len(signals), signals[i] = <<"changed", p>>
        PROVE  \E j \in 1..Len(signals') : signals'[j] = <<"changed", p>>
    <2>1. CASE UNCHANGED signals BY <1>6, <2>1
    <2>2. ASSUME NEW x \in Kinds \X Paths, signals' = Append(signals, x)
          PROVE  i \in 1..Len(signals') /\ signals'[i] = signals[i]
      BY <1>2, <1>6, <2>2
    <2>3. QED BY <1>5, <1>6, <2>1, <2>2
  <1>7. CASE adv'[p] = adv[p]
    BY <1>1, <1>4, <1>6, <1>7, BluezMoves DEF Followed
  <1>8. CASE adv'[p] # adv[p]
    <2>1. q = p /\ (Appear(p) \/ Advertise(p))
      BY <1>1, <1>4, <1>8 DEF Appear, Advertise, OtherChange, Vanish, TypeOK
    <2>2. Advertise(p) BY <1>3, <2>1 DEF Appear, Heard
    <2>3. signals' = Append(signals, <<"changed", p>>)
      BY <1>3, <2>2 DEF Advertise, Told, Heard
    <2>4. Len(signals') \in 1..Len(signals') /\ signals'[Len(signals')] = <<"changed", p>>
      BY <1>2, <2>3
    <2>5. QED BY <2>4 DEF Followed
  <1>9. QED BY <1>7, <1>8

\* A handler that starts takes the first signal, and no other.
LEMMA CurrentRead ==
    ASSUME TypeOK, NEW k, Read(k), NEW p \in Paths, Followed(p)
    PROVE  \/ published'[MacOf[p]] = adv'[p]
           \/ \E i \in 1..Len(signals') : signals'[i] = <<"changed", p>>
           \/ k = "changed" /\ cur' = p
  <1>1. signals \in Seq(Kinds \X Paths) /\ signals # <<>> /\ signals[1] = <<k, cur'>>
    BY ReadType
  <1>2. signals' = Tail(signals) /\ UNCHANGED <<adv, published>> /\ pc = "idle" BY DEF Read
  <1>3. CASE published[MacOf[p]] = adv[p] BY <1>2, <1>3
  <1>4. ASSUME NEW i \in 1..Len(signals), signals[i] = <<"changed", p>>
        PROVE  \/ \E j \in 1..Len(signals') : signals'[j] = <<"changed", p>>
               \/ k = "changed" /\ cur' = p
    <2>1. CASE i = 1 BY <1>1, <1>4, <2>1
    <2>2. CASE i # 1
      <3>1. i - 1 \in 1..Len(signals') /\ signals'[i - 1] = signals[i] BY <1>1, <1>2, <2>2
      <3>2. QED BY <1>4, <3>1
    <2>3. QED BY <2>1, <2>2
  <1>5. QED BY <1>2, <1>3, <1>4 DEF Followed

LEMMA CurrentRunner ==
    ASSUME TypeOK, Wellformed, NoNullProxy, EntryIInv, FeedIInv, CurrentIInv, Runner,
           NEW p \in Heard'
    PROVE  Followed(p)'
  <1> USE DEF bluezVars
  <1>1. p \in Paths /\ MacOf[p] \in Macs
    <2>1. TypeOK' BY TypeRunner
    <2>2. QED BY <2>1, ListenersAssumption DEF Heard, TypeOK
  <1>2. p \in Heard => Followed(p) BY DEF CurrentIInv
  <1>3. CASE AddCb
    <2>1. p \in Heard BY <1>3 DEF AddCb, Read, Heard
    <2>2. QED BY <1>1, <1>2, <1>3, <2>1, CurrentRead DEF AddCb, Followed
  <1>4. CASE GetAddress BY <1>2, <1>4 DEF GetAddress, Heard, Followed
  <1>5. CASE Register
    <2>1. CASE p = cur BY <1>5, <2>1 DEF Register, Followed
    <2>2. CASE p # cur BY <1>2, <1>5, <2>2 DEF Register, Heard, Followed
    <2>3. QED BY <2>1, <2>2
  <1>6. CASE PropertiesCb
    <2>1. p \in Heard BY <1>6 DEF PropertiesCb, Read, Heard
    <2>2. CASE Read("changed") /\ pc' = IF cur' \in listeners THEN "getall" ELSE "idle"
      <3>1. cur' = p => pc' = "getall" BY <2>1, <2>2 DEF Heard
      <3>2. QED BY <1>1, <1>2, <2>1, <2>2, <3>1, CurrentRead DEF Followed
    <2>3. CASE Read("rssi")
      BY <1>1, <1>2, <2>1, <2>3, CurrentRead DEF Followed
    <2>4. QED BY <1>6, <2>2, <2>3 DEF PropertiesCb
  <1>7. CASE EmitPacket
    <2>1. UNCHANGED <<signals, adv, present, listeners, cur, published>> /\ pc = "getall"
      BY <1>7 DEF EmitPacket
    <2>2. CASE p # cur
      <3>1. p \in Heard BY <1>7, <2>1, <2>2 DEF EmitPacket, Heard
      <3>2. QED BY <1>2, <2>1, <2>2, <3>1 DEF Followed
    <2>3. CASE p = cur
      <3>1. cur \in present /\ ~CallsFail /\ shape[cur] = "one"
        BY <2>1, <2>3 DEF Heard, Wellformed, EntryIInv
      <3>2. packet' = [tag |-> MacOf[cur] \in Tags, adv |-> adv[cur]] /\ pc' = "callback"
        BY <1>7, <3>1 DEF EmitPacket, Filled
      <3>3. packet'.adv = adv'[p] /\ packet'.tag BY <2>1, <2>3, <3>2 DEF Heard
      <3>4. QED BY <2>1, <2>3, <3>2, <3>3 DEF Followed
    <2>4. QED BY <2>2, <2>3
  <1>8. CASE BleCallback
    <2>1. UNCHANGED <<signals, adv, present, cur, reannounced>> /\ pc = "callback"
          /\ cur \in Paths /\ MacOf[cur] \in Macs
      BY <1>8, ListenersAssumption DEF BleCallback, TypeOK
    <2>2. listeners' \subseteq listeners BY <1>8, <2>1, BlacklistType DEF BleCallback
    <2>3. p \in Heard /\ MacOf[p] \in Tags BY <2>1, <2>2 DEF Heard
    <2>4. CASE p # cur
      <3>1. MacOf[p] # MacOf[cur] BY <1>1, <2>1, <2>4 DEF Wellformed, OnePathEach
      <3>2. published'[MacOf[p]] = published[MacOf[p]]
        BY <1>1, <1>8, <3>1 DEF BleCallback, TypeOK
      <3>3. QED BY <1>2, <2>1, <2>3, <2>4, <3>2 DEF Followed
    <2>5. CASE p = cur
      <3>1. packet.tag BY <2>1, <2>3, <2>5 DEF EntryIInv, Wellformed
      <3>2. CASE packet.adv # 0
        <4>1. published'[MacOf[p]] = packet.adv BY <1>1, <1>8, <2>5, <3>1, <3>2
          DEF BleCallback, TypeOK
        <4>2. packet.adv \in published[MacOf[p]]..adv[p]
          BY <2>1, <2>5, <3>2 DEF FeedIInv, Wellformed
        <4>3. published[MacOf[p]] \in Nat /\ adv[p] \in Nat
          BY <1>1, ListenersAssumption DEF TypeOK
        <4>4. CASE published[MacOf[p]] = adv[p]
          <5>1. packet.adv = adv[p] BY <4>2, <4>3, <4>4
          <5>2. QED BY <2>1, <4>1, <5>1 DEF Followed
        <4>5. CASE published[MacOf[p]] # adv[p]
          BY <1>2, <2>1, <2>3, <4>1, <4>5 DEF Followed
        <4>6. QED BY <4>4, <4>5
      <3>3. CASE packet.adv = 0
        <4>1. UNCHANGED published BY <1>8, <3>1, <3>3 DEF BleCallback
        <4>2. published[MacOf[p]] <= adv[p] /\ published[MacOf[p]] \in Nat /\ adv[p] \in Nat
          BY <1>1, ListenersAssumption DEF FeedIInv, Wellformed, TypeOK
        <4>3. packet.adv = adv[p] => published[MacOf[p]] = adv[p] BY <3>3, <4>2
        <4>4. QED BY <1>2, <2>1, <2>3, <4>1, <4>3 DEF Followed
      <3>4. QED BY <3>2, <3>3
    <2>6. QED BY <2>4, <2>5
  <1>9. QED BY <1>3, <1>4, <1>5, <1>6, <1>7, <1>8 DEF Runner

LEMMA CurrentStep ==
    ASSUME TypeOK, NoNullProxy, EntryIInv, FeedIInv, CurrentIInv, [Next]_vars
    PROVE  CurrentIInv'
  <1> SUFFICES ASSUME Wellformed, NEW p \in Heard' PROVE Followed(p)'
    BY DEF CurrentIInv, Wellformed
  <1>1. CASE UNCHANGED vars
    BY <1>1 DEF vars, bluezVars, CurrentIInv, Heard, Followed
  <1>2. QED BY <1>1, CurrentBluez, CurrentRunner DEF Next

\* The invariants it takes, together.
ListenersIInv == TypeOK /\ NoNullProxy /\ EntryIInv /\ FeedIInv /\ CurrentIInv

LEMMA ListenersInduction == Spec => []ListenersIInv
  <1>1. Init => ListenersIInv
    <2> SUFFICES ASSUME Init PROVE ListenersIInv
      OBVIOUS
    <2>1. TypeOK
      <3>1. 0 \in 0..MaxAdv /\ cur \in Paths BY ListenersAssumption DEF Init
      <3>2. packet \in Packet BY <3>1 DEF Init, Packet
      <3>3. QED BY <3>1, <3>2 DEF Init, TypeOK
    <2>2. \A p \in Paths : MacOf[p] \in Macs BY ListenersAssumption
    <2>3. QED BY <2>1, <2>2
      DEF Init, ListenersIInv, NoNullProxy, EntryIInv, FeedIInv, CurrentIInv, Heard
  <1>2. ListenersIInv /\ [Next]_vars => ListenersIInv'
    <2> SUFFICES ASSUME ListenersIInv, [Next]_vars PROVE ListenersIInv'
      OBVIOUS
    <2>1. TypeOK' /\ EntryIInv'
      <3>1. CASE UNCHANGED vars
        BY <3>1 DEF vars, bluezVars, ListenersIInv, TypeOK, EntryIInv
      <3>2. QED BY <3>1, TypeRunner, TypeBluez, EntryBluez, EntryRunner
        DEF Next, ListenersIInv
    <2>2. QED BY <2>1, NullStep, FeedInvStep, CurrentStep DEF ListenersIInv
  <1>3. QED BY <1>1, <1>2, PTL DEF Spec

LEMMA CurrentFollows == ListenersIInv => Current
  <1> SUFFICES ASSUME ListenersIInv, OnePathEach, OneEntry, ~CallsFail, pc = "idle",
                      NEW p \in listeners \cap present,
                      MacOf[p] \in Tags, ~Waiting(p), p \notin reannounced
               PROVE  published[MacOf[p]] = adv[p]
    BY DEF Current
  <1>1. Followed(p) BY DEF ListenersIInv, CurrentIInv, Wellformed, Heard
  <1>2. \A i \in 1..Len(signals) : signals[i] # <<"changed", p>> BY DEF Waiting
  <1>3. QED BY <1>1, <1>2 DEF Followed

\* A tag that is heard, of which no signal waits, is shown with its newest
\* advertisement, for any number of devices and signals.
THEOREM TagsCurrent == Spec => []Current
  BY ListenersInduction, CurrentFollows, PTL
=============================================================================
