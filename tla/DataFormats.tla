----------------------------- MODULE DataFormats -----------------------------
(***************************************************************************)
(* The decoding of a tag's advertisement (src/ruuvi/ruuvi.cpp), checked    *)
(* against an encoder written from the layout the decoder reads: a tag     *)
(* measures, packs the measurement into bytes, and the exposer unpacks it. *)
(*                                                                         *)
(* A reading is a set, empty where the code leaves NaN or the type's       *)
(* extreme value: {} is "not available".  Readings are whole numbers of    *)
(* the format's unit (0.005 C, 0.0025 %, 1 Pa, 1 mG, 1 mV, 1 dBm); the     *)
(* rounding to float and the hexadecimal spelling of the MAC, which is one *)
(* to one, are left out.                                                   *)
(***************************************************************************)
EXTENDS Integers, Sequences

CONSTANTS
    Measurements5,    \* what a tag with data format 5 measured
    Measurements3,    \* what a tag with data format 3 measured
    Lengths, Headers, \* lengths and first bytes of malformed packets
    Beyond            \* what memory past the end of the data may hold, by index

VARIABLES
    measured,         \* the measurement sent, <<>> before the first
    bytes,            \* manufacturer_data
    format,           \* the decoder used: 0 before the first packet, 3 or 5
    well_formed,      \* is the packet one of that format?
    throw_on_error,   \* the decoder's argument; ble_callback() leaves it false
    decoded           \* what the decoder returned, <<>> if it threw

vars == <<measured, bytes, format, well_formed, throw_on_error, decoded>>

\* a..b, told by its bounds: the provers list the elements of a..b.
Between(a, b) == {v \in Int : a <= v /\ v <= b}

Byte   == Between(0, 255)
UInt16 == Between(0, 65535)
Signed15 == Between(-32767, 32767)

\* What stands for "not available": 0x8000, 0xFFFF, and all ones in 11 and 5 bits.
NoSigned  == 32768
NoWord    == 65535
NoVoltage == 2047
NoPower   == 31
Available(x) == x # {}
The(x) == CHOOSE v \in x : TRUE

\* A value within a range, or none.
Reading(x, range) == x \subseteq range /\ \A u, v \in x : u = v

\* What the fields of either format have room for: an invalid mark is no value.
ASSUME MeasurementAssumption ==
    /\ \A m \in Measurements5 :
        /\ Reading(m.temperature, Signed15)
        /\ Reading(m.humidity, Between(0, 65534)) /\ Reading(m.pressure, Between(0, 65534))
        /\ \A a \in {"x", "y", "z"} : Reading(m.acceleration[a], Signed15)
        /\ Reading(m.voltage, Between(0, 2046)) /\ Reading(m.tx, Between(0, 30))
        /\ m.movement \in Byte /\ m.sequence \in UInt16
        /\ m.mac \in [1..6 -> Byte]
    /\ \A m \in Measurements3 :
        /\ m.humidity \in Byte /\ m.temperature \in Between(-12799, 12799)
        /\ m.pressure \in UInt16 /\ m.voltage \in UInt16
        /\ m.acceleration \in [1..3 -> Between(-32768, 32767)]
    /\ Lengths \subseteq Nat \ {0} /\ Headers \subseteq Byte
    /\ Beyond \subseteq [0..23 -> Byte]

-----------------------------------------------------------------------------
(* Decoders.  At(d, i, junk) is data[i], an arbitrary value past the end.  A *)
(* packet has at least its first byte: data[0] of an empty vector, which may *)
(* end the process, is in module Listeners.                                 *)

At(d, i, junk) == IF i < Len(d) THEN d[i + 1] ELSE junk[i]

RuuviId == 1177    \* 0x0499
not_ruuvitag   == -2
unknown_format == -1

\* The format that the first byte of a Ruuvi tag's packet names.
identify_format(manufacturer_id, d) ==
    IF manufacturer_id # RuuviId THEN not_ruuvitag
    ELSE IF d[1] \in {3, 4, 5, 8} THEN d[1] ELSE unknown_format

\* Two bytes, the high one first, as uint16_t; and as int16_t.
Word(d, i, junk) == 256 * At(d, i, junk) + At(d, i + 1, junk)
Signed(w) == IF w >= 32768 THEN w - 65536 ELSE w

\* A reading that is there unless its raw value is marked invalid.
Unless(invalid, value) == IF invalid THEN {} ELSE {value}

Acceleration(w) == Unless(w = NoSigned, Signed(w))

\* Mutant of Voltage: the three low bits are taken from the wrong end of byte 14.
Voltage_LowBits(b13, b14) ==
    LET raw == 8 * b13 + (b14 % 8) IN Unless(raw = NoVoltage, 1600 + raw)

\* 11 bits: byte 13 and the three high bits of byte 14.
Voltage(b13, b14) ==
    LET raw == 8 * b13 + (b14 \div 32) IN Unless(raw = NoVoltage, 1600 + raw)

\* Mutant of TxPower: the invalid mark is read as a value.
TxPower_Raw(b14) == {2 * (b14 % 32) - 40}

\* The five low bits of byte 14.
TxPower(b14) == LET raw == b14 % 32 IN Unless(raw = NoPower, 2 * raw - 40)

Readings5(d, junk) ==
    LET w(i) == Word(d, i, junk)
    IN  [temperature     |-> Unless(w(1) = NoSigned, Signed(w(1))),
         humidity        |-> Unless(w(3) > 40000, w(3)),
         pressure        |-> Unless(w(5) = NoWord, w(5) + 50000),
         acceleration    |-> [x |-> Acceleration(w(7)), y |-> Acceleration(w(9)),
                              z |-> Acceleration(w(11))],
         battery_voltage |-> Voltage(At(d, 13, junk), At(d, 14, junk)),
         tx_power        |-> TxPower(At(d, 14, junk)),
         movement        |-> At(d, 15, junk),
         sequence        |-> w(16)]

Complete5(r) ==
    /\ Available(r.temperature) /\ Available(r.humidity) /\ Available(r.pressure)
    /\ \A a \in DOMAIN r.acceleration : Available(r.acceleration[a])
    /\ Available(r.battery_voltage) /\ Available(r.tx_power)

\* Mutant of convert_data_format_5: another tag's packet is not flagged.
convert_data_format_5_AnyMac(d, mac, junk) ==
    LET inside == [i \in 1..6 |-> At(d, 17 + i, junk)]
        r      == Readings5(d, junk)
    IN  [readings        |-> r,
         mac             |-> IF inside = mac THEN inside ELSE <<>>,
         contains_errors |-> ~Complete5(r)]

\* The MAC in the packet must be the sender's.  That the length is not 24 or the
\* first byte not 5 is noted at the start of the function and forgotten when
\* contains_errors is reset before the values are checked.
convert_data_format_5(d, mac, junk) ==
    LET inside == [i \in 1..6 |-> At(d, 17 + i, junk)]
        r      == Readings5(d, junk)
    IN  [readings        |-> r,
         mac             |-> IF inside = mac THEN inside ELSE <<>>,
         contains_errors |-> ~Complete5(r) \/ inside # mac]

\* Mutant of Centigrade: the fraction of a negative temperature is added.
Centigrade_AddsFraction(b, fraction) ==
    (IF b >= 128 THEN -(b - 128) ELSE b) * 100 + fraction

\* Format 3 has a sign bit and a magnitude; the fraction has the same sign.
Centigrade(b, fraction) ==
    IF b >= 128 THEN -((b - 128) * 100 + fraction) ELSE b * 100 + fraction

Readings3(d, junk) ==
    LET w(i) == Word(d, i, junk)
    IN  [humidity        |-> Unless(At(d, 1, junk) > 200, At(d, 1, junk)),
         temperature     |-> Unless(At(d, 3, junk) > 99,
                                    Centigrade(At(d, 2, junk), At(d, 3, junk))),
         pressure        |-> w(4) + 50000,
         acceleration    |-> [x |-> Signed(w(6)), y |-> Signed(w(8)), z |-> Signed(w(10))],
         battery_voltage |-> w(12)]

convert_data_format_3(d, mac, junk) ==
    LET r == Readings3(d, junk)
    IN  [readings        |-> r,
         mac             |-> mac,
         contains_errors |-> ~Available(r.humidity) \/ ~Available(r.temperature)]

-----------------------------------------------------------------------------
(* The tag: it packs what it measured, and marks what is not available.     *)

High(w) == w \div 256
Low(w)  == w % 256
Raw(x, invalid) == IF Available(x) THEN The(x) % 65536 ELSE invalid

Payload5(m) ==
    LET t == Raw(m.temperature, NoSigned)
        h == Raw(m.humidity, NoWord)
        p == Raw(m.pressure, NoWord)
        x == Raw(m.acceleration["x"], NoSigned)
        y == Raw(m.acceleration["y"], NoSigned)
        z == Raw(m.acceleration["z"], NoSigned)
        v == Raw(m.voltage, NoVoltage)
    IN  <<5, High(t), Low(t), High(h), Low(h), High(p), Low(p),
          High(x), Low(x), High(y), Low(y), High(z), Low(z),
          v \div 8, 32 * (v % 8) + Raw(m.tx, NoPower),
          m.movement, High(m.sequence), Low(m.sequence)>>

Pack5(m) == [i \in 1..24 |-> IF i <= 18 THEN Payload5(m)[i] ELSE m.mac[i - 18]]

Pack3(m) ==
    LET size == IF m.temperature < 0 THEN -m.temperature ELSE m.temperature
        x == m.acceleration[1] % 65536
        y == m.acceleration[2] % 65536
        z == m.acceleration[3] % 65536
    IN  <<3, m.humidity, (IF m.temperature < 0 THEN 128 ELSE 0) + size \div 100, size % 100,
          High(m.pressure), Low(m.pressure),
          High(x), Low(x), High(y), Low(y), High(z), Low(z),
          High(m.voltage), Low(m.voltage)>>

-----------------------------------------------------------------------------
Init ==
    /\ measured = <<>> /\ bytes = <<>> /\ format = 0 /\ well_formed = TRUE
    /\ throw_on_error = FALSE /\ decoded = <<>>

\* Mutant of Decode5: throw_on_error is passed to the checks of the values only.
Decode5_ValuesOnly(d, mac, junk) ==
    /\ bytes' = d /\ format' = 5
    /\ throw_on_error' \in BOOLEAN
    /\ LET r == convert_data_format_5(d, mac, junk)
       IN  decoded' = IF throw_on_error' /\ r.contains_errors THEN <<>> ELSE r

\* A call of convert_data_format_5(): an exception ends it at the first error, of
\* the header or of a value.
Decode5(d, mac, junk) ==
    /\ bytes' = d /\ format' = 5
    /\ throw_on_error' \in BOOLEAN
    /\ LET r == convert_data_format_5(d, mac, junk)
       IN  decoded' = IF throw_on_error' /\ (Len(d) # 24 \/ d[1] # 5 \/ r.contains_errors)
                      THEN <<>> ELSE r

\* A packet of format 5 from the tag that measured it, or relayed by another.
\* The decoder keeps nothing from one packet to the next: a behaviour has one.
Receive5 ==
    /\ format = 0
    /\ \E m \in Measurements5, junk \in Beyond :
        /\ measured' = m /\ well_formed' = TRUE
        /\ Decode5(Pack5(m), m.sender, junk)

Receive3 ==
    /\ format = 0
    /\ \E m \in Measurements3, junk \in Beyond :
        /\ measured' = m
        /\ bytes' = Pack3(m)
        /\ format' = 3 /\ well_formed' = TRUE
        /\ throw_on_error' \in BOOLEAN
        /\ LET r == convert_data_format_3(bytes', m.sender, junk)
           IN  decoded' = IF throw_on_error' /\ r.contains_errors THEN <<>> ELSE r

\* A packet of Ruuvi's that may be not of format 5: ble_callback() does not ask
\* identify_format() and decodes it all the same.
ReceiveOther ==
    /\ format = 0
    /\ \E m \in Measurements5, n \in Lengths, h \in Headers, junk \in Beyond :
        /\ measured' = m /\ well_formed' = (n = 24 /\ h = 5)
        /\ Decode5([i \in 1..n |->
                        IF i = 1 THEN h ELSE IF i <= 24 THEN Pack5(m)[i] ELSE 0],
                   m.sender, junk)

Next == Receive5 \/ Receive3 \/ ReceiveOther

Spec == Init /\ [][Next]_vars

-----------------------------------------------------------------------------
(* Properties.                                                              *)

Returned(f) == format = f /\ decoded # <<>>

Good(f) == Returned(f) /\ well_formed

\* Whatever bytes arrive, what format 5 publishes lies within the ranges its
\* units have: no invalid mark ever comes out as a reading.
TypeOK ==
    Returned(5) =>
        LET r == decoded.readings IN
            /\ decoded.contains_errors \in BOOLEAN
            /\ decoded.mac \in {<<>>, measured.sender}
            /\ r.temperature \subseteq Signed15
            /\ r.humidity \subseteq Between(0, 40000)
            /\ r.pressure \subseteq Between(50000, 115534)
            /\ \A a \in DOMAIN r.acceleration : r.acceleration[a] \subseteq Signed15
            /\ r.battery_voltage \subseteq Between(1600, 3646)
            /\ r.tx_power \subseteq Between(-40, 20)
            /\ r.movement \in Byte /\ r.sequence \in UInt16

\* Whatever a tag of format 5 measures, convert_data_format_5() reads back, each
\* value by itself: a missing one neither hides nor shifts another, and humidity
\* above 100 % counts as missing.
Reads5 ==
    Good(5) =>
        LET r == decoded.readings IN
            /\ r.temperature = measured.temperature
            /\ r.humidity = {h \in measured.humidity : h <= 40000}
            /\ r.pressure = {p + 50000 : p \in measured.pressure}
            /\ \A a \in {"x", "y", "z"} : r.acceleration[a] = measured.acceleration[a]
            /\ r.battery_voltage = {v + 1600 : v \in measured.voltage}
            /\ r.tx_power = {2 * x - 40 : x \in measured.tx}
            /\ r.movement = measured.movement /\ r.sequence = measured.sequence

\* Something of the measurement is missing, or its packet is another tag's.
Flawed(m) ==
    \/ m.mac # m.sender
    \/ {} \in {m.temperature, m.pressure, m.voltage, m.tx,
               m.acceleration["x"], m.acceleration["y"], m.acceleration["z"]}
    \/ \A h \in m.humidity : h > 40000

\* A packet of format 5 is flagged exactly when a value is missing or it carries
\* another MAC than its sender's; only then it is published under no MAC.
Flags5 ==
    Good(5) =>
        /\ decoded.contains_errors <=> Flawed(measured)
        /\ decoded.mac = IF measured.mac = measured.sender THEN measured.sender ELSE <<>>

\* With throw_on_error, convert_data_format_5() returns exactly for the packets
\* that identify_format() calls format 5, that have its length, and that miss
\* nothing: whoever decodes with exceptions is safe from the others.
Strict5 ==
    (format = 5 /\ throw_on_error) =>
        (decoded # <<>> <=>
             identify_format(RuuviId, bytes) = 5 /\ Len(bytes) = 24 /\ ~Flawed(measured))

\* convert_data_format_3() reads a signed magnitude, down to -0.01 C.
Reads3 ==
    Good(3) =>
        LET r == decoded.readings IN
            /\ r.temperature = {measured.temperature}
            /\ r.humidity = {h \in {measured.humidity} : h <= 200}
            /\ r.pressure = measured.pressure + 50000
            /\ <<r.acceleration.x, r.acceleration.y, r.acceleration.z>> = measured.acceleration
            /\ r.battery_voltage = measured.voltage
            /\ decoded.contains_errors <=> measured.humidity > 200
            /\ throw_on_error => measured.humidity <= 200

\* What the decoder itself calls an error (a length other than 24, a first byte
\* other than 5) is flagged as one in what it returns.
HeaderErrorsFlagged ==
    (Returned(5) /\ (Len(bytes) # 24 \/ identify_format(RuuviId, bytes) # 5))
        => decoded.contains_errors
=============================================================================
