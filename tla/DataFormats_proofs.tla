-------------------------- MODULE DataFormats_proofs --------------------------
(***************************************************************************)
(* Proofs about module DataFormats: what the runs check at the edges of    *)
(* each format holds for every measurement, every sequence of bytes and    *)
(* whatever bytes lie behind.                                              *)
(***************************************************************************)
EXTENDS DataFormats, TLAPS

-----------------------------------------------------------------------------
(* Words and readings.                                                      *)

LEMMA OneReading == ASSUME NEW v PROVE The({v}) = v
  BY DEF The

\* A reading is missing, or has one value in its range.
LEMMA ReadingCases ==
    ASSUME NEW range, NEW x, Reading(x, range)
    PROVE  x = {} \/ \E v \in range : x = {v}
  BY DEF Reading

\* Sixteen bits.
LEMMA Mod16 ==
    ASSUME NEW v \in Int, -32768 <= v, v < 65536
    PROVE  v % 65536 = IF v < 0 THEN v + 65536 ELSE v
  <1>1. CASE 0 <= v BY <1>1, SMT
  <1>2. CASE v < 0 BY <1>2, SMT
  <1>3. QED BY <1>1, <1>2, SMT

LEMMA RawMissing == ASSUME NEW invalid PROVE Raw({}, invalid) = invalid
  BY SMT DEF Raw, Available

LEMMA RawOne == ASSUME NEW invalid, NEW v PROVE Raw({v}, invalid) = v % 65536
  <1>1. The({v}) = v BY OneReading
  <1>2. QED BY <1>1, SMT DEF Raw, Available

LEMMA RawThere ==
    ASSUME NEW invalid, NEW v \in Int, -32768 <= v, v < 65536
    PROVE  Raw({v}, invalid) = IF v < 0 THEN v + 65536 ELSE v
  <1>1. Raw({v}, invalid) = v % 65536 BY RawOne, SMT
  <1>2. QED BY <1>1, Mod16, SMT

\* A signed reading survives its sixteen bits, and 0x8000 stands for none.
LEMMA RawSigned ==
    ASSUME NEW x, Reading(x, Signed15)
    PROVE  /\ Raw(x, NoSigned) \in UInt16
           /\ Unless(Raw(x, NoSigned) = NoSigned, Signed(Raw(x, NoSigned))) = x
  <1>1. CASE x = {}
    <2>1. Raw(x, NoSigned) = NoSigned BY <1>1, RawMissing
    <2>2. NoSigned \in UInt16 BY SMT DEF NoSigned, UInt16, Between
    <2>3. QED BY <1>1, <2>1, <2>2 DEF Unless
  <1>2. ASSUME NEW v \in Signed15, x = {v}
        PROVE  /\ Raw(x, NoSigned) \in UInt16
               /\ Unless(Raw(x, NoSigned) = NoSigned, Signed(Raw(x, NoSigned))) = x
    <2>1. v \in Int /\ -32768 < v /\ v < 32768 BY <1>2, SMT DEF Signed15, Between
    <2>2. Raw(x, NoSigned) = IF v < 0 THEN v + 65536 ELSE v BY <1>2, <2>1, RawThere, SMT
    <2>3. /\ Signed(Raw(x, NoSigned)) = v /\ Raw(x, NoSigned) # NoSigned
          /\ Raw(x, NoSigned) \in UInt16
      BY <2>1, <2>2, SMT DEF Signed, NoSigned, UInt16, Between
    <2>4. QED BY <1>2, <2>3 DEF Unless
  <1>3. QED BY <1>1, <1>2, ReadingCases

\* An unsigned reading is its raw value.
Plain(x, invalid, max) ==
    \/ x = {} /\ Raw(x, invalid) = invalid
    \/ x = {Raw(x, invalid)} /\ Raw(x, invalid) \in Between(0, max)

LEMMA RawPlain ==
    ASSUME NEW max \in Int, max < 65536, NEW x, Reading(x, Between(0, max))
    PROVE  \A invalid : Plain(x, invalid, max)
  <1> SUFFICES ASSUME NEW invalid PROVE Plain(x, invalid, max) OBVIOUS
  <1>1. CASE x = {} BY <1>1, RawMissing DEF Plain
  <1>2. ASSUME NEW v \in Between(0, max), x = {v}
        PROVE  Raw(x, invalid) = v
    <2>1. v \in Int /\ 0 <= v /\ v < 65536 BY <1>2, SMT DEF Between
    <2>2. QED BY <1>2, <2>1, RawThere, SMT
  <1>3. QED BY <1>1, <1>2, ReadingCases DEF Plain

\* Two bytes give back the word they were taken from.
LEMMA WordOf ==
    ASSUME NEW w \in UInt16
    PROVE  High(w) \in Byte /\ Low(w) \in Byte /\ 256 * High(w) + Low(w) = w
  BY SMT DEF High, Low, Byte, UInt16, Between

-----------------------------------------------------------------------------
(* Format 5: what the packet holds.                                         *)

LEMMA Measured5 ==
    ASSUME NEW m \in Measurements5
    PROVE  /\ Reading(m.temperature, Signed15)
           /\ Reading(m.humidity, Between(0, 65534))
           /\ Reading(m.pressure, Between(0, 65534))
           /\ Reading(m.acceleration["x"], Signed15)
           /\ Reading(m.acceleration["y"], Signed15)
           /\ Reading(m.acceleration["z"], Signed15)
           /\ Reading(m.voltage, Between(0, 2046)) /\ Reading(m.tx, Between(0, 30))
           /\ m.movement \in Byte /\ m.sequence \in UInt16
           /\ m.mac \in [1..6 -> Byte]
  BY MeasurementAssumption, SMT

\* The raw values of the readings without a sign.
LEMMA Plain5 ==
    ASSUME NEW m \in Measurements5
    PROVE  /\ Plain(m.humidity, NoWord, 65534) /\ Plain(m.pressure, NoWord, 65534)
           /\ Plain(m.voltage, NoVoltage, 2046) /\ Plain(m.tx, NoPower, 30)
  <1>1. 65534 \in Int /\ 65534 < 65536 /\ 2046 \in Int /\ 2046 < 65536
        /\ 30 \in Int /\ 30 < 65536
    BY SMT
  <1>2. Reading(m.humidity, Between(0, 65534)) /\ Reading(m.pressure, Between(0, 65534))
    BY Measured5, SMT
  <1>3. Reading(m.voltage, Between(0, 2046)) /\ Reading(m.tx, Between(0, 30))
    BY Measured5, SMT
  <1>4. \A invalid : Plain(m.humidity, invalid, 65534) BY <1>1, <1>2, RawPlain, SMT
  <1>5. \A invalid : Plain(m.pressure, invalid, 65534) BY <1>1, <1>2, RawPlain, SMT
  <1>6. \A invalid : Plain(m.voltage, invalid, 2046) BY <1>1, <1>3, RawPlain, SMT
  <1>7. \A invalid : Plain(m.tx, invalid, 30) BY <1>1, <1>3, RawPlain, SMT
  <1>8. QED BY <1>4, <1>5, <1>6, <1>7, SMT

\* The raw values a packet carries.
LEMMA Raws5 ==
    ASSUME NEW m \in Measurements5
    PROVE  /\ Raw(m.temperature, NoSigned) \in UInt16
           /\ Raw(m.humidity, NoWord) \in UInt16
           /\ Raw(m.pressure, NoWord) \in UInt16
           /\ Raw(m.acceleration["x"], NoSigned) \in UInt16
           /\ Raw(m.acceleration["y"], NoSigned) \in UInt16
           /\ Raw(m.acceleration["z"], NoSigned) \in UInt16
           /\ Raw(m.voltage, NoVoltage) \in Between(0, 2047)
           /\ Raw(m.tx, NoPower) \in Between(0, 31)
  <1>1. /\ \A v : v = NoWord \/ v \in Between(0, 65534) => v \in UInt16
        /\ \A v : v = NoVoltage \/ v \in Between(0, 2046) => v \in Between(0, 2047)
        /\ \A v : v = NoPower \/ v \in Between(0, 30) => v \in Between(0, 31)
    BY SMT DEF NoWord, NoVoltage, NoPower, UInt16, Between
  <1>2. /\ Raw(m.humidity, NoWord) \in UInt16
        /\ Raw(m.pressure, NoWord) \in UInt16
        /\ Raw(m.voltage, NoVoltage) \in Between(0, 2047)
        /\ Raw(m.tx, NoPower) \in Between(0, 31)
    BY <1>1, Plain5, SMT DEF Plain
  <1>3. QED BY <1>2, Measured5, RawSigned

\* d has what the packet of m has behind its first byte.
Carries(d, m, junk) == \A i \in 1..23 : At(d, i, junk) = Pack5(m)[i + 1]

LEMMA Payload ==
    ASSUME NEW m
    PROVE  /\ \A i \in 1..17 : Pack5(m)[i + 1] = Payload5(m)[i + 1]
           /\ \A i \in 1..6 : Pack5(m)[i + 18] = m.mac[i]
  BY SMT DEF Pack5

\* Where each byte stands.
LEMMA Bytes5 ==
    ASSUME NEW m \in Measurements5, NEW d, NEW junk, Carries(d, m, junk)
    PROVE  /\ At(d, 1, junk) = High(Raw(m.temperature, NoSigned))
           /\ At(d, 2, junk) = Low(Raw(m.temperature, NoSigned))
           /\ At(d, 3, junk) = High(Raw(m.humidity, NoWord))
           /\ At(d, 4, junk) = Low(Raw(m.humidity, NoWord))
           /\ At(d, 5, junk) = High(Raw(m.pressure, NoWord))
           /\ At(d, 6, junk) = Low(Raw(m.pressure, NoWord))
           /\ At(d, 7, junk) = High(Raw(m.acceleration["x"], NoSigned))
           /\ At(d, 8, junk) = Low(Raw(m.acceleration["x"], NoSigned))
           /\ At(d, 9, junk) = High(Raw(m.acceleration["y"], NoSigned))
           /\ At(d, 10, junk) = Low(Raw(m.acceleration["y"], NoSigned))
           /\ At(d, 11, junk) = High(Raw(m.acceleration["z"], NoSigned))
           /\ At(d, 12, junk) = Low(Raw(m.acceleration["z"], NoSigned))
           /\ At(d, 13, junk) = Raw(m.voltage, NoVoltage) \div 8
           /\ At(d, 14, junk) = 32 * (Raw(m.voltage, NoVoltage) % 8) + Raw(m.tx, NoPower)
           /\ At(d, 15, junk) = m.movement
           /\ At(d, 16, junk) = High(m.sequence) /\ At(d, 17, junk) = Low(m.sequence)
  <1>1. \A i \in 1..17 : At(d, i, junk) = Payload5(m)[i + 1]
    <2>1. SUFFICES ASSUME NEW i \in 1..17 PROVE At(d, i, junk) = Payload5(m)[i + 1]
      OBVIOUS
    <2>2. i \in 1..23 BY SMT
    <2>3. At(d, i, junk) = Pack5(m)[i + 1] BY <2>2 DEF Carries
    <2>4. QED BY <2>3, Payload
  <1>2. QED BY <1>1 DEF Payload5

LEMMA Mac5 ==
    ASSUME NEW m \in Measurements5, NEW d, NEW junk, Carries(d, m, junk)
    PROVE  [i \in 1..6 |-> At(d, 17 + i, junk)] = m.mac
  <1>1. \A i \in 1..6 : At(d, 17 + i, junk) = m.mac[i]
    <2>1. SUFFICES ASSUME NEW i \in 1..6 PROVE At(d, 17 + i, junk) = m.mac[i]
      OBVIOUS
    <2>2. 17 + i \in 1..23 /\ (17 + i) + 1 = i + 18 BY SMT
    <2>3. At(d, 17 + i, junk) = Pack5(m)[i + 18] BY <2>2 DEF Carries
    <2>4. QED BY <2>3, Payload
  <1>2. m.mac = [i \in 1..6 |-> m.mac[i]] BY Measured5
  <1>3. QED BY <1>1, <1>2, Zenon

LEMMA Words5 ==
    ASSUME NEW m \in Measurements5, NEW d, NEW junk, Carries(d, m, junk)
    PROVE  /\ Word(d, 1, junk) = Raw(m.temperature, NoSigned)
           /\ Word(d, 3, junk) = Raw(m.humidity, NoWord)
           /\ Word(d, 5, junk) = Raw(m.pressure, NoWord)
           /\ Word(d, 7, junk) = Raw(m.acceleration["x"], NoSigned)
           /\ Word(d, 9, junk) = Raw(m.acceleration["y"], NoSigned)
           /\ Word(d, 11, junk) = Raw(m.acceleration["z"], NoSigned)
           /\ Word(d, 16, junk) = m.sequence
  <1>1. /\ Word(d, 1, junk) = 256 * At(d, 1, junk) + At(d, 2, junk)
        /\ Word(d, 3, junk) = 256 * At(d, 3, junk) + At(d, 4, junk)
        /\ Word(d, 5, junk) = 256 * At(d, 5, junk) + At(d, 6, junk)
        /\ Word(d, 7, junk) = 256 * At(d, 7, junk) + At(d, 8, junk)
        /\ Word(d, 9, junk) = 256 * At(d, 9, junk) + At(d, 10, junk)
        /\ Word(d, 11, junk) = 256 * At(d, 11, junk) + At(d, 12, junk)
        /\ Word(d, 16, junk) = 256 * At(d, 16, junk) + At(d, 17, junk)
    BY SMT DEF Word
  <1>2. \A w \in UInt16 : 256 * High(w) + Low(w) = w BY WordOf
  <1>3. Word(d, 1, junk) = Raw(m.temperature, NoSigned)
    <2>1. At(d, 1, junk) = High(Raw(m.temperature, NoSigned)) /\ At(d, 2, junk) = Low(Raw(m.temperature, NoSigned))
      BY Bytes5, SMT
    <2>2. Raw(m.temperature, NoSigned) \in UInt16 BY Raws5
    <2>3. QED BY <1>1, <1>2, <2>1, <2>2
  <1>4. Word(d, 3, junk) = Raw(m.humidity, NoWord)
    <2>1. At(d, 3, junk) = High(Raw(m.humidity, NoWord)) /\ At(d, 4, junk) = Low(Raw(m.humidity, NoWord))
      BY Bytes5, SMT
    <2>2. Raw(m.humidity, NoWord) \in UInt16 BY Raws5
    <2>3. QED BY <1>1, <1>2, <2>1, <2>2
  <1>5. Word(d, 5, junk) = Raw(m.pressure, NoWord)
    <2>1. At(d, 5, junk) = High(Raw(m.pressure, NoWord)) /\ At(d, 6, junk) = Low(Raw(m.pressure, NoWord))
      BY Bytes5, SMT
    <2>2. Raw(m.pressure, NoWord) \in UInt16 BY Raws5
    <2>3. QED BY <1>1, <1>2, <2>1, <2>2
  <1>6. Word(d, 7, junk) = Raw(m.acceleration["x"], NoSigned)
    <2>1. At(d, 7, junk) = High(Raw(m.acceleration["x"], NoSigned)) /\ At(d, 8, junk) = Low(Raw(m.acceleration["x"], NoSigned))
      BY Bytes5, SMT
    <2>2. Raw(m.acceleration["x"], NoSigned) \in UInt16 BY Raws5
    <2>3. QED BY <1>1, <1>2, <2>1, <2>2
  <1>7. Word(d, 9, junk) = Raw(m.acceleration["y"], NoSigned)
    <2>1. At(d, 9, junk) = High(Raw(m.acceleration["y"], NoSigned)) /\ At(d, 10, junk) = Low(Raw(m.acceleration["y"], NoSigned))
      BY Bytes5, SMT
    <2>2. Raw(m.acceleration["y"], NoSigned) \in UInt16 BY Raws5
    <2>3. QED BY <1>1, <1>2, <2>1, <2>2
  <1>8. Word(d, 11, junk) = Raw(m.acceleration["z"], NoSigned)
    <2>1. At(d, 11, junk) = High(Raw(m.acceleration["z"], NoSigned)) /\ At(d, 12, junk) = Low(Raw(m.acceleration["z"], NoSigned))
      BY Bytes5, SMT
    <2>2. Raw(m.acceleration["z"], NoSigned) \in UInt16 BY Raws5
    <2>3. QED BY <1>1, <1>2, <2>1, <2>2
  <1>9. Word(d, 16, junk) = m.sequence
    <2>1. At(d, 16, junk) = High(m.sequence) /\ At(d, 17, junk) = Low(m.sequence)
      BY Bytes5, SMT
    <2>2. m.sequence \in UInt16 BY Measured5
    <2>3. QED BY <1>1, <1>2, <2>1, <2>2
  <1>10. QED BY <1>3, <1>4, <1>5, <1>6, <1>7, <1>8, <1>9

\* The eleven bits of the voltage and the five of the power share a byte.
LEMMA SharedByte ==
    ASSUME NEW v \in Between(0, 2047), NEW x \in Between(0, 31)
    PROVE  /\ 8 * (v \div 8) + ((32 * (v % 8) + x) \div 32) = v
           /\ (32 * (v % 8) + x) % 32 = x
  <1>1. v % 8 \in 0..7 /\ v = 8 * (v \div 8) + (v % 8) /\ v \div 8 \in Int
    BY SMT DEF Between
  <1>2. \A q \in 0..7 : (32 * q + x) \div 32 = q /\ (32 * q + x) % 32 = x
    BY SMT DEF Between
  <1>3. QED BY <1>1, <1>2, SMT

LEMMA SharedFields ==
    ASSUME NEW b13 \in Int, NEW b14 \in Int, NEW v, NEW x,
           8 * b13 + (b14 \div 32) = v, b14 % 32 = x
    PROVE  /\ Voltage(b13, b14) = IF v = NoVoltage THEN {} ELSE {1600 + v}
           /\ TxPower(b14) = IF x = NoPower THEN {} ELSE {2 * x - 40}
  <1>1. Voltage(b13, b14) = Unless(v = NoVoltage, 1600 + v) BY SMT DEF Voltage
  <1>2. TxPower(b14) = Unless(x = NoPower, 2 * x - 40) BY SMT DEF TxPower
  <1>3. QED BY <1>1, <1>2, SMT DEF Unless

\* Every value of a packet of format 5 is read back.
LEMMA Unpacked5 ==
    ASSUME NEW m \in Measurements5, NEW d, NEW junk, Carries(d, m, junk),
           NEW r, r = Readings5(d, junk)
    PROVE  /\ r.temperature = m.temperature
           /\ r.humidity = {h \in m.humidity : h <= 40000}
           /\ r.pressure = {p + 50000 : p \in m.pressure}
           /\ r.acceleration = [x |-> m.acceleration["x"], y |-> m.acceleration["y"],
                                z |-> m.acceleration["z"]]
           /\ r.battery_voltage = {v + 1600 : v \in m.voltage}
           /\ r.tx_power = {2 * x - 40 : x \in m.tx}
           /\ r.movement = m.movement /\ r.sequence = m.sequence
  <1>1. /\ r.temperature = Unless(Word(d, 1, junk) = NoSigned, Signed(Word(d, 1, junk)))
        /\ r.humidity = Unless(Word(d, 3, junk) > 40000, Word(d, 3, junk))
        /\ r.pressure = Unless(Word(d, 5, junk) = NoWord, Word(d, 5, junk) + 50000)
        /\ r.acceleration = [x |-> Acceleration(Word(d, 7, junk)),
                             y |-> Acceleration(Word(d, 9, junk)),
                             z |-> Acceleration(Word(d, 11, junk))]
        /\ r.battery_voltage = Voltage(At(d, 13, junk), At(d, 14, junk))
        /\ r.tx_power = TxPower(At(d, 14, junk))
        /\ r.movement = At(d, 15, junk) /\ r.sequence = Word(d, 16, junk)
    BY SMT DEF Readings5
  <1>2. r.temperature = m.temperature BY <1>1, Words5, Measured5, RawSigned
  <1>3. \A x : Reading(x, Signed15) => Acceleration(Raw(x, NoSigned)) = x
    BY RawSigned DEF Acceleration
  <1>4. r.acceleration = [x |-> m.acceleration["x"], y |-> m.acceleration["y"],
                          z |-> m.acceleration["z"]]
    BY <1>1, <1>3, Words5, Measured5
  <1>5. r.humidity = {h \in m.humidity : h <= 40000}
    <2> DEFINE w == Raw(m.humidity, NoWord)
    <2>1. r.humidity = IF w > 40000 THEN {} ELSE {w} BY <1>1, Words5, SMT DEF Unless
    <2>2. CASE m.humidity = {} /\ w = NoWord BY <2>1, <2>2, SMT DEF NoWord
    <2>3. CASE m.humidity = {w} /\ w \in Between(0, 65534)
      BY <2>1, <2>3, SMT DEF Between
    <2>4. QED BY <2>2, <2>3, Plain5, SMT DEF Plain
  <1>6. r.pressure = {p + 50000 : p \in m.pressure}
    <2> DEFINE w == Raw(m.pressure, NoWord)
    <2>1. r.pressure = IF w = NoWord THEN {} ELSE {w + 50000} BY <1>1, Words5, SMT DEF Unless
    <2>2. CASE m.pressure = {} /\ w = NoWord BY <2>1, <2>2, SMT
    <2>3. CASE m.pressure = {w} /\ w \in Between(0, 65534)
      BY <2>1, <2>3, SMT DEF Between, NoWord
    <2>4. QED BY <2>2, <2>3, Plain5, SMT DEF Plain
  <1> DEFINE v == Raw(m.voltage, NoVoltage)
             x == Raw(m.tx, NoPower)
  <1>7. /\ 8 * At(d, 13, junk) + (At(d, 14, junk) \div 32) = v
        /\ At(d, 14, junk) % 32 = x
    <2>1. v \in Between(0, 2047) /\ x \in Between(0, 31) BY Raws5, SMT
    <2>2. At(d, 13, junk) = v \div 8 /\ At(d, 14, junk) = 32 * (v % 8) + x BY Bytes5, SMT
    <2>3. QED BY <2>1, <2>2, SharedByte, SMT
  <1>12. At(d, 13, junk) \in Int /\ At(d, 14, junk) \in Int
    <2>1. v \in Int /\ x \in Int BY Raws5, SMT DEF Between
    <2>2. At(d, 13, junk) = v \div 8 /\ At(d, 14, junk) = 32 * (v % 8) + x BY Bytes5, SMT
    <2>3. QED BY <2>1, <2>2, SMT
  <1>8. r.battery_voltage = {u + 1600 : u \in m.voltage}
    <2>1. r.battery_voltage = IF v = NoVoltage THEN {} ELSE {1600 + v}
      BY <1>1, <1>7, <1>12, SharedFields, SMT
    <2>2. CASE m.voltage = {} /\ v = NoVoltage BY <2>1, <2>2, SMT
    <2>3. CASE m.voltage = {v} /\ v \in Between(0, 2046)
      BY <2>1, <2>3, SMT DEF Between, NoVoltage
    <2>4. QED BY <2>2, <2>3, Plain5, SMT DEF Plain
  <1>9. r.tx_power = {2 * u - 40 : u \in m.tx}
    <2>1. r.tx_power = IF x = NoPower THEN {} ELSE {2 * x - 40}
      BY <1>1, <1>7, <1>12, SharedFields, SMT
    <2>2. CASE m.tx = {} /\ x = NoPower BY <2>1, <2>2, SMT
    <2>3. CASE m.tx = {x} /\ x \in Between(0, 30)
      BY <2>1, <2>3, SMT DEF Between, NoPower
    <2>4. QED BY <2>2, <2>3, Plain5, SMT DEF Plain
  <1>10. r.movement = m.movement /\ r.sequence = m.sequence
    <2>1. At(d, 15, junk) = m.movement BY Bytes5, SMT
    <2>2. Word(d, 16, junk) = m.sequence BY Words5, SMT
    <2>3. QED BY <1>1, <2>1, <2>2
  <1>11. QED BY <1>2, <1>4, <1>5, <1>6, <1>8, <1>9, <1>10

\* What the decoder returns for a packet with the bytes of m's.
LEMMA Decoded5 ==
    ASSUME NEW m \in Measurements5, NEW d, NEW junk, Carries(d, m, junk),
           NEW c, c = convert_data_format_5(d, m.sender, junk)
    PROVE  /\ c.readings = Readings5(d, junk)
           /\ c.contains_errors <=> Flawed(m)
           /\ c.mac = IF m.mac = m.sender THEN m.sender ELSE <<>>
           /\ c # <<>>
  <1> DEFINE r == Readings5(d, junk)
  <1>1. [i \in 1..6 |-> At(d, 17 + i, junk)] = m.mac BY Mac5
  <1>2. /\ c = [readings |-> r,
                mac |-> IF m.mac = m.sender THEN m.mac ELSE <<>>,
                contains_errors |-> ~Complete5(r) \/ m.mac # m.sender]
    BY <1>1, Zenon DEF convert_data_format_5
  <1>3. /\ r.temperature = m.temperature
        /\ r.humidity = {h \in m.humidity : h <= 40000}
        /\ r.pressure = {p + 50000 : p \in m.pressure}
        /\ r.acceleration = [x |-> m.acceleration["x"], y |-> m.acceleration["y"],
                             z |-> m.acceleration["z"]]
        /\ r.battery_voltage = {v + 1600 : v \in m.voltage}
        /\ r.tx_power = {2 * x - 40 : x \in m.tx}
    BY Unpacked5, SMT
  <1>4. \A h \in m.humidity : h \in Int
    <2>1. m.humidity \subseteq Between(0, 65534) BY Measured5, SMT DEF Reading
    <2>2. QED BY <2>1, SMT DEF Between
  <1>5. Complete5(r) <=>
            /\ m.temperature # {} /\ r.humidity # {} /\ m.pressure # {}
            /\ m.acceleration["x"] # {} /\ m.acceleration["y"] # {}
            /\ m.acceleration["z"] # {} /\ m.voltage # {} /\ m.tx # {}
    <2>1. r.pressure # {} <=> m.pressure # {} BY <1>3, SMT
    <2>2. r.battery_voltage # {} <=> m.voltage # {} BY <1>3, SMT
    <2>3. r.tx_power # {} <=> m.tx # {} BY <1>3, SMT
    <2>4. (\A a \in DOMAIN r.acceleration : r.acceleration[a] # {}) <=>
              /\ m.acceleration["x"] # {} /\ m.acceleration["y"] # {}
              /\ m.acceleration["z"] # {}
      BY <1>3, SMT
    <2> HIDE DEF r
    <2>5. QED BY <1>3, <2>1, <2>2, <2>3, <2>4, SMT DEF Complete5, Available
  <1>6. r.humidity # {} <=> ~(\A h \in m.humidity : h > 40000) BY <1>3, <1>4, SMT
  <1> HIDE DEF r
  <1>7. c.contains_errors <=> ~Complete5(r) \/ m.mac # m.sender
    <2> DEFINE e == ~Complete5(r) \/ m.mac # m.sender
               k == IF m.mac = m.sender THEN m.mac ELSE <<>>
    <2>1. c = [readings |-> r, mac |-> k, contains_errors |-> e] BY <1>2, Zenon
    <2> HIDE DEF e, k
    <2>2. c.contains_errors = e BY <2>1
    <2>3. QED BY <2>2, Zenon DEF e
  <1>8. c.contains_errors <=> Flawed(m) BY <1>5, <1>6, <1>7, SMT DEF Flawed
  <1>9. c # <<>>
    <2>1. "mac" \in DOMAIN c BY <1>2, SMT
    <2>2. DOMAIN <<>> = {} BY SMT
    <2>3. QED BY <2>1, <2>2
  <1>10. c.readings = r /\ c.mac = IF m.mac = m.sender THEN m.sender ELSE <<>>
    BY <1>2, SMT
  <1>11. QED BY <1>8, <1>9, <1>10 DEF r

-----------------------------------------------------------------------------
(* The steps that decode with format 5.                                     *)

\* A packet is made of bytes.
LEMMA PackBytes ==
    ASSUME NEW m \in Measurements5
    PROVE  \A i \in 1..23 : Pack5(m)[i + 1] \in Byte
  <1>1. \A w \in UInt16 : High(w) \in Byte /\ Low(w) \in Byte BY WordOf
  <1>2. \A v \in Between(0, 2047), x \in Between(0, 31) :
            v \div 8 \in Byte /\ 32 * (v % 8) + x \in Byte
    BY SMT DEF Between, Byte
  <1>3. /\ Raw(m.voltage, NoVoltage) \div 8 \in Byte
        /\ 32 * (Raw(m.voltage, NoVoltage) % 8) + Raw(m.tx, NoPower) \in Byte
    BY <1>2, Raws5
  <1>4. \A i \in 1..17 : Payload5(m)[i + 1] \in Byte
    BY <1>1, <1>3, Raws5, Measured5 DEF Payload5
  <1>5. \A i \in 1..6 : m.mac[i] \in Byte BY Measured5
  <1>6. SUFFICES ASSUME NEW i \in 1..23 PROVE Pack5(m)[i + 1] \in Byte OBVIOUS
  <1>7. CASE i <= 17
    <2>1. i \in 1..17 BY <1>7
    <2>2. QED BY <2>1, <1>4, Payload
  <1>8. CASE i > 17
    <2>1. i - 17 \in 1..6 /\ (i - 17) + 18 = i + 1 BY <1>8
    <2>2. QED BY <2>1, <1>5, Payload
  <1>9. QED BY <1>7, <1>8

\* Every call of convert_data_format_5() is for some measurement; a packet of
\* 24 bytes carries it.
LEMMA Called5 ==
    ASSUME Receive5 \/ ReceiveOther
    PROVE  \E m \in Measurements5, junk \in Beyond : \E d :
               /\ measured' = m /\ Decode5(d, m.sender, junk)
               /\ well_formed' <=> Len(d) = 24 /\ d[1] = 5
               /\ Len(d) = 24 => Carries(d, m, junk)
               /\ \A i \in 1..23 : At(d, i, junk) \in Byte
  <1>1. ASSUME NEW m \in Measurements5
        PROVE  Len(Pack5(m)) = 24 /\ Pack5(m)[1] = 5
    <2>1. Len(Pack5(m)) = 24 BY SMT DEF Pack5
    <2>2. Pack5(m)[1] = Payload5(m)[1] BY SMT DEF Pack5
    <2>3. Payload5(m)[1] = 5 BY DEF Payload5
    <2>4. QED BY <2>1, <2>2, <2>3
  <1>2. ASSUME NEW m \in Measurements5, NEW junk \in Beyond, measured' = m,
               well_formed' = TRUE, Decode5(Pack5(m), m.sender, junk)
        PROVE  \E d : /\ Decode5(d, m.sender, junk)
                      /\ well_formed' <=> Len(d) = 24 /\ d[1] = 5
                      /\ Len(d) = 24 => Carries(d, m, junk)
                      /\ \A i \in 1..23 : At(d, i, junk) \in Byte
    <2>1. Len(Pack5(m)) = 24 BY <1>1
    <2>2. \A i \in 1..23 : At(Pack5(m), i, junk) = Pack5(m)[i + 1] BY <2>1, SMT DEF At
    <2>3. Carries(Pack5(m), m, junk) BY <2>2 DEF Carries
    <2>4. \A i \in 1..23 : At(Pack5(m), i, junk) \in Byte BY <2>2, PackBytes
    <2>5. QED BY <1>1, <1>2, <2>3, <2>4
  <1>3. ASSUME NEW m \in Measurements5, NEW junk \in Beyond, NEW n \in Lengths,
               NEW h \in Headers, well_formed' = (n = 24 /\ h = 5),
               NEW d, d = [i \in 1..n |-> IF i = 1 THEN h
                                          ELSE IF i <= 24 THEN Pack5(m)[i] ELSE 0],
               Decode5(d, m.sender, junk)
        PROVE  /\ well_formed' <=> Len(d) = 24 /\ d[1] = 5
               /\ Len(d) = 24 => Carries(d, m, junk)
               /\ \A i \in 1..23 : At(d, i, junk) \in Byte
    <2>1. n \in Nat \ {0} BY MeasurementAssumption, SMT
    <2>2. Len(d) = n BY <1>3, <2>1, SMT
    <2>3. d[1] = h BY <1>3, <2>1, SMT
    <2>4. ASSUME n = 24 PROVE Carries(d, m, junk)
      <3>1. \A i \in 1..23 : d[i + 1] = Pack5(m)[i + 1] BY <1>3, <2>4, SMT
      <3>2. \A i \in 1..23 : At(d, i, junk) = d[i + 1] BY <2>2, <2>4, SMT DEF At
      <3>3. QED BY <3>1, <3>2 DEF Carries
    <2>5. ASSUME NEW i \in 1..23 PROVE At(d, i, junk) \in Byte
      <3>1. CASE i < n
        <4>1. d[i + 1] = Pack5(m)[i + 1] BY <1>3, <2>1, <3>1, SMT
        <4>2. QED BY <4>1, <3>1, <2>2, PackBytes DEF At
      <3>2. CASE ~(i < n)
        <4>0. Beyond \subseteq [0..23 -> Byte] BY MeasurementAssumption
        <4>1. junk \in [0..23 -> Byte] BY <4>0
        <4>2. junk[i] \in Byte BY <4>1, SMT
        <4>3. QED BY <4>2, <3>2, <2>2 DEF At
      <3>3. QED BY <3>1, <3>2
    <2>6. QED BY <1>3, <2>2, <2>3, <2>4, <2>5
  <1>4. CASE Receive5 BY <1>2, <1>4, Zenon DEF Receive5
  <1>5. CASE ReceiveOther
    <2>1. PICK m \in Measurements5, n \in Lengths, h \in Headers, junk \in Beyond :
              /\ measured' = m /\ well_formed' = (n = 24 /\ h = 5)
              /\ Decode5([i \in 1..n |-> IF i = 1 THEN h
                                        ELSE IF i <= 24 THEN Pack5(m)[i] ELSE 0],
                         m.sender, junk)
      BY <1>5, Zenon DEF ReceiveOther
    <2> DEFINE d == [i \in 1..n |-> IF i = 1 THEN h
                                    ELSE IF i <= 24 THEN Pack5(m)[i] ELSE 0]
    <2>2. Decode5(d, m.sender, junk) BY <2>1
    <2>3. /\ well_formed' <=> Len(d) = 24 /\ d[1] = 5
          /\ Len(d) = 24 => Carries(d, m, junk)
          /\ \A i \in 1..23 : At(d, i, junk) \in Byte
      BY <2>1, <1>3, Zenon
    <2> HIDE DEF d
    <2>4. QED BY <2>1, <2>2, <2>3, Zenon
  <1>6. QED BY <1>4, <1>5

LEMMA Outcome5 ==
    ASSUME Receive5 \/ ReceiveOther
    PROVE  \E m \in Measurements5, junk \in Beyond :
             /\ format' = 5 /\ measured' = m
             /\ well_formed' <=> Len(bytes') = 24 /\ bytes'[1] = 5
             /\ ~well_formed' /\ throw_on_error' => decoded' = <<>>
             /\ well_formed' =>
                    /\ Carries(bytes', m, junk)
                    /\ decoded' = IF throw_on_error' /\ Flawed(m) THEN <<>>
                                  ELSE convert_data_format_5(bytes', m.sender, junk)
  <1>1. PICK m \in Measurements5, junk \in Beyond : \E d :
            /\ measured' = m /\ Decode5(d, m.sender, junk)
            /\ well_formed' <=> Len(d) = 24 /\ d[1] = 5
            /\ Len(d) = 24 => Carries(d, m, junk)
    BY Called5
  <1> DEFINE c == convert_data_format_5(bytes', m.sender, junk)
  <1>2. /\ format' = 5 /\ measured' = m
        /\ decoded' = IF /\ throw_on_error'
                         /\ Len(bytes') # 24 \/ bytes'[1] # 5 \/ c.contains_errors
                      THEN <<>> ELSE c
    BY <1>1, Zenon DEF Decode5
  <1>3. /\ well_formed' <=> Len(bytes') = 24 /\ bytes'[1] = 5
        /\ Len(bytes') = 24 => Carries(bytes', m, junk)
    BY <1>1, Zenon DEF Decode5
  <1>4. well_formed' => (c.contains_errors <=> Flawed(m)) BY <1>3, Decoded5
  <1> HIDE DEF c
  <1>5. /\ ~well_formed' /\ throw_on_error' => decoded' = <<>>
        /\ well_formed' => decoded' = IF throw_on_error' /\ Flawed(m) THEN <<>> ELSE c
    BY <1>2, <1>3, <1>4, Zenon
  <1>6. QED BY <1>2, <1>3, <1>5, Zenon DEF c

\* Whatever holds when nothing, or a packet of another format, was received.
LEMMA Elsewhere ==
    /\ Init => Reads5 /\ Flags5 /\ Strict5
    /\ Receive3 => Reads5' /\ Flags5' /\ Strict5'
  <1>1. Init => format = 0 BY DEF Init
  <1>2. Receive3 => format' = 3 BY DEF Receive3
  <1>3. QED BY <1>1, <1>2, SMT DEF Reads5, Flags5, Strict5, Good, Returned

LEMMA Reads5Step == ASSUME Receive5 \/ ReceiveOther PROVE Reads5'
  <1>1. PICK m \in Measurements5, junk \in Beyond :
            /\ measured' = m
            /\ well_formed' =>
                   /\ Carries(bytes', m, junk)
                   /\ decoded' = IF throw_on_error' /\ Flawed(m) THEN <<>>
                                 ELSE convert_data_format_5(bytes', m.sender, junk)
    BY Outcome5
  <1>2. SUFFICES ASSUME well_formed', decoded' # <<>>
                 PROVE  LET r == decoded'.readings IN
                        /\ r.temperature = m.temperature
                        /\ r.humidity = {h \in m.humidity : h <= 40000}
                        /\ r.pressure = {p + 50000 : p \in m.pressure}
                        /\ \A a \in {"x", "y", "z"} : r.acceleration[a] = m.acceleration[a]
                        /\ r.battery_voltage = {v + 1600 : v \in m.voltage}
                        /\ r.tx_power = {2 * x - 40 : x \in m.tx}
                        /\ r.movement = m.movement /\ r.sequence = m.sequence
    BY <1>1, SMT DEF Reads5, Good, Returned
  <1> DEFINE r == Readings5(bytes', junk)
  <1>3. Carries(bytes', m, junk) /\ decoded' = convert_data_format_5(bytes', m.sender, junk)
    BY <1>1, <1>2
  <1>4. decoded'.readings = r BY <1>3, Decoded5
  <1>5. /\ r.temperature = m.temperature
        /\ r.humidity = {h \in m.humidity : h <= 40000}
        /\ r.pressure = {p + 50000 : p \in m.pressure}
        /\ r.acceleration = [x |-> m.acceleration["x"], y |-> m.acceleration["y"],
                             z |-> m.acceleration["z"]]
        /\ r.battery_voltage = {v + 1600 : v \in m.voltage}
        /\ r.tx_power = {2 * x - 40 : x \in m.tx}
        /\ r.movement = m.movement /\ r.sequence = m.sequence
    BY <1>3, Unpacked5, SMT
  <1> HIDE DEF r
  <1>6. \A a \in {"x", "y", "z"} : r.acceleration[a] = m.acceleration[a] BY <1>5, SMT
  <1>7. QED BY <1>4, <1>5, <1>6, SMT

LEMMA Flags5Step == ASSUME Receive5 \/ ReceiveOther PROVE Flags5'
  <1>1. PICK m \in Measurements5, junk \in Beyond :
            /\ measured' = m
            /\ well_formed' =>
                   /\ Carries(bytes', m, junk)
                   /\ decoded' = IF throw_on_error' /\ Flawed(m) THEN <<>>
                                 ELSE convert_data_format_5(bytes', m.sender, junk)
    BY Outcome5
  <1>2. well_formed' /\ decoded' # <<>> =>
            /\ decoded'.contains_errors <=> Flawed(m)
            /\ decoded'.mac = IF m.mac = m.sender THEN m.sender ELSE <<>>
    BY <1>1, Decoded5
  <1>3. QED BY <1>1, <1>2, Zenon DEF Flags5, Good, Returned

LEMMA Strict5Step == ASSUME Receive5 \/ ReceiveOther PROVE Strict5'
  <1>1. PICK m \in Measurements5, junk \in Beyond :
            /\ measured' = m
            /\ well_formed' <=> Len(bytes') = 24 /\ bytes'[1] = 5
            /\ ~well_formed' /\ throw_on_error' => decoded' = <<>>
            /\ well_formed' =>
                   /\ Carries(bytes', m, junk)
                   /\ decoded' = IF throw_on_error' /\ Flawed(m) THEN <<>>
                                 ELSE convert_data_format_5(bytes', m.sender, junk)
    BY Outcome5
  <1>2. identify_format(RuuviId, bytes') = 5 <=> bytes'[1] = 5 BY SMT DEF identify_format, unknown_format
  <1>3. well_formed' => convert_data_format_5(bytes', m.sender, junk) # <<>>
    BY <1>1, Decoded5
  <1>4. throw_on_error' =>
            (decoded' # <<>> <=> identify_format(RuuviId, bytes') = 5 /\ Len(bytes') = 24 /\ ~Flawed(m))
    BY <1>1, <1>2, <1>3, Zenon
  <1>5. QED BY <1>1, <1>4, Zenon DEF Strict5


\* Whatever the bytes, format 5 reads values within its ranges.
LEMMA Ranges5 ==
    ASSUME NEW d, NEW junk, \A i \in 1..23 : At(d, i, junk) \in Byte,
           NEW r, r = Readings5(d, junk)
    PROVE  /\ r.temperature \subseteq Signed15
           /\ r.humidity \subseteq Between(0, 40000)
           /\ r.pressure \subseteq Between(50000, 115534)
           /\ \A a \in DOMAIN r.acceleration : r.acceleration[a] \subseteq Signed15
           /\ r.battery_voltage \subseteq Between(1600, 3646)
           /\ r.tx_power \subseteq Between(-40, 20)
           /\ r.movement \in Byte /\ r.sequence \in UInt16
  <1>1. ASSUME NEW i \in 1..22 PROVE Word(d, i, junk) \in UInt16
    <2>1. At(d, i, junk) \in Byte /\ At(d, i + 1, junk) \in Byte BY SMT
    <2>2. QED BY <2>1, SMT DEF Word, Byte, UInt16, Between
  <1>2. \A w \in UInt16 : Unless(w = NoSigned, Signed(w)) \subseteq Signed15
    BY SMT DEF Unless, NoSigned, Signed, UInt16, Signed15, Between
  <1>3. \A w \in UInt16 : Unless(w > 40000, w) \subseteq Between(0, 40000)
    BY SMT DEF Unless, UInt16, Between
  <1>4. \A w \in UInt16 : Unless(w = NoWord, w + 50000) \subseteq Between(50000, 115534)
    BY SMT DEF Unless, NoWord, UInt16, Between
  <1>5. \A b, c \in Byte : Voltage(b, c) \subseteq Between(1600, 3646)
    BY SMT DEF Unless, Voltage, NoVoltage, Byte, Between
  <1>6. \A b \in Byte : TxPower(b) \subseteq Between(-40, 20)
    BY SMT DEF Unless, TxPower, NoPower, Byte, Between
  <1>7. \A w \in UInt16 : Acceleration(w) \subseteq Signed15 BY <1>2 DEF Acceleration
  <1>8. /\ r.temperature = Unless(Word(d, 1, junk) = NoSigned, Signed(Word(d, 1, junk)))
        /\ r.humidity = Unless(Word(d, 3, junk) > 40000, Word(d, 3, junk))
        /\ r.pressure = Unless(Word(d, 5, junk) = NoWord, Word(d, 5, junk) + 50000)
        /\ r.acceleration = [x |-> Acceleration(Word(d, 7, junk)),
                             y |-> Acceleration(Word(d, 9, junk)),
                             z |-> Acceleration(Word(d, 11, junk))]
        /\ r.battery_voltage = Voltage(At(d, 13, junk), At(d, 14, junk))
        /\ r.tx_power = TxPower(At(d, 14, junk))
        /\ r.movement = At(d, 15, junk) /\ r.sequence = Word(d, 16, junk)
    BY SMT DEF Readings5
  <1>9. /\ Word(d, 1, junk) \in UInt16 /\ Word(d, 3, junk) \in UInt16
        /\ Word(d, 5, junk) \in UInt16 /\ Word(d, 7, junk) \in UInt16
        /\ Word(d, 9, junk) \in UInt16 /\ Word(d, 11, junk) \in UInt16
        /\ Word(d, 16, junk) \in UInt16
    BY <1>1
  <1>10. /\ At(d, 13, junk) \in Byte /\ At(d, 14, junk) \in Byte /\ At(d, 15, junk) \in Byte
    BY SMT
  <1>11. r.temperature \subseteq Signed15 BY <1>2, <1>8, <1>9, SMT
  <1>12. r.humidity \subseteq Between(0, 40000) BY <1>3, <1>8, <1>9, SMT
  <1>13. r.pressure \subseteq Between(50000, 115534) BY <1>4, <1>8, <1>9, SMT
  <1>14. \A a \in DOMAIN r.acceleration : r.acceleration[a] \subseteq Signed15
    BY <1>7, <1>8, <1>9, SMT
  <1>15. r.battery_voltage \subseteq Between(1600, 3646) BY <1>5, <1>8, <1>10, SMT
  <1>16. r.tx_power \subseteq Between(-40, 20) BY <1>6, <1>8, <1>10, SMT
  <1>17. QED BY <1>8, <1>9, <1>10, <1>11, <1>12, <1>13, <1>14, <1>15, <1>16, SMT

LEMMA TypeOKStep == ASSUME Receive5 \/ ReceiveOther PROVE TypeOK'
  <1>1. PICK m \in Measurements5, junk \in Beyond : \E d :
            /\ measured' = m /\ Decode5(d, m.sender, junk)
            /\ \A i \in 1..23 : At(d, i, junk) \in Byte
    BY Called5
  <1>2. PICK d : /\ measured' = m /\ Decode5(d, m.sender, junk)
                 /\ \A i \in 1..23 : At(d, i, junk) \in Byte
    BY <1>1
  <1> DEFINE c == convert_data_format_5(d, m.sender, junk)
             r == Readings5(d, junk)
  <1>3. decoded' = <<>> \/ decoded' = c BY <1>2, Zenon DEF Decode5
  <1>4. c.readings = r BY Zenon DEF convert_data_format_5
  <1>5. c.mac \in {<<>>, m.sender} BY SMT DEF convert_data_format_5
  <1>6. c.contains_errors \in BOOLEAN BY SMT DEF convert_data_format_5
  <1> HIDE DEF c
  <1>7. /\ r.temperature \subseteq Signed15
        /\ r.humidity \subseteq Between(0, 40000)
        /\ r.pressure \subseteq Between(50000, 115534)
        /\ \A a \in DOMAIN r.acceleration : r.acceleration[a] \subseteq Signed15
        /\ r.battery_voltage \subseteq Between(1600, 3646)
        /\ r.tx_power \subseteq Between(-40, 20)
        /\ r.movement \in Byte /\ r.sequence \in UInt16
    BY <1>2, Ranges5, SMT
  <1> HIDE DEF r
  <1>8. CASE decoded' = <<>> BY <1>8, SMT DEF TypeOK, Returned
  <1>9. CASE decoded' = c
    BY <1>2, <1>4, <1>5, <1>6, <1>7, <1>9, SMT DEF TypeOK, Returned
  <1>10. QED BY <1>3, <1>8, <1>9

-----------------------------------------------------------------------------
(* Format 5: what the decoder returns.                                      *)

\* Whatever bytes arrive, convert_data_format_5() returns values within the ranges
\* their units have: no invalid mark comes out as a reading.
THEOREM InRange5 == Spec => []TypeOK
  <1>1. Init => TypeOK BY SMT DEF Init, TypeOK, Returned
  <1>2. Receive3 => TypeOK' BY SMT DEF Receive3, TypeOK, Returned
  <1>3. TypeOK /\ [Next]_vars => TypeOK'
    <2>1. CASE Next BY <2>1, <1>2, TypeOKStep DEF Next
    <2>2. CASE UNCHANGED vars BY <2>2, SMT DEF vars, TypeOK, Returned
    <2>3. QED BY <2>1, <2>2
  <1>4. QED BY <1>1, <1>3, PTL DEF Spec

\* convert_data_format_5() reads back every measurement that a tag can pack, each
\* value by itself, missing ones included.
THEOREM ReadsBack5 == Spec => []Reads5
  <1>1. Init => Reads5 BY Elsewhere
  <1>2. Reads5 /\ [Next]_vars => Reads5'
    <2>1. CASE Next BY <2>1, Elsewhere, Reads5Step DEF Next
    <2>2. CASE UNCHANGED vars BY <2>2, SMT DEF vars, Reads5, Good, Returned
    <2>3. QED BY <2>1, <2>2
  <1>3. QED BY <1>1, <1>2, PTL DEF Spec

\* It flags a packet of format 5 exactly when a value is missing or another tag's
\* MAC is in it, and only then withholds the MAC.
THEOREM FlagsErrors5 == Spec => []Flags5
  <1>1. Init => Flags5 BY Elsewhere
  <1>2. Flags5 /\ [Next]_vars => Flags5'
    <2>1. CASE Next BY <2>1, Elsewhere, Flags5Step DEF Next
    <2>2. CASE UNCHANGED vars BY <2>2, Zenon DEF vars, Flags5, Good, Returned
    <2>3. QED BY <2>1, <2>2
  <1>3. QED BY <1>1, <1>2, PTL DEF Spec

\* With throw_on_error it returns exactly for complete packets of format 5 and of
\* its length.
THEOREM StrictWhenThrowing5 == Spec => []Strict5
  <1>1. Init => Strict5 BY Elsewhere
  <1>2. Strict5 /\ [Next]_vars => Strict5'
    <2>1. CASE Next BY <2>1, Elsewhere, Strict5Step DEF Next
    <2>2. CASE UNCHANGED vars BY <2>2, Zenon DEF vars, Strict5
    <2>3. QED BY <2>1, <2>2
  <1>3. QED BY <1>1, <1>2, PTL DEF Spec

-----------------------------------------------------------------------------
(* Format 3.                                                                *)

LEMMA Measured3 ==
    ASSUME NEW m \in Measurements3
    PROVE  /\ m.humidity \in Byte /\ m.temperature \in Between(-12799, 12799)
           /\ m.pressure \in UInt16 /\ m.voltage \in UInt16
           /\ m.acceleration \in [1..3 -> Between(-32768, 32767)]
  BY MeasurementAssumption, SMT

\* A signed word survives its sixteen bits.
LEMMA SignedWord ==
    ASSUME NEW v \in Between(-32768, 32767)
    PROVE  v % 65536 \in UInt16 /\ Signed(v % 65536) = v
  <1>1. v \in Int /\ -32768 <= v /\ v < 65536 /\ v < 32768 BY SMT DEF Between
  <1>2. v % 65536 = IF v < 0 THEN v + 65536 ELSE v BY <1>1, Mod16, SMT
  <1>3. QED BY <1>1, <1>2, SMT DEF Signed, UInt16, Between

\* A sign, a magnitude and a fraction give back the temperature.
LEMMA SignMagnitude ==
    ASSUME NEW v \in Between(-12799, 12799),
           NEW size, size = IF v < 0 THEN -v ELSE v
    PROVE  /\ size % 100 \in Between(0, 99)
           /\ Centigrade((IF v < 0 THEN 128 ELSE 0) + size \div 100, size % 100) = v
  <1>1. v \in Int /\ size \in Int /\ 0 <= size /\ size < 12800 BY SMT DEF Between
  <1> DEFINE whole == size \div 100
             part  == size % 100
  <1>2. /\ whole \in Int /\ part \in Int /\ size = 100 * whole + part
        /\ 0 <= part /\ part < 100
    BY <1>1, SMT
  <1>3. 0 <= whole /\ whole < 128 BY <1>1, <1>2, SMT
  <1> HIDE DEF whole, part
  <1>4. v < 0 => Centigrade(128 + whole, part) = v
    BY <1>1, <1>2, <1>3, SMT DEF Centigrade
  <1>5. v >= 0 => Centigrade(0 + whole, part) = v
    BY <1>1, <1>2, <1>3, SMT DEF Centigrade
  <1>6. part \in Between(0, 99) BY <1>2, SMT DEF Between
  <1>7. QED BY <1>1, <1>4, <1>5, <1>6, SMT DEF whole, part

\* Every value of a packet of format 3 is read back.
LEMMA Unpacked3 ==
    ASSUME NEW m \in Measurements3, NEW junk,
           NEW r, r = Readings3(Pack3(m), junk)
    PROVE  /\ r.temperature = {m.temperature}
           /\ r.humidity = IF m.humidity > 200 THEN {} ELSE {m.humidity}
           /\ r.pressure = m.pressure + 50000
           /\ r.acceleration = [x |-> m.acceleration[1], y |-> m.acceleration[2],
                                z |-> m.acceleration[3]]
           /\ r.battery_voltage = m.voltage
  <1> DEFINE d    == Pack3(m)
             size == IF m.temperature < 0 THEN -m.temperature ELSE m.temperature
  <1>1. /\ Len(d) = 14
        /\ d[2] = m.humidity
        /\ d[3] = (IF m.temperature < 0 THEN 128 ELSE 0) + size \div 100
        /\ d[4] = size % 100
        /\ d[5] = High(m.pressure) /\ d[6] = Low(m.pressure)
        /\ d[7] = High(m.acceleration[1] % 65536) /\ d[8] = Low(m.acceleration[1] % 65536)
        /\ d[9] = High(m.acceleration[2] % 65536) /\ d[10] = Low(m.acceleration[2] % 65536)
        /\ d[11] = High(m.acceleration[3] % 65536) /\ d[12] = Low(m.acceleration[3] % 65536)
        /\ d[13] = High(m.voltage) /\ d[14] = Low(m.voltage)
    BY SMT DEF Pack3
  <1> HIDE DEF d
  <1>2. \A i \in 0..13 : At(d, i, junk) = d[i + 1] BY <1>1, SMT DEF At
  <1>3. \A w \in UInt16 : 256 * High(w) + Low(w) = w BY WordOf
  <1>4. \A i \in 1..3 :
            /\ m.acceleration[i] % 65536 \in UInt16
            /\ Signed(m.acceleration[i] % 65536) = m.acceleration[i]
    BY Measured3, SignedWord, SMT
  <1>5. Word(d, 4, junk) = m.pressure
    <2>1. Word(d, 4, junk) = 256 * At(d, 4, junk) + At(d, 5, junk) BY SMT DEF Word
    <2>2. At(d, 4, junk) = d[5] /\ At(d, 5, junk) = d[6] BY <1>2, SMT
    <2>3. m.pressure \in UInt16 BY Measured3, SMT
    <2>4. QED BY <2>1, <2>2, <2>3, <1>1, <1>3, SMT
  <1>6. Word(d, 12, junk) = m.voltage
    <2>1. Word(d, 12, junk) = 256 * At(d, 12, junk) + At(d, 13, junk) BY SMT DEF Word
    <2>2. At(d, 12, junk) = d[13] /\ At(d, 13, junk) = d[14] BY <1>2, SMT
    <2>3. m.voltage \in UInt16 BY Measured3, SMT
    <2>4. QED BY <2>1, <2>2, <2>3, <1>1, <1>3, SMT
  <1>7. /\ Word(d, 6, junk) = m.acceleration[1] % 65536
        /\ Word(d, 8, junk) = m.acceleration[2] % 65536
        /\ Word(d, 10, junk) = m.acceleration[3] % 65536
    <2>1. /\ Word(d, 6, junk) = 256 * At(d, 6, junk) + At(d, 7, junk)
          /\ Word(d, 8, junk) = 256 * At(d, 8, junk) + At(d, 9, junk)
          /\ Word(d, 10, junk) = 256 * At(d, 10, junk) + At(d, 11, junk)
      BY SMT DEF Word
    <2>2. /\ At(d, 6, junk) = d[7] /\ At(d, 7, junk) = d[8]
          /\ At(d, 8, junk) = d[9] /\ At(d, 9, junk) = d[10]
          /\ At(d, 10, junk) = d[11] /\ At(d, 11, junk) = d[12]
      BY <1>2, SMT
    <2>3. /\ m.acceleration[1] % 65536 \in UInt16 /\ m.acceleration[2] % 65536 \in UInt16
          /\ m.acceleration[3] % 65536 \in UInt16
      BY <1>4, SMT
    <2>4. QED BY <2>1, <2>2, <2>3, <1>1, <1>3, SMT
  <1>8. /\ r.humidity = Unless(At(d, 1, junk) > 200, At(d, 1, junk))
        /\ r.temperature = Unless(At(d, 3, junk) > 99,
                                  Centigrade(At(d, 2, junk), At(d, 3, junk)))
        /\ r.pressure = Word(d, 4, junk) + 50000
        /\ r.acceleration = [x |-> Signed(Word(d, 6, junk)), y |-> Signed(Word(d, 8, junk)),
                             z |-> Signed(Word(d, 10, junk))]
        /\ r.battery_voltage = Word(d, 12, junk)
    BY SMT DEF Readings3, d
  <1>9. r.humidity = IF m.humidity > 200 THEN {} ELSE {m.humidity}
    BY <1>1, <1>2, <1>8, SMT DEF Unless
  <1>10. r.temperature = {m.temperature}
    <2>1. /\ size % 100 \in Between(0, 99)
          /\ Centigrade((IF m.temperature < 0 THEN 128 ELSE 0) + size \div 100, size % 100)
                = m.temperature
      BY Measured3, SignMagnitude, SMT
    <2>2. At(d, 2, junk) = d[3] /\ At(d, 3, junk) = d[4] BY <1>2, SMT
    <2>3. ~(At(d, 3, junk) > 99) BY <2>1, <2>2, <1>1, SMT DEF Between
    <2>4. Centigrade(At(d, 2, junk), At(d, 3, junk)) = m.temperature BY <2>1, <2>2, <1>1
    <2>5. QED BY <2>3, <2>4, <1>8, SMT DEF Unless
  <1>11. r.acceleration = [x |-> m.acceleration[1], y |-> m.acceleration[2],
                           z |-> m.acceleration[3]]
    BY <1>4, <1>7, <1>8, SMT
  <1>12. QED BY <1>5, <1>6, <1>8, <1>9, <1>10, <1>11, SMT

LEMMA Reads3Step == ASSUME Receive3 PROVE Reads3'
  <1>1. PICK m \in Measurements3, junk \in Beyond :
            /\ measured' = m /\ bytes' = Pack3(m)
            /\ LET c == convert_data_format_3(bytes', m.sender, junk)
               IN  decoded' = IF throw_on_error' /\ c.contains_errors THEN <<>> ELSE c
    BY Zenon DEF Receive3
  <1> DEFINE c == convert_data_format_3(bytes', m.sender, junk)
             r == Readings3(Pack3(m), junk)
  <1>2. decoded' = IF throw_on_error' /\ c.contains_errors THEN <<>> ELSE c BY <1>1, Zenon
  <1>3. /\ r.temperature = {m.temperature}
        /\ r.humidity = IF m.humidity > 200 THEN {} ELSE {m.humidity}
        /\ r.pressure = m.pressure + 50000
        /\ r.acceleration = [x |-> m.acceleration[1], y |-> m.acceleration[2],
                             z |-> m.acceleration[3]]
        /\ r.battery_voltage = m.voltage
    BY Unpacked3, SMT
  <1>4. c.readings = r BY <1>1, Zenon DEF convert_data_format_3
  <1>5. c.contains_errors <=> ~Available(r.humidity) \/ ~Available(r.temperature)
    <2> DEFINE e == ~Available(r.humidity) \/ ~Available(r.temperature)
    <2>1. c = [readings |-> r, mac |-> m.sender, contains_errors |-> e]
      BY <1>1, Zenon DEF convert_data_format_3
    <2> HIDE DEF e, c, r
    <2>2. c.contains_errors = e BY <2>1
    <2>3. QED BY <2>2, Zenon DEF e
  <1> HIDE DEF c, r
  <1>6. m.humidity \in Int BY Measured3, SMT DEF Byte, Between
  <1>7. c.contains_errors <=> m.humidity > 200 BY <1>3, <1>5, <1>6, SMT DEF Available
  <1>8. m.acceleration = <<m.acceleration[1], m.acceleration[2], m.acceleration[3]>>
    <2>1. m.acceleration \in [1..3 -> Between(-32768, 32767)] BY Measured3, SMT
    <2>2. QED BY <2>1, SMT
  <1>9. CASE decoded' = <<>> BY <1>9, SMT DEF Reads3, Good, Returned
  <1>10. ASSUME decoded' = c, ~(throw_on_error' /\ c.contains_errors) PROVE Reads3'
    <2>1. r.humidity = {h \in {m.humidity} : h <= 200} BY <1>3, <1>6, SMT
    <2>2. <<r.acceleration.x, r.acceleration.y, r.acceleration.z>> = m.acceleration
      BY <1>3, <1>8, SMT
    <2>3. throw_on_error' => m.humidity <= 200 BY <1>6, <1>7, <1>10, SMT
    <2>4. /\ decoded'.readings = r
          /\ decoded'.contains_errors <=> m.humidity > 200
      BY <1>4, <1>7, <1>10
    <2>5. QED BY <1>1, <1>3, <2>1, <2>2, <2>3, <2>4, SMT DEF Reads3, Good, Returned
  <1>11. QED BY <1>2, <1>9, <1>10, Zenon

\* convert_data_format_3() reads back every measurement that a tag can pack, and
\* flags just the humidities above 100 %.
THEOREM ReadsBack3 == Spec => []Reads3
  <1>1. Init => Reads3 BY SMT DEF Init, Reads3, Good, Returned
  <1>2. Receive5 \/ ReceiveOther => Reads3'
    <2>1. Receive5 \/ ReceiveOther => format' = 5 BY Outcome5
    <2>2. QED BY <2>1, SMT DEF Reads3, Good, Returned
  <1>3. Reads3 /\ [Next]_vars => Reads3'
    <2>1. CASE Next BY <2>1, <1>2, Reads3Step DEF Next
    <2>2. CASE UNCHANGED vars BY <2>2, SMT DEF vars, Reads3, Good, Returned
    <2>3. QED BY <2>1, <2>2
  <1>4. QED BY <1>1, <1>3, PTL DEF Spec
=============================================================================
