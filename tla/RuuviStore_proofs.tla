-------------------------- MODULE RuuviStore_proofs --------------------------
(***************************************************************************)
(* Proofs about module RuuviStore, for any number of gauges, macs, values  *)
(* and threads of the HTTP server.                                         *)
(***************************************************************************)
EXTENDS RuuviStore, TLAPS

-----------------------------------------------------------------------------
(* What a write does to a series.                                           *)

\* Put() gives m the value v, keeps the others and makes a series of a series.
LEMMA PutSeries ==
    ASSUME NEW series, IsSeries(series), NEW m \in Macs, NEW v \in Nat
    PROVE  /\ IsSeries(Put(series, m, v))
           /\ DOMAIN Put(series, m, v) = DOMAIN series \cup {m}
           /\ Put(series, m, v)[m] = v
           /\ \A x \in DOMAIN series : x # m => Put(series, m, v)[x] = series[x]
  BY DEF IsSeries, Put

\* Count() is a number, zero for a mac without a series.
LEMMA CountNat ==
    ASSUME NEW series, IsSeries(series), NEW m
    PROVE  /\ Count(series, m) \in Nat
           /\ m \in DOMAIN series => Count(series, m) = series[m]
           /\ m \notin DOMAIN series => Count(series, m) = 0
  BY DEF IsSeries, Count

\* The families are numbered: gauges, then measurements, then errors.
LEMMA Numbers ==
    /\ Gauges \in Nat /\ Gauges >= 1
    /\ Measured \in Families /\ Errors \in Families
    /\ Measured = Gauges + 1 /\ Errors = Gauges + 2
    /\ Families \subseteq Nat
    /\ \A f \in Families : f <= Gauges \/ f = Measured \/ f = Errors
    /\ \A f \in 1..Gauges : f \in Families /\ f # Measured /\ f # Errors
    /\ \A f \in Families : f <= Gauges => f \in 1..Gauges
  BY StoreAssumption DEF Families, Measured, Errors

\* Written(f) as a function of the state it is about.
W(f, fam, d) ==
    CASE f <= Gauges  -> Put(fam[f], d.mac, d.value)
      [] f = Measured -> Put(fam[f], d.mac, Count(fam[f], d.mac) + 1)
      [] OTHER        -> Put(fam[f], d.mac,
                             Count(fam[f], d.mac) + (IF d.contains_errors THEN 1 ELSE 0))

\* What update_data() makes of family f: a series more or one changed.
LEMMA WrittenSeries ==
    ASSUME NEW fam, IsTable(fam), NEW d \in Datum, NEW f \in Families
    PROVE  /\ IsSeries(W(f, fam, d))
           /\ DOMAIN W(f, fam, d) = DOMAIN fam[f] \cup {d.mac}
           /\ \A x \in DOMAIN fam[f] : x # d.mac => W(f, fam, d)[x] = fam[f][x]
           /\ f <= Gauges => W(f, fam, d)[d.mac] = d.value
           /\ f = Measured => W(f, fam, d)[d.mac] = Count(fam[f], d.mac) + 1
           /\ f = Errors => W(f, fam, d)[d.mac] =
                 Count(fam[f], d.mac) + (IF d.contains_errors THEN 1 ELSE 0)
  <1>1. /\ IsSeries(fam[f]) /\ d.mac \in Macs /\ d.value \in Nat
        /\ d.contains_errors \in BOOLEAN
    BY StoreAssumption DEF IsTable, Datum
  <1>2. Count(fam[f], d.mac) \in Nat
    BY <1>1, CountNat
  <1> DEFINE w == W(f, fam, d)
             Was(v) == /\ w = Put(fam[f], d.mac, v) /\ v \in Nat
                       /\ f <= Gauges => v = d.value
                       /\ f = Measured => v = Count(fam[f], d.mac) + 1
                       /\ f = Errors => v = Count(fam[f], d.mac)
                                                + (IF d.contains_errors THEN 1 ELSE 0)
  <1>3. \E v \in Nat : Was(v)
    <2>1. CASE f <= Gauges
      <3>1. f # Measured /\ f # Errors
        BY <2>1, Numbers
      <3>2. Was(d.value)
        BY <2>1, <3>1, <1>1 DEF W
      <3> QED BY <3>2, <1>1
    <2>2. CASE f = Measured
      <3>1. ~(f <= Gauges) /\ f # Errors
        BY <2>2, Numbers
      <3>2. Was(Count(fam[f], d.mac) + 1)
        BY <2>2, <3>1, <1>2 DEF W
      <3> QED BY <3>2, <1>2
    <2>3. CASE f = Errors
      <3>1. ~(f <= Gauges) /\ f # Measured
        BY <2>3, Numbers
      <3>2. Was(Count(fam[f], d.mac) + (IF d.contains_errors THEN 1 ELSE 0))
        BY <2>3, <3>1, <1>2 DEF W
      <3> QED BY <3>2, <1>2
    <2> QED BY <2>1, <2>2, <2>3, Numbers
  <1>4. PICK v \in Nat : Was(v)
    BY <1>3
  <1>5. /\ IsSeries(w)
        /\ DOMAIN w = DOMAIN fam[f] \cup {d.mac}
        /\ w[d.mac] = v
        /\ \A x \in DOMAIN fam[f] : x # d.mac => w[x] = fam[f][x]
    <2> DEFINE series == fam[f]
               m == d.mac
    <2>1. w = Put(series, m, v) /\ IsSeries(series) /\ m \in Macs /\ v \in Nat
      BY <1>1, <1>4
    <2> HIDE DEF w, series, m
    <2>2. /\ IsSeries(w) /\ DOMAIN w = DOMAIN series \cup {m} /\ w[m] = v
          /\ \A x \in DOMAIN series : x # m => w[x] = series[x]
      BY <2>1, PutSeries
    <2> QED BY <2>2 DEF series, m
  <1> QED BY <1>4, <1>5

-----------------------------------------------------------------------------
(* The type invariant.                                                      *)

\* Every variable keeps its type: the numbers of update_data() and Collect()
\* never run past the last family.
THEOREM TypeCorrect == Spec => []TypeOK
  <1>1. Init => TypeOK
    BY Numbers, StoreAssumption
    DEF Init, TypeOK, IsTable, IsSeries, Empty, Families, Errors, Datum
  <1>2. TypeOK /\ [Next]_vars => TypeOK'
    <2> SUFFICES ASSUME TypeOK, [Next]_vars PROVE TypeOK'
      OBVIOUS
    <2>1. CASE UpdateBegins
      BY <2>1, Numbers, StoreAssumption DEF UpdateBegins, TypeOK, Families, Errors, IsTable
    <2>2. CASE UpdateWrites
      <3>1. todo \in Families /\ IsTable(family)
        BY DEF TypeOK
      <3>2. IsSeries(Written(todo))
        <4>1. Written(todo) = W(todo, family, data)
          BY DEF Written, W
        <4> QED BY <3>1, <4>1, WrittenSeries DEF TypeOK
      <3>3. IsTable(family')
        BY <2>2, <3>1, <3>2 DEF UpdateWrites, IsTable
      <3>4. todo' \in Families /\ mtx' \in {"free", "runner"} \cup Scrapers
        BY <2>2, <3>1, Numbers DEF UpdateWrites, TypeOK, Families, Errors
      <3> QED BY <2>2, <3>3, <3>4 DEF UpdateWrites, TypeOK
    <2>3. ASSUME NEW s \in Scrapers, CollectBegins(s) PROVE TypeOK'
      BY <2>3, Numbers DEF CollectBegins, TypeOK, Families, Errors
    <2>4. ASSUME NEW s \in Scrapers, CollectReads(s) PROVE TypeOK'
      <3>1. reading[s] \in Families
        BY <2>4 DEF CollectReads, TypeOK
      <3>2. IsTable(copy'[s]) /\ \A t \in Scrapers : t # s => copy'[t] = copy[t]
        BY <2>4, <3>1 DEF CollectReads, TypeOK, IsTable
      <3>3. copy' = [t \in Scrapers |-> copy'[t]] /\ \A t \in Scrapers : IsTable(copy'[t])
        BY <2>4, <3>2 DEF CollectReads, TypeOK
      <3>4. /\ result' = [t \in Scrapers |-> result'[t]]
            /\ \A t \in Scrapers : IsTable(result'[t])
        <4>1. CASE reading[s] = Errors
          BY <2>4, <4>1, <3>2 DEF CollectReads, TypeOK
        <4>2. CASE reading[s] # Errors
          BY <2>4, <4>2 DEF CollectReads, TypeOK
        <4> QED BY <4>1, <4>2
      <3>5. reading' \in [Scrapers -> {0} \cup Families]
        BY <2>4, <3>1, Numbers DEF CollectReads, TypeOK, Families, Errors
      <3>6. mtx' \in {"free", "runner"} \cup Scrapers
        BY <2>4 DEF CollectReads, TypeOK
      <3> QED BY <2>4, <3>3, <3>4, <3>5, <3>6 DEF CollectReads, TypeOK
    <2>5. CASE UNCHANGED vars
      BY <2>5 DEF vars, TypeOK
    <2> QED BY <2>1, <2>2, <2>3, <2>4, <2>5 DEF Next
  <1> QED BY <1>1, <1>2, PTL DEF Spec

-----------------------------------------------------------------------------
(* The lock.                                                                *)

\* Between its CollectBegins and its return a scraper holds the mutex, and what
\* it has read is what the families hold.
LockInv ==
    \A s \in Scrapers :
        /\ mtx = s <=> reading[s] # 0
        /\ \A f \in Families : f < reading[s] => copy[s][f] = family[f]

LEMMA LockStep == TypeOK /\ LockInv /\ [Next]_vars => LockInv'
  <1> SUFFICES ASSUME TypeOK, LockInv, [Next]_vars PROVE LockInv'
    OBVIOUS
  <1>0. "free" \notin Scrapers /\ "runner" \notin Scrapers
    BY StoreAssumption
  <1>1. CASE UpdateBegins
    BY <1>0, <1>1 DEF UpdateBegins, LockInv
  <1>2. CASE UpdateWrites
    <2>1. \A s \in Scrapers : reading[s] = 0
      BY <1>0, <1>2 DEF UpdateWrites, LockInv
    <2>2. mtx' \in {"free", "runner"} /\ reading' = reading /\ copy' = copy
      BY <1>2 DEF UpdateWrites
    <2> QED BY <1>0, <2>1, <2>2, Numbers DEF LockInv, Families
  <1>3. ASSUME NEW s \in Scrapers, CollectBegins(s) PROVE LockInv'
    <2>1. \A t \in Scrapers : reading[t] = 0
      BY <1>0, <1>3 DEF CollectBegins, LockInv
    <2>2. /\ mtx' = s /\ reading'[s] = 1 /\ copy' = copy /\ family' = family
          /\ \A t \in Scrapers : t # s => reading'[t] = 0
      BY <1>3, <2>1 DEF CollectBegins, TypeOK
    <2> QED BY <2>2, Numbers DEF LockInv, Families
  <1>4. ASSUME NEW s \in Scrapers, CollectReads(s) PROVE LockInv'
    <2>1. mtx = s /\ reading[s] \in Families
      BY <1>4 DEF CollectReads, LockInv, TypeOK
    <2>2. \A t \in Scrapers : t # s => reading[t] = 0 /\ reading'[t] = 0
      BY <1>4, <2>1 DEF CollectReads, LockInv, TypeOK
    <2>3. /\ family' = family
          /\ copy'[s] = [copy[s] EXCEPT ![reading[s]] = family[reading[s]]]
          /\ DOMAIN copy[s] = Families
      BY <1>4 DEF CollectReads, TypeOK, IsTable
    <2>4. \A f \in Families : f < reading[s] => copy[s][f] = family[f]
      BY DEF LockInv
    <2>5. CASE reading[s] = Errors
      <3>1. mtx' = "free" /\ reading'[s] = 0
        BY <1>4, <2>5 DEF CollectReads, TypeOK
      <3> QED BY <1>0, <2>2, <3>1, Numbers DEF LockInv, Families
    <2>6. CASE reading[s] # Errors
      <3>1. mtx' = s /\ reading'[s] = reading[s] + 1
        BY <1>4, <2>1, <2>6 DEF CollectReads, TypeOK
      <3>2. ASSUME NEW f \in Families, f < reading[s] + 1 PROVE copy'[s][f] = family[f]
        <4>1. f \in Nat /\ reading[s] \in Nat
          BY <2>1 DEF Families
        <4>2. f = reading[s] \/ (f # reading[s] /\ f < reading[s])
          BY <3>2, <4>1
        <4> QED BY <2>1, <2>3, <2>4, <4>2
      <3>3. \A t \in Scrapers : t # s => \A f \in Families : ~(f < reading'[t])
        BY <2>2, Numbers DEF Families
      <3>4. mtx' = s /\ reading'[s] # 0
        <4>1. reading[s] \in Nat
          BY <2>1 DEF Families
        <4> QED BY <3>1, <4>1
      <3>5. \A f \in Families : f < reading'[s] => copy'[s][f] = family'[f]
        BY <2>3, <3>1, <3>2
      <3> QED BY <2>2, <3>3, <3>4, <3>5 DEF LockInv
    <2> QED BY <2>5, <2>6
  <1>5. CASE UNCHANGED vars
    BY <1>5 DEF vars, LockInv
  <1> QED BY <1>1, <1>2, <1>3, <1>4, <1>5 DEF Next

LEMMA LockHolds == Spec => [](TypeOK /\ LockInv)
  <1>1. Init => LockInv
    BY StoreAssumption DEF Init, LockInv, Families
  <1> QED BY <1>1, LockStep, TypeCorrect, PTL DEF Spec

\* The last read of a Collect() completes a copy of the families.
LEMMA LastRead ==
    ASSUME TypeOK, LockInv, NEW s \in Scrapers, CollectReads(s), reading[s] = Errors
    PROVE  result' = [result EXCEPT ![s] = family] /\ mtx = s /\ mtx' = "free"
  <1>1. /\ copy'[s] = [copy[s] EXCEPT ![Errors] = family[Errors]]
        /\ result' = [result EXCEPT ![s] = copy'[s]]
        /\ mtx' = "free"
    BY DEF CollectReads, TypeOK
  <1>2. \A f \in Families : f # Errors => copy[s][f] = family[f]
    BY Numbers DEF LockInv, Families
  <1>3. copy'[s] = [f \in Families |-> family[f]]
    BY <1>1, <1>2, Numbers DEF TypeOK, IsTable
  <1>4. mtx = s
    BY Numbers DEF LockInv
  <1> QED BY <1>1, <1>3, <1>4 DEF TypeOK, IsTable

-----------------------------------------------------------------------------
(* Measurements as wholes.                                                  *)

\* A table of families in which every mac has a series in all families, its
\* gauges agree, and it has no more errors than measurements.
Whole(fams) ==
    /\ \A f, g \in Families : DOMAIN fams[f] = DOMAIN fams[g]
    /\ \A m \in DOMAIN fams[Measured] :
           /\ \A f, g \in 1..Gauges : fams[f][m] = fams[g][m]
           /\ fams[Errors][m] <= fams[Measured][m]

\* A whole table stays one when a measurement has been written to all families.
LEMMA WholeWritten ==
    ASSUME NEW fam, IsTable(fam), Whole(fam), NEW d \in Datum
    PROVE  Whole([f \in Families |-> W(f, fam, d)])
  <1> DEFINE new == [f \in Families |-> W(f, fam, d)]
  <1>1. \A f \in Families :
            /\ DOMAIN new[f] = DOMAIN fam[f] \cup {d.mac}
            /\ \A x \in DOMAIN fam[f] : x # d.mac => new[f][x] = fam[f][x]
            /\ f <= Gauges => new[f][d.mac] = d.value
            /\ f = Measured => new[f][d.mac] = Count(fam[f], d.mac) + 1
            /\ f = Errors => new[f][d.mac] =
                  Count(fam[f], d.mac) + (IF d.contains_errors THEN 1 ELSE 0)
    <2> SUFFICES ASSUME NEW f \in Families
                 PROVE  /\ DOMAIN new[f] = DOMAIN fam[f] \cup {d.mac}
                        /\ \A x \in DOMAIN fam[f] : x # d.mac => new[f][x] = fam[f][x]
                        /\ f <= Gauges => new[f][d.mac] = d.value
                        /\ f = Measured => new[f][d.mac] = Count(fam[f], d.mac) + 1
                        /\ f = Errors => new[f][d.mac] =
                              Count(fam[f], d.mac) + (IF d.contains_errors THEN 1 ELSE 0)
      OBVIOUS
    <2>1. new[f] = W(f, fam, d)
      OBVIOUS
    <2> HIDE DEF new
    <2> QED BY <2>1, WrittenSeries
  <1> HIDE DEF new
  <1>2. \A f, g \in Families : DOMAIN new[f] = DOMAIN new[g]
    BY <1>1 DEF Whole
  <1>3. ASSUME NEW m \in DOMAIN new[Measured]
        PROVE  /\ \A f, g \in 1..Gauges : new[f][m] = new[g][m]
               /\ new[Errors][m] <= new[Measured][m]
    <2>1. CASE m # d.mac
      <3>1. m \in DOMAIN fam[Measured] /\ \A f \in Families : m \in DOMAIN fam[f]
        <4>1. DOMAIN new[Measured] = DOMAIN fam[Measured] \cup {d.mac}
          BY <1>1, Numbers
        <4>2. m \in DOMAIN fam[Measured]
          BY <1>3, <2>1, <4>1
        <4> QED BY <4>2, Numbers DEF Whole
      <3>2. \A f \in Families : new[f][m] = fam[f][m]
        BY <1>1, <2>1, <3>1
      <3> QED BY <3>1, <3>2, Numbers DEF Whole
    <2>2. CASE m = d.mac
      <3>1. \A f \in 1..Gauges : new[f][m] = d.value
        BY <1>1, <2>2, Numbers
      <3>2. /\ new[Measured][m] = Count(fam[Measured], m) + 1
            /\ new[Errors][m] = Count(fam[Errors], m) + (IF d.contains_errors THEN 1 ELSE 0)
        BY <1>1, <2>2, Numbers
      <3>3. /\ Count(fam[Measured], m) \in Nat /\ Count(fam[Errors], m) \in Nat
            /\ Count(fam[Errors], m) <= Count(fam[Measured], m)
        <4>1. IsSeries(fam[Measured]) /\ IsSeries(fam[Errors])
          BY Numbers DEF IsTable
        <4>2. DOMAIN fam[Measured] = DOMAIN fam[Errors]
          BY Numbers DEF Whole
        <4>3. CASE m \in DOMAIN fam[Measured]
          <5>1. fam[Errors][m] <= fam[Measured][m]
            BY <4>3 DEF Whole
          <5> QED BY <4>1, <4>2, <4>3, <5>1, CountNat
        <4>4. CASE m \notin DOMAIN fam[Measured]
          BY <4>1, <4>2, <4>4, CountNat
        <4> QED BY <4>3, <4>4
      <3>4. Count(fam[Errors], m) + (IF d.contains_errors THEN 1 ELSE 0)
                <= Count(fam[Measured], m) + 1
        BY <3>3
      <3> QED BY <3>1, <3>2, <3>4
    <2> QED BY <2>1, <2>2
  <1>4. Whole(new)
    BY <1>2, <1>3 DEF Whole
  <1> QED BY <1>4 DEF new

\* What each step does to the settled families: only UpdateBegins changes them,
\* by a whole measurement; at any other time but an update they are the families.
LEMMA SettledStep ==
    ASSUME TypeOK, TypeOK', LockInv, [Next]_vars
    PROVE  /\ mtx # "runner" => Settled = family
           /\ \/ /\ UpdateBegins
                 /\ Settled = family
                 /\ Settled' = [f \in Families |-> W(f, family, data')]
              \/ Settled' = Settled
  <1>0. "free" \notin Scrapers /\ "runner" \notin Scrapers
    BY StoreAssumption
  <1>1. family = [f \in Families |-> family[f]] /\ family' = [f \in Families |-> family'[f]]
    BY DEF TypeOK, IsTable
  <1>2. mtx # "runner" => Settled = family
    BY <1>1 DEF Settled
  <1>3. mtx' # "runner" => Settled' = family'
    BY <1>1 DEF Settled
  <1>4. \A f : /\ Written(f) = W(f, family, data)
               /\ Written(f)' = W(f, family', data')
    BY DEF Written, W
  <1>5. CASE UpdateBegins
    <2>1. mtx = "free" /\ mtx' = "runner" /\ todo' = 1 /\ family' = family
      BY <1>5 DEF UpdateBegins
    <2>2. Settled' = [f \in Families |-> Written(f)']
      BY <2>1, Numbers DEF Settled, Families
    <2>3. Settled' = [f \in Families |-> W(f, family, data')]
      BY <1>4, <2>1, <2>2
    <2> QED BY <1>2, <1>5, <2>1, <2>3
  <1>6. CASE UpdateWrites
    <2>1. /\ mtx = "runner" /\ data' = data /\ todo \in Families
          /\ family' = [family EXCEPT ![todo] = Written(todo)]
      BY <1>6 DEF UpdateWrites, TypeOK
    <2>2. CASE todo = Errors
      <3>1. Settled' = family'
        BY <1>3, <1>6, <2>2 DEF UpdateWrites
      <3>2. Settled = [f \in Families |-> IF f = todo THEN Written(todo) ELSE family[f]]
        BY <2>1, <2>2, Numbers DEF Settled, Families
      <3>3. family' = [f \in Families |-> IF f = todo THEN Written(todo) ELSE family[f]]
        BY <1>1, <2>1
      <3>4. Settled' = Settled
        BY <3>1, <3>2, <3>3
      <3> QED BY <1>2, <3>4
    <2>3. CASE todo # Errors
      <3>1. mtx' = "runner" /\ todo' = todo + 1
        BY <1>6, <2>1, <2>3 DEF UpdateWrites
      <3>2. ASSUME NEW f \in Families
            PROVE  (IF f >= todo + 1 THEN Written(f)' ELSE family'[f])
                       = IF f >= todo THEN Written(f) ELSE family[f]
        <4>1. CASE f = todo
          <5>1. ~(f >= todo + 1) /\ f >= todo
            BY <2>1, <4>1, Numbers
          <5>2. family'[f] = Written(f)
            BY <1>1, <2>1, <4>1
          <5> QED BY <5>1, <5>2
        <4>2. CASE f # todo
          <5>1. family'[f] = family[f]
            BY <1>1, <2>1, <4>2
          <5>2. Written(f)' = Written(f)
            BY <1>4, <2>1, <5>1 DEF W
          <5>3. f >= todo + 1 <=> f >= todo
            BY <2>1, <4>2, Numbers
          <5> QED BY <5>1, <5>2, <5>3
        <4> QED BY <4>1, <4>2
      <3>3. Settled' = [f \in Families |-> IF f >= todo + 1 THEN Written(f)' ELSE family'[f]]
        BY <3>1 DEF Settled
      <3>4. Settled = [f \in Families |-> IF f >= todo THEN Written(f) ELSE family[f]]
        BY <2>1 DEF Settled
      <3>5. Settled' = Settled
        BY <3>2, <3>3, <3>4
      <3> QED BY <1>2, <3>5
    <2> QED BY <1>2, <2>2, <2>3
  <1>7. ASSUME NEW s \in Scrapers, CollectBegins(s) PROVE Settled' = Settled
    <2>1. mtx = "free" /\ mtx' = s /\ family' = family
      BY <1>7 DEF CollectBegins
    <2> QED BY <1>0, <1>2, <1>3, <2>1
  <1>8. ASSUME NEW s \in Scrapers, CollectReads(s) PROVE Settled' = Settled
    <2>1. mtx = s /\ mtx' \in {s, "free"} /\ family' = family
      BY <1>8 DEF CollectReads, LockInv
    <2> QED BY <1>0, <1>2, <1>3, <2>1
  <1>9. CASE UNCHANGED vars
    <2>1. Settled' = Settled
      BY <1>9 DEF vars, Settled, Written
    <2> QED BY <1>2, <2>1
  <1> QED BY <1>2, <1>5, <1>6, <1>7, <1>8, <1>9 DEF Next

WholeInv == Whole(Settled) /\ \A s \in Scrapers : Whole(result[s])

LEMMA WholeStep ==
    TypeOK /\ TypeOK' /\ LockInv /\ WholeInv /\ [Next]_vars => WholeInv'
  <1> SUFFICES ASSUME TypeOK, TypeOK', LockInv, WholeInv, [Next]_vars PROVE WholeInv'
    OBVIOUS
  <1>1. Whole(Settled')
    <2>1. CASE Settled' = Settled
      BY <2>1 DEF WholeInv
    <2>2. CASE /\ Settled = family
               /\ Settled' = [f \in Families |-> W(f, family, data')]
      <3>1. IsTable(family) /\ Whole(family) /\ data' \in Datum
        BY <2>2 DEF TypeOK, WholeInv
      <3>2. Whole([f \in Families |-> W(f, family, data')])
        BY <3>1, WholeWritten
      <3> QED BY <2>2, <3>2
    <2> QED BY <2>1, <2>2, SettledStep
  <1>2. \A s \in Scrapers : Whole(result'[s])
    <2>1. CASE result' = result
      BY <2>1 DEF WholeInv
    <2>2. ASSUME NEW s \in Scrapers, CollectReads(s), reading[s] = Errors
          PROVE  \A t \in Scrapers : Whole(result'[t])
      <3>1. result' = [result EXCEPT ![s] = family] /\ mtx # "runner"
        BY <2>2, LastRead, StoreAssumption
      <3>2. Whole(family)
        BY <3>1, SettledStep DEF WholeInv
      <3> QED BY <3>1, <3>2 DEF WholeInv, TypeOK
    <2>3. \/ result' = result
          \/ \E s \in Scrapers : CollectReads(s) /\ reading[s] = Errors
      BY DEF Next, UpdateBegins, UpdateWrites, CollectBegins, CollectReads, vars
    <2> QED BY <2>1, <2>2, <2>3
  <1>3. WholeInv' <=> Whole(Settled') /\ \A s \in Scrapers : Whole(result'[s])
    BY DEF WholeInv, Whole
  <1> QED BY <1>1, <1>2, <1>3

LEMMA WholeHolds == Spec => [](TypeOK /\ LockInv /\ WholeInv)
  <1>1. Init => WholeInv
    <2> SUFFICES ASSUME Init PROVE WholeInv
      OBVIOUS
    <2>1. /\ Settled = [f \in Families |-> Empty]
          /\ \A s \in Scrapers : result[s] = [f \in Families |-> Empty]
      BY DEF Init, Settled
    <2>2. Whole([f \in Families |-> Empty])
      BY Numbers DEF Whole, Empty
    <2> QED BY <2>1, <2>2 DEF WholeInv
  <1> QED BY <1>1, WholeStep, LockHolds, PTL DEF Spec

\* No scrape shows a measurement in part, whatever the threads interleave.
THEOREM ScrapesWhole == Spec => []WholeScrapes
  <1>1. WholeInv => WholeScrapes
    BY DEF WholeInv, Whole, WholeScrapes
  <1> QED BY <1>1, WholeHolds, PTL

-----------------------------------------------------------------------------
(* The counters.                                                            *)

\* Every series of a table's counters goes on in another one, no lower.
Behind(old, new) ==
    \A f \in {Measured, Errors} : \A m \in DOMAIN old[f] :
        m \in DOMAIN new[f] /\ old[f][m] <= new[f][m]

\* Counters take numbers of measurements, so being behind is transitive and any
\* table is behind itself.
LEMMA BehindOrder ==
    ASSUME NEW a, NEW b, NEW c, IsTable(a), IsTable(b), IsTable(c)
    PROVE  Behind(a, a) /\ (Behind(a, b) /\ Behind(b, c) => Behind(a, c))
  <1>1. \A f \in {Measured, Errors} : IsSeries(a[f]) /\ IsSeries(b[f]) /\ IsSeries(c[f])
    BY Numbers DEF IsTable
  <1>2. \A f \in {Measured, Errors} :
            /\ \A m \in DOMAIN a[f] : a[f][m] \in Nat
            /\ \A m \in DOMAIN b[f] : b[f][m] \in Nat
            /\ \A m \in DOMAIN c[f] : c[f][m] \in Nat
    BY <1>1 DEF IsSeries
  <1>3. Behind(a, a)
    BY <1>2 DEF Behind
  <1>4. ASSUME Behind(a, b), Behind(b, c) PROVE Behind(a, c)
    <2> SUFFICES ASSUME NEW f \in {Measured, Errors}, NEW m \in DOMAIN a[f]
                 PROVE  m \in DOMAIN c[f] /\ a[f][m] <= c[f][m]
      BY DEF Behind
    <2>1. m \in DOMAIN b[f] /\ a[f][m] <= b[f][m]
      BY <1>4 DEF Behind
    <2>2. m \in DOMAIN c[f] /\ b[f][m] <= c[f][m]
      BY <1>4, <2>1 DEF Behind
    <2> QED BY <1>2, <2>1, <2>2
  <1> QED BY <1>3, <1>4

\* No step takes a counter of the families back.
LEMMA FamiliesGrow ==
    ASSUME TypeOK, [Next]_vars
    PROVE  Behind(family, family')
  <1>0. IsTable(family)
    BY DEF TypeOK
  <1>1. CASE family' = family
    BY <1>0, <1>1, BehindOrder
  <1>2. CASE UpdateWrites
    <2>1. /\ family' = [family EXCEPT ![todo] = W(todo, family, data)]
          /\ todo \in Families /\ data \in Datum /\ DOMAIN family = Families
      BY <1>2 DEF UpdateWrites, TypeOK, IsTable, Written, W
    <2> SUFFICES ASSUME NEW f \in {Measured, Errors}, NEW m \in DOMAIN family[f]
                 PROVE  m \in DOMAIN family'[f] /\ family[f][m] <= family'[f][m]
      BY DEF Behind
    <2>2. /\ f \in Families /\ IsSeries(family[f]) /\ family[f][m] \in Nat
          /\ Count(family[f], m) = family[f][m]
      BY <1>0, CountNat, Numbers DEF IsTable, IsSeries
    <2>3. CASE f # todo
      <3>1. family'[f] = family[f]
        BY <2>1, <2>3
      <3> QED BY <2>2, <3>1
    <2>4. CASE f = todo
      <3>1. family'[f] = W(f, family, data)
        BY <2>1, <2>2, <2>4
      <3>2. /\ DOMAIN W(f, family, data) = DOMAIN family[f] \cup {data.mac}
            /\ m # data.mac => W(f, family, data)[m] = family[f][m]
            /\ f = Measured => W(f, family, data)[data.mac] = Count(family[f], data.mac) + 1
            /\ f = Errors => W(f, family, data)[data.mac] =
                  Count(family[f], data.mac) + (IF data.contains_errors THEN 1 ELSE 0)
        BY <1>0, <2>1, <2>2, WrittenSeries
      <3>3. CASE m # data.mac
        BY <2>2, <3>1, <3>2, <3>3
      <3>4. CASE m = data.mac
        BY <2>2, <3>1, <3>2, <3>4
      <3> QED BY <3>3, <3>4
    <2> QED BY <2>3, <2>4
  <1>3. family' = family \/ UpdateWrites
    BY DEF Next, UpdateBegins, CollectBegins, CollectReads, vars
  <1> QED BY <1>1, <1>2, <1>3

\* What a scraper got last is behind the families.
BehindInv == \A s \in Scrapers : Behind(result[s], family)

LEMMA BehindStep ==
    ASSUME TypeOK, TypeOK', LockInv, BehindInv, [Next]_vars
    PROVE  /\ BehindInv'
           /\ \A s \in Scrapers : Behind(result[s], result'[s])
  <1>0. /\ IsTable(family) /\ IsTable(family')
        /\ \A s \in Scrapers : IsTable(result[s]) /\ IsTable(result'[s])
    BY DEF TypeOK
  <1>1. Behind(family, family')
    BY FamiliesGrow
  <1>2. \A s \in Scrapers : Behind(result[s], family')
    BY <1>0, <1>1, BehindOrder DEF BehindInv
  <1>3. CASE result' = result
    <2>1. \A s \in Scrapers : Behind(result'[s], family') /\ Behind(result[s], result'[s])
      BY <1>0, <1>2, <1>3, BehindOrder
    <2> QED BY <2>1 DEF BehindInv, Behind
  <1>4. ASSUME NEW s \in Scrapers, CollectReads(s), reading[s] = Errors
        PROVE  \A t \in Scrapers : Behind(result'[t], family') /\ Behind(result[t], result'[t])
    <2>1. result' = [result EXCEPT ![s] = family] /\ family' = family
      BY <1>4, LastRead DEF CollectReads
    <2>2. ASSUME NEW t \in Scrapers
          PROVE  Behind(result'[t], family') /\ Behind(result[t], result'[t])
      <3>1. CASE t = s
        <4>1. result'[t] = family /\ Behind(result[t], family)
          BY <2>1, <3>1 DEF TypeOK, BehindInv
        <4> QED BY <1>0, <2>1, <4>1, BehindOrder
      <3>2. CASE t # s
        <4>1. result'[t] = result[t]
          BY <2>1, <3>2 DEF TypeOK
        <4> QED BY <1>0, <1>2, <4>1, BehindOrder
      <3> QED BY <3>1, <3>2
    <2> QED BY <2>2
  <1>5. \/ result' = result
        \/ \E s \in Scrapers : CollectReads(s) /\ reading[s] = Errors
    BY DEF Next, UpdateBegins, UpdateWrites, CollectBegins, CollectReads, vars
  <1>6. (\A t \in Scrapers : Behind(result'[t], family')) => BehindInv'
    BY DEF BehindInv, Behind
  <1> QED BY <1>3, <1>4, <1>5, <1>6

\* No thread of the HTTP server ever sees a counter go back or a series vanish.
THEOREM CountersNeverGoBack == Spec => CountersGrow
  <1>1. Init => BehindInv
    BY Numbers DEF Init, BehindInv, Behind, Empty
  <1>2. TypeOK /\ TypeOK' /\ LockInv /\ BehindInv /\ [Next]_vars =>
            BehindInv' /\ \A s \in Scrapers : Behind(result[s], result'[s])
    BY BehindStep
  <1>3. (\A s \in Scrapers : Behind(result[s], result'[s])) =>
            [\A s \in Scrapers : \A f \in {Measured, Errors} :
                \A m \in DOMAIN result[s][f] :
                   m \in DOMAIN result'[s][f] /\ result[s][f][m] <= result'[s][f][m]]_vars
    BY DEF Behind
  <1> QED BY <1>1, <1>2, <1>3, LockHolds, PTL DEF Spec, CountersGrow

-----------------------------------------------------------------------------
(* The abstract store.                                                      *)

\* The values the gauges of mac m show.
Gauged(fams, m) == {fams[f][m] : f \in {g \in 1..Gauges : m \in DOMAIN fams[g]}}

\* The table by mac, field by field.
LEMMA TableOf ==
    ASSUME NEW fams
    PROVE  /\ DOMAIN Table(fams) = DOMAIN fams[Measured]
           /\ \A m \in DOMAIN fams[Measured] :
                  Table(fams)[m] = [values   |-> Gauged(fams, m),
                                    measured |-> fams[Measured][m],
                                    errors   |-> Count(fams[Errors], m)]
  BY DEF Table, Gauged

\* Written to all families, a measurement enters the table as MetricStore says.
LEMMA TableWritten ==
    ASSUME NEW fam, IsTable(fam), Whole(fam), NEW d \in Datum
    PROVE  Table([f \in Families |-> W(f, fam, d)]) =
              [x \in DOMAIN Table(fam) \cup {d.mac} |->
                  IF x = d.mac
                  THEN LET before == IF d.mac \in DOMAIN Table(fam) THEN Table(fam)[d.mac]
                                     ELSE [measured |-> 0, errors |-> 0]
                       IN  [values   |-> {d.value},
                            measured |-> before.measured + 1,
                            errors   |-> IF d.contains_errors THEN before.errors + 1
                                         ELSE before.errors]
                  ELSE Table(fam)[x]]
  <1> DEFINE new == [f \in Families |-> W(f, fam, d)]
             m == d.mac
             before == IF m \in DOMAIN Table(fam) THEN Table(fam)[m]
                       ELSE [measured |-> 0, errors |-> 0]
             entry == [values   |-> {d.value},
                       measured |-> before.measured + 1,
                       errors   |-> IF d.contains_errors THEN before.errors + 1
                                    ELSE before.errors]
  <1>1. \A f \in Families :
            /\ DOMAIN new[f] = DOMAIN fam[f] \cup {m}
            /\ \A x \in DOMAIN fam[f] : x # m => new[f][x] = fam[f][x]
            /\ f <= Gauges => new[f][m] = d.value
            /\ f = Measured => new[f][m] = Count(fam[f], m) + 1
            /\ f = Errors => new[f][m] =
                  Count(fam[f], m) + (IF d.contains_errors THEN 1 ELSE 0)
    <2> SUFFICES ASSUME NEW f \in Families
                 PROVE  /\ DOMAIN new[f] = DOMAIN fam[f] \cup {m}
                        /\ \A x \in DOMAIN fam[f] : x # m => new[f][x] = fam[f][x]
                        /\ f <= Gauges => new[f][m] = d.value
                        /\ f = Measured => new[f][m] = Count(fam[f], m) + 1
                        /\ f = Errors => new[f][m] =
                              Count(fam[f], m) + (IF d.contains_errors THEN 1 ELSE 0)
      OBVIOUS
    <2>1. new[f] = W(f, fam, d)
      OBVIOUS
    <2> HIDE DEF new
    <2> QED BY <2>1, WrittenSeries
  <1> HIDE DEF new
  <1>2. /\ Measured \in Families /\ Errors \in Families
        /\ \A g \in 1..Gauges : g \in Families /\ g <= Gauges
        /\ 1 \in 1..Gauges
    BY Numbers
  <1>3. IsSeries(fam[Measured]) /\ IsSeries(fam[Errors])
    BY <1>2 DEF IsTable
  <1>4. DOMAIN Table(new) = DOMAIN Table(fam) \cup {m}
    BY <1>1, <1>2, TableOf
  <1>5. Table(new)[m] = entry
    <2>1. m \in DOMAIN new[Measured] /\ \A g \in 1..Gauges : m \in DOMAIN new[g]
      BY <1>1, <1>2
    <2>2. Gauged(new, m) = {d.value}
      BY <1>1, <1>2, <2>1 DEF Gauged
    <2>3. /\ before.measured = Count(fam[Measured], m)
          /\ before.errors = Count(fam[Errors], m)
      <3>1. CASE m \in DOMAIN fam[Measured]
        <4>1. /\ m \in DOMAIN Table(fam)
              /\ Table(fam)[m].measured = fam[Measured][m]
              /\ Table(fam)[m].errors = Count(fam[Errors], m)
          <5>1. Table(fam)[m] = [values   |-> Gauged(fam, m),
                                 measured |-> fam[Measured][m],
                                 errors   |-> Count(fam[Errors], m)]
            BY <3>1, TableOf
          <5>2. m \in DOMAIN Table(fam)
            BY <3>1, TableOf
          <5> QED BY <5>1, <5>2
        <4>2. Count(fam[Measured], m) = fam[Measured][m]
          BY <3>1 DEF Count
        <4> QED BY <4>1, <4>2
      <3>2. CASE m \notin DOMAIN fam[Measured]
        <4>1. m \notin DOMAIN Table(fam)
          BY <3>2, TableOf
        <4>2. m \notin DOMAIN fam[Errors]
          BY <1>2, <3>2 DEF Whole
        <4>3. Count(fam[Measured], m) = 0 /\ Count(fam[Errors], m) = 0
          BY <3>2, <4>2 DEF Count
        <4> QED BY <4>1, <4>3
      <3> QED BY <3>1, <3>2
    <2>4. new[Measured][m] = before.measured + 1
      BY <1>1, <1>2, <2>3
    <2>5. Count(new[Errors], m) =
              IF d.contains_errors THEN before.errors + 1 ELSE before.errors
      <3>1. m \in DOMAIN new[Errors]
        BY <1>1, <1>2
      <3>2. Count(new[Errors], m) = Count(fam[Errors], m)
                                        + (IF d.contains_errors THEN 1 ELSE 0)
        BY <1>1, <1>2, <3>1 DEF Count
      <3>3. Count(fam[Errors], m) \in Nat
        BY <1>3, CountNat
      <3> QED BY <2>3, <3>2, <3>3
    <2>6. Table(new)[m] = [values   |-> Gauged(new, m),
                           measured |-> new[Measured][m],
                           errors   |-> Count(new[Errors], m)]
      BY <2>1, TableOf
    <2> HIDE DEF before, m
    <2> QED BY <2>2, <2>4, <2>5, <2>6
  <1>6. ASSUME NEW x \in DOMAIN Table(fam), x # m
        PROVE  Table(new)[x] = Table(fam)[x]
    <2>1. x \in DOMAIN fam[Measured] /\ \A f \in Families : x \in DOMAIN fam[f]
      BY <1>2, <1>6, TableOf DEF Whole
    <2>2. \A f \in Families : x \in DOMAIN new[f] /\ new[f][x] = fam[f][x]
      BY <1>1, <1>6, <2>1
    <2>3. Gauged(new, x) = Gauged(fam, x)
      BY <1>2, <2>1, <2>2 DEF Gauged
    <2>4. Count(new[Errors], x) = Count(fam[Errors], x)
      BY <1>2, <2>1, <2>2 DEF Count
    <2>5. x \in DOMAIN new[Measured] /\ new[Measured][x] = fam[Measured][x]
      BY <1>2, <2>2
    <2>6. /\ Table(new)[x] = [values   |-> Gauged(new, x),
                              measured |-> new[Measured][x],
                              errors   |-> Count(new[Errors], x)]
          /\ Table(fam)[x] = [values   |-> Gauged(fam, x),
                              measured |-> fam[Measured][x],
                              errors   |-> Count(fam[Errors], x)]
      BY <2>1, <2>5, TableOf
    <2> QED BY <2>3, <2>4, <2>5, <2>6
  <1>7. Table(new) = [x \in DOMAIN Table(new) |-> Table(new)[x]]
    BY DEF Table
  <1> HIDE DEF entry, before
  <1>8. Table(new) = [x \in DOMAIN Table(fam) \cup {m} |->
                          IF x = m THEN entry ELSE Table(fam)[x]]
    BY <1>4, <1>5, <1>6, <1>7
  <1> QED BY <1>8 DEF new, m, entry, before

\* The exposer implements the store its header promises: each update() and each
\* Collect() takes effect as a whole.
THEOREM ImplementsStore == Spec => StoreSpec
  <1> DEFINE seen == [s \in Scrapers |-> Table(result[s])]
             store == Table(Settled)
  <1>1. Init => Store!Init
    <2> SUFFICES ASSUME Init PROVE Store!Init
      OBVIOUS
    <2> DEFINE none == [f \in Families |-> Empty]
    <2>1. Settled = none /\ \A s \in Scrapers : result[s] = none
      BY DEF Init, Settled
    <2>2. Table(none) = Empty
      BY Numbers DEF Table, Empty
    <2> QED BY <2>1, <2>2 DEF Store!Init, Store!Empty, Empty
  <1>2. TypeOK /\ TypeOK' /\ LockInv /\ WholeInv /\ [Next]_vars => [Store!Next]_(Store!mvars)
    <2> SUFFICES ASSUME TypeOK, TypeOK', LockInv, WholeInv, [Next]_vars
                 PROVE  [Store!Next]_(Store!mvars)
      OBVIOUS
    <2>1. CASE /\ UpdateBegins
               /\ Settled = family
               /\ Settled' = [f \in Families |-> W(f, family, data')]
      <3>1. /\ IsTable(family) /\ Whole(family) /\ data' \in Datum
            /\ data'.mac \in Macs /\ data'.value \in Values /\ data'.contains_errors \in BOOLEAN
        BY <2>1 DEF TypeOK, WholeInv, Datum
      <3>2. Store!Update(data'.mac, data'.value, data'.contains_errors)
        <4>1. seen' = seen
          BY <2>1 DEF UpdateBegins
        <4>2. store' = Table([f \in Families |-> W(f, family, data')])
          BY <2>1 DEF Table
        <4>3. store = Table(family)
          BY <2>1
        <4> DEFINE d == data'
        <4>4. Table([f \in Families |-> W(f, family, d)]) =
                 [x \in DOMAIN Table(family) \cup {d.mac} |->
                    IF x = d.mac
                    THEN LET before == IF d.mac \in DOMAIN Table(family) THEN Table(family)[d.mac]
                                       ELSE [measured |-> 0, errors |-> 0]
                         IN  [values   |-> {d.value},
                              measured |-> before.measured + 1,
                              errors   |-> IF d.contains_errors THEN before.errors + 1
                                           ELSE before.errors]
                    ELSE Table(family)[x]]
          <5>1. d \in Datum
            BY <3>1
          <5> HIDE DEF d
          <5> QED BY <3>1, <5>1, TableWritten
        <4>5. store' = [x \in DOMAIN store \cup {d.mac} |->
                          IF x = d.mac THEN Store!Entry(d.mac, d.value, d.contains_errors)
                          ELSE store[x]]
          <5> HIDE DEF d
          <5> QED BY <4>2, <4>3, <4>4 DEF Store!Entry, d
        <4> QED BY <4>1, <4>5 DEF Store!Update
      <3> QED BY <3>1, <3>2 DEF Store!Next
    <2>2. CASE Settled' = Settled
      <3>1. store' = store
        BY <2>2 DEF Table
      <3>2. CASE result' = result
        <4>1. seen' = seen
          BY <3>2 DEF Table
        <4> QED BY <3>1, <4>1 DEF Store!mvars
      <3>3. ASSUME NEW s \in Scrapers, CollectReads(s), reading[s] = Errors
            PROVE  Store!Scrape(s)
        <4>1. result' = [result EXCEPT ![s] = family] /\ Settled = family
          BY <3>3, LastRead, SettledStep, StoreAssumption
        <4>2. \A t \in Scrapers : result'[t] = IF t = s THEN family ELSE result[t]
          BY <4>1 DEF TypeOK
        <4>3. seen' = [t \in Scrapers |-> Table(result'[t])]
          BY DEF Table
        <4>4. seen' = [seen EXCEPT ![s] = store]
          <5>1. \A t \in Scrapers :
                    Table(result'[t]) = IF t = s THEN Table(family) ELSE Table(result[t])
            BY <4>2
          <5>2. store = Table(family)
            BY <4>1
          <5> HIDE DEF store
          <5> QED BY <4>3, <5>1, <5>2
        <4> QED BY <3>1, <4>4 DEF Store!Scrape
      <3>4. \/ result' = result
            \/ \E s \in Scrapers : CollectReads(s) /\ reading[s] = Errors
        BY DEF Next, UpdateBegins, UpdateWrites, CollectBegins, CollectReads, vars
      <3> QED BY <3>2, <3>3, <3>4 DEF Store!Next
    <2> QED BY <2>1, <2>2, SettledStep
  <1> QED BY <1>1, <1>2, WholeHolds, PTL DEF Spec, StoreSpec, Store!Spec

=============================================================================
