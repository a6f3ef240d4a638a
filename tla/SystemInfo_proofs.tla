-------------------------- MODULE SystemInfo_proofs --------------------------
(***************************************************************************)
(* Proofs about module SystemInfo, for any number of threads of the HTTP   *)
(* server and of scrapes.  The six ways to deal with a source differ in    *)
(* what they look at and have the same effect on a scrape; lemma Sourced   *)
(* says once what the invariants need of all of them.                      *)
(***************************************************************************)
EXTENDS SystemInfo, FiniteSetTheorems, TLAPS

\* A source is read into a scrape, and a static may be set by it.
Source(s) == ReadMeminfo(s) \/ ReadStat(s) \/ CallLibc(s) \/ ReadNetstat(s) \/ ReadThermal(s)

\* What a step may do to the statics: each is set once.
Once(x, failed) ==
    /\ has_file' \in [Files -> {"unasked", "yes", "no"}]
    /\ \A f \in Files : has_file[f] # "unasked" => has_file'[f] = has_file[f]
    /\ x \in Files => has_file'[x] # "unasked" /\ (has_file'[x] = "no" => failed)
    /\ \A f \in Files : f # x => has_file'[f] = has_file[f]
    /\ clock' \in {"unasked", "good", "bad"} /\ (clock # "unasked" => clock' = clock)
    /\ x = "stat" => clock' # "unasked" /\ (clock' = "bad" => failed)
    /\ sensors' \in {"unasked", "none", "some"} /\ (sensors # "unasked" => sensors' = sensors)
    /\ x = "thermal" => (sensors' = "unasked" => failed)

LEMMA Opened ==
    ASSUME TypeOK, NEW f \in Files, NEW opened \in BOOLEAN, Open(f, opened)
    PROVE  /\ has_file' \in [Files -> {"unasked", "yes", "no"}]
           /\ \A g \in Files : has_file[g] # "unasked" => has_file'[g] = has_file[g]
           /\ has_file'[f] # "unasked" /\ (has_file'[f] = "no" => ~opened)
           /\ \A g \in Files : g # f => has_file'[g] = has_file[g]
  <1>1. CASE has_file[f] = "unasked"
    <2>1. PICK a \in {"yes", "no"} : has_file' = [has_file EXCEPT ![f] = a]
      BY <1>1 DEF Open
    <2>2. opened => has_file'[f] = "yes" BY DEF Open
    <2>3. QED BY <1>1, <2>1, <2>2 DEF TypeOK
  <1>2. CASE has_file[f] # "unasked"
    <2>1. has_file' = has_file BY <1>2 DEF Open
    <2>2. opened => has_file'[f] = "yes" BY DEF Open
    <2>3. QED BY <1>2, <2>1, <2>2 DEF TypeOK
  <1>3. QED BY <1>1, <1>2

\* No gap without an error; what a static keeps of a failure is an error.
LEMMA Sourced ==
    ASSUME TypeOK, NEW s \in Scrapers, Source(s)
    PROVE  \E x \in Sources, kinds \in SUBSET Values, failed \in BOOLEAN :
               /\ Dealt(s, x, kinds, failed)
               /\ "gap" \in kinds => failed
               /\ Once(x, failed)
  <1>1. \A ok \in BOOLEAN : /\ Kind(ok) \in SUBSET Values
                            /\ "gap" \in Kind(ok) <=> ~ok
    BY DEF Kind, Values
  <1>2. CASE ReadMeminfo(s)
    <2>1. PICK opened \in BOOLEAN, odd_unit \in BOOLEAN, kinds \in SUBSET Values :
              /\ Open("meminfo", opened)
              /\ opened \/ kinds = {"gap"}
              /\ Dealt(s, "meminfo", kinds, "gap" \in kinds \/ odd_unit)
              /\ UNCHANGED <<clock, sensors>>
      BY <1>2 DEF ReadMeminfo
    <2> DEFINE failed == "gap" \in kinds \/ odd_unit
    <2>2. "meminfo" \in Files /\ "meminfo" \in Sources BY DEF Files, Sources
    <2>3. failed \in BOOLEAN /\ (~opened => failed) BY <2>1
    <2>4. Once("meminfo", failed)
      <3> HIDE DEF failed
      <3>1. QED BY <2>1, <2>2, <2>3, Opened DEF Once, TypeOK
    <2>5. Dealt(s, "meminfo", kinds, failed) /\ ("gap" \in kinds => failed) BY <2>1
    <2> HIDE DEF failed
    <2>6. QED BY <2>2, <2>3, <2>4, <2>5
  <1>3. CASE ReadStat(s)
    <2>1. PICK opened, whole \in BOOLEAN :
              /\ Open("stat", opened)
              /\ clock' \in IF clock = "unasked" THEN {"good", "bad"} ELSE {clock}
              /\ Dealt(s, "stat", Kind(opened /\ whole /\ clock' = "good"),
                       ~(opened /\ whole /\ clock' = "good"))
              /\ UNCHANGED sensors
      BY <1>3 DEF ReadStat
    <2>2. "stat" \in Files /\ "stat" \in Sources BY DEF Files, Sources
    <2>3. Once("stat", ~(opened /\ whole /\ clock' = "good"))
      BY <2>1, <2>2, Opened DEF Once, TypeOK
    <2>4. QED BY <1>1, <2>1, <2>2, <2>3
  <1>4. CASE CallLibc(s)
    <2>1. PICK x \in {"sysinfo", "loadavg"}, ok \in BOOLEAN :
              Dealt(s, x, Kind(ok), ~ok) /\ UNCHANGED statics
      BY <1>4 DEF CallLibc
    <2>2. x \notin Files /\ x \in Sources BY DEF Files, Sources
    <2>3. Once(x, ~ok) BY <2>1, <2>2 DEF Once, TypeOK, statics
    <2>4. QED BY <1>1, <2>1, <2>2, <2>3
  <1>5. CASE ReadNetstat(s)
    <2>1. PICK opened, whole \in BOOLEAN :
              /\ Open("netstat", opened)
              /\ Dealt(s, "netstat", Kind(opened /\ whole), ~(opened /\ whole))
              /\ UNCHANGED <<clock, sensors>>
      BY <1>5 DEF ReadNetstat
    <2>2. "netstat" \in Files /\ "netstat" \in Sources BY DEF Files, Sources
    <2>3. Once("netstat", ~(opened /\ whole)) BY <2>1, <2>2, Opened DEF Once, TypeOK
    <2>4. QED BY <1>1, <2>1, <2>2, <2>3
  <1>6. CASE ReadThermal(s)
    <2> DEFINE Kept(failed) ==
                   /\ sensors' \in {"unasked", "none", "some"}
                   /\ sensors # "unasked" => sensors' = sensors
                   /\ sensors' = "unasked" => failed
    <2>1. \E kinds \in SUBSET Values, failed \in BOOLEAN :
              Dealt(s, "thermal", kinds, failed) /\ ("gap" \in kinds => failed) /\ Kept(failed)
      <3>1. CASE /\ sensors = "unasked" /\ Dealt(s, "thermal", {"gap"}, TRUE)
                 /\ UNCHANGED sensors
        BY <3>1 DEF Values
      <3>2. ASSUME NEW untyped \in BOOLEAN, NEW kinds \in SUBSET Values,
                   sensors' \in IF sensors = "unasked" THEN {"none", "some"} ELSE {sensors},
                   Dealt(s, "thermal", kinds, untyped \/ "gap" \in kinds)
            PROVE  \E k \in SUBSET Values, failed \in BOOLEAN :
                       Dealt(s, "thermal", k, failed) /\ ("gap" \in k => failed) /\ Kept(failed)
        <4> DEFINE failed == untyped \/ "gap" \in kinds
        <4>1. failed \in BOOLEAN /\ ("gap" \in kinds => failed) OBVIOUS
        <4>2. Kept(failed) BY <3>2 DEF TypeOK
        <4>3. Dealt(s, "thermal", kinds, failed) BY <3>2
        <4> HIDE DEF failed, Kept
        <4>4. QED BY <4>1, <4>2, <4>3
      <3> HIDE DEF Kept
      <3>3. QED BY <1>6, <3>1, <3>2, Zenon DEF ReadThermal
    <2>2. "thermal" \notin Files /\ "thermal" \in Sources BY DEF Files, Sources
    <2>3. UNCHANGED <<has_file, clock>> BY <1>6 DEF ReadThermal
    <2>4. ASSUME NEW failed \in BOOLEAN, Kept(failed) PROVE Once("thermal", failed)
      BY <2>2, <2>3, <2>4 DEF Once, TypeOK
    <2> HIDE DEF Kept
    <2>5. QED BY <2>1, <2>2, <2>4
  <1>7. QED BY <1>2, <1>3, <1>4, <1>5, <1>6 DEF Source

-----------------------------------------------------------------------------
(* The invariant.                                                           *)

\* Where a scrape is when create() has dealt with file f.
Past ==
    [meminfo |-> {"stat", "sysinfo", "loadavg", "netstat", "thermal", "collect"},
     stat    |-> {"sysinfo", "loadavg", "netstat", "thermal", "collect"},
     netstat |-> {"thermal", "collect"}]

Begun == \A s \in Scrapers : pc[s] # "idle" => scrapes[s] >= 1

\* A scrape that is past a file, the clock or the sensors knows what they lack.
Asked ==
    \A s \in Scrapers :
        /\ \A f \in Files : pc[s] \in Past[f] =>
               has_file[f] # "unasked" /\ (has_file[f] = "no" => has_errors[s])
        /\ pc[s] \in Past["stat"] => clock # "unasked" /\ (clock = "bad" => has_errors[s])
        /\ (pc[s] = "collect" /\ sensors = "unasked") => has_errors[s]

\* A gap in a record is an error of it; nothing is left of a finished scrape.
Noted ==
    \A s \in Scrapers :
        /\ "gap" \in info[s] => has_errors[s]
        /\ has_errors[s] => pc[s] # "idle"

\* The count never falls behind what was shown, and an error puts it ahead.
Ahead ==
    \A s \in Scrapers :
        shown[s].count <= errors_count /\ (has_errors[s] => shown[s].count < errors_count)

\* The finished scrapes are those before the current ones.
Finished ==
    /\ IsFiniteSet(bad)
    /\ \A s \in Scrapers : pc[s] # "idle" => <<s, scrapes[s]>> \notin bad
    /\ \A s \in Scrapers, k \in Nat : <<s, k>> \in bad => k <= scrapes[s]

IInv == TypeOK /\ Begun /\ Asked /\ Noted /\ Ahead /\ GapsTold

LEMMA InitIInv == Init => IInv
  <1> SUFFICES ASSUME Init PROVE IInv OBVIOUS
  <1>1. TypeOK BY SystemInfoAssumption DEF Init, TypeOK, Sources, Values, Files
  <1>2. Begun /\ Noted /\ Ahead /\ GapsTold
    BY DEF Init, Begun, Noted, Ahead, GapsTold
  <1>3. "idle" \notin Past["stat"] /\ \A f \in Files : "idle" \notin Past[f] BY DEF Files, Past
  <1>4. Asked BY <1>3 DEF Init, Asked
  <1>5. QED BY <1>1, <1>2, <1>4 DEF IInv

\* Dealing with a source.
LEMMA DealtType ==
    ASSUME TypeOK, NEW s \in Scrapers, NEW x \in Sources, NEW kinds \in SUBSET Values,
           NEW failed \in BOOLEAN, Dealt(s, x, kinds, failed), Once(x, failed)
    PROVE  TypeOK'
  <1>1. Following[x] \in {"collect"} \cup Sources BY DEF Following, Sources
  <1>2. pc' \in [Scrapers -> {"idle", "collect"} \cup Sources]
    BY <1>1 DEF TypeOK, Dealt
  <1>3. info' \in [Scrapers -> SUBSET Values] BY DEF TypeOK, Dealt
  <1>4. has_errors' \in [Scrapers -> BOOLEAN] /\ errors_count' \in Nat
    <2>1. CASE failed
      <3>1. Error(s) BY <2>1 DEF Dealt
      <3>2. has_errors' \in [Scrapers -> BOOLEAN] BY <3>1, Zenon DEF TypeOK, Error
      <3>3. errors_count' \in Nat BY <3>1 DEF TypeOK, Error
      <3>4. QED BY <3>2, <3>3
    <2>2. CASE ~failed BY <2>2 DEF TypeOK, Dealt
    <2>3. QED BY <2>1, <2>2
  <1>5. QED BY <1>2, <1>3, <1>4 DEF TypeOK, Dealt, Once

LEMMA DealtIInv ==
    ASSUME IInv, NEW s \in Scrapers, NEW x \in Sources, NEW kinds \in SUBSET Values,
           NEW failed \in BOOLEAN, Dealt(s, x, kinds, failed), Once(x, failed),
           "gap" \in kinds => failed
    PROVE  IInv'
  <1> USE DEF IInv
  <1>1. TypeOK' BY DealtType
  <1>2. /\ pc[s] = x /\ pc' = [pc EXCEPT ![s] = Following[x]]
        /\ info' = [info EXCEPT ![s] = @ \cup kinds]
        /\ scrapes' = scrapes /\ shown' = shown /\ bad' = bad
    BY DEF Dealt
  <1>3. x # "idle" /\ Following[x] # "idle" BY DEF Sources, Following
  <1>4. /\ has_errors' = [has_errors EXCEPT ![s] = has_errors[s] \/ failed]
        /\ errors_count' = IF failed /\ ~has_errors[s] THEN errors_count + 1 ELSE errors_count
    <2>1. CASE failed BY <2>1, Zenon DEF Dealt, Error
    <2>2. CASE ~failed
      <3>1. has_errors' = has_errors /\ errors_count' = errors_count BY <2>2 DEF Dealt
      <3>2. has_errors = [has_errors EXCEPT ![s] = has_errors[s]] BY DEF TypeOK
      <3>3. (has_errors[s] \/ failed) = has_errors[s] BY <2>2 DEF TypeOK
      <3>4. QED BY <2>2, <3>1, <3>2, <3>3, Zenon
    <2>3. QED BY <2>1, <2>2
  <1>5. \A r \in Scrapers : has_errors[r] => has_errors'[r] BY <1>4 DEF TypeOK
  <1>6. failed => has_errors'[s] BY <1>4 DEF TypeOK
  <1>7. Begun' BY <1>2, <1>3 DEF TypeOK, Begun
  <1>8. Noted'
    <2>1. \A r \in Scrapers : r # s => info'[r] = info[r] /\ has_errors'[r] = has_errors[r]
                                       /\ pc'[r] = pc[r]
      BY <1>2, <1>4 DEF TypeOK
    <2>2. info'[s] = info[s] \cup kinds /\ pc'[s] # "idle" BY <1>2, <1>3 DEF TypeOK
    <2>3. QED BY <1>5, <1>6, <2>1, <2>2 DEF Noted
  <1>9. Ahead'
    <2> SUFFICES ASSUME NEW r \in Scrapers
                 PROVE  /\ shown[r].count <= errors_count'
                        /\ has_errors'[r] => shown[r].count < errors_count'
      BY <1>2 DEF Ahead
    <2>1. shown[r].count \in Nat /\ errors_count \in Nat BY DEF TypeOK
    <2>2. /\ shown[r].count <= errors_count
          /\ has_errors[r] => shown[r].count < errors_count
      BY DEF Ahead
    <2>3. CASE failed /\ ~has_errors[s] BY <2>1, <2>2, <2>3, <1>4
    <2>4. CASE ~(failed /\ ~has_errors[s])
      <3>1. errors_count' = errors_count BY <2>4, <1>4
      <3>2. has_errors'[r] => has_errors[r] BY <2>4, <1>4 DEF TypeOK
      <3>3. QED BY <3>1, <3>2, <2>2
    <2>5. QED BY <2>3, <2>4
  <1>10. GapsTold' BY <1>2 DEF GapsTold
  <1>11. Asked'
    <2> SUFFICES ASSUME NEW r \in Scrapers
                 PROVE  /\ \A f \in Files : pc'[r] \in Past[f] =>
                               /\ has_file'[f] # "unasked"
                               /\ has_file'[f] = "no" => has_errors'[r]
                        /\ pc'[r] \in Past["stat"] =>
                               clock' # "unasked" /\ (clock' = "bad" => has_errors'[r])
                        /\ (pc'[r] = "collect" /\ sensors' = "unasked") => has_errors'[r]
      BY DEF Asked
    <2>1. pc'[r] = pc[r] \/ (r = s /\ pc'[r] = Following[x]) BY <1>2 DEF TypeOK
    <2>2. ASSUME NEW f \in Files, pc'[r] \in Past[f]
          PROVE  pc[r] \in Past[f] \/ (r = s /\ x = f)
      <3>1. CASE pc'[r] = pc[r] BY <2>2, <3>1
      <3>2. CASE r = s /\ pc'[r] = Following[x]
        BY <2>2, <3>2, <1>2 DEF Sources, Files, Following, Past
      <3>3. QED BY <2>1, <3>1, <3>2
    <2>3. ASSUME NEW f \in Files, pc'[r] \in Past[f]
          PROVE  has_file'[f] # "unasked" /\ (has_file'[f] = "no" => has_errors'[r])
      <3>1. CASE pc[r] \in Past[f]
        <4>1. has_file[f] # "unasked" /\ (has_file[f] = "no" => has_errors[r])
          BY <3>1 DEF Asked
        <4>2. has_file'[f] = has_file[f] BY <4>1 DEF Once
        <4>3. QED BY <4>1, <4>2, <1>5
      <3>2. CASE r = s /\ x = f
        <4>1. has_file'[f] # "unasked" /\ (has_file'[f] = "no" => failed) BY <3>2 DEF Once
        <4>2. QED BY <3>2, <4>1, <1>6
      <3>3. QED BY <2>2, <2>3, <3>1, <3>2
    <2>4. ASSUME pc'[r] \in Past["stat"]
          PROVE  clock' # "unasked" /\ (clock' = "bad" => has_errors'[r])
      <3>1. CASE pc[r] \in Past["stat"]
        <4>1. clock # "unasked" /\ (clock = "bad" => has_errors[r]) BY <3>1 DEF Asked
        <4>2. clock' = clock BY <4>1 DEF Once
        <4>3. QED BY <4>1, <4>2, <1>5
      <3>2. CASE r = s /\ x = "stat"
        <4>1. clock' # "unasked" /\ (clock' = "bad" => failed) BY <3>2 DEF Once
        <4>2. QED BY <3>2, <4>1, <1>6
      <3>3. "stat" \in Files BY DEF Files
      <3>4. QED BY <2>2, <2>4, <3>1, <3>2, <3>3
    <2>5. ASSUME pc'[r] = "collect", sensors' = "unasked" PROVE has_errors'[r]
      <3>1. CASE pc[r] = "collect"
        <4>1. sensors = "unasked" BY <2>5 DEF Once
        <4>2. has_errors[r] BY <3>1, <4>1 DEF Asked
        <4>3. QED BY <4>2, <1>5
      <3>2. CASE r = s /\ x = "thermal"
        <4>1. failed BY <2>5, <3>2 DEF Once
        <4>2. QED BY <3>2, <4>1, <1>6
      <3>3. QED BY <2>1, <2>5, <3>1, <3>2 DEF Sources, Following
    <2>6. QED BY <2>3, <2>4, <2>5
  <1>12. QED BY <1>1, <1>7, <1>8, <1>9, <1>10, <1>11

LEMMA StartIInv == ASSUME IInv, NEW s \in Scrapers, Start(s) PROVE IInv'
  <1> USE DEF IInv
  <1>1. TypeOK'
    <2>1. pc' \in [Scrapers -> {"idle", "collect"} \cup Sources]
      BY DEF TypeOK, Start, Sources
    <2>2. scrapes' \in [Scrapers -> 0..MaxScrapes]
      <3>1. scrapes[s] + 1 \in 0..MaxScrapes BY SystemInfoAssumption DEF TypeOK, Start
      <3>2. QED BY <3>1 DEF TypeOK, Start
    <2>3. QED BY <2>1, <2>2 DEF TypeOK, Start, statics
  <1>2. /\ \A f \in Files : "meminfo" \notin Past[f]
        /\ "meminfo" \notin Past["stat"]
    BY DEF Files, Past
  <1>3. Asked' BY <1>2 DEF Asked, Start, TypeOK, statics
  <1>4. Begun'
    <2>1. scrapes[s] \in Nat BY SystemInfoAssumption DEF TypeOK
    <2>2. QED BY <2>1 DEF Begun, Start, TypeOK
  <1>5. Noted' BY DEF Noted, Start, TypeOK
  <1>6. Ahead' /\ GapsTold' BY DEF Ahead, GapsTold, Start
  <1>7. QED BY <1>1, <1>3, <1>4, <1>5, <1>6

LEMMA CollectIInv == ASSUME IInv, NEW s \in Scrapers, Collect(s) PROVE IInv'
  <1> USE DEF IInv
  <1>1. TypeOK'
    <2>1. pc' \in [Scrapers -> {"idle", "collect"} \cup Sources] BY DEF TypeOK, Collect
    <2>2. info' \in [Scrapers -> SUBSET Values] /\ has_errors' \in [Scrapers -> BOOLEAN]
      BY DEF TypeOK, Collect
    <2>3. shown' \in [Scrapers -> [info : SUBSET Values, bad : BOOLEAN, count : Nat]]
      BY DEF TypeOK, Collect
    <2>4. bad' \subseteq Scrapers \X (1..MaxScrapes)
      <3>1. scrapes[s] \in 1..MaxScrapes BY SystemInfoAssumption DEF TypeOK, Begun, Collect
      <3>2. QED BY <3>1 DEF TypeOK, Collect
    <2>5. QED BY <2>1, <2>2, <2>3, <2>4 DEF TypeOK, Collect, statics
  <1>2. "idle" \notin Past["stat"] /\ \A f \in Files : "idle" \notin Past[f] BY DEF Files, Past
  <1>3. Asked' BY <1>2 DEF Asked, Collect, TypeOK, statics
  <1>4. Begun' BY DEF Begun, Collect, TypeOK
  <1>5. Noted' BY DEF Noted, Collect, TypeOK
  <1>6. GapsTold' BY DEF Noted, GapsTold, Collect, TypeOK
  <1>7. Ahead'
    <2>1. \A r \in Scrapers : r # s => shown'[r] = shown[r] /\ has_errors'[r] = has_errors[r]
      BY DEF Collect, TypeOK
    <2>2. shown'[s].count = errors_count /\ ~has_errors'[s] BY DEF Collect, TypeOK
    <2>3. errors_count \in Nat /\ errors_count' = errors_count BY DEF Collect, TypeOK
    <2>4. QED BY <2>1, <2>2, <2>3 DEF Ahead
  <1>8. QED BY <1>1, <1>3, <1>4, <1>5, <1>6, <1>7

LEMMA NextIInv == IInv /\ [Next]_vars => IInv'
  <1> SUFFICES ASSUME IInv, [Next]_vars PROVE IInv' OBVIOUS
  <1>1. ASSUME NEW s \in Scrapers, Source(s) PROVE IInv'
    <2>1. PICK x \in Sources, kinds \in SUBSET Values, failed \in BOOLEAN :
              Dealt(s, x, kinds, failed) /\ ("gap" \in kinds => failed) /\ Once(x, failed)
      BY <1>1, Sourced DEF IInv
    <2>2. QED BY <2>1, DealtIInv
  <1>2. CASE Next BY <1>2, <1>1, StartIInv, CollectIInv DEF Next, Source
  <1>3. CASE UNCHANGED vars
    BY <1>3 DEF vars, statics, IInv, TypeOK, Begun, Asked, Noted, Ahead, GapsTold
  <1>4. QED BY <1>2, <1>3

LEMMA Invariance == Spec => []IInv
  BY InitIInv, NextIInv, PTL DEF Spec

-----------------------------------------------------------------------------
(* What follows from it.                                                    *)

\* The scrapes keep every variable's type, for any number of threads.
THEOREM TypeCorrect == Spec => []TypeOK
  <1>1. IInv => TypeOK BY DEF IInv
  <1>2. QED BY <1>1, Invariance, PTL

\* What the statics keep of a failure makes an error of every scrape that
\* reaches its end, for any number of threads.
THEOREM AbsenceReported == Spec => []MissingReported
  <1>1. "collect" \in Past["stat"] /\ \A f \in Files : "collect" \in Past[f]
    BY DEF Files, Past
  <1>2. IInv => MissingReported BY <1>1 DEF IInv, Asked, MissingReported
  <1>3. QED BY <1>2, Invariance, PTL

\* No scrape that counts as free of errors has a value that no source gave.
THEOREM NoGapUntold == Spec => []GapsTold
  <1>1. IInv => GapsTold BY DEF IInv
  <1>2. QED BY <1>1, Invariance, PTL

\* A scrape with errors shows a higher errors_count than its thread's last one.
THEOREM ErrorsShown == Spec => OwnErrorsShown
  <1>1. ASSUME IInv, [Next]_vars
        PROVE  [\A s \in Scrapers :
                   (pc[s] = "collect" /\ pc'[s] = "idle" /\ has_errors[s])
                       => shown'[s].count > shown[s].count]_vars
    <2>1. ASSUME NEW s \in Scrapers, pc[s] = "collect", pc'[s] = "idle", has_errors[s], Next
          PROVE  shown'[s].count > shown[s].count
      <3>1. PICK r \in Scrapers : Start(r) \/ Source(r) \/ Collect(r)
        BY <2>1 DEF Next, Source
      <3>2. CASE Start(r)
        BY <1>1, <2>1, <3>2 DEF Start, IInv, TypeOK
      <3>3. CASE Source(r)
        <4>1. PICK x \in Sources : pc[r] = x /\ pc' = [pc EXCEPT ![r] = Following[x]]
          BY <1>1, <3>3, Sourced DEF IInv, Dealt
        <4>2. x # "collect" BY DEF Sources
        <4>3. QED BY <1>1, <2>1, <4>1, <4>2 DEF IInv, TypeOK
      <3>4. CASE Collect(r)
        <4>1. r = s BY <1>1, <2>1, <3>4 DEF Collect, IInv, TypeOK
        <4>2. shown'[s].count = errors_count BY <1>1, <3>4, <4>1 DEF Collect, IInv, TypeOK
        <4>3. shown[s].count < errors_count BY <1>1, <2>1 DEF IInv, Ahead
        <4>4. shown[s].count \in Nat /\ errors_count \in Nat BY <1>1 DEF IInv, TypeOK
        <4>5. QED BY <4>2, <4>3, <4>4
      <3>5. QED BY <3>1, <3>2, <3>3, <3>4
    <2>2. QED BY <1>1, <2>1
  <1>2. QED BY <1>1, Invariance, PTL DEF Spec, OwnErrorsShown

-----------------------------------------------------------------------------
(* Counting.                                                                *)

\* The scrapes under way that have errors.
Flawed == {s \in Scrapers : pc[s] # "idle" /\ has_errors[s]}

Counted == Finished /\ ErrorsCounted

LEMMA FlawedFinite == IsFiniteSet(Flawed) /\ Cardinality(Flawed) \in Nat
  BY SystemInfoAssumption, FS_Subset, FS_CardinalityType DEF Flawed

LEMMA InitCounted == Init => Counted
  <1> SUFFICES ASSUME Init PROVE Counted OBVIOUS
  <1>1. bad = {} /\ Flawed = {} /\ errors_count = 0 BY DEF Init, Flawed
  <1>2. Finished BY <1>1, FS_EmptySet DEF Finished
  <1>3. QED BY <1>1, <1>2, FS_EmptySet DEF Counted, ErrorsCounted, Flawed

LEMMA DealtCounted ==
    ASSUME IInv, Counted, NEW s \in Scrapers, NEW x \in Sources, NEW kinds, NEW failed \in BOOLEAN,
           Dealt(s, x, kinds, failed)
    PROVE  Counted'
  <1> USE DEF IInv, Counted
  <1>1. /\ pc[s] = x /\ pc' = [pc EXCEPT ![s] = Following[x]]
        /\ scrapes' = scrapes /\ bad' = bad
    BY DEF Dealt
  <1>2. x # "idle" /\ Following[x] # "idle" BY DEF Sources, Following
  <1>3. \A r \in Scrapers : pc'[r] # "idle" <=> pc[r] # "idle" BY <1>1, <1>2 DEF TypeOK
  <1>4. Finished' BY <1>1, <1>3 DEF Finished
  <1>5. CASE failed /\ ~has_errors[s]
    <2>1. has_errors' = [has_errors EXCEPT ![s] = TRUE] /\ errors_count' = errors_count + 1
      BY <1>5 DEF Dealt, Error
    <2>2. Flawed' = Flawed \cup {s} /\ s \notin Flawed
      BY <1>1, <1>2, <1>3, <1>5, <2>1 DEF Flawed, TypeOK
    <2>3. Cardinality(Flawed') = Cardinality(Flawed) + 1
      BY <2>2, FlawedFinite, FS_AddElement
    <2>4. Cardinality(bad) \in Nat BY FS_CardinalityType DEF Finished
    <2>5. QED BY <1>1, <1>4, <2>1, <2>3, <2>4, FlawedFinite DEF ErrorsCounted, Flawed
  <1>6. CASE ~(failed /\ ~has_errors[s])
    <2>1. errors_count' = errors_count BY <1>6 DEF Dealt, Error
    <2>2. \A r \in Scrapers : has_errors'[r] <=> has_errors[r]
      BY <1>6 DEF Dealt, Error, TypeOK
    <2>3. Flawed' = Flawed BY <1>3, <2>2 DEF Flawed
    <2>4. QED BY <1>1, <1>4, <2>1, <2>3 DEF ErrorsCounted, Flawed
  <1>7. QED BY <1>5, <1>6

LEMMA StartCounted == ASSUME IInv, Counted, NEW s \in Scrapers, Start(s) PROVE Counted'
  <1> USE DEF IInv, Counted
  <1>1. pc[s] = "idle" /\ ~has_errors[s] BY DEF Start, Noted
  <1>2. Flawed' = Flawed BY <1>1 DEF Start, Flawed, TypeOK
  <1>3. scrapes[s] \in Nat BY SystemInfoAssumption DEF TypeOK
  <1>4. Finished'
    <2>1. <<s, scrapes[s] + 1>> \notin bad BY <1>3 DEF Finished
    <2>2. \A r \in Scrapers : scrapes[r] \in Nat BY SystemInfoAssumption DEF TypeOK
    <2>3. QED BY <2>1, <2>2 DEF Finished, Start, TypeOK
  <1>5. QED BY <1>2, <1>4 DEF ErrorsCounted, Flawed, Start

LEMMA CollectCounted == ASSUME IInv, Counted, NEW s \in Scrapers, Collect(s) PROVE Counted'
  <1> USE DEF IInv, Counted
  <1>1. pc[s] = "collect" /\ <<s, scrapes[s]>> \notin bad BY DEF Collect, Finished
  <1>2. CASE has_errors[s]
    <2>1. bad' = bad \cup {<<s, scrapes[s]>>} BY <1>2 DEF Collect
    <2>2. IsFiniteSet(bad') /\ Cardinality(bad') = Cardinality(bad) + 1
      BY <1>1, <2>1, FS_AddElement DEF Finished
    <2>3. Flawed' = Flawed \ {s} /\ s \in Flawed BY <1>1, <1>2 DEF Collect, Flawed, TypeOK
    <2>4. Cardinality(Flawed') = Cardinality(Flawed) - 1
      BY <2>3, FlawedFinite, FS_RemoveElement
    <2>5. Cardinality(bad) \in Nat BY FS_CardinalityType DEF Finished
    <2>6. scrapes[s] \in Nat BY SystemInfoAssumption DEF TypeOK
    <2>7. Finished'
      <3>1. \A r \in Scrapers : pc'[r] # "idle" => <<r, scrapes'[r]>> \notin bad'
        BY <2>1 DEF Finished, Collect, TypeOK
      <3>2. \A r \in Scrapers, k \in Nat : <<r, k>> \in bad' => k <= scrapes'[r]
        BY <2>1, <2>6 DEF Finished, Collect
      <3>3. QED BY <2>2, <3>1, <3>2 DEF Finished
    <2>8. errors_count' = errors_count BY DEF Collect
    <2>9. QED BY <2>2, <2>4, <2>5, <2>7, <2>8, FlawedFinite DEF ErrorsCounted, Flawed
  <1>3. CASE ~has_errors[s]
    <2>1. bad' = bad BY <1>3 DEF Collect
    <2>2. Flawed' = Flawed BY <1>3 DEF Collect, Flawed, TypeOK
    <2>3. Finished' BY <2>1 DEF Finished, Collect, TypeOK
    <2>4. QED BY <2>1, <2>2, <2>3 DEF ErrorsCounted, Flawed, Collect
  <1>4. QED BY <1>2, <1>3

\* errors_count is the number of scrapes with errors, for any number of threads,
\* scrapes and errors in each.
THEOREM EachScrapeCounted == Spec => []ErrorsCounted
  <1>1. Counted /\ IInv /\ [Next]_vars => Counted'
    <2> SUFFICES ASSUME Counted, IInv, [Next]_vars PROVE Counted' OBVIOUS
    <2>1. ASSUME NEW s \in Scrapers, Source(s) PROVE Counted'
      <3>1. PICK x \in Sources, kinds \in SUBSET Values, failed \in BOOLEAN :
                Dealt(s, x, kinds, failed)
        BY <2>1, Sourced DEF IInv
      <3>2. QED BY <3>1, DealtCounted
    <2>2. CASE Next BY <2>1, <2>2, StartCounted, CollectCounted DEF Next, Source
    <2>3. CASE UNCHANGED vars
      BY <2>3 DEF vars, Counted, Finished, ErrorsCounted
    <2>4. QED BY <2>2, <2>3
  <1>2. Counted => ErrorsCounted BY DEF Counted
  <1>3. QED BY <1>1, <1>2, InitCounted, Invariance, PTL DEF Spec
=============================================================================
