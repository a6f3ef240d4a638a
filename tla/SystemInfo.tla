----------------------------- MODULE SystemInfo -----------------------------
(***************************************************************************)
(* The scrape of the operating system (src/ruuvi/system_info.cpp,          *)
(* system_info_exposer.cpp): each Collect() of SystemInfoCollector makes a *)
(* system_info, whose create() reads six sources in turn, and publishes    *)
(* it.  Two threads of the HTTP server may do so at once; what they share  *)
(* are function statics, each initialised once, and the atomic             *)
(* errors_count.                                                           *)
(*                                                                         *)
(* Of the values of a record all that counts is what is wrong with some:   *)
(*   "gap"      no source gave it: it is zero, as the record was made;     *)
(*   "misread"  >> failed on it: it is 0 for text, the largest there is    *)
(*              for a number too large, and stays uninitialised at the end *)
(*              of a line or after a read error.                           *)
(* External: the files under /proc and /sys, which may be missing or       *)
(* unreadable or odd at any moment (but have no empty lines).              *)
(***************************************************************************)
EXTENDS Naturals, FiniteSets

CONSTANTS
    Scrapers,     \* threads of the HTTP server
    MaxScrapes    \* bound: scrapes per thread

ASSUME SystemInfoAssumption == IsFiniteSet(Scrapers) /\ MaxScrapes \in Nat

Files == {"meminfo", "stat", "netstat"}

\* The sources in the order create() reads them.
Sources == {"meminfo", "stat", "sysinfo", "loadavg", "netstat", "thermal"}

Following ==
    [meminfo |-> "stat", stat |-> "sysinfo", sysinfo |-> "loadavg",
     loadavg |-> "netstat", netstat |-> "thermal", thermal |-> "collect"]

VARIABLES
    has_file,       \* by file, the static of its open function
    clock,          \* the static of get_clock_hz()
    sensors,        \* the static of find_sensors(): are there any?
    errors_count,
    pc,             \* by scraper: "idle", the source to read, or "collect"
    info,           \* by scraper: what is wrong with values of its system_info
    has_errors,     \* by scraper: of its system_info
    scrapes,        \* by scraper: scrapes begun
    shown,          \* by scraper: what its last scrape published
    bad             \* history: the finished scrapes with errors

statics == <<has_file, clock, sensors>>
vars == <<statics, errors_count, pc, info, has_errors, scrapes, shown, bad>>

Values == {"gap", "misread"}

TypeOK ==
    /\ has_file \in [Files -> {"unasked", "yes", "no"}]
    /\ clock \in {"unasked", "good", "bad"}
    /\ sensors \in {"unasked", "none", "some"}
    /\ errors_count \in Nat
    /\ pc \in [Scrapers -> {"idle", "collect"} \cup Sources]
    /\ info \in [Scrapers -> SUBSET Values]
    /\ has_errors \in [Scrapers -> BOOLEAN]
    /\ scrapes \in [Scrapers -> 0..MaxScrapes]
    /\ shown \in [Scrapers -> [info : SUBSET Values, bad : BOOLEAN, count : Nat]]
    /\ bad \subseteq Scrapers \X (1..MaxScrapes)

Init ==
    /\ has_file = [f \in Files |-> "unasked"]
    /\ clock = "unasked" /\ sensors = "unasked"
    /\ errors_count = 0
    /\ pc = [s \in Scrapers |-> "idle"]
    /\ info = [s \in Scrapers |-> {}]
    /\ has_errors = [s \in Scrapers |-> FALSE]
    /\ scrapes = [s \in Scrapers |-> 0]
    /\ shown = [s \in Scrapers |-> [info |-> {}, bad |-> FALSE, count |-> 0]]
    /\ bad = {}

-----------------------------------------------------------------------------
\* Mutant of Error: every error is counted.
Error_Each(s) ==
    /\ has_errors' = [has_errors EXCEPT ![s] = TRUE]
    /\ errors_count' = errors_count + 1

\* error(): the scrape's first one is counted.
Error(s) ==
    /\ has_errors' = [has_errors EXCEPT ![s] = TRUE]
    /\ errors_count' = IF has_errors[s] THEN errors_count ELSE errors_count + 1

\* Source x of scrape s is dealt with: kinds are what is wrong with its values.
Dealt(s, x, kinds, failed) ==
    /\ pc[s] = x
    /\ pc' = [pc EXCEPT ![s] = Following[x]]
    /\ info' = [info EXCEPT ![s] = @ \cup kinds]
    /\ IF failed THEN Error(s) ELSE UNCHANGED <<has_errors, errors_count>>
    /\ UNCHANGED <<scrapes, shown, bad>>

\* The static of f's open function is set by whoever asks first, and a file that
\* was not there then is never looked for again.
Open(f, opened) ==
    /\ has_file' \in IF has_file[f] = "unasked"
                     THEN {[has_file EXCEPT ![f] = a] : a \in {"yes", "no"}}
                     ELSE {has_file}
    /\ opened => has_file'[f] = "yes"

\* Of a source every failure of which is an error, all failures count as gaps.
Kind(ok) == IF ok THEN {} ELSE {"gap"}

Start(s) ==
    /\ pc[s] = "idle" /\ scrapes[s] < MaxScrapes
    /\ pc' = [pc EXCEPT ![s] = "meminfo"]
    /\ scrapes' = [scrapes EXCEPT ![s] = @ + 1]
    /\ UNCHANGED <<statics, errors_count, info, has_errors, shown, bad>>

\* Mutant of ReadMeminfo: MEMINFO_READ has no else.
ReadMeminfo_NoElse(s) ==
    \E opened, odd_unit \in BOOLEAN, kinds \in SUBSET Values :
        /\ Open("meminfo", opened)
        /\ opened \/ kinds = {"gap"}
        /\ Dealt(s, "meminfo", kinds, ~opened \/ odd_unit)
        /\ UNCHANGED <<clock, sensors>>

\* A name that the file does not have is an error, and so is a unit nobody knows.
\* That a line's name is followed by a number is not checked: parse_lines() does
\* not look at the stream after `ss >> m.name >> m.value`.
ReadMeminfo(s) ==
    \E opened, odd_unit \in BOOLEAN, kinds \in SUBSET Values :
        /\ Open("meminfo", opened)
        /\ opened \/ kinds = {"gap"}
        /\ Dealt(s, "meminfo", kinds, "gap" \in kinds \/ odd_unit)
        /\ UNCHANGED <<clock, sensors>>

\* The clock's frequency is asked for once; without it nothing is read.
ReadStat(s) ==
    \E opened, whole \in BOOLEAN :
        /\ Open("stat", opened)
        /\ clock' \in IF clock = "unasked" THEN {"good", "bad"} ELSE {clock}
        /\ LET read == opened /\ whole /\ clock' = "good"
           IN  Dealt(s, "stat", Kind(read), ~read)
        /\ UNCHANGED sensors

\* sysinfo() and getloadavg().
CallLibc(s) ==
    \E x \in {"sysinfo", "loadavg"}, ok \in BOOLEAN :
        /\ Dealt(s, x, Kind(ok), ~ok)
        /\ UNCHANGED statics

\* Mutant of ReadNetstat: a file known to be missing is passed over.
ReadNetstat_Silent(s) ==
    \E opened, whole \in BOOLEAN :
        /\ Open("netstat", opened)
        /\ Dealt(s, "netstat", Kind(opened /\ whole),
                 ~(opened /\ whole) /\ has_file["netstat"] # "no")
        /\ UNCHANGED <<clock, sensors>>

\* read_netstat() has no error of its own for a file that does not open: the
\* open function has noted it.
ReadNetstat(s) ==
    \E opened, whole \in BOOLEAN :
        /\ Open("netstat", opened)
        /\ Dealt(s, "netstat", Kind(opened /\ whole), ~(opened /\ whole))
        /\ UNCHANGED <<clock, sensors>>

\* find_sensors() throws without /sys/class/thermal, and the next scrape tries
\* again; otherwise its list is for good, and unreadable types are errors of the
\* scrape that made it.  A temperature file that does not open is an error; what
\* `temperature_file >> value` makes of one that does is not looked at.
ReadThermal(s) ==
    /\ \/ /\ sensors = "unasked"
          /\ Dealt(s, "thermal", {"gap"}, TRUE)
          /\ UNCHANGED sensors
       \/ \E untyped \in BOOLEAN, kinds \in SUBSET Values :
          /\ sensors' \in IF sensors = "unasked" THEN {"none", "some"} ELSE {sensors}
          /\ untyped => sensors = "unasked" /\ sensors' = "some"
          /\ kinds # {} => sensors' = "some"
          /\ Dealt(s, "thermal", kinds, untyped \/ "gap" \in kinds)
    /\ UNCHANGED <<has_file, clock>>

\* Mutant of Collect: the count is that of the scrapes before.
Collect_StaleCount(s) ==
    /\ pc[s] = "collect"
    /\ pc' = [pc EXCEPT ![s] = "idle"]
    /\ shown' = [shown EXCEPT ![s] =
                    [info |-> info[s], bad |-> has_errors[s], count |-> errors_count - 1]]
    /\ bad' = IF has_errors[s] THEN bad \cup {<<s, scrapes[s]>>} ELSE bad
    /\ info' = [info EXCEPT ![s] = {}]
    /\ has_errors' = [has_errors EXCEPT ![s] = FALSE]
    /\ UNCHANGED <<statics, errors_count, scrapes>>

\* The gauges are read off the record, and errors_count as it is by now; then
\* the record is gone.
Collect(s) ==
    /\ pc[s] = "collect"
    /\ pc' = [pc EXCEPT ![s] = "idle"]
    /\ shown' = [shown EXCEPT ![s] =
                    [info |-> info[s], bad |-> has_errors[s], count |-> errors_count]]
    /\ bad' = IF has_errors[s] THEN bad \cup {<<s, scrapes[s]>>} ELSE bad
    /\ info' = [info EXCEPT ![s] = {}]
    /\ has_errors' = [has_errors EXCEPT ![s] = FALSE]
    /\ UNCHANGED <<statics, errors_count, scrapes>>

Next ==
    \E s \in Scrapers :
        \/ Start(s) \/ ReadMeminfo(s) \/ ReadStat(s) \/ CallLibc(s)
        \/ ReadNetstat(s) \/ ReadThermal(s) \/ Collect(s)

Spec == Init /\ [][Next]_vars

-----------------------------------------------------------------------------
(* Properties.                                                              *)

\* errors_count is the number of scrapes with errors, finished or under way,
\* however many errors each has and however the scrapes interleave.
ErrorsCounted ==
    errors_count =
        Cardinality(bad) + Cardinality({s \in Scrapers : pc[s] # "idle" /\ has_errors[s]})

\* A scrape with errors shows a higher count than the scrape before it of the
\* same thread: it shows its own errors.
OwnErrorsShown ==
    [][\A s \in Scrapers :
          (pc[s] = "collect" /\ pc'[s] = "idle" /\ has_errors[s])
              => shown'[s].count > shown[s].count]_vars

\* What the statics keep of a failure is told for ever: a file that was missing or
\* a clock that failed when first asked for makes an error of every scrape from
\* then on, also of those that were under way; and so does a missing
\* /sys/class/thermal, until a scrape finds it.
MissingReported ==
    \A s \in Scrapers :
        (/\ pc[s] = "collect"
         /\ clock = "bad" \/ sensors = "unasked" \/ \E f \in Files : has_file[f] = "no")
            => has_errors[s]

\* A scrape that counts as free of errors shows no zero that is only there because
\* a source, or an entry of one, was not: whatever it shows was read, rightly or not.
GapsTold ==
    \A s \in Scrapers : "gap" \in shown[s].info => shown[s].bad

\* A scrape that shows a value nobody read is one of the "scrapes containing
\* errors" that sysinfo_errors_count promises to count.
UnreadCounted ==
    \A s \in Scrapers : shown[s].info # {} => shown[s].bad
=============================================================================
