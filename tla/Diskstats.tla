------------------------------ MODULE Diskstats ------------------------------
(***************************************************************************)
(* The scrape of /proc/diskstats (src/ruuvi/diskstat.cpp and               *)
(* diskstat_exposer.cpp): a loop of getline() and nineteen >> over a file  *)
(* whose lines have as many columns as the kernel is new.                  *)
(*                                                                         *)
(* The stream is where it has come to: a line, and how many words of it    *)
(* have been read.  A word is known by its line and column.  A Diskstat is *)
(* the sequence of words its fields were read from, in the order of the >> *)
(* chain; fields that were not reached are zero.  Of a word's text all     *)
(* that counts is whether it is a number (all but the device name) and     *)
(* whether it fits 32 bits.                                                *)
(***************************************************************************)
EXTENDS Integers, Sequences

CONSTANTS
    Kernels,     \* columns of a line: 14 before Linux 4.18, 18, and 20 since 5.5
    MaxLines     \* bound: disks and partitions in the file

ASSUME DiskstatsAssumption == Kernels \subseteq {14, 18, 20} /\ MaxLines \in Nat

VARIABLES
    columns,     \* of the running kernel
    exists,      \* open_diskstats()'s static: "unasked", "yes" or "no"
    lines,       \* how many lines the file of this scrape has
    huge,        \* line and column of its numbers that exceed 32 bits
    line, col,   \* the stream: the line it is in, and how many of its words are read
    good,        \* ifs.good()
    stats,       \* the vector create() fills
    families,    \* the samples the last Collect() published, by disk
    pc           \* "idle", "line" (the loop's condition), "fields", "collect"

vars == <<columns, exists, lines, huge, line, col, good, stats, families, pc>>

-----------------------------------------------------------------------------
(* The file and the stream.                                                 *)

\* Mutant of Fields: two counters more than a line has.
Fields_Newer ==
    <<"major", "minor", "devname", "ReadCompleted", "ReadMerged", "ReadSectors",
      "ReadTime", "WriteCompleted", "WriteMerged", "WriteSectors", "WriteTime",
      "IOInProgress", "IOTime", "WeightedIOTime", "DiscardCompleted",
      "DiscardMerged", "DiscardSectors", "DiscardTime", "FlushComplete", "FlushTime",
      "FlushMerged">>

\* The fields in the order create() reads them; DiscardSectors is not among them.
Fields ==
    <<"major", "minor", "devname", "ReadCompleted", "ReadMerged", "ReadSectors",
      "ReadTime", "WriteCompleted", "WriteMerged", "WriteSectors", "WriteTime",
      "IOInProgress", "IOTime", "WeightedIOTime", "DiscardCompleted",
      "DiscardMerged", "DiscardTime", "FlushComplete", "FlushTime">>

\* The fields of 32 bits.
Narrow == {"major", "minor", "ReadTime", "WriteTime", "IOInProgress", "IOTime",
           "WeightedIOTime", "DiscardTime", "FlushTime"}

\* The columns that the kernel prints with more than 32 bits and that the chain
\* has a narrow field for: discarded sectors (2 TiB of them in 32 bits), flushes.
WideColumns == {17, 19} \cap (1..columns)

Wide(w) == <<w.line, w.col>> \in huge

\* Can >> read a word into a field?  One that does not fit fails the stream too,
\* but leaves the largest number in the field.
Number(w, field) == field = "devname" \/ w.col # 3
Fits(w, field)   == field \notin Narrow \/ ~Wide(w)

\* The i-th word that a chain of >> meets, line ends being blanks to it.
Word(i) == LET k == col + i - 1
           IN  [line |-> line + (k \div columns), col |-> 1 + (k % columns)]

There(i) == Word(i).line <= lines

Reads(i) == There(i) /\ Number(Word(i), Fields[i]) /\ Fits(Word(i), Fields[i])

\* How many fields the chain reads before one fails it.
Taken == CHOOSE n \in 0..Len(Fields) :
            (\A i \in 1..n : Reads(i)) /\ (n < Len(Fields) => ~Reads(n + 1))

\* How many fields have a word in the end: one that is too large counts.
Stored == IF Taken < Len(Fields) /\ There(Taken + 1) /\ Number(Word(Taken + 1), Fields[Taken + 1])
          THEN Taken + 1 ELSE Taken

-----------------------------------------------------------------------------
Init ==
    /\ columns \in Kernels
    /\ exists = "unasked"
    /\ lines = 0 /\ huge = {}
    /\ line = 1 /\ col = 0 /\ good = TRUE
    /\ stats = <<>> /\ families = <<>>
    /\ pc = "idle"

\* A scrape: open_diskstats() looks for the file at the first scrape only.  If it
\* then was not there the scrape publishes no disks; if it has gone since, the
\* stream is bad from the start.
Open ==
    /\ pc = "idle"
    /\ \E there \in BOOLEAN, n \in 0..MaxLines : \E h \in SUBSET ((1..n) \X WideColumns) :
        /\ exists' = IF exists # "unasked" THEN exists ELSE IF there THEN "yes" ELSE "no"
        /\ lines' = n
        /\ huge' = h
        /\ good' = there
        /\ line' = 1 /\ col' = 0
        /\ stats' = <<>>
        /\ pc' = IF exists' = "no" THEN "collect" ELSE "line"
    /\ UNCHANGED <<columns, families>>

\* Mutant of GetLine: the loop asks for good() only.
GetLine_OnlyGood ==
    /\ pc = "line"
    /\ IF good
       THEN stats' = Append(stats, <<>>) /\ pc' = "fields"
       ELSE stats' = stats /\ pc' = "collect"
    /\ UNCHANGED <<columns, exists, lines, huge, line, col, good, families>>

\* The loop's condition takes what is left of the current line, the first line
\* when nothing was read before, and a record is added before any field is read.
GetLine ==
    /\ pc = "line"
    /\ IF good /\ line <= lines
       THEN /\ line' = line + 1 /\ col' = 0
            /\ stats' = Append(stats, <<>>)
            /\ pc' = "fields"
            /\ UNCHANGED good
       ELSE good' = FALSE /\ pc' = "collect" /\ UNCHANGED <<line, col, stats>>
    /\ UNCHANGED <<columns, exists, lines, huge, families>>

\* The chain of >>.
Extract ==
    /\ pc = "fields"
    /\ stats' = [stats EXCEPT ![Len(stats)] = [i \in 1..Stored |-> Word(i)]]
    /\ good' = (Taken = Len(Fields))
    /\ IF good' THEN line' = Word(Len(Fields)).line /\ col' = Word(Len(Fields)).col
       ELSE UNCHANGED <<line, col>>
    /\ pc' = "line"
    /\ UNCHANGED <<columns, exists, lines, huge, families>>

\* Mutant of Collect: do_collect() fills the static families, not a copy.
Collect_NoCopy ==
    /\ pc = "collect"
    /\ families' = families \o stats
    /\ pc' = "idle"
    /\ UNCHANGED <<columns, exists, lines, huge, line, col, good, stats>>

\* Every record becomes one sample of every family, labelled with its devname.
Collect ==
    /\ pc = "collect"
    /\ families' = stats
    /\ pc' = "idle"
    /\ UNCHANGED <<columns, exists, lines, huge, line, col, good, stats>>

Next == Open \/ GetLine \/ Extract \/ Collect

Spec == Init /\ [][Next]_vars

-----------------------------------------------------------------------------
(* Properties.                                                              *)

\* The label: the line the name is from, 0 for the empty name.
Label(r) == IF Len(r) < 3 THEN 0 ELSE r[3].line

\* The column of /proc/diskstats that the Help text of each field's family tells.
Column(field) ==
    CASE field = "DiscardTime" -> 18
      [] field = "FlushComplete" -> 19
      [] field = "FlushTime" -> 20
      [] OTHER -> CHOOSE i \in DOMAIN Fields : Fields[i] = field

\* No scrape publishes two samples with the same labels, on no kernel, which
\* Prometheus would refuse: the record without a device stays alone.
DistinctSamples ==
    \A i, j \in DOMAIN families : Label(families[i]) = Label(families[j]) => i = j

\* Whatever the kernel, the fields every kernel has are never mixed between two
\* disks: the first fourteen of a record are the columns of one line.
Aligned ==
    \A r \in {stats[i] : i \in DOMAIN stats} :
        \A i \in DOMAIN r : i <= 14 => r[i].col = i /\ r[i].line = r[1].line

\* The line of record k: the loop's getline() takes the first line, and from then
\* on what is left of one.  With twenty columns that is its last word; with fewer
\* the chain has gone on into the next line, and the rest of that is lost.
At(k) == IF columns = 20 THEN k + 1 ELSE 2 * k

\* The chain fails in line l: on the device name after fourteen columns, at the
\* end of the file after eighteen, or on a number that exceeds 32 bits.
Ends(l) ==
    \/ columns = 14
    \/ columns = 18 /\ l = lines
    \/ \E c \in WideColumns : <<l, c>> \in huge

\* Which disks a scrape has: with twenty columns those of all lines but the first,
\* with eighteen those of every second line, with fourteen that of the second line
\* only; in order, up to the first at which the chain fails, and with a record
\* without a device at the end if the file ends before.
WhichDisks ==
    pc = "collect" =>
        \A k \in DOMAIN stats :
            IF At(k) <= lines
            THEN /\ stats[k] # <<>> /\ stats[k][1].line = At(k)
                 /\ k = Len(stats) <=> Ends(At(k))
            ELSE stats[k] = <<>> /\ k = Len(stats)

\* A field that was read holds the counter its family's Help text names.
FieldsMatchHelp ==
    \A r \in {families[i] : i \in DOMAIN families} :
        \A i \in DOMAIN r : r[i].col = Column(Fields[i])
=============================================================================
