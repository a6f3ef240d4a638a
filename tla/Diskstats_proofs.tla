--------------------------- MODULE Diskstats_proofs ---------------------------
(***************************************************************************)
(* Proofs about module Diskstats, for files of any number of lines.  The   *)
(* invariants follow the stream: each chain of >> begins where a line      *)
(* begins, and what it takes depends on the kernel's columns alone.        *)
(***************************************************************************)
EXTENDS Diskstats, TLAPS

Place == [line : Nat, col : Nat]

Types ==
    /\ columns \in {14, 18, 20}
    /\ exists \in {"unasked", "yes", "no"}
    /\ lines \in Nat /\ huge \subseteq (1..lines) \X WideColumns
    /\ line \in Nat \ {0} /\ col \in Nat /\ good \in BOOLEAN
    /\ stats \in Seq(Seq(Place)) /\ families \in Seq(Seq(Place))
    /\ pc \in {"idle", "line", "fields", "collect"}

\* A chain of >> begins after getline(), at the first word of a line or the end.
AtLine == pc = "fields" => col = 0 /\ line <= lines + 1 /\ good /\ stats # <<>>

-----------------------------------------------------------------------------
(* What a chain of >> takes.                                                *)

LEMMA FieldNames ==
    /\ Len(Fields) = 19 /\ Fields[3] = "devname"
    /\ Fields[17] \in Narrow /\ Fields[19] \in Narrow
    /\ \A i \in 1..19 : i # 3 => Fields[i] # "devname"
  BY DEF Fields, Narrow

\* Taken is the n it is described by, of which there is only one.
LEMMA TakenIs ==
    ASSUME NEW n \in 0..19, \A i \in 1..n : Reads(i), n < 19 => ~Reads(n + 1)
    PROVE  Taken = n
  <1> DEFINE P(k) == (\A i \in 1..k : Reads(i)) /\ (k < 19 => ~Reads(k + 1))
  <1>1. P(n) OBVIOUS
  <1>2. ASSUME NEW k \in 0..19, P(k) PROVE k = n
    <2>1. ~(k < n) BY <1>2
    <2>2. ~(n < k) BY <1>2
    <2>3. QED BY <2>1, <2>2
  <1> HIDE DEF P
  <1>3. Taken = CHOOSE k \in 0..19 : P(k) BY FieldNames DEF Taken, P
  <1>4. QED BY <1>1, <1>2, <1>3

\* The words a chain meets that begins with a line.
LEMMA Words ==
    ASSUME Types, col = 0
    PROVE  /\ \A i \in 1..19 : i <= columns => Word(i) = [line |-> line, col |-> i]
           /\ \A i \in 1..19 : i > columns => Word(i) = [line |-> line + 1, col |-> i - columns]
  <1> USE DEF Types, Word
  <1>1. CASE columns = 20 BY <1>1
  <1>2. CASE columns = 18 BY <1>2
  <1>3. CASE columns = 14 BY <1>3
  <1>4. QED BY <1>1, <1>2, <1>3 DEF Types

\* Only two columns can be too large, of the kernels that have them.
LEMMA HugeColumns ==
    ASSUME Types, NEW l, NEW c, <<l, c>> \in huge
    PROVE  c \in {17, 19} /\ c <= columns
  BY DEF Types, WideColumns

\* Which of its fields it reads: not those beyond the file, not numbers that are
\* too large, and no number from the device name of the next line.
LEMMA ReadsWhich ==
    ASSUME Types, col = 0, NEW i \in 1..19
    PROVE  Reads(i) <=> /\ line <= lines /\ (i > columns => line + 1 <= lines)
                        /\ columns = 14 => i # 17
                        /\ <<line, i>> \notin huge
  <1> USE FieldNames, Words DEF Types
  <1>0. \A l, c : <<l, c>> \in huge => c \in {17, 19} /\ c <= columns BY HugeColumns
  <1>1. CASE i <= columns
    <2>1. Word(i) = [line |-> line, col |-> i] BY <1>1
    <2>2. Number(Word(i), Fields[i]) BY <2>1 DEF Number
    <2>3. There(i) <=> line <= lines BY <2>1 DEF There
    <2>4. Fits(Word(i), Fields[i]) <=> <<line, i>> \notin huge
      <3>1. Wide(Word(i)) <=> <<line, i>> \in huge BY <2>1 DEF Wide
      <3>2. <<line, i>> \in huge => Fields[i] \in Narrow
        BY <1>0, FieldNames
      <3>3. QED BY <3>1, <3>2 DEF Fits
    <2>5. QED BY <1>1, <2>2, <2>3, <2>4 DEF Reads
  <1>2. CASE i > columns
    <2> HIDE Words, FieldNames
    <2>0. (columns = 14 /\ i >= 15) \/ (columns = 18 /\ i = 19) BY <1>2
    <2>1. Word(i) = [line |-> line + 1, col |-> i - columns] BY <1>2, Words
    <2>2. There(i) <=> line + 1 <= lines BY <2>1 DEF There
    <2>3. Number(Word(i), Fields[i]) <=> i - columns # 3
      <3>1. Fields[i] # "devname" BY <2>0, FieldNames
      <3>2. Word(i).col = i - columns BY <2>1
      <3>3. QED BY <3>1, <3>2 DEF Number
    <2>4. Fits(Word(i), Fields[i]) /\ <<line, i>> \notin huge
      <3>1. i - columns \notin {17, 19} BY <2>0
      <3>2. <<line + 1, i - columns>> \notin huge BY <1>0, <3>1
      <3>3. ~Wide(Word(i)) BY <2>1, <3>2 DEF Wide
      <3>4. QED BY <1>0, <1>2, <3>3 DEF Fits
    <2>5. Reads(i) <=> line + 1 <= lines /\ i - columns # 3 BY <2>2, <2>3, <2>4 DEF Reads
    <2>6. QED BY <2>0, <2>4, <2>5
  <1>3. QED BY <1>1, <1>2

\* How many fields it reads, and how many are stored.
LEMMA Chain ==
    ASSUME Types, col = 0, line <= lines + 1
    PROVE  /\ Taken \in 0..19 /\ Stored \in 0..19
           /\ line > lines => Taken = 0 /\ Stored = 0
           /\ line <= lines => Stored >= 14 /\ (Taken = 19 <=> ~Ends(line))
  <1> USE ReadsWhich, FieldNames DEF Types
  <1>1. CASE line > lines
    <2>1. Taken = 0 BY <1>1, TakenIs
    <2>2. ~There(1)
      <3> HIDE ReadsWhich, FieldNames
      <3>1. 1 \in 1..19 /\ 1 <= columns OBVIOUS
      <3>2. Word(1) = [line |-> line, col |-> 1] BY <3>1, Words
      <3>3. Word(1).line = line BY <3>2
      <3>4. line \in Nat /\ lines \in Nat OBVIOUS
      <3>5. QED BY <1>1, <3>3, <3>4 DEF There
    <2>3. QED BY <1>1, <2>1, <2>2 DEF Stored
  <1>2. CASE line <= lines
    <2> USE <1>2
    <2>1. \A i \in 1..16 : <<line, i>> \notin huge
      <3> HIDE ReadsWhich, FieldNames
      <3>1. QED BY HugeColumns
    <2>2. <<line, 18>> \notin huge
      <3> HIDE ReadsWhich, FieldNames
      <3>1. QED BY HugeColumns
    <2>3. Ends(line) <=> (\/ columns = 14 \/ (columns = 18 /\ line = lines)
                          \/ <<line, 17>> \in huge \/ <<line, 19>> \in huge)
      <3> HIDE ReadsWhich, FieldNames
      <3>1. QED BY HugeColumns DEF Ends, WideColumns
    <2>4. columns = 14 => <<line, 17>> \notin huge
      <3> HIDE ReadsWhich, FieldNames
      <3>1. QED BY HugeColumns
    <2>5. columns # 20 => <<line, 19>> \notin huge
      <3> HIDE ReadsWhich, FieldNames
      <3>1. QED BY HugeColumns
    <2>6. CASE columns = 14 /\ line = lines
      <3>1. Taken = 14 BY <2>1, <2>6, TakenIs
      <3>2. QED BY <2>3, <2>6, <3>1 DEF Stored
    <2>7. CASE columns = 14 /\ line < lines
      <3>1. Taken = 16 BY <2>1, <2>7, TakenIs
      <3>2. QED BY <2>3, <2>7, <3>1 DEF Stored
    <2>8. CASE columns # 14 /\ <<line, 17>> \in huge
      <3>1. Taken = 16 BY <2>1, <2>8, TakenIs
      <3>2. QED BY <2>3, <2>8, <3>1 DEF Stored
    <2>9. CASE columns # 14 /\ <<line, 17>> \notin huge
              /\ (<<line, 19>> \in huge \/ (columns = 18 /\ line = lines))
      <3>1. Taken = 18 BY <2>1, <2>2, <2>5, <2>9, TakenIs
      <3>2. QED BY <2>3, <2>9, <3>1 DEF Stored
    <2>10. CASE columns # 14 /\ <<line, 17>> \notin huge
               /\ <<line, 19>> \notin huge /\ ~(columns = 18 /\ line = lines)
      <3>1. Taken = 19 BY <2>1, <2>2, <2>10, TakenIs
      <3>2. QED BY <2>3, <2>10, <3>1 DEF Stored
    <2>11. QED BY <2>6, <2>7, <2>8, <2>9, <2>10
  <1>3. QED BY <1>1, <1>2

\* The record that a chain leaves, and where it leaves the stream.
LEMMA Extracted ==
    ASSUME Types, AtLine, Extract
    PROVE  /\ stats' \in Seq(Seq(Place)) /\ Len(stats') = Len(stats)
           /\ \A i \in 1..(Len(stats) - 1) : stats'[i] = stats[i]
           /\ Len(stats'[Len(stats)]) = Stored
           /\ \A i \in 1..Stored : i <= 14 =>
                  stats'[Len(stats)][i] = [line |-> line, col |-> i]
           /\ good' <=> Taken = 19
           /\ IF good' THEN /\ line' = IF columns = 20 THEN line ELSE line + 1
                            /\ col' \in Nat /\ line' <= lines
              ELSE UNCHANGED <<line, col>>
  <1> DEFINE r == [i \in 1..Stored |-> Word(i)]
  <1> USE DEF Types
  <1>1. pc = "fields" /\ col = 0 /\ line <= lines + 1 /\ stats # <<>> BY DEF AtLine, Extract
  <1>2. Stored \in 0..19 BY <1>1, Chain
  <1>3. ASSUME NEW i \in 1..19 PROVE Word(i) \in Place
    <2>1. CASE i <= columns
      <3>1. Word(i) = [line |-> line, col |-> i] BY <1>1, <2>1, Words
      <3>2. QED BY <3>1 DEF Place
    <2>2. CASE i > columns
      <3>1. Word(i) = [line |-> line + 1, col |-> i - columns] BY <1>1, <2>2, Words
      <3>2. i - columns \in Nat BY <2>2
      <3>3. QED BY <3>1, <3>2 DEF Place
    <2>3. QED BY <2>1, <2>2
  <1>4. r \in [1..Stored -> Place]
    <2>1. \A i \in 1..Stored : i \in 1..19 BY <1>2
    <2>2. \A i \in 1..Stored : Word(i) \in Place BY <1>3, <2>1
    <2>3. QED BY <2>2
  <1>5. r \in Seq(Place) /\ Len(r) = Stored BY <1>2, <1>4
  <1>6. \A i \in 1..Stored : i <= 14 => r[i] = [line |-> line, col |-> i]
    <2> SUFFICES ASSUME NEW i \in 1..Stored, i <= 14
                 PROVE  r[i] = [line |-> line, col |-> i]
      OBVIOUS
    <2>1. i \in 1..19 /\ i <= columns BY <1>2
    <2>2. QED BY <1>1, <2>1, Words
  <1> HIDE DEF r
  <1>7. stats' = [stats EXCEPT ![Len(stats)] = r] BY DEF Extract, r
  <1>8. /\ stats' \in Seq(Seq(Place)) /\ Len(stats') = Len(stats) /\ stats'[Len(stats)] = r
        /\ \A i \in 1..(Len(stats) - 1) : stats'[i] = stats[i]
    BY <1>1, <1>5, <1>7
  <1>9. good' <=> Taken = 19 BY FieldNames DEF Extract
  <1>10. CASE good'
    <2>1. Taken = 19 /\ line <= lines BY <1>1, <1>9, <1>10, Chain
    <2>2. columns = 18 => line < lines BY <1>1, <2>1, Chain DEF Ends
    <2>3. columns # 14 BY <1>1, <2>1, Chain DEF Ends
    <2>4. line' = Word(19).line /\ col' = Word(19).col BY <1>10, FieldNames DEF Extract
    <2>5. Word(19) = IF columns = 20 THEN [line |-> line, col |-> 19]
                     ELSE [line |-> line + 1, col |-> 1]
      <3>1. CASE columns = 20 BY <1>1, <3>1, Words
      <3>2. CASE columns = 18
        <4>1. 19 > columns /\ 19 - columns = 1 BY <3>2
        <4>2. QED BY <1>1, <3>2, <4>1, Words
      <3>3. QED BY <2>3, <3>1, <3>2
    <2>6. QED BY <1>1, <1>5, <1>6, <1>8, <1>9, <1>10, <2>1, <2>2, <2>3, <2>4, <2>5
  <1>11. CASE ~good'
    <2>1. UNCHANGED <<line, col>> BY <1>11 DEF Extract
    <2>2. QED BY <1>5, <1>6, <1>8, <1>9, <1>11, <2>1
  <1>12. QED BY <1>10, <1>11

-----------------------------------------------------------------------------
(* Types, and where the chains begin.                                       *)

LEMMA Induction == Spec => [](Types /\ AtLine)
  <1>1. Init => Types /\ AtLine BY DiskstatsAssumption DEF Init, Types, AtLine
  <1>2. Types /\ AtLine /\ [Next]_vars => Types' /\ AtLine'
    <2> SUFFICES ASSUME Types, AtLine, [Next]_vars PROVE Types' /\ AtLine' OBVIOUS
    <2>0. UNCHANGED columns => WideColumns' = WideColumns BY DEF WideColumns
    <2>1. CASE Open
      <3>1. PICK there \in BOOLEAN, n \in 0..MaxLines  :
              \E h \in SUBSET ((1..n) \X WideColumns) :
                /\ exists' = IF exists # "unasked" THEN exists ELSE IF there THEN "yes" ELSE "no"
                /\ lines' = n /\ huge' = h
                /\ good' = there /\ line' = 1 /\ col' = 0 /\ stats' = <<>>
                /\ pc' = IF exists' = "no" THEN "collect" ELSE "line"
        BY <2>1 DEF Open
      <3>2. lines' \in Nat BY <3>1, DiskstatsAssumption
      <3>3. UNCHANGED <<columns, families>> BY <2>1 DEF Open
      <3>4. huge' \in SUBSET ((1..n) \X WideColumns) BY <3>1
      <3>5. huge' \subseteq (1..lines') \X WideColumns' BY <3>1, <3>3, <3>4 DEF WideColumns
      <3>6. QED BY <3>1, <3>2, <3>3, <3>5 DEF Types, AtLine
    <2>2. CASE GetLine
      <3>1. CASE good /\ line <= lines
        <4>1. stats' = Append(stats, <<>>) /\ line' = line + 1 /\ col' = 0 /\ good'
              /\ pc' = "fields" /\ UNCHANGED <<columns, exists, lines, huge, families>>
          BY <2>2, <3>1 DEF GetLine
        <4>2. stats' \in Seq(Seq(Place)) /\ stats' # <<>> BY <4>1 DEF Types
        <4>3. QED BY <2>0, <3>1, <4>1, <4>2 DEF Types, AtLine
      <3>2. CASE ~(good /\ line <= lines) BY <2>0, <2>2, <3>2 DEF GetLine, Types, AtLine
      <3>3. QED BY <3>1, <3>2
    <2>3. CASE Extract
      <3>1. pc' = "line" /\ UNCHANGED <<columns, exists, lines, huge, families>>
            /\ good' \in BOOLEAN
        BY <2>3 DEF Extract
      <3>2. stats' \in Seq(Seq(Place)) /\ line' \in Nat \ {0} /\ col' \in Nat
        BY <2>3, Extracted DEF Types
      <3>3. QED BY <2>0, <3>1, <3>2 DEF Types, AtLine
    <2>4. CASE Collect BY <2>0, <2>4 DEF Collect, Types, AtLine
    <2>5. CASE UNCHANGED vars BY <2>0, <2>5 DEF vars, Types, AtLine
    <2>6. QED BY <2>1, <2>2, <2>3, <2>4, <2>5 DEF Next
  <1>3. QED BY <1>1, <1>2, PTL DEF Spec

\* The fields that every kernel has are never mixed between two disks, however
\* many lines the file has.
THEOREM DisksNotMixed == Spec => []Aligned
  <1> DEFINE Own(r) == \A i \in DOMAIN r : i <= 14 => r[i].col = i /\ r[i].line = r[1].line
  <1>1. Aligned <=> \A i \in DOMAIN stats : Own(stats[i]) BY DEF Aligned
  <1>2. Init => Aligned BY DEF Init, Aligned
  <1>3. ASSUME Types, AtLine, Aligned, [Next]_vars PROVE Aligned'
    <2>1. CASE Open BY <2>1 DEF Open, Aligned
    <2>2. CASE GetLine
      <3>1. CASE UNCHANGED stats BY <1>3, <3>1 DEF Aligned
      <3>2. CASE stats' = Append(stats, <<>>)
        <4>1. Own(<<>>) OBVIOUS
        <4> HIDE DEF Own
        <4>2. \A i \in DOMAIN stats' : Own(stats'[i]) BY <1>1, <1>3, <3>2, <4>1 DEF Types
        <4> USE DEF Own
        <4>3. QED BY <4>2 DEF Aligned
      <3>3. QED BY <2>2, <3>1, <3>2 DEF GetLine
    <2>3. CASE Extract
      <3> DEFINE n == Len(stats)
      <3>1. stats # <<>> /\ col = 0 /\ line <= lines + 1 BY <1>3, <2>3 DEF AtLine, Extract
      <3>2. Stored \in 0..19 BY <1>3, <3>1, Chain
      <3>3. n \in Nat \ {0} /\ DOMAIN stats = 1..n BY <1>3, <3>1 DEF Types
      <3>4. DOMAIN stats' = 1..n /\ stats'[n] \in Seq(Place)
        BY <1>3, <2>3, <3>3, Extracted
      <3>5. DOMAIN stats'[n] = 1..Stored BY <1>3, <2>3, <3>4, Extracted
      <3>6. Own(stats'[n])
        <4>1. \A i \in 1..Stored : i <= 14 => stats'[n][i] = [line |-> line, col |-> i]
          BY <1>3, <2>3, Extracted
        <4>2. \A i \in 1..Stored : 1 \in 1..Stored BY <3>2
        <4>3. ASSUME NEW i \in 1..Stored, i <= 14
              PROVE  stats'[n][i].col = i /\ stats'[n][i].line = stats'[n][1].line
          <5>1. stats'[n][i] = [line |-> line, col |-> i] BY <4>1, <4>3
          <5>2. stats'[n][1] = [line |-> line, col |-> 1] BY <4>1, <4>2
          <5>3. QED BY <5>1, <5>2
        <4>4. QED BY <3>5, <4>3
      <3>7. \A i \in 1..(n - 1) : stats'[i] = stats[i] BY <1>3, <2>3, Extracted
      <3> HIDE DEF Own
      <3>8. \A i \in DOMAIN stats' : Own(stats'[i]) BY <1>1, <1>3, <3>3, <3>4, <3>6, <3>7
      <3> USE DEF Own
      <3>9. QED BY <3>8 DEF Aligned
    <2>4. CASE Collect BY <1>3, <2>4 DEF Collect, Aligned
    <2>5. CASE UNCHANGED vars BY <1>3, <2>5 DEF vars, Aligned
    <2>6. QED BY <1>3, <2>1, <2>2, <2>3, <2>4, <2>5 DEF Next
  <1>4. QED BY <1>2, <1>3, Induction, PTL DEF Spec

-----------------------------------------------------------------------------
(* Labels.                                                                  *)

\* The labels of the first n records rise and are lines up to l.
Rising(n, l) ==
    /\ \A i \in 1..n : Label(stats[i]) \in 1..l
    /\ \A i, j \in 1..n : i < j => Label(stats[i]) < Label(stats[j])

\* The stream is read no further.
Over == (pc = "line" /\ ~good) \/ pc = "collect"

Distinct(s) == \A i, j \in DOMAIN s : Label(s[i]) = Label(s[j]) => i = j

\* While the stream lasts each record has the label of a line of its own, and the
\* stream is past it; the record that ends it may have none.
LabelInv ==
    /\ (pc = "line" /\ good) => Rising(Len(stats), line)
    /\ pc = "fields" => Rising(Len(stats) - 1, line - 1)
    /\ Over => Distinct(stats)
    /\ Distinct(families)

LEMMA RisingDistinct ==
    ASSUME Types, NEW l \in Nat, Rising(Len(stats), l) PROVE Distinct(stats)
  <1>1. DOMAIN stats = 1..Len(stats) /\ Len(stats) \in Nat BY DEF Types
  <1> SUFFICES ASSUME NEW i \in 1..Len(stats), NEW j \in 1..Len(stats),
                      Label(stats[i]) = Label(stats[j])
               PROVE  i = j
    BY <1>1 DEF Distinct
  <1>2. Label(stats[i]) \in Nat /\ Label(stats[j]) \in Nat BY DEF Rising
  <1>3. ~(i < j) /\ ~(j < i) BY <1>2 DEF Rising
  <1>4. QED BY <1>1, <1>3

\* A chain gives its record the label of the line it began with, or none.
LEMMA ExtractLabels ==
    ASSUME Types, AtLine, LabelInv, Extract PROVE LabelInv'
  <1> DEFINE n == Len(stats)
  <1>1. pc = "fields" /\ col = 0 /\ line <= lines + 1 /\ n \in Nat \ {0} /\ line \in Nat \ {0}
    BY DEF Extract, AtLine, Types
  <1>2. /\ Len(stats') = n /\ stats' \in Seq(Seq(Place)) /\ Len(stats'[n]) = Stored
        /\ \A i \in 1..(n - 1) : stats'[i] = stats[i]
        /\ \A i \in 1..Stored : i <= 14 => stats'[n][i] = [line |-> line, col |-> i]
        /\ good' <=> Taken = 19
        /\ good' => line' \in {line, line + 1}
    BY Extracted
  <1>3. Stored \in 0..19 /\ (Stored < 3 => line > lines) /\ (line > lines => Taken = 0)
    <2>1. /\ Stored \in 0..19 /\ (line > lines => Taken = 0)
          /\ line <= lines => Stored >= 14
      BY <1>1, Chain
    <2>2. lines \in Nat BY DEF Types
    <2>3. QED BY <1>1, <2>1, <2>2
  <1>4. Label(stats'[n]) \in {0, line} /\ (good' => Label(stats'[n]) = line)
    <2>1. CASE Stored < 3 BY <1>2, <1>3, <2>1 DEF Label
    <2>2. CASE Stored >= 3
      <3>1. stats'[n][3] = [line |-> line, col |-> 3] BY <1>2, <1>3, <2>2
      <3>2. QED BY <1>2, <1>3, <2>2, <3>1 DEF Label
    <2>3. QED BY <1>3, <2>1, <2>2
  <1>5. \A i \in 1..(n - 1) : Label(stats'[i]) \in 1..(line - 1)
    BY <1>1, <1>2 DEF LabelInv, Rising
  <1>6. \A i, j \in 1..(n - 1) : i < j => Label(stats'[i]) < Label(stats'[j])
    BY <1>1, <1>2 DEF LabelInv, Rising
  <1>7. pc' = "line" /\ UNCHANGED families BY DEF Extract
  <1>8. CASE good'
    <2>1. line' \in Nat /\ line <= line' BY <1>1, <1>2, <1>8
    <2>2. \A i \in 1..n : Label(stats'[i]) \in 1..line'
      <3> SUFFICES ASSUME NEW i \in 1..n PROVE Label(stats'[i]) \in 1..line' OBVIOUS
      <3>1. CASE i = n BY <1>1, <1>4, <1>8, <2>1, <3>1
      <3>2. CASE i # n
        <4>1. i \in 1..(n - 1) BY <1>1, <3>2
        <4>2. Label(stats'[i]) \in 1..(line - 1) BY <1>5, <4>1
        <4>3. QED BY <1>1, <2>1, <4>2
      <3>3. QED BY <3>1, <3>2
    <2>3. \A i, j \in 1..n : i < j => Label(stats'[i]) < Label(stats'[j])
      <3> SUFFICES ASSUME NEW i \in 1..n, NEW j \in 1..n, i < j
                   PROVE  Label(stats'[i]) < Label(stats'[j])
        OBVIOUS
      <3>1. i \in 1..(n - 1) BY <1>1
      <3>2. Label(stats'[i]) \in 1..(line - 1) BY <1>5, <3>1
      <3>3. CASE j = n BY <1>1, <1>4, <1>8, <3>2, <3>3
      <3>4. CASE j # n
        <4>1. j \in 1..(n - 1) BY <1>1, <3>4
        <4>2. QED BY <1>6, <3>1, <4>1
      <3>5. QED BY <3>3, <3>4
    <2>4. QED BY <1>2, <1>7, <1>8, <2>2, <2>3 DEF LabelInv, Rising, Over
  <1>9. CASE ~good'
    <2>1. DOMAIN stats' = 1..n BY <1>1, <1>2
    <2>2. ASSUME NEW i \in 1..(n - 1) PROVE Label(stats'[i]) # Label(stats'[n])
      <3>1. Label(stats'[i]) \in 1..(line - 1) BY <1>5
      <3>2. QED BY <1>1, <1>4, <3>1
    <2>3. ASSUME NEW i \in 1..(n - 1), NEW j \in 1..(n - 1), Label(stats'[i]) = Label(stats'[j])
          PROVE  i = j
      <3>1. Label(stats'[i]) \in Nat /\ Label(stats'[j]) \in Nat BY <1>1, <1>5
      <3>2. ~(i < j) /\ ~(j < i) BY <1>6, <2>3, <3>1
      <3>3. QED BY <1>1, <3>2
    <2>4. Distinct(stats')
      <3> SUFFICES ASSUME NEW i \in 1..n, NEW j \in 1..n, Label(stats'[i]) = Label(stats'[j])
                   PROVE  i = j
        BY <2>1 DEF Distinct
      <3>1. \A k \in 1..n : k = n \/ k \in 1..(n - 1) BY <1>1
      <3>2. QED BY <2>2, <2>3, <3>1
    <2>5. QED BY <1>7, <1>9, <2>4 DEF LabelInv, Over
  <1>10. QED BY <1>8, <1>9

LEMMA LabelStep == ASSUME Types, AtLine, LabelInv, [Next]_vars PROVE LabelInv'
  <1>1. CASE Open
    <2>1. stats' = <<>> /\ UNCHANGED families /\ pc' \in {"collect", "line"} BY <1>1 DEF Open
    <2>2. QED BY <2>1 DEF LabelInv, Rising, Distinct, Over
  <1>2. CASE GetLine
    <2>1. CASE good /\ line <= lines
      <3>1. /\ stats' = Append(stats, <<>>) /\ line' = line + 1 /\ pc = "line" /\ pc' = "fields"
            /\ UNCHANGED families
        BY <1>2, <2>1 DEF GetLine
      <3>2. /\ Len(stats') - 1 = Len(stats) /\ line' - 1 = line
            /\ \A i \in 1..Len(stats) : stats'[i] = stats[i]
        BY <3>1 DEF Types
      <3>3. QED BY <2>1, <3>1, <3>2 DEF LabelInv, Rising, Over
    <2>2. CASE ~(good /\ line <= lines)
      <3>1. pc = "line" /\ pc' = "collect" /\ UNCHANGED <<stats, families>>
        BY <1>2, <2>2 DEF GetLine
      <3>2. Distinct(stats)
        <4>1. CASE good BY <3>1, <4>1, RisingDistinct DEF LabelInv, Types
        <4>2. CASE ~good BY <3>1, <4>2 DEF LabelInv, Over
        <4>3. QED BY <4>1, <4>2
      <3>3. QED BY <3>1, <3>2 DEF LabelInv
    <2>3. QED BY <2>1, <2>2
  <1>3. CASE Extract BY <1>3, ExtractLabels
  <1>4. CASE Collect BY <1>4 DEF Collect, LabelInv, Over
  <1>5. CASE UNCHANGED vars BY <1>5 DEF vars, LabelInv, Rising, Distinct, Over
  <1>6. QED BY <1>1, <1>2, <1>3, <1>4, <1>5 DEF Next

\* No scrape has two samples with the same labels, on any kernel and for any
\* number of disks.
THEOREM LabelsDistinct == Spec => []DistinctSamples
  <1>1. Init => LabelInv BY DEF Init, LabelInv, Rising, Distinct, Over
  <1>2. LabelInv => DistinctSamples BY DEF LabelInv, Distinct, DistinctSamples
  <1>3. Types /\ AtLine /\ LabelInv /\ [Next]_vars => LabelInv' BY LabelStep
  <1>4. QED BY <1>1, <1>2, <1>3, Induction, PTL DEF Spec

-----------------------------------------------------------------------------
(* Which disks a scrape has.                                                *)

\* The first n records are of their lines, none of which ended the stream.
Through(n) ==
    \A k \in 1..n :
        stats[k] # <<>> /\ stats[k][1].line = At(k) /\ At(k) <= lines /\ ~Ends(At(k))

\* What WhichDisks says of a scrape.
Told ==
    \A k \in 1..Len(stats) :
        IF At(k) <= lines
        THEN stats[k] # <<>> /\ stats[k][1].line = At(k) /\ (k = Len(stats) <=> Ends(At(k)))
        ELSE stats[k] = <<>> /\ k = Len(stats)

\* While the stream lasts, it is where the next record's line begins or, before
\* the getline(), in the line before that.
StreamInv ==
    /\ (pc = "line" /\ good) =>
           /\ line = At(Len(stats) + 1) - 1 /\ Through(Len(stats))
           /\ stats # <<>> => line <= lines
    /\ pc = "fields" => line = At(Len(stats)) /\ Through(Len(stats) - 1)
    /\ Over => Told

\* A chain reads on into the line before its successor's, or ends the stream.
LEMMA ExtractStream ==
    ASSUME Types, AtLine, StreamInv, Extract
    PROVE  /\ good' => /\ line' = At(Len(stats) + 1)' - 1 /\ Through(Len(stats))'
                       /\ line' <= lines
           /\ ~good' => Told'
  <1> DEFINE n == Len(stats)
  <1>1. /\ pc = "fields" /\ col = 0 /\ line <= lines + 1 /\ n \in Nat \ {0}
        /\ line \in Nat \ {0} /\ lines \in Nat /\ columns \in {14, 18, 20}
        /\ UNCHANGED <<columns, lines, huge>>
    BY DEF Extract, AtLine, Types
  <1>2. /\ Len(stats') = n /\ stats' \in Seq(Seq(Place)) /\ Len(stats'[n]) = Stored
        /\ \A i \in 1..(n - 1) : stats'[i] = stats[i]
        /\ \A i \in 1..Stored : i <= 14 => stats'[n][i] = [line |-> line, col |-> i]
        /\ good' <=> Taken = 19
        /\ good' => line' = (IF columns = 20 THEN line ELSE line + 1) /\ line' <= lines
    BY Extracted
  <1>3. line = At(n) /\ Through(n - 1) BY <1>1 DEF StreamInv
  <1>4. \A k : At(k)' = At(k) /\ Ends(k)' = Ends(k)
    BY <1>1 DEF At, Ends, WideColumns
  <1>5. stats'[n] \in Seq(Place) BY <1>1, <1>2
  <1>6. \A k \in 1..(n - 1) :
            stats'[k] # <<>> /\ stats'[k][1].line = At(k) /\ At(k) <= lines /\ ~Ends(At(k))
    BY <1>2, <1>3 DEF Through
  <1>7. \A k \in 1..n : k = n \/ (k \in 1..(n - 1) /\ k # n) BY <1>1
  <1>8. CASE line <= lines
    <2>1. Stored >= 14 /\ Stored \in 0..19 /\ (Taken = 19 <=> ~Ends(line))
      BY <1>1, <1>8, Chain
    <2>2. stats'[n][1] = [line |-> line, col |-> 1] BY <1>2, <2>1
    <2>3. stats'[n] # <<>> BY <1>2, <1>5, <2>1
    <2>4. stats'[n][1].line = At(n) BY <1>3, <2>2
    <2>5. CASE Ends(line)
      <3>1. ~good' BY <1>2, <2>1, <2>5
      <3>2. Told' BY <1>1, <1>2, <1>3, <1>4, <1>6, <1>7, <1>8, <2>3, <2>4, <2>5 DEF Told
      <3>3. QED BY <3>1, <3>2
    <2>6. CASE ~Ends(line)
      <3>1. good' BY <1>2, <2>1, <2>6
      <3>2. Through(n)'
        BY <1>1, <1>2, <1>3, <1>4, <1>6, <1>7, <1>8, <2>3, <2>4, <2>6 DEF Through
      <3>3. line' = At(n + 1) - 1 BY <1>1, <1>2, <1>3, <3>1 DEF At
      <3>4. QED BY <1>1, <1>2, <1>4, <3>1, <3>2, <3>3
    <2>7. QED BY <2>5, <2>6
  <1>9. CASE line > lines
    <2>1. Taken = 0 /\ Stored = 0 BY <1>1, <1>9, Chain
    <2>2. ~good' /\ stats'[n] = <<>> BY <1>2, <1>5, <2>1
    <2>3. ~(At(n) <= lines) BY <1>1, <1>3, <1>9
    <2>4. Told' BY <1>1, <1>2, <1>4, <1>6, <1>7, <2>2, <2>3 DEF Told
    <2>5. QED BY <2>2, <2>4
  <1>10. QED BY <1>1, <1>8, <1>9

LEMMA StreamStep == ASSUME Types, AtLine, StreamInv, [Next]_vars PROVE StreamInv'
  <1>1. CASE Open
    <2>1. stats' = <<>> /\ line' = 1 /\ pc' \in {"collect", "line"} BY <1>1 DEF Open
    <2>2. At(1)' = 2 BY DEF At
    <2>3. QED BY <2>1, <2>2 DEF StreamInv, Through, Over, Told
  <1>2. CASE GetLine
    <2>1. CASE good /\ line <= lines
      <3>1. /\ stats' = Append(stats, <<>>) /\ line' = line + 1 /\ pc = "line" /\ pc' = "fields"
            /\ UNCHANGED <<columns, lines, huge>>
        BY <1>2, <2>1 DEF GetLine
      <3>2. /\ Len(stats') = Len(stats) + 1 /\ Len(stats) \in Nat
            /\ \A i \in 1..Len(stats) : stats'[i] = stats[i]
        BY <3>1 DEF Types
      <3>3. line = At(Len(stats) + 1) - 1 /\ Through(Len(stats)) BY <2>1, <3>1 DEF StreamInv
      <3>4. \A k : At(k)' = At(k) /\ Ends(k)' = Ends(k) BY <3>1 DEF At, Ends, WideColumns
      <3>5. Through(Len(stats) - 1)' BY <3>1, <3>2, <3>3, <3>4 DEF Through
      <3>6. line' = At(Len(stats))' BY <3>1, <3>2, <3>3, <3>4 DEF At, Types
      <3>7. QED BY <3>1, <3>5, <3>6 DEF StreamInv, Over
    <2>2. CASE ~(good /\ line <= lines)
      <3>1. /\ pc = "line" /\ pc' = "collect" /\ UNCHANGED <<columns, stats, lines, huge>>
        BY <1>2, <2>2 DEF GetLine
      <3>2. Told
        <4>1. CASE good
          <5>1. stats = <<>> BY <2>2, <3>1, <4>1 DEF StreamInv, Types
          <5>2. QED BY <5>1 DEF Told
        <4>2. CASE ~good BY <3>1, <4>2 DEF StreamInv, Over
        <4>3. QED BY <4>1, <4>2
      <3>3. QED BY <3>1, <3>2 DEF StreamInv, Told, At, Ends, WideColumns
    <2>3. QED BY <2>1, <2>2
  <1>3. CASE Extract
    <2>1. pc' = "line" /\ UNCHANGED lines BY <1>3 DEF Extract
    <2>2. Len(stats') = Len(stats) BY <1>3, Extracted
    <2>3. QED BY <1>3, <2>1, <2>2, ExtractStream DEF StreamInv, Over, Through
  <1>4. CASE Collect BY <1>4 DEF Collect, StreamInv, Over
  <1>5. CASE UNCHANGED vars
    BY <1>5 DEF vars, StreamInv, Over, Told, Through, At, Ends, WideColumns
  <1>6. QED BY <1>1, <1>2, <1>3, <1>4, <1>5 DEF Next

\* On every kernel, for files of any length, a scrape has the disks of the lines
\* that the stream loop comes to, up to the first where the chain fails.
THEOREM DisksKnown == Spec => []WhichDisks
  <1>1. Init => StreamInv BY DEF Init, StreamInv, Through, Over
  <1>2. Types /\ StreamInv => WhichDisks BY DEF Types, StreamInv, Over, Told, WhichDisks
  <1>3. Types /\ AtLine /\ StreamInv /\ [Next]_vars => StreamInv' BY StreamStep
  <1>4. QED BY <1>1, <1>2, <1>3, Induction, PTL DEF Spec
===============================================================================
