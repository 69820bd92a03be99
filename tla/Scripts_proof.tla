----------------------------- MODULE Scripts_proof -----------------------------
(***************************************************************************)
(* Theorems about three scripts.  The benchmark runner: the journal is the *)
(* truth a run can be resumed from, for every matrix, any number of        *)
(* processes and faults, and any bound on the records.  The two host       *)
(* checks, for any executables, events and answers, and for a build and a  *)
(* host that change without a bound.                                       *)
(***************************************************************************)
EXTENDS BenchRun, HostChecks, FiniteSetTheorems, SequenceTheorems, WellFoundedInduction, TLAPS

-----------------------------------------------------------------------------
(* The benchmark runner: numbers                                             *)

LEMMA LeastOf ==
  ASSUME NEW S, S \subseteq Nat, S # {}
  PROVE  \E m \in S : \A n \in S : m <= n
<1>1. \E m \in S : \A n \in S : <<n, m>> \notin OpToRel(<, Nat)
  BY NatLessThanWellFounded, WFMin, Zenon
<1>2. \A m, n \in Nat : n < m => <<n, m>> \in OpToRel(<, Nat)
  BY Zenon DEF OpToRel
<1>3. \E m \in S : \A n \in S : ~(n < m)
  BY <1>1, <1>2, Zenon
<1>4. QED
  BY <1>3

LEMMA MinIsLeast ==
  ASSUME NEW S, S \subseteq Nat, S # {}
  PROVE  Min(S) \in S /\ \A n \in S : Min(S) <= n
BY LeastOf DEF Min

LEMMA MaxIsGreatest ==
  ASSUME NEW n \in Nat, NEW S, S \subseteq 1 .. n, S # {}
  PROVE  Max(S) \in S /\ \A m \in S : m <= Max(S)
<1> DEFINE T == {n - i : i \in S}
<1>1. T \subseteq Nat /\ T # {}
  <2>1. \A i \in S : n - i \in Nat
    OBVIOUS
  <2>2. QED
    BY <2>1
<1>2. PICK t \in T : \A other \in T : t <= other
  <2> HIDE DEF T
  <2> QED
    BY <1>1, LeastOf
<1>3. PICK i \in S : t = n - i
  BY <1>2
<1>4. \A m \in S : i >= m
  <2>1. \A m \in S : n - m \in T /\ m \in Int
    OBVIOUS
  <2>2. \A m \in S : n - i <= n - m
    BY <1>2, <1>3, <2>1
  <2>3. i \in Int
    BY <2>1
  <2>4. QED
    BY <2>1, <2>2, <2>3
<1>5. Max(S) \in S /\ \A m \in S : Max(S) >= m
  BY <1>4 DEF Max
<1>6. QED
  BY <1>5

-----------------------------------------------------------------------------
(* Records                                                                   *)

\* No record of an invocation follows a successful one.
Final(records) ==
  \A i, j \in DOMAIN records :
    records[i].id = records[j].id /\ records[i].status = "success" => j <= i

LEMMA Appended ==
  ASSUME NEW records \in Seq(Record), NEW record \in Record, NEW t,
         t = Append(records, record)
  PROVE  /\ t \in Seq(Record) /\ Len(records) \in Nat /\ Len(t) = Len(records) + 1
         /\ DOMAIN records = 1 .. Len(records) /\ DOMAIN t = 1 .. Len(records) + 1
         /\ \A i \in DOMAIN records : i \in DOMAIN t /\ t[i] = records[i]
         /\ t[Len(records) + 1] = record
         /\ \A i \in DOMAIN t : i \in DOMAIN records \/ i = Len(records) + 1
         /\ Recorded(t) = Recorded(records) \cup {record.id}
<1>1. /\ t \in Seq(Record) /\ Len(records) \in Nat /\ Len(t) = Len(records) + 1
      /\ \A i \in 1 .. Len(records) : t[i] = records[i]
      /\ t[Len(records) + 1] = record
      /\ DOMAIN records = 1 .. Len(records) /\ DOMAIN t = 1 .. Len(t)
  BY AppendProperties, LenProperties
<1>2. \A i \in 1 .. Len(t) : i \in 1 .. Len(records) \/ i = Len(records) + 1
  BY <1>1
<1>3. 1 .. Len(records) \subseteq 1 .. Len(t) /\ Len(records) + 1 \in 1 .. Len(t)
  BY <1>1
<1>4. Recorded(t) = Recorded(records) \cup {record.id}
  BY <1>1, <1>2, <1>3 DEF Recorded
<1>5. QED
  BY <1>1, <1>2, <1>3, <1>4

LEMMA RecordedIsFinite ==
  ASSUME NEW records \in Seq(Record)
  PROVE  /\ IsFiniteSet(Recorded(records)) /\ Recorded(records) \subseteq Ids
         /\ Cardinality(Recorded(records)) \in Nat
         /\ \A S \in SUBSET Recorded(records) : IsFiniteSet(S) /\ Cardinality(S) \in Nat
<1> DEFINE f == [i \in 1 .. Len(records) |-> records[i].id]
<1>1. /\ Len(records) \in Nat /\ DOMAIN records = 1 .. Len(records)
      /\ \A i \in DOMAIN records : records[i] \in Record
  BY LenProperties, ElementOfSeq
<1>2. f \in Surjection(1 .. Len(records), Recorded(records))
  BY <1>1 DEF Surjection, Recorded
<1>3. IsFiniteSet(1 .. Len(records))
  BY <1>1, FS_Interval
<1>4. IsFiniteSet(Recorded(records))
  BY <1>2, <1>3, FS_Surjection
<1>5. Recorded(records) \subseteq Ids
  BY <1>1 DEF Recorded, Record
<1>6. QED
  BY <1>4, <1>5, FS_Subset, FS_CardinalityType

\* An invocation counts as successful if and only if one of its records is.
LEMMA SuccessfulMeans ==
  ASSUME NEW records \in Seq(Record), Final(records), NEW id
  PROVE  id \in Successful(records) <=>
           \E i \in DOMAIN records : records[i].id = id /\ records[i].status = "success"
<1> DEFINE S == {i \in DOMAIN records : records[i].id = id}
<1>1. Len(records) \in Nat /\ DOMAIN records = 1 .. Len(records)
  BY LenProperties
<1>2. S # {} => Max(S) \in S /\ \A m \in S : m <= Max(S)
  <2>1. S \subseteq 1 .. Len(records)
    BY <1>1
  <2> HIDE DEF S
  <2>2. QED
    BY <1>1, <2>1, MaxIsGreatest
<1>3. id \in Recorded(records) <=> S # {}
  BY DEF Recorded
<1>4. Latest(records, id) = records[Max(S)].status
  BY DEF Latest
<1>5. ASSUME id \in Successful(records)
      PROVE  \E i \in DOMAIN records : records[i].id = id /\ records[i].status = "success"
  <2>1. id \in Recorded(records) /\ Latest(records, id) = "success"
    BY <1>5 DEF Successful
  <2>2. Max(S) \in S /\ records[Max(S)].status = "success"
    BY <1>2, <1>3, <1>4, <2>1
  <2>3. QED
    BY <2>2
<1>6. ASSUME NEW i \in DOMAIN records, records[i].id = id, records[i].status = "success"
      PROVE  id \in Successful(records)
  <2>1. i \in S
    BY <1>6
  <2>2. Max(S) \in S /\ i <= Max(S)
    BY <1>2, <2>1
  <2>3. Max(S) <= i
    <3>1. Max(S) \in DOMAIN records /\ records[Max(S)].id = id
      BY <2>2
    <3>2. QED
      BY <1>6, <3>1 DEF Final
  <2>4. Max(S) = i
    BY <1>1, <2>2, <2>3
  <2>5. QED
    BY <1>3, <1>4, <1>6, <2>1, <2>4 DEF Successful
<1>7. QED
  BY <1>5, <1>6

\* What has not succeeded may be executed, and its record appended.
LEMMA FinalAppended ==
  ASSUME NEW records \in Seq(Record), NEW record \in Record, NEW t,
         t = Append(records, record)
  PROVE  /\ Final(records) /\ record.id \notin Successful(records) => Final(t)
         /\ Final(t) =>
              /\ Final(records) /\ record.id \notin Successful(records)
              /\ Successful(t) = IF record.status = "success"
                                 THEN Successful(records) \cup {record.id}
                                 ELSE Successful(records)
<1>1. /\ t \in Seq(Record) /\ Len(records) \in Nat
      /\ DOMAIN records = 1 .. Len(records)
      /\ \A i \in DOMAIN records : i \in DOMAIN t /\ t[i] = records[i]
      /\ t[Len(records) + 1] = record /\ Len(records) + 1 \in DOMAIN t
      /\ \A i \in DOMAIN t : i \in DOMAIN records \/ i = Len(records) + 1
  BY Appended
<1>2. ASSUME Final(records), record.id \notin Successful(records)
      PROVE  Final(t)
  <2>1. \A i \in DOMAIN records : ~(records[i].id = record.id /\ records[i].status = "success")
    BY <1>2, SuccessfulMeans
  <2>2. ASSUME NEW i \in DOMAIN t, NEW j \in DOMAIN t,
               t[i].id = t[j].id, t[i].status = "success"
        PROVE  j <= i
    <3>1. CASE i = Len(records) + 1
      BY <1>1, <3>1
    <3>2. CASE i \in DOMAIN records /\ j \in DOMAIN records
      BY <1>1, <1>2, <2>2, <3>2 DEF Final
    <3>3. CASE i \in DOMAIN records /\ j = Len(records) + 1
      BY <1>1, <2>1, <2>2, <3>3
    <3>4. QED
      BY <1>1, <3>1, <3>2, <3>3
  <2>3. QED
    BY <2>2 DEF Final
<1>3. ASSUME Final(t)
      PROVE  /\ Final(records) /\ record.id \notin Successful(records)
             /\ Successful(t) = IF record.status = "success"
                                THEN Successful(records) \cup {record.id}
                                ELSE Successful(records)
  <2>1. Final(records)
    BY <1>1, <1>3 DEF Final
  <2>2. record.id \notin Successful(records)
    <3>1. SUFFICES ASSUME NEW i \in DOMAIN records, records[i].id = record.id,
                          records[i].status = "success"
                   PROVE  FALSE
      BY <2>1, SuccessfulMeans
    <3>2. Len(records) + 1 <= i
      BY <1>1, <1>3, <3>1 DEF Final
    <3>3. QED
      BY <1>1, <3>2
  <2>3. ASSUME NEW id
        PROVE  id \in Successful(t) <=>
                 id \in Successful(records) \/ (id = record.id /\ record.status = "success")
    <3>1. id \in Successful(t) <=>
            \E i \in DOMAIN t : t[i].id = id /\ t[i].status = "success"
      <4>1. \A rs \in Seq(Record) : Final(rs) =>
              (id \in Successful(rs) <=>
                 \E i \in DOMAIN rs : rs[i].id = id /\ rs[i].status = "success")
        BY SuccessfulMeans
      <4>2. t \in Seq(Record)
        BY <1>1
      <4>3. QED
        BY <1>3, <4>1, <4>2, Zenon
    <3>2. id \in Successful(records) <=>
            \E i \in DOMAIN records : records[i].id = id /\ records[i].status = "success"
      BY <2>1, SuccessfulMeans
    <3>3. QED
      BY <1>1, <3>1, <3>2
  <2>4. QED
    BY <2>1, <2>2, <2>3
<1>4. QED
  BY <1>2, <1>3

LEMMA CountsAreNumbers ==
  ASSUME NEW records \in Seq(Record)
  PROVE  CountsOf(records) \in Counts
<1>1. /\ Successful(records) \subseteq Recorded(records)
      /\ {id \in Recorded(records) : Latest(records, id) = "timed_out"} \in SUBSET Recorded(records)
  BY DEF Successful
<1>2. /\ Cardinality(Recorded(records)) \in Nat /\ Cardinality(Successful(records)) \in Nat
      /\ Cardinality({id \in Recorded(records) : Latest(records, id) = "timed_out"}) \in Nat
  BY <1>1, RecordedIsFinite
<1>3. QED
  BY <1>2 DEF CountsOf, Counts

\* One record more adds at most one invocation, and at most one successful one.
LEMMA AtMostOneMore ==
  ASSUME NEW records \in Seq(Record), NEW record \in Record, NEW t,
         t = Append(records, record), Final(t)
  PROVE  /\ Cardinality(Recorded(t)) - Cardinality(Recorded(records)) \in {0, 1}
         /\ Cardinality(Successful(t)) - Cardinality(Successful(records)) \in {0, 1}
         /\ Rows(records) \subseteq Rows(t) /\ Recorded(records) \subseteq Recorded(t)
<1>1. \A S, x : IsFiniteSet(S) =>
        /\ Cardinality(S) \in Nat
        /\ Cardinality(S \cup {x}) \in {Cardinality(S), Cardinality(S) + 1}
  BY FS_AddElement, FS_CardinalityType, Zenon
<1>2. Recorded(t) = Recorded(records) \cup {record.id}
  BY Appended
<1>3. Successful(t) \in {Successful(records), Successful(records) \cup {record.id}}
  BY FinalAppended
<1>4. IsFiniteSet(Recorded(records)) /\ IsFiniteSet(Successful(records))
  <2>1. Successful(records) \in SUBSET Recorded(records)
    BY DEF Successful
  <2>2. QED
    BY <2>1, RecordedIsFinite
<1>5. \A n \in Nat : n - n \in {0, 1} /\ (n + 1) - n \in {0, 1}
  OBVIOUS
<1>6. Cardinality(Recorded(t)) - Cardinality(Recorded(records)) \in {0, 1}
  BY <1>1, <1>2, <1>4, <1>5
<1>7. Cardinality(Successful(t)) - Cardinality(Successful(records)) \in {0, 1}
  BY <1>1, <1>3, <1>4, <1>5
<1>8. QED
  BY <1>2, <1>3, <1>6, <1>7 DEF Rows

-----------------------------------------------------------------------------
(* Journals *)

RecordsOf(lines) == IF lines = None THEN <<>> ELSE [i \in DOMAIN lines |-> lines[i].record]

IsReadable(lines) ==
  lines # None => \A i \in DOMAIN lines : lines[i].form \in {"whole", "unterminated"}

\* Only the last line may be damaged.
Tidy(lines) ==
  lines # None => \A i \in DOMAIN lines : i < Len(lines) => lines[i].form = "whole"

LEMMA OfTheJournal ==
  /\ Records = RecordsOf(journal)
  /\ Readable <=> IsReadable(journal)
BY DEF Records, RecordsOf, Readable, IsReadable

LEMMA LinesAreLines ==
  ASSUME NEW lines \in Seq(Line)
  PROVE  /\ lines # None /\ Len(lines) \in Nat /\ DOMAIN lines = 1 .. Len(lines)
         /\ \A i \in DOMAIN lines : lines[i] \in Line
         /\ RecordsOf(lines) \in Seq(Record)
         /\ RecordsOf(lines) = [i \in 1 .. Len(lines) |-> lines[i].record]
         /\ Len(RecordsOf(lines)) = Len(lines)
<1>1. /\ lines # None /\ Len(lines) \in Nat /\ DOMAIN lines = 1 .. Len(lines)
      /\ \A i \in DOMAIN lines : lines[i] \in Line
  BY NoneAssumption, LenProperties, ElementOfSeq
<1>2. RecordsOf(lines) = [i \in 1 .. Len(lines) |-> lines[i].record]
  BY <1>1 DEF RecordsOf
<1>3. \A i \in 1 .. Len(lines) : lines[i].record \in Record
  BY <1>1 DEF Line
<1>4. [i \in 1 .. Len(lines) |-> lines[i].record] \in Seq(Record)
  BY <1>1, <1>3
<1>5. Len([i \in 1 .. Len(lines) |-> lines[i].record]) = Len(lines)
  BY <1>1
<1>6. QED
  BY <1>1, <1>2, <1>4, <1>5

LEMMA RecordsOK ==
  ASSUME NEW lines, lines = None \/ lines \in Seq(Line)
  PROVE  RecordsOf(lines) \in Seq(Record)
<1>1. CASE lines = None
  BY <1>1, EmptySeq DEF RecordsOf
<1>2. CASE lines \in Seq(Line)
  BY <1>2, LinesAreLines
<1>3. QED
  BY <1>1, <1>2

\* Written, as a function of the lines.
WrittenTo(lines, record, form) ==
  LET last == Last(lines)
  IN  IF form = "missing" THEN lines
      ELSE IF lines # <<>> /\ last.form # "whole"
      THEN Append(Front(lines), [last EXCEPT !.form = "garbled"])
      ELSE Append(lines, [record |-> record, form |-> form])

\* What a write, complete or cut short, may leave.
Forms == {"whole", "missing", "truncated", "unterminated"}

\* A write adds a record to a readable journal, or damages its last line for good.
LEMMA WritingKeeps ==
  ASSUME NEW lines \in Seq(Line), Tidy(lines), NEW record \in Record,
         NEW form \in Forms, NEW t, t = WrittenTo(lines, record, form)
  PROVE  /\ t \in Seq(Line) /\ Tidy(t)
         /\ IsReadable(t) => IsReadable(lines)
         /\ \/ RecordsOf(t) = RecordsOf(lines) /\ (form = "whole" => ~IsReadable(t))
            \/ IsReadable(lines) /\ RecordsOf(t) = Append(RecordsOf(lines), record)
<1> DEFINE last == Last(lines)
           line == [record |-> record, form |-> form]
           n == Len(lines)
<1>1. /\ lines # None /\ n \in Nat /\ DOMAIN lines = 1 .. n
      /\ \A i \in 1 .. n : lines[i] \in Line
  BY LinesAreLines
<1>2. CASE form = "missing"
  BY <1>2 DEF WrittenTo
<1>3. CASE form # "missing" /\ lines # <<>> /\ last.form # "whole"
  <2>1. n > 0
    BY <1>1, <1>3, EmptySeq
  <2> DEFINE garbled == [last EXCEPT !.form = "garbled"]
             front == Front(lines)
  <2>2. last = lines[n] /\ last \in Line
    BY <1>1, <2>1 DEF Last
  <2>3. garbled \in Line /\ garbled.form = "garbled" /\ garbled.record = last.record
    BY <2>2 DEF Line
  <2>4. /\ front \in Seq(Line) /\ Len(front) = n - 1
        /\ \A i \in 1 .. n - 1 : front[i] = lines[i]
    BY <1>1, <2>1 DEF Front
  <2>5. t = Append(front, garbled)
    BY <1>3 DEF WrittenTo
  <2> HIDE DEF last, garbled, front, n
  <2>6. /\ t \in Seq(Line) /\ Len(t) = n /\ t[n] = garbled
        /\ \A i \in 1 .. n - 1 : t[i] = lines[i]
    <3>1. /\ t \in Seq(Line) /\ Len(t) = Len(front) + 1 /\ t[Len(front) + 1] = garbled
          /\ \A i \in 1 .. Len(front) : t[i] = front[i]
      BY <2>3, <2>4, <2>5, AppendProperties
    <3>2. Len(front) + 1 = n /\ 1 .. Len(front) = 1 .. n - 1
      BY <1>1, <2>4
    <3>3. QED
      BY <2>4, <3>1, <3>2
  <2>7. \A i \in 1 .. n : i \in 1 .. n - 1 \/ i = n
    BY <1>1
  <2>8. t # None /\ DOMAIN t = 1 .. n
    BY <2>6, LinesAreLines
  <2>9. Tidy(t)
    <3>1. \A i \in 1 .. n : i < n => t[i].form = "whole"
      <4>1. \A i \in 1 .. n - 1 : i \in 1 .. n /\ i < n
        BY <1>1
      <4>2. \A i \in 1 .. n - 1 : lines[i].form = "whole"
        BY <1>1, <4>1 DEF Tidy, n
      <4>3. QED
        BY <1>1, <2>6, <2>7, <4>2
    <3>2. QED
      BY <2>6, <2>8, <3>1 DEF Tidy
  <2>10. ~IsReadable(t)
    <3>1. n \in DOMAIN t /\ t[n].form = "garbled"
      BY <1>1, <2>1, <2>3, <2>6, <2>8
    <3>2. QED
      BY <2>8, <3>1 DEF IsReadable
  <2>11. RecordsOf(t) = RecordsOf(lines)
    <3>1. \A i \in 1 .. n : t[i].record = lines[i].record
      BY <2>2, <2>3, <2>6, <2>7
    <3>2. /\ RecordsOf(t) = [i \in 1 .. n |-> t[i].record]
          /\ RecordsOf(lines) = [i \in 1 .. n |-> lines[i].record]
      BY <2>6, LinesAreLines DEF n
    <3>3. QED
      BY <3>1, <3>2
  <2>12. QED
    BY <2>6, <2>9, <2>10, <2>11
<1>4. CASE form # "missing" /\ ~(lines # <<>> /\ last.form # "whole")
  <2>1. line \in Line /\ t = Append(lines, line)
    BY <1>4 DEF WrittenTo, Line, Forms
  <2>2. \A i \in 1 .. n : lines[i].form = "whole"
    <3>1. CASE lines = <<>>
      BY <3>1, EmptySeq
    <3>2. CASE last.form = "whole"
      <4>1. last = lines[n]
        BY DEF Last
      <4>2. \A i \in 1 .. n : i < n => lines[i].form = "whole"
        BY <1>1 DEF Tidy
      <4>3. \A i \in 1 .. n : i < n \/ i = n
        <5> HIDE DEF n
        <5>1. QED
          BY <1>1
      <4>4. QED
        BY <3>2, <4>1, <4>2, <4>3
    <3>3. QED
      BY <1>4, <3>1, <3>2
  <2>3. line.record = record /\ line.form = form
    OBVIOUS
  <2> HIDE DEF last, line, n
  <2>4. /\ t \in Seq(Line) /\ Len(t) = n + 1 /\ t[n + 1] = line
        /\ \A i \in 1 .. n : t[i] = lines[i]
    BY <2>1, AppendProperties DEF n
  <2>5. t # None /\ DOMAIN t = 1 .. n + 1
    BY <2>4, LinesAreLines
  <2>6. \A i \in 1 .. n + 1 : i \in 1 .. n \/ i = n + 1
    BY <1>1
  <2>7. Tidy(t)
    <3>1. \A i \in 1 .. n + 1 : i < n + 1 => i \in 1 .. n
      BY <1>1
    <3>2. QED
      BY <2>2, <2>4, <2>5, <3>1 DEF Tidy
  <2>8. IsReadable(lines)
    BY <1>1, <2>2 DEF IsReadable
  <2>9. RecordsOf(t) = Append(RecordsOf(lines), record)
    <3> DEFINE a == Append(RecordsOf(lines), record)
    <3>1. /\ RecordsOf(lines) \in Seq(Record) /\ Len(RecordsOf(lines)) = n
          /\ RecordsOf(lines) = [i \in 1 .. n |-> lines[i].record]
          /\ RecordsOf(t) \in Seq(Record) /\ Len(RecordsOf(t)) = n + 1
          /\ RecordsOf(t) = [i \in 1 .. n + 1 |-> t[i].record]
      BY <2>4, LinesAreLines DEF n
    <3>2. /\ a \in Seq(Record) /\ Len(a) = n + 1 /\ a[n + 1] = record
          /\ \A i \in 1 .. n : a[i] = RecordsOf(lines)[i]
      <4> DEFINE rs == RecordsOf(lines)
      <4>1. rs \in Seq(Record) /\ Len(rs) = n
        BY <3>1
      <4> HIDE DEF rs
      <4>2. /\ Append(rs, record) \in Seq(Record) /\ Len(Append(rs, record)) = n + 1
            /\ Append(rs, record)[n + 1] = record
            /\ \A i \in 1 .. n : Append(rs, record)[i] = rs[i]
        BY <4>1, AppendProperties
      <4>3. QED
        BY <4>2 DEF rs
    <3>3. \A i \in 1 .. n + 1 : a[i] = t[i].record
      <4>1. \A i \in 1 .. n : RecordsOf(lines)[i] = lines[i].record
        BY <3>1
      <4>2. QED
        BY <2>3, <2>4, <2>6, <3>2, <4>1
    <3>4. \A i \in 1 .. n + 1 : RecordsOf(t)[i] = t[i].record
      BY <3>1
    <3> HIDE DEF a
    <3>5. RecordsOf(t) = a
      BY <1>1, <3>1, <3>2, <3>3, <3>4, SeqEqual
    <3>6. QED
      BY <3>5 DEF a
  <2>10. QED
    BY <2>4, <2>7, <2>8, <2>9
<1>5. QED
  BY <1>2, <1>3, <1>4

LEMMA RecordIsAppended ==
  ASSUME NEW lines \in Seq(Line), Tidy(lines), NEW record \in Record,
         NEW t, t = WrittenTo(lines, record, "whole")
  PROVE  /\ t \in Seq(Line) /\ Tidy(t)
         /\ IsReadable(t) => IsReadable(lines)
         /\ \/ RecordsOf(t) = RecordsOf(lines) /\ ~IsReadable(t)
            \/ IsReadable(lines) /\ RecordsOf(t) = Append(RecordsOf(lines), record)
<1>1. "whole" \in Forms
  BY DEF Forms
<1>2. QED
  BY <1>1, WritingKeeps

-----------------------------------------------------------------------------
(* The invariant *)

Ahead(records, existing) ==
  \E record \in Record : records = Append(existing, record)

\* What the process knows of the journal, if all of it can be read: everything, or
\* everything but the record it appended last.
InStep(p, lines) ==
  IsReadable(lines) =>
    /\ p.at \in {"open", "next", "append"} => RecordsOf(lines) = p.existing
    /\ p.at = "note" => RecordsOf(lines) = Append(p.existing, p.record)
    /\ p.at \in {"finish", "csv"} =>
         \/ RecordsOf(lines) = p.existing
         \/ p.cause \notin {"none", "limit"} /\ Ahead(RecordsOf(lines), p.existing)

ProcessKept(p, lines) ==
  /\ p.at \in {"next", "append", "note"} => lines # None
  /\ p.at \in {"append", "note"} =>
       p.record # None /\ p.record.id \notin Successful(p.existing)
  /\ p.at = "csv" => p.cause # "error"
  /\ InStep(p, lines)

RunKept ==
  run # None =>
    /\ summary # None /\ summary.counts = CountsOf(run.existing)
    /\ ProcessKept(run, journal)
    /\ run.at = "csv" /\ summary.status = "completed" =>
         Complete(run) /\ run.cause # "interrupted"

\* The counts are those of all records, or of all but the last.
Counted(counts, lines) ==
  IsReadable(lines) =>
    \E existing \in Seq(Record) :
      /\ counts = CountsOf(existing)
      /\ RecordsOf(lines) = existing \/ Ahead(RecordsOf(lines), existing)

SummaryKept == run = None /\ summary # None => Counted(summary.counts, journal)

JournalKept == Tidy(journal) /\ Final(RecordsOf(journal))

Inv ==
  /\ TypeOK
  /\ JournalKept
  /\ RunKept
  /\ SummaryKept

LEMMA ProcessIsProcess ==
  ASSUME NEW p \in Process
  PROVE  /\ p # None /\ p.existing \in Seq(Record) /\ p.plan \in Plans /\ p.plan \in Seq(Ids)
         /\ p.record \in Record \cup {None}
BY BenchAssumption, NoneAssumption DEF Process

\* Wherever a process stands, the summary it has written is accurate enough.
LEMMA RunCounted ==
  ASSUME NEW p \in Process, NEW lines, ProcessKept(p, lines)
  PROVE  Counted(CountsOf(p.existing), lines)
<1>1. IsReadable(lines) =>
        RecordsOf(lines) = p.existing \/ Ahead(RecordsOf(lines), p.existing)
  <2>1. p.at \in {"open", "next", "append", "note", "finish", "csv"}
    BY DEF Process
  <2>2. p.at = "note" => p.record \in Record
    BY ProcessIsProcess DEF ProcessKept
  <2>3. QED
    BY <2>1, <2>2 DEF ProcessKept, InStep, Ahead
<1>2. QED
  BY <1>1, ProcessIsProcess DEF Counted

\* A process that is stopped, but for its appending, finishes with what it has.
LEMMA StoppedKept ==
  ASSUME NEW p \in Process, NEW lines, ProcessKept(p, lines),
         NEW q \in Process, q.at = "finish", q.existing = p.existing,
         \/ q.cause \notin {"none", "limit"}
         \/ p.at = "next"
  PROVE  ProcessKept(q, lines)
<1>1. Counted(CountsOf(p.existing), lines)
  BY RunCounted
<1>2. IsReadable(lines) =>
        \/ RecordsOf(lines) = q.existing
        \/ q.cause \notin {"none", "limit"} /\ Ahead(RecordsOf(lines), q.existing)
  <2>1. p.at \in {"open", "next", "append", "note", "finish", "csv"}
    BY DEF Process
  <2>2. p.at = "note" => p.record \in Record
    BY ProcessIsProcess DEF ProcessKept
  <2>3. QED
    BY <2>1, <2>2 DEF ProcessKept, InStep, Ahead
<1>3. QED
  BY <1>2 DEF ProcessKept, InStep

LEMMA Initially == Init => Inv
<1> SUFFICES ASSUME Init PROVE Inv
  OBVIOUS
<1>1. journal = None /\ summary = None /\ run = None /\ faults = 0
      /\ csv = [form |-> "missing", rows |-> {}]
  BY DEF Init
<1>2. TypeOK
  BY <1>1, BenchAssumption DEF TypeOK, Csv
<1>3. RecordsOf(journal) = <<>>
  BY <1>1 DEF RecordsOf
<1>4. Final(<<>>)
  BY EmptySeq, LenProperties DEF Final
<1>5. QED
  BY <1>1, <1>2, <1>3, <1>4 DEF Inv, JournalKept, Tidy, RunKept, SummaryKept

\* A new process starts from a journal it can read, and reads all of it.
LEMMA BeginKeeps ==
  ASSUME Inv, NEW plan \in Plans, NEW retry \in BOOLEAN, NEW partial \in BOOLEAN,
         Begin(plan, retry, partial), Readable
  PROVE  Inv'
<1> DEFINE p == [ at |-> "open", plan |-> plan, position |-> 1, retry |-> retry,
                  partial |-> partial, existing |-> Records, record |-> None,
                  cause |-> "none" ]
<1>1. run' = p /\ summary' = Running(p) /\ UNCHANGED <<journal, csv, faults>>
  BY DEF Begin
<1>2. Records \in Seq(Record) /\ Records = RecordsOf(journal)
  BY OfTheJournal, RecordsOK DEF Inv, TypeOK
<1>3. p \in Process
  BY <1>2 DEF Process
<1>4. /\ p.at = "open" /\ p.existing = RecordsOf(journal)
      /\ p.plan = plan /\ p.record = None
  BY <1>2
<1> HIDE DEF p
<1>5. ProcessKept(p, journal)
  BY <1>4 DEF ProcessKept, InStep
<1>6. /\ Running(p) \in Summary /\ Running(p).counts = CountsOf(p.existing)
  BY <1>2, <1>4, CountsAreNumbers DEF Running, Summary
<1>7. run' # None /\ summary' # None
  BY <1>1, <1>3, <1>6, NoneAssumption
<1>8. TypeOK'
  BY <1>1, <1>3, <1>6 DEF Inv, TypeOK
<1>9. RunKept' /\ SummaryKept' /\ JournalKept'
  <2>1. JournalKept'
    BY <1>1 DEF Inv, JournalKept
  <2>2. SummaryKept'
    BY <1>7 DEF SummaryKept
  <2>3. run'.at # "csv" /\ ProcessKept(run', journal') /\ summary'.counts = CountsOf(run'.existing)
    BY <1>1, <1>4, <1>5, <1>6
  <2>4. QED
    BY <1>7, <2>1, <2>2, <2>3 DEF RunKept
<1>10. QED
  BY <1>8, <1>9 DEF Inv

\* What the invariant says of a running process.
LEMMA WhileRunning ==
  ASSUME Inv, run # None
  PROVE  /\ run \in Process /\ summary \in Summary /\ ProcessKept(run, journal)
         /\ summary.counts = CountsOf(run.existing)
         /\ journal = None \/ journal \in Seq(Line)
         /\ csv \in Csv /\ faults \in 0 .. MaxFaults
BY DEF Inv, RunKept, TypeOK

\* A step of the process, or what stops it but leaves the finally clause to run.
LEMMA ProcessSteps ==
  ASSUME Inv, run # None, run' \in Process, summary' \in Summary, faults' \in 0 .. MaxFaults,
         journal' = None \/ journal' \in Seq(Line), UNCHANGED csv, JournalKept',
         summary'.counts = CountsOf(run'.existing), ProcessKept(run', journal'),
         run'.at = "csv" /\ summary'.status = "completed" =>
           Complete(run') /\ run'.cause # "interrupted"
  PROVE  Inv'
<1>1. TypeOK'
  BY WhileRunning DEF TypeOK
<1>2. run' # None /\ summary' # None
  BY NoneAssumption
<1>3. SummaryKept'
  BY <1>2 DEF SummaryKept
<1>4. RunKept'
  <2>1. summary' # None /\ summary'.counts = CountsOf(run'.existing)
        /\ ProcessKept(run', journal')
    BY <1>2
  <2>2. run'.at = "csv" /\ summary'.status = "completed" =>
          Complete(run') /\ run'.cause # "interrupted"
    OBVIOUS
  <2>3. QED
    BY <2>1, <2>2 DEF RunKept
<1>5. QED
  BY <1>1, <1>3, <1>4 DEF Inv

\* The process is gone.
LEMMA ProcessEnds ==
  ASSUME Inv, run # None, run' = None, summary' \in Summary, faults' \in 0 .. MaxFaults,
         journal' = None \/ journal' \in Seq(Line), csv' \in Csv, JournalKept',
         summary'.counts = CountsOf(run.existing), Counted(CountsOf(run.existing), journal')
  PROVE  Inv'
<1>1. TypeOK'
  BY DEF TypeOK
<1>2. SummaryKept'
  BY DEF SummaryKept
<1>3. RunKept'
  BY DEF RunKept
<1>4. QED
  BY <1>1, <1>2, <1>3 DEF Inv

LEMMA OpenKeeps ==
  ASSUME Inv, OpenJournal
  PROVE  Inv'
<1> DEFINE q == [run EXCEPT !.at = "next"]
<1>1. /\ run # None /\ run.at = "open" /\ run' = q
      /\ journal' = (IF journal = None THEN <<>> ELSE journal)
      /\ UNCHANGED <<summary, csv, faults>>
  BY DEF OpenJournal
<1>2. /\ run \in Process /\ summary \in Summary /\ ProcessKept(run, journal)
      /\ summary.counts = CountsOf(run.existing)
      /\ journal = None \/ journal \in Seq(Line)
      /\ csv \in Csv /\ faults \in 0 .. MaxFaults
  BY <1>1, WhileRunning
<1>3. q \in Process /\ q.at = "next" /\ q.existing = run.existing
  BY <1>2 DEF Process
<1> HIDE DEF q
<1>4. journal' \in Seq(Line)
  BY <1>1, <1>2, EmptySeq
<1>5. RecordsOf(journal') = RecordsOf(journal)
  <2>1. RecordsOf(<<>>) = <<>>
    BY NoneAssumption, EmptySeq DEF RecordsOf
  <2>2. QED
    BY <1>1, <2>1 DEF RecordsOf
<1>6. Tidy(journal') /\ (IsReadable(journal') => IsReadable(journal))
  <2>1. Tidy(<<>>) /\ IsReadable(None)
    BY EmptySeq, LenProperties DEF Tidy, IsReadable
  <2>2. QED
    BY <1>1, <2>1 DEF Inv, JournalKept
<1>7. JournalKept'
  BY <1>5, <1>6 DEF Inv, JournalKept
<1>8. journal' # None
  BY <1>4, NoneAssumption
<1>9. ProcessKept(q, journal')
  BY <1>1, <1>2, <1>3, <1>5, <1>6, <1>8 DEF ProcessKept, InStep
<1>10. QED
  BY <1>1, <1>2, <1>3, <1>4, <1>7, <1>9, ProcessSteps

\* The invocation that is executed has not succeeded yet.
LEMMA ExecuteKeeps ==
  ASSUME Inv, Execute
  PROVE  Inv'
<1>1. /\ run # None /\ run.at = "next" /\ Todo(run) # {} /\ UNCHANGED <<disk, faults>>
  BY DEF Execute
<1>2. /\ run \in Process /\ summary \in Summary /\ ProcessKept(run, journal)
      /\ summary.counts = CountsOf(run.existing)
      /\ journal = None \/ journal \in Seq(Line)
      /\ csv \in Csv /\ faults \in 0 .. MaxFaults
  BY <1>1, WhileRunning
<1> DEFINE i == Min(Todo(run))
<1>3. i \in Todo(run)
  <2>1. run.plan \in Seq(Ids)
    BY <1>2, ProcessIsProcess
  <2>2. Todo(run) \subseteq Nat
    BY <2>1, LenProperties DEF Todo
  <2>3. QED
    BY <1>1, <2>2, MinIsLeast
<1> HIDE DEF i
<1>4. PICK record \in Executed(run.plan[i]) :
        run' = [run EXCEPT !.at = "append", !.position = i + 1, !.record = record]
  BY DEF Execute, i
<1>5. i \in Nat /\ run.plan[i] \in Ids
  <2>1. run.plan \in Seq(Ids) /\ i \in DOMAIN run.plan
    BY <1>2, <1>3, ProcessIsProcess DEF Todo
  <2>2. QED
    BY <2>1, LenProperties, ElementOfSeq
<1>6. record \in Record /\ record.id = run.plan[i]
  BY <1>4, <1>5 DEF Executed, Record
<1>7. run.plan[i] \notin Successful(run.existing)
  BY <1>3 DEF Todo, Skipped, Successful
<1> DEFINE q == [run EXCEPT !.at = "append", !.position = i + 1, !.record = record]
<1>8. /\ q \in Process /\ q.at = "append" /\ q.existing = run.existing /\ q.record = record
  <2>1. i + 1 \in Nat
    BY <1>5
  <2>2. QED
    BY <1>2, <1>6, <2>1 DEF Process
<1>9. run' = q
  BY <1>4
<1> HIDE DEF q
<1>10. ProcessKept(q, journal)
  BY <1>1, <1>2, <1>6, <1>7, <1>8, NoneAssumption DEF ProcessKept, InStep
<1>11. JournalKept'
  BY <1>1 DEF disk, Inv, JournalKept
<1>12. UNCHANGED <<journal, summary, csv, faults>>
  BY <1>1 DEF disk
<1>13. QED
  BY <1>1, <1>2, <1>8, <1>9, <1>10, <1>11, <1>12, ProcessSteps

LEMMA AppendKeeps ==
  ASSUME Inv, AppendRecord
  PROVE  Inv'
<1>1. /\ run # None /\ run.at = "append" /\ run' = [run EXCEPT !.at = "note"]
      /\ journal' = WrittenTo(journal, run.record, "whole")
      /\ UNCHANGED <<summary, csv, faults>>
  BY DEF AppendRecord, Written, WrittenTo
<1>2. /\ run \in Process /\ summary \in Summary /\ ProcessKept(run, journal)
      /\ summary.counts = CountsOf(run.existing)
      /\ journal \in Seq(Line) /\ faults \in 0 .. MaxFaults
      /\ run.record \in Record /\ run.record.id \notin Successful(run.existing)
  BY <1>1, WhileRunning, ProcessIsProcess DEF ProcessKept
<1> DEFINE q == [run EXCEPT !.at = "note"]
<1>3. /\ q \in Process /\ q.at = "note" /\ q.existing = run.existing
      /\ q.record = run.record /\ run' = q
  BY <1>1, <1>2 DEF Process
<1> HIDE DEF q
<1>4. /\ journal' \in Seq(Line) /\ Tidy(journal')
      /\ IsReadable(journal') => IsReadable(journal)
      /\ \/ RecordsOf(journal') = RecordsOf(journal) /\ ~IsReadable(journal')
         \/ /\ IsReadable(journal)
            /\ RecordsOf(journal') = Append(RecordsOf(journal), run.record)
  BY <1>1, <1>2, RecordIsAppended DEF Inv, JournalKept
<1>5. IsReadable(journal) => RecordsOf(journal) = run.existing
  BY <1>1, <1>2 DEF ProcessKept, InStep
<1>6. JournalKept'
  <2>1. Final(RecordsOf(journal))
    BY DEF Inv, JournalKept
  <2>2. run.existing \in Seq(Record)
    BY <1>2, ProcessIsProcess
  <2>3. CASE RecordsOf(journal') = RecordsOf(journal)
    BY <1>4, <2>1, <2>3 DEF JournalKept
  <2>4. CASE /\ IsReadable(journal)
             /\ RecordsOf(journal') = Append(RecordsOf(journal), run.record)
    <3>1. Final(Append(run.existing, run.record))
      BY <1>2, <1>5, <2>1, <2>2, <2>4, FinalAppended
    <3>2. QED
      BY <1>4, <1>5, <2>4, <3>1 DEF JournalKept
  <2>5. QED
    BY <1>4, <2>3, <2>4
<1>7. journal' # None /\ run.record # None
  BY <1>2, <1>4, NoneAssumption
<1>8. ProcessKept(q, journal')
  BY <1>2, <1>3, <1>4, <1>5, <1>7 DEF ProcessKept, InStep
<1>9. QED
  BY <1>1, <1>2, <1>3, <1>4, <1>6, <1>8, ProcessSteps

LEMMA NoteKeeps ==
  ASSUME Inv, NoteRecord
  PROVE  Inv'
<1> DEFINE q == [run EXCEPT !.at = "next", !.existing = Append(@, run.record), !.record = None]
<1>1. /\ run # None /\ run.at = "note" /\ run' = q /\ summary' = Running(q)
      /\ UNCHANGED <<journal, csv, faults>>
  BY DEF NoteRecord
<1>2. /\ run \in Process /\ ProcessKept(run, journal)
      /\ journal = None \/ journal \in Seq(Line)
      /\ csv \in Csv /\ faults \in 0 .. MaxFaults
      /\ run.record \in Record /\ run.existing \in Seq(Record) /\ journal # None
  BY <1>1, WhileRunning, ProcessIsProcess DEF ProcessKept
<1>3. Append(run.existing, run.record) \in Seq(Record)
  BY <1>2, AppendProperties
<1>4. /\ q \in Process /\ q.at = "next" /\ q.existing = Append(run.existing, run.record)
      /\ q.plan \in Plans
  BY <1>2, <1>3 DEF Process
<1> HIDE DEF q
<1>5. Running(q) \in Summary /\ Running(q).counts = CountsOf(q.existing)
  BY <1>3, <1>4, CountsAreNumbers DEF Running, Summary
<1>6. ProcessKept(q, journal)
  BY <1>1, <1>2, <1>4 DEF ProcessKept, InStep
<1>7. JournalKept'
  BY <1>1 DEF Inv, JournalKept
<1>8. QED
  BY <1>1, <1>2, <1>4, <1>5, <1>6, <1>7, ProcessSteps

LEMMA FinishKeeps ==
  ASSUME Inv, Finish
  PROVE  Inv'
<1> DEFINE status == IF run.cause = "interrupted" THEN "interrupted"
                     ELSE IF Complete(run) THEN "completed"
                     ELSE IF run.cause = "limit" THEN "failed" ELSE "running"
           q == [run EXCEPT !.at = "csv"]
<1>1. /\ run # None /\ run.at = "finish"
      /\ summary' = [summary EXCEPT !.status = status]
      /\ run' = (IF run.cause = "error" THEN None ELSE q)
      /\ UNCHANGED <<journal, csv, faults>>
  BY DEF Finish
<1>2. /\ run \in Process /\ summary \in Summary /\ ProcessKept(run, journal)
      /\ summary.counts = CountsOf(run.existing)
      /\ journal = None \/ journal \in Seq(Line)
      /\ csv \in Csv /\ faults \in 0 .. MaxFaults
  BY <1>1, WhileRunning
<1>3. /\ summary' \in Summary /\ summary'.counts = CountsOf(run.existing)
      /\ summary'.status = status
  BY <1>1, <1>2 DEF Summary
<1>4. JournalKept'
  BY <1>1 DEF Inv, JournalKept
<1>5. CASE run.cause = "error"
  <2>1. Counted(CountsOf(run.existing), journal)
    BY <1>2, RunCounted
  <2>2. QED
    BY <1>1, <1>2, <1>3, <1>4, <1>5, <2>1, ProcessEnds
<1>6. CASE run.cause # "error"
  <2>1. /\ q \in Process /\ q.at = "csv" /\ q.existing = run.existing
        /\ q.cause = run.cause /\ q.plan = run.plan
    BY <1>2 DEF Process
  <2>2. status = "completed" => Complete(run) /\ run.cause # "interrupted"
    OBVIOUS
  <2> HIDE DEF q, status
  <2>3. ProcessKept(q, journal)
    BY <1>1, <1>2, <1>6, <2>1 DEF ProcessKept, InStep
  <2>4. Complete(run) => Complete(q)
    BY <2>1 DEF Complete
  <2>5. QED
    BY <1>1, <1>2, <1>3, <1>4, <1>6, <2>1, <2>2, <2>3, <2>4, ProcessSteps
<1>7. QED
  BY <1>5, <1>6

LEMMA CsvIsCsv ==
  ASSUME NEW p \in Process, NEW form \in {"normal", "incomplete"}
  PROVE  /\ [form |-> form, rows |-> Rows(p.existing)] \in Csv
         /\ [form |-> "missing", rows |-> {}] \in Csv /\ [form |-> "torn", rows |-> {}] \in Csv
<1>1. Rows(p.existing) \subseteq Ids
  BY ProcessIsProcess, RecordedIsFinite DEF Rows, Successful
<1>2. QED
  BY <1>1 DEF Csv

LEMMA WriteCsvKeeps ==
  ASSUME Inv, WriteCsv
  PROVE  Inv'
<1>1. /\ run # None /\ run' = None /\ UNCHANGED <<journal, summary, faults>>
  BY DEF WriteCsv
<1>2. /\ run \in Process /\ summary \in Summary /\ ProcessKept(run, journal)
      /\ summary.counts = CountsOf(run.existing)
      /\ journal = None \/ journal \in Seq(Line)
      /\ faults \in 0 .. MaxFaults
  BY <1>1, WhileRunning
<1>3. csv' \in Csv
  BY <1>2, CsvIsCsv DEF WriteCsv
<1>4. JournalKept'
  BY <1>1 DEF Inv, JournalKept
<1>5. Counted(CountsOf(run.existing), journal)
  BY <1>2, RunCounted
<1>6. QED
  BY <1>1, <1>2, <1>3, <1>4, <1>5, ProcessEnds

\* The loop ends, because nothing is left or because something stops it.
LEMMA StopKeeps ==
  ASSUME Inv, run # None, UNCHANGED disk, faults' \in 0 .. MaxFaults,
         run' \in Process, run'.at = "finish", run'.existing = run.existing,
         run.at = "next" \/ run'.cause \notin {"none", "limit"}
  PROVE  Inv'
<1>1. /\ run \in Process /\ summary \in Summary /\ ProcessKept(run, journal)
      /\ summary.counts = CountsOf(run.existing)
      /\ journal = None \/ journal \in Seq(Line)
      /\ UNCHANGED <<journal, summary, csv>>
  BY WhileRunning DEF disk
<1>2. ProcessKept(run', journal)
  BY <1>1, StoppedKept
<1>3. JournalKept'
  BY <1>1 DEF Inv, JournalKept
<1>4. QED
  BY <1>1, <1>2, <1>3, ProcessSteps

LEMMA FaultCounts ==
  ASSUME Inv, Fault
  PROVE  faults' \in 0 .. MaxFaults /\ faults' # faults
BY BenchAssumption DEF Inv, TypeOK, Fault

LEMMA LoopEndsKeep == Inv /\ LoopEnds => Inv'
<1> SUFFICES ASSUME Inv, LoopEnds PROVE Inv'
  OBVIOUS
<1>1. /\ run # None /\ run.at = "next" /\ run' = [run EXCEPT !.at = "finish"]
      /\ UNCHANGED disk /\ faults' = faults
  BY DEF LoopEnds
<1>2. run \in Process /\ faults \in 0 .. MaxFaults
  BY <1>1, WhileRunning
<1>3. run' \in Process /\ run'.at = "finish" /\ run'.existing = run.existing
  BY <1>1, <1>2 DEF Process
<1>4. QED
  BY <1>1, <1>2, <1>3, StopKeeps

LEMMA LimitKeeps == Inv /\ TimeLimit => Inv'
<1> SUFFICES ASSUME Inv, TimeLimit PROVE Inv'
  OBVIOUS
<1>1. /\ run # None /\ run.at = "next"
      /\ run' = [run EXCEPT !.at = "finish", !.cause = "limit"] /\ UNCHANGED disk
      /\ faults' \in 0 .. MaxFaults
  BY FaultCounts DEF TimeLimit
<1>2. run \in Process
  BY <1>1, WhileRunning
<1>3. run' \in Process /\ run'.at = "finish" /\ run'.existing = run.existing
  BY <1>1, <1>2 DEF Process
<1>4. QED
  BY <1>1, <1>3, StopKeeps

LEMMA InterruptKeeps == Inv /\ Interrupt => Inv'
<1> SUFFICES ASSUME Inv, Interrupt PROVE Inv'
  OBVIOUS
<1>1. /\ run # None /\ run' = [run EXCEPT !.at = "finish", !.cause = "interrupted"]
      /\ UNCHANGED disk /\ faults' \in 0 .. MaxFaults
  BY FaultCounts DEF Interrupt
<1>2. run \in Process
  BY <1>1, WhileRunning
<1>3. /\ run' \in Process /\ run'.at = "finish" /\ run'.existing = run.existing
      /\ run'.cause = "interrupted"
  BY <1>1, <1>2 DEF Process
<1>4. QED
  BY <1>1, <1>3, StopKeeps

\* A record that is torn is lost, or is read as if it were whole, but damages nothing else.
LEMMA TornWrite ==
  ASSUME Inv, run # None, run.at = "append", NEW tear \in Tears,
         journal' = Written(run.record, tear)
  PROVE  /\ journal' \in Seq(Line) /\ JournalKept'
         /\ IsReadable(journal') =>
              \/ RecordsOf(journal') = run.existing
              \/ Ahead(RecordsOf(journal'), run.existing)
<1>1. /\ run \in Process /\ ProcessKept(run, journal) /\ run.existing \in Seq(Record)
      /\ journal \in Seq(Line)
      /\ run.record \in Record /\ run.record.id \notin Successful(run.existing)
  BY WhileRunning, ProcessIsProcess DEF ProcessKept
<1>2. tear \in Forms
  BY BenchAssumption DEF Forms
<1>3. journal' = WrittenTo(journal, run.record, tear)
  BY DEF Written, WrittenTo
<1>4. Tidy(journal) /\ Final(RecordsOf(journal))
  BY DEF Inv, JournalKept
<1>5. /\ journal' \in Seq(Line) /\ Tidy(journal')
      /\ IsReadable(journal') => IsReadable(journal)
      /\ \/ RecordsOf(journal') = RecordsOf(journal)
         \/ /\ IsReadable(journal)
            /\ RecordsOf(journal') = Append(RecordsOf(journal), run.record)
  BY <1>1, <1>2, <1>3, <1>4, WritingKeeps
<1>6. IsReadable(journal) => RecordsOf(journal) = run.existing
  BY <1>1 DEF ProcessKept, InStep
<1>7. JournalKept'
  <2>1. CASE RecordsOf(journal') = RecordsOf(journal)
    BY <1>4, <1>5, <2>1 DEF JournalKept
  <2>2. CASE /\ IsReadable(journal)
             /\ RecordsOf(journal') = Append(RecordsOf(journal), run.record)
    <3>1. Final(Append(run.existing, run.record))
      BY <1>1, <1>4, <1>6, <2>2, FinalAppended
    <3>2. QED
      BY <1>5, <1>6, <2>2, <3>1 DEF JournalKept
  <2>3. QED
    BY <1>5, <2>1, <2>2
<1>8. QED
  BY <1>1, <1>5, <1>6, <1>7 DEF Ahead

LEMMA AppendFailsKeeps == Inv /\ AppendFails => Inv'
<1> SUFFICES ASSUME Inv, AppendFails PROVE Inv'
  OBVIOUS
<1>1. PICK tear \in Tears : journal' = Written(run.record, tear)
  BY DEF AppendFails
<1>2. /\ run # None /\ run.at = "append" /\ UNCHANGED <<summary, csv>>
      /\ run' = [run EXCEPT !.at = "finish", !.cause = "error"]
      /\ faults' \in 0 .. MaxFaults
  BY FaultCounts DEF AppendFails
<1>3. /\ run \in Process /\ summary \in Summary /\ summary.counts = CountsOf(run.existing)
  BY <1>2, WhileRunning
<1>4. /\ run' \in Process /\ run'.at = "finish" /\ run'.existing = run.existing
      /\ run'.cause = "error"
  BY <1>2, <1>3 DEF Process
<1>5. /\ journal' \in Seq(Line) /\ JournalKept'
      /\ IsReadable(journal') =>
           \/ RecordsOf(journal') = run.existing
           \/ Ahead(RecordsOf(journal'), run.existing)
  BY <1>1, <1>2, TornWrite
<1>6. ProcessKept(run', journal')
  BY <1>4, <1>5 DEF ProcessKept, InStep
<1>7. QED
  BY <1>2, <1>3, <1>4, <1>5, <1>6, ProcessSteps

LEMMA KillKeeps == Inv /\ Kill => Inv'
<1> SUFFICES ASSUME Inv, Kill PROVE Inv'
  OBVIOUS
<1>1. /\ run # None /\ run' = None /\ summary' = summary /\ faults' \in 0 .. MaxFaults
      /\ csv' \in {csv, [form |-> "torn", rows |-> {}]}
      /\ IF run.at = "append" THEN \E tear \in Tears : journal' = Written(run.record, tear)
                              ELSE UNCHANGED journal
  BY FaultCounts DEF Kill
<1>2. /\ run \in Process /\ summary \in Summary /\ ProcessKept(run, journal)
      /\ summary.counts = CountsOf(run.existing) /\ run.existing \in Seq(Record)
      /\ journal = None \/ journal \in Seq(Line)
      /\ csv \in Csv
  BY <1>1, WhileRunning, ProcessIsProcess
<1>3. csv' \in Csv
  BY <1>1, <1>2, CsvIsCsv
<1>4. CASE run.at = "append"
  <2>1. /\ journal' \in Seq(Line) /\ JournalKept'
        /\ IsReadable(journal') =>
             \/ RecordsOf(journal') = run.existing
             \/ Ahead(RecordsOf(journal'), run.existing)
    BY <1>1, <1>4, TornWrite
  <2>2. Counted(CountsOf(run.existing), journal')
    BY <1>2, <2>1 DEF Counted
  <2>3. QED
    BY <1>1, <1>2, <1>3, <2>1, <2>2, ProcessEnds
<1>5. CASE run.at # "append"
  <2>1. UNCHANGED journal /\ Counted(CountsOf(run.existing), journal)
    BY <1>1, <1>2, <1>5, RunCounted
  <2>2. JournalKept'
    BY <2>1 DEF Inv, JournalKept
  <2>3. Counted(CountsOf(run.existing), journal')
    BY <2>1
  <2>4. QED
    BY <1>1, <1>2, <1>3, <2>1, <2>2, <2>3, ProcessEnds
<1>6. QED
  BY <1>4, <1>5

LEMMA InvariantKept == Inv /\ [Next]_vars => Inv'
<1> SUFFICES ASSUME Inv, [Next]_vars PROVE Inv'
  OBVIOUS
<1>1. ASSUME NEW plan \in Plans, NEW partial \in BOOLEAN, Start(plan, partial)
      PROVE  Inv'
  BY <1>1, BeginKeeps DEF Start, MayStart, Readable
<1>2. ASSUME NEW plan \in Plans, NEW partial \in BOOLEAN, NEW retry \in BOOLEAN,
             NEW force \in BOOLEAN, Resume(plan, retry, force, partial)
      PROVE  Inv'
  BY <1>2, BeginKeeps DEF Resume, MayResume
<1>3. CASE Step
  BY <1>3, OpenKeeps, ExecuteKeeps, LoopEndsKeep, AppendKeeps, NoteKeeps, FinishKeeps,
     WriteCsvKeeps DEF Step
<1>4. CASE UNCHANGED vars
  BY <1>4 DEF vars, Inv, TypeOK, JournalKept, RunKept, SummaryKept, Complete
<1>5. QED
  BY <1>1, <1>2, <1>3, <1>4, LimitKeeps, InterruptKeeps, AppendFailsKeeps, KillKeeps DEF Next

LEMMA Invariance == Spec => []Inv
BY Initially, InvariantKept, PTL DEF Spec

-----------------------------------------------------------------------------
(* What holds in every state *)

\* The files and the process have the types of the program: append_record leaves lines,
\* and what a resumed process reads from them are records (read_jsonl).
THEOREM TypesKept == Spec => []TypeOK
BY Invariance, PTL DEF Inv

\* The summary claims nothing the journal does not hold and misses at most the record
\* appended last, however the processes were stopped (append_record, _write_summary).
THEOREM SummaryIsTrue == Spec => []SummaryFollowsJournal
<1>1. ASSUME Inv, summary # None, Readable
      PROVE  /\ Cardinality(Recorded(Records)) - summary.counts.completed \in {0, 1}
             /\ Cardinality(Successful(Records)) - summary.counts.successful \in {0, 1}
  <2>1. Counted(summary.counts, journal)
    <3>1. CASE run = None
      BY <1>1, <3>1 DEF Inv, SummaryKept
    <3>2. CASE run # None
      BY <1>1, <3>2, WhileRunning, RunCounted
    <3>3. QED
      BY <3>1, <3>2
  <2>2. Records = RecordsOf(journal) /\ IsReadable(journal) /\ Final(Records)
    BY <1>1, OfTheJournal DEF Inv, JournalKept
  <2>3. PICK existing \in Seq(Record) :
          /\ summary.counts = CountsOf(existing)
          /\ Records = existing \/ Ahead(Records, existing)
    BY <2>1, <2>2 DEF Counted
  <2>4. /\ summary.counts.completed = Cardinality(Recorded(existing))
        /\ summary.counts.successful = Cardinality(Successful(existing))
    BY <2>3 DEF CountsOf
  <2>5. CASE Records = existing
    <3>1. Successful(existing) \in SUBSET Recorded(existing)
      BY DEF Successful
    <3>2. /\ Cardinality(Recorded(existing)) \in Nat
          /\ Cardinality(Successful(existing)) \in Nat
      BY <3>1, RecordedIsFinite
    <3>3. \A n \in Nat : n - n = 0
      OBVIOUS
    <3>4. QED
      BY <2>4, <2>5, <3>2, <3>3
  <2>6. CASE Ahead(Records, existing)
    <3>1. PICK record \in Record : Records = Append(existing, record)
      BY <2>6 DEF Ahead
    <3>2. QED
      BY <2>2, <2>4, <3>1, AtMostOneMore
  <2>7. QED
    BY <2>3, <2>5, <2>6
<1>2. Inv => SummaryFollowsJournal
  BY <1>1 DEF SummaryFollowsJournal
<1>3. QED
  BY <1>2, Invariance, PTL

\* No record of an invocation follows a successful one of it: what has succeeded is
\* never executed again, by any process (the loop of run() over the plan).
THEOREM SuccessStays == Spec => []SuccessIsFinal
<1>1. Inv => SuccessIsFinal
  BY OfTheJournal DEF Inv, JournalKept, Final, SuccessIsFinal
<1>2. QED
  BY <1>1, Invariance, PTL

-----------------------------------------------------------------------------
(* What no step does *)

\* The table a process leaves is never ahead of the journal, and that of a completed run
\* is up to date (_write_csv after the finally clause of run()).
THEOREM TableIsTrue == Spec => TableFollowsJournal
<1> DEFINE Table ==
      run # None /\ run.at = "csv" /\ run' = None /\ faults' = faults /\ Readable =>
        /\ csv'.rows \subseteq Rows(Records)
        /\ csv'.form = "normal" => Range(run.plan) \ Warmups \subseteq Recorded(Records)
        /\ summary.status = "completed" =>
             csv' = [form |-> "normal", rows |-> Rows(Records)]
<1>1. ASSUME Inv, [Next]_vars, run # None, run.at = "csv", run' = None, faults' = faults,
             Readable
      PROVE  /\ csv'.rows \subseteq Rows(Records)
             /\ csv'.form = "normal" => Range(run.plan) \ Warmups \subseteq Recorded(Records)
             /\ summary.status = "completed" =>
                  csv' = [form |-> "normal", rows |-> Rows(Records)]
  <2>1. WriteCsv
    <3>1. ~Fault
      BY <1>1, FaultCounts
    <3>2. QED
      BY <1>1, <3>1 DEF Next, Step, Start, Resume, Begin, OpenJournal, Execute, LoopEnds,
                        AppendRecord, NoteRecord, Finish, TimeLimit, Interrupt,
                        AppendFails, Kill, vars
  <2>2. /\ Records = RecordsOf(journal) /\ IsReadable(journal) /\ Final(Records)
        /\ run \in Process /\ ProcessKept(run, journal) /\ run.existing \in Seq(Record)
    BY <1>1, OfTheJournal, WhileRunning, ProcessIsProcess DEF Inv, JournalKept
  <2>3. \/ Records = run.existing
        \/ run.cause \notin {"none", "limit"} /\ Ahead(Records, run.existing)
    BY <1>1, <2>2 DEF ProcessKept, InStep
  <2>4. Rows(run.existing) \subseteq Rows(Records) /\ Recorded(run.existing) \subseteq Recorded(Records)
    <3>1. CASE Ahead(Records, run.existing)
      <4>1. PICK record \in Record : Records = Append(run.existing, record)
        BY <3>1 DEF Ahead
      <4>2. QED
        BY <2>2, <4>1, AtMostOneMore
    <3>2. QED
      BY <2>3, <3>1
  <2>5. summary.status = "completed" => Complete(run) /\ Records = run.existing
    <3>1. summary.status = "completed" => Complete(run) /\ run.cause # "interrupted"
      BY <1>1 DEF Inv, RunKept
    <3>2. run.cause \in {"none", "limit", "interrupted"}
      BY <1>1, <2>2 DEF Process, ProcessKept
    <3>3. QED
      BY <2>3, <3>1, <3>2
  <2>6. csv' = IF Complete(run) \/ run.partial
               THEN [form |-> IF Complete(run) THEN "normal" ELSE "incomplete",
                     rows |-> Rows(run.existing)]
               ELSE [form |-> "missing", rows |-> {}]
    BY <2>1 DEF WriteCsv
  <2>7. csv'.rows \in {{}, Rows(run.existing)} /\ (csv'.form = "normal" => Complete(run))
    BY <2>6
  <2>8. csv'.form = "normal" => Range(run.plan) \ Warmups \subseteq Recorded(Records)
    BY <2>4, <2>7 DEF Complete
  <2>9. summary.status = "completed" => csv' = [form |-> "normal", rows |-> Rows(Records)]
    BY <2>5, <2>6
  <2>10. QED
    BY <2>4, <2>7, <2>8, <2>9
<1>2. Inv /\ [Next]_vars => [Table]_vars
  BY <1>1
<1>3. QED
  BY <1>2, Invariance, PTL DEF Spec, TableFollowsJournal

-----------------------------------------------------------------------------
(* The verification of the build *)

VerdictSet == [code : {Null, 0, 1}, timed_out : BOOLEAN, error : BOOLEAN]

BuildTypeOK ==
  /\ build \in [Names -> Conditions]
  /\ verifier \in {Null} \cup [at    : {"look", "access", "run", "wait"},
                               child : Conditions \cup {Null}]
  /\ verdicts \in Seq(VerdictSet)
  /\ exitCode \in {Null, 0, 1, 2}
  /\ observed \in [exited : SUBSET Names, late : SUBSET Names, touched : BOOLEAN]

\* The script always has an executable to look at, and no exit code.
Working ==
  verifier # Null => Len(verdicts) < Len(Executables) /\ exitCode = Null

\* What a verdict says of the executable it is about.
Justified ==
  /\ Len(verdicts) <= Len(Executables)
  /\ \A i \in DOMAIN verdicts :
       /\ Passed(verdicts[i]) => Executables[i] \in observed.exited
       /\ ~observed.touched =>
            IF Passed(verdicts[i]) THEN build[Executables[i]] = "works"
            ELSE build[Executables[i]] # "works" \/ Executables[i] \in observed.late

\* What the script has found out already is still so, if nobody touched the build.
Found ==
  verifier # Null /\ ~observed.touched =>
    /\ verifier.at # "look" => build[name] # "missing"
    /\ verifier.at \in {"run", "wait"} => build[name] # "plain"
    /\ verifier.at = "wait" => build[name] # "broken" /\ verifier.child = build[name]

BuildInv == BuildTypeOK /\ Working /\ Justified /\ Found /\ VerdictIsTrue

LEMMA ExecutableNames ==
  /\ Len(Executables) \in Nat \ {0}
  /\ DOMAIN Executables = 1 .. Len(Executables)
  /\ Names = {Executables[i] : i \in 1 .. Len(Executables)}
  /\ \A i, j \in 1 .. Len(Executables) : Executables[i] = Executables[j] => i = j
BY BuildAssumption, EmptySeq DEF Names, Range, IsInjective

LEMMA BuildInitially == HostInit => BuildInv
<1> SUFFICES ASSUME HostInit PROVE BuildInv
  OBVIOUS
<1>1. BuildInit
  BY DEF HostInit
<1>2. BuildTypeOK /\ Working /\ Found
  BY <1>1 DEF BuildInit, BuildTypeOK, Working, Found, NothingObserved
<1>3. Justified
  BY <1>1, ExecutableNames DEF BuildInit, Justified
<1>4. VerdictIsTrue
  BY <1>1, BuildAssumption DEF BuildInit, VerdictIsTrue
<1>5. QED
  BY <1>2, <1>3, <1>4 DEF BuildInv

\* Whoever notes a verdict that is true of the executable whose turn it is keeps the
\* invariant, also if it is the last one.
LEMMA VerdictKeeps ==
  ASSUME BuildInv, verifier # Null, NEW v \in VerdictSet, Note(v), build' = build,
         observed' \in [exited : SUBSET Names, late : SUBSET Names, touched : BOOLEAN],
         observed.exited \subseteq observed'.exited,
         observed.late \subseteq observed'.late, observed'.touched = observed.touched,
         Passed(v) => name \in observed'.exited,
         ~observed.touched => IF Passed(v) THEN build[name] = "works"
                              ELSE build[name] # "works" \/ name \in observed'.late
  PROVE  BuildInv'
<1> DEFINE all == Append(verdicts, v)
<1>1. /\ verdicts \in Seq(VerdictSet) /\ Len(verdicts) \in Nat
      /\ Len(verdicts) < Len(Executables) /\ exitCode = Null
  BY DEF BuildInv, BuildTypeOK, Working
<1>2. /\ verdicts' = all /\ all \in Seq(VerdictSet) /\ Len(all) = Len(verdicts) + 1
      /\ \A i \in DOMAIN verdicts : all[i] = verdicts[i]
      /\ all[Len(all)] = v /\ DOMAIN all = 1 .. Len(all)
      /\ DOMAIN verdicts = 1 .. Len(verdicts)
  BY <1>1 DEF Note
<1>3. /\ IF Len(all) < Len(Executables)
         THEN verifier' = [at |-> "look", child |-> Null] /\ exitCode' = Null
         ELSE /\ verifier' = Null
              /\ exitCode' = IF \A i \in DOMAIN all : Passed(all[i]) THEN 0 ELSE 1
  BY <1>1 DEF Note
<1>4. name = Executables[Len(all)]
  BY <1>2 DEF name
<1> HIDE DEF all
<1>5. BuildTypeOK'
  BY <1>2, <1>3 DEF BuildInv, BuildTypeOK
<1>6. Working'
  BY <1>2, <1>3 DEF Working
<1>7. Justified'
  <2>1. Len(all) <= Len(Executables)
    BY <1>1, <1>2, ExecutableNames
  <2>2. ASSUME NEW i \in DOMAIN all
        PROVE  /\ Passed(all[i]) => Executables[i] \in observed'.exited
               /\ ~observed.touched =>
                    IF Passed(all[i]) THEN build[Executables[i]] = "works"
                    ELSE build[Executables[i]] # "works" \/ Executables[i] \in observed'.late
    <3>1. CASE i = Len(all)
      BY <3>1, <1>2, <1>4
    <3>2. CASE i # Len(all)
      <4>1. i \in DOMAIN verdicts /\ all[i] = verdicts[i]
        BY <3>2, <1>1, <1>2
      <4>2. QED
        BY <4>1 DEF BuildInv, Justified
    <3>3. QED
      BY <3>1, <3>2
  <2>3. QED
    BY <1>2, <2>1, <2>2 DEF Justified, Passed
<1>8. Found'
  BY <1>3 DEF Found
<1>9. VerdictIsTrue'
  <2>1. CASE Len(all) < Len(Executables)
    BY <2>1, <1>3, BuildAssumption DEF VerdictIsTrue
  <2>2. CASE ~(Len(all) < Len(Executables))
    <3>1. Len(all) = Len(Executables)
      <4>1. /\ Len(verdicts) \in Nat /\ Len(Executables) \in Nat
            /\ Len(all) = Len(verdicts) + 1 /\ Len(verdicts) < Len(Executables)
        BY <1>1, <1>2, ExecutableNames
      <4>2. QED
        BY <2>2, <4>1
    <3>2. \A i \in DOMAIN all :
            /\ Passed(all[i]) => Executables[i] \in observed'.exited
            /\ ~observed'.touched =>
                 IF Passed(all[i]) THEN build[Executables[i]] = "works"
                 ELSE build[Executables[i]] # "works" \/ Executables[i] \in observed'.late
      BY <1>2, <1>7 DEF Justified, Passed
    <3>3. \A n \in Names : \E i \in DOMAIN all : n = Executables[i]
      BY <3>1, <1>2, ExecutableNames
    <3>4. \A i \in DOMAIN all : Executables[i] \in Names
      BY <3>1, <1>2, ExecutableNames
    <3>5. CASE exitCode' = 0
      <4>1. \A i \in DOMAIN all : Passed(all[i])
        BY <2>2, <1>3, <3>5
      <4>2. QED
        <5>1. Names \subseteq observed'.exited
          BY ONLY <3>2, <3>3, <4>1
        <5>2. ~observed'.touched => \A n \in Names : build[n] = "works"
          BY ONLY <3>2, <3>3, <4>1
        <5>3. observed'.exited = Names
          BY <5>1
        <5>4. QED
          BY <3>5, <5>2, <5>3 DEF VerdictIsTrue
    <3>6. CASE exitCode' # 0
      <4>1. PICK i \in DOMAIN all : ~Passed(all[i])
        BY <2>2, <1>3, <3>6
      <4>2. QED
        BY <3>2, <3>4, <3>6, <4>1 DEF VerdictIsTrue
    <3>7. QED
      BY <3>5, <3>6
  <2>3. QED
    BY <2>1, <2>2
<1>10. QED
  BY <1>5, <1>6, <1>7, <1>8, <1>9 DEF BuildInv

\* The executable whose turn it is.
LEMMA NameIsOne == BuildInv /\ verifier # Null => name \in Names
<1> SUFFICES ASSUME BuildInv, verifier # Null PROVE name \in Names
  OBVIOUS
<1>1. verdicts \in Seq(VerdictSet) /\ Len(verdicts) < Len(Executables)
  BY DEF BuildInv, BuildTypeOK, Working
<1>2. Len(verdicts) + 1 \in 1 .. Len(Executables)
  <2>1. Len(verdicts) \in Nat /\ Len(Executables) \in Nat
    BY <1>1, ExecutableNames
  <2>2. QED
    BY <1>1, <2>1
<1>3. QED
  BY <1>2, ExecutableNames DEF name

\* The verdict on an executable that could not be run.
LEMMA FailureKeeps ==
  ASSUME BuildInv, verifier # Null, Note(Failure), UNCHANGED <<build, builds, observed>>,
         ~observed.touched => build[name] # "works"
  PROVE  BuildInv'
<1>1. Failure \in VerdictSet /\ ~Passed(Failure)
  BY DEF Failure, Verdict, VerdictSet, Passed
<1>2. observed \in [exited : SUBSET Names, late : SUBSET Names, touched : BOOLEAN]
  BY DEF BuildInv, BuildTypeOK
<1>3. QED
  BY <1>1, <1>2, VerdictKeeps

\* Going on to another step with the same executable.
LEMMA GoToKeeps ==
  ASSUME BuildInv, verifier # Null, NEW step \in {"look", "access", "run", "wait"},
         NEW child \in Conditions \cup {Null}, GoTo(step, child),
         UNCHANGED <<build, builds, observed>>, Found'
  PROVE  BuildInv'
<1>1. verifier' = [at |-> step, child |-> child] /\ UNCHANGED <<verdicts, exitCode>>
  BY DEF GoTo
<1>2. exitCode = Null
  BY DEF BuildInv, Working
<1>3. BuildTypeOK'
  BY <1>1 DEF BuildInv, BuildTypeOK
<1>4. Working'
  BY <1>1 DEF BuildInv, Working
<1>5. Justified'
  BY <1>1 DEF BuildInv, Justified, Passed
<1>6. VerdictIsTrue'
  BY <1>1, <1>2, BuildAssumption DEF VerdictIsTrue
<1>7. QED
  BY <1>3, <1>4, <1>5, <1>6 DEF BuildInv

LEMMA BuildKeeps == BuildInv /\ BuildNext => BuildInv'
<1> SUFFICES ASSUME BuildInv, BuildNext PROVE BuildInv'
  OBVIOUS
<1>1. ASSUME verifier # Null
      PROVE  /\ verifier.at \in {"look", "access", "run", "wait"}
             /\ verifier.child \in Conditions \cup {Null}
             /\ name \in Names /\ build[name] \in Conditions
             /\ build \in [Names -> Conditions]
             /\ observed \in [exited : SUBSET Names, late : SUBSET Names, touched : BOOLEAN]
  BY <1>1, NameIsOne DEF BuildInv, BuildTypeOK
<1>2. ASSUME NEW timeout \in {0, 1}, Verify(timeout) PROVE BuildInv'
  <2>1. BuildTypeOK' /\ Working'
    BY <1>2, ExecutableNames
    DEF Verify, BuildInv, BuildTypeOK, Working, NothingObserved
  <2>2. Justified'
    BY <1>2, ExecutableNames DEF Verify, Justified
  <2>3. Found'
    BY <1>2 DEF Verify, Found
  <2>4. VerdictIsTrue'
    BY <1>2, BuildAssumption DEF Verify, VerdictIsTrue
  <2>5. QED
    BY <2>1, <2>2, <2>3, <2>4 DEF BuildInv
<1>3. CASE Look
  <2>1. verifier # Null /\ UNCHANGED <<build, builds, observed>>
    BY <1>3 DEF Look, VerifierAt
  <2>2. CASE build[name] = "missing"
    BY <1>3, <2>1, <2>2, FailureKeeps DEF Look
  <2>3. CASE build[name] # "missing"
    <3>1. GoTo("access", Null)
      BY <1>3, <2>3 DEF Look
    <3>2. Found'
      BY <2>1, <2>3, <3>1 DEF GoTo, Found, name
    <3>3. QED
      BY <2>1, <3>1, <3>2, GoToKeeps
  <2>4. QED
    BY <2>2, <2>3
<1>4. CASE Access
  <2>1. verifier # Null /\ verifier.at = "access" /\ UNCHANGED <<build, builds, observed>>
    BY <1>4 DEF Access, VerifierAt
  <2>2. CASE build[name] \in {"missing", "plain"}
    BY <1>4, <2>1, <2>2, FailureKeeps DEF Access
  <2>3. CASE build[name] \notin {"missing", "plain"}
    <3>1. GoTo("run", Null)
      BY <1>4, <2>3 DEF Access
    <3>2. Found'
      BY <2>1, <2>3, <3>1 DEF GoTo, Found, name
    <3>3. QED
      BY <2>1, <3>1, <3>2, GoToKeeps
  <2>4. QED
    BY <2>2, <2>3
<1>5. CASE Launch
  <2>1. verifier # Null /\ verifier.at = "run" /\ UNCHANGED <<build, builds, observed>>
    BY <1>5 DEF Launch, VerifierAt
  <2>2. CASE build[name] \in {"missing", "plain", "broken"}
    BY <1>5, <2>1, <2>2, FailureKeeps DEF Launch
  <2>3. CASE build[name] \notin {"missing", "plain", "broken"}
    <3>1. GoTo("wait", build[name])
      BY <1>5, <2>3 DEF Launch
    <3>2. Found'
      BY <2>1, <2>3, <3>1 DEF GoTo, Found, name
    <3>3. build[name] \in Conditions \cup {Null}
      BY <1>1, <2>1
    <3>4. QED
      BY <2>1, <3>1, <3>2, <3>3, GoToKeeps
  <2>4. QED
    BY <2>2, <2>3
<1>6. CASE ChildReturns
  <2> DEFINE code == IF verifier.child = "works" THEN 0 ELSE 1
             v == Verdict(code, FALSE, FALSE)
  <2>1. /\ verifier # Null /\ verifier.at = "wait" /\ verifier.child \in {"works", "fails"}
        /\ Note(v) /\ build' = build
        /\ observed' = [observed EXCEPT !.exited = IF code = 0 THEN @ \cup {name} ELSE @]
    BY <1>6 DEF ChildReturns, VerifierAt
  <2>2. v \in VerdictSet /\ (Passed(v) <=> verifier.child = "works")
    BY DEF Verdict, VerdictSet, Passed
  <2>3. /\ observed'.exited = IF verifier.child = "works" THEN observed.exited \cup {name}
                                                          ELSE observed.exited
        /\ observed'.late = observed.late /\ observed'.touched = observed.touched
        /\ observed' \in [exited : SUBSET Names, late : SUBSET Names, touched : BOOLEAN]
    BY <1>1, <2>1
  <2>4. ~observed.touched => verifier.child = build[name]
    BY <2>1 DEF BuildInv, Found
  <2> HIDE DEF v
  <2>5. QED
    BY <1>1, <2>1, <2>2, <2>3, <2>4, VerdictKeeps
<1>7. CASE ChildIsGarbled
  <2>1. /\ verifier # Null /\ verifier.at = "wait" /\ verifier.child = "garbled"
        /\ verifier' = Null /\ exitCode' = 1
        /\ UNCHANGED <<build, builds, verdicts, observed>>
    BY <1>7 DEF ChildIsGarbled, VerifierAt
  <2>2. ~observed.touched => build[name] # "works"
    BY <2>1 DEF BuildInv, Found
  <2>3. VerdictIsTrue'
    BY <1>1, <2>1, <2>2 DEF VerdictIsTrue
  <2>4. QED
    BY <2>1, <2>3 DEF BuildInv, BuildTypeOK, Working, Justified, Passed, Found
<1>8. CASE ChildTimesOut
  <2> DEFINE v == Verdict(Null, TRUE, TRUE)
  <2>1. /\ verifier # Null /\ verifier.at = "wait" /\ Note(v) /\ build' = build
        /\ observed' = [observed EXCEPT !.late = IF verifier.child = "works"
                                                 THEN @ \cup {name} ELSE @]
    BY <1>8 DEF ChildTimesOut, VerifierAt
  <2>2. v \in VerdictSet /\ ~Passed(v)
    BY DEF Verdict, VerdictSet, Passed
  <2>3. /\ observed'.late = IF verifier.child = "works" THEN observed.late \cup {name}
                                                        ELSE observed.late
        /\ observed'.exited = observed.exited /\ observed'.touched = observed.touched
        /\ observed' \in [exited : SUBSET Names, late : SUBSET Names, touched : BOOLEAN]
    BY <1>1, <2>1
  <2>4. ~observed.touched => verifier.child = build[name]
    BY <2>1 DEF BuildInv, Found
  <2> HIDE DEF v
  <2>5. QED
    BY <1>1, <2>1, <2>2, <2>3, <2>4, VerdictKeeps
<1>9. CASE VerifierInterrupted
  <2>1. /\ verifier # Null /\ verifier' = Null
        /\ UNCHANGED <<build, verdicts, exitCode, builds, observed>>
    BY <1>9 DEF VerifierInterrupted
  <2>2. exitCode' = Null
    BY <2>1 DEF BuildInv, Working
  <2>3. VerdictIsTrue'
    BY <2>2, BuildAssumption DEF VerdictIsTrue
  <2>4. QED
    BY <2>1, <2>3 DEF BuildInv, BuildTypeOK, Working, Justified, Passed, Found
<1>10. CASE Rebuild
  <2>1. /\ build' \in [Names -> Conditions]
        /\ observed' = [observed EXCEPT !.touched = TRUE]
        /\ UNCHANGED <<verifier, verdicts, exitCode>>
    BY <1>10 DEF Rebuild, BuildInv, BuildTypeOK
  <2>2. /\ observed'.touched /\ observed'.exited = observed.exited
        /\ observed' \in [exited : SUBSET Names, late : SUBSET Names, touched : BOOLEAN]
    BY <2>1 DEF BuildInv, BuildTypeOK
  <2>3. BuildTypeOK' /\ Working' /\ Found'
    BY <2>1, <2>2 DEF BuildInv, BuildTypeOK, Working, Found
  <2>4. Justified'
    BY <2>1, <2>2 DEF BuildInv, Justified, Passed
  <2>5. VerdictIsTrue'
    BY <2>1, <2>2 DEF BuildInv, VerdictIsTrue
  <2>6. QED
    BY <2>3, <2>4, <2>5 DEF BuildInv
<1>11. QED
  BY <1>2, <1>3, <1>4, <1>5, <1>6, <1>7, <1>8, <1>9, <1>10 DEF BuildNext, VerifierStep

LEMMA BuildStutters == BuildInv /\ UNCHANGED buildVars => BuildInv'
BY DEF BuildInv, buildVars, BuildTypeOK, Working, Justified, Passed, Found, name,
       VerdictIsTrue

\* VerdictIsTrue: exit code 0 only if --help of each executable was run and returned 0,
\* whatever is built meanwhile, and an exit code that is right about a build that
\* nobody touches, for any executables and however often the build changes.
THEOREM VerdictTrue == HostSpec => []VerdictIsTrue
<1>1. BuildInv /\ [HostNext]_hostVars => BuildInv'
  BY BuildKeeps, BuildStutters DEF HostNext, Building, Probing, hostVars
<1>2. BuildInv => VerdictIsTrue
  BY DEF BuildInv
<1>3. QED
  BY BuildInitially, <1>1, <1>2, PTL DEF HostSpec

-----------------------------------------------------------------------------
(* The probe of the perf events *)

RowIsTrue(row) ==
  /\ row.class = "supported" <=> row.heard = [code |-> 0, says |-> {}]
  /\ row.class = "permission denied" <=> row.heard # Absent /\ "permission" \in row.heard.says
  /\ row.heard = Absent => row.class = "noisy or unreliable"

RowsAreTrue(report) == \A i \in DOMAIN report.rows : RowIsTrue(report.rows[i])

ProbeTypeOK ==
  /\ perf \in PerfStates
  /\ probes \in Nat
  /\ exitStatus \in {Absent, 0, 1, 127}
  /\ json \in Report \cup {Absent, Torn} /\ markdown \in Report \cup {Absent, Torn}
  /\ prober \in {Absent} \cup [at     : {"launch", "listen", "json", "markdown"},
                                hears  : Answers \cup {Absent},
                                report : Report]

\* A report that is being made: it is the newest, and has as many rows as its step says.
Making ==
  prober # Absent =>
    /\ exitStatus = Absent
    /\ prober.report.number = probes
    /\ RowsAreTrue(prober.report)
    /\ prober.at = "listen" => prober.hears \in Answers
    /\ prober.at \in {"launch", "listen"} =>
         prober.report.found /\ Len(prober.report.rows) < Len(Events)
    /\ prober.at \in {"json", "markdown"} =>
         Len(prober.report.rows) = IF prober.report.found THEN Len(Events) ELSE 0
    /\ prober.at = "markdown" => json = prober.report

\* No file is of a probe that has not begun.
Numbered ==
  /\ json \notin {Absent, Torn} => json.number <= probes /\ RowsAreTrue(json)
  /\ markdown \notin {Absent, Torn} => markdown.number <= probes /\ RowsAreTrue(markdown)

ProbeInv == ProbeTypeOK /\ Making /\ Numbered /\ ReportsAgree

LEMMA EventNames ==
  /\ Len(Events) \in Nat \ {0}
  /\ DOMAIN Events = 1 .. Len(Events)
  /\ \A i \in 1 .. Len(Events) : Events[i] \in Range(Events)
BY ProbeAssumption, EmptySeq DEF Range

\* What classify_probe makes of an answer.
LEMMA ClassifiesTruly ==
  ASSUME NEW answer \in Answers, answer # Hangs
  PROVE  RowIsTrue([class |-> Classify(answer.code, answer.says), heard |-> answer])
<1>1. answer \in [code : ExitCodes, says : SUBSET Phrases] /\ answer # Absent
  BY ProbeAssumption
<1>2. answer = [code |-> 0, says |-> {}] <=> answer.code = 0 /\ answer.says = {}
  BY <1>1
<1>3. answer.says = {} <=> /\ "permission" \notin answer.says
                           /\ "not supported" \notin answer.says
                           /\ "unknown event" \notin answer.says
                           /\ "not counted" \notin answer.says
  BY <1>1 DEF Phrases
<1>4. QED
  BY <1>1, <1>2, <1>3 DEF RowIsTrue, Classify

LEMMA ProbeInitially == HostInit => ProbeInv
<1> SUFFICES ASSUME HostInit PROVE ProbeInv
  OBVIOUS
<1>1. ProbeInit
  BY DEF HostInit
<1>2. QED
  BY <1>1, ProbeAssumption
  DEF ProbeInit, ProbeInv, ProbeTypeOK, Making, Numbered, ReportsAgree

\* A row that is true of what was heard.
LEMMA AddRowKeeps ==
  ASSUME ProbeInv, ProberAt("listen"), NEW class \in Classes,
         NEW heard \in Answers \cup {Absent}, AddRow(class, heard),
         RowIsTrue([class |-> class, heard |-> heard])
  PROVE  ProbeInv'
<1> DEFINE row    == [class |-> class, heard |-> heard]
           report == [prober.report EXCEPT !.rows = Append(@, row)]
<1>1. /\ prober # Absent /\ prober.report \in Report /\ prober.report.found
      /\ Len(prober.report.rows) < Len(Events) /\ RowsAreTrue(prober.report)
      /\ prober.report.number = probes /\ exitStatus = Absent
  BY DEF ProberAt, ProbeInv, ProbeTypeOK, Making
<1>2. /\ prober' = [at     |-> IF Len(report.rows) = Len(Events) THEN "json" ELSE "launch",
                    hears  |-> Absent,
                    report |-> report]
      /\ UNCHANGED <<perf, json, markdown, exitStatus, probes, changes>>
  BY DEF AddRow
<1> DEFINE RowSet == [class : Classes, heard : Answers \cup {Absent}]
           rows   == prober.report.rows
<1>3. /\ rows \in Seq(RowSet) /\ row \in RowSet
      /\ prober.report \in [number : Nat, found : BOOLEAN, rows : Seq(RowSet)]
  BY <1>1 DEF Report
<1> HIDE DEF RowSet, row
<1>4. /\ Append(rows, row) \in Seq(RowSet)
      /\ Len(Append(rows, row)) = Len(rows) + 1 /\ Len(rows) \in Nat
      /\ \A i \in DOMAIN Append(rows, row) :
           \/ Append(rows, row)[i] = row
           \/ i \in DOMAIN rows /\ Append(rows, row)[i] = rows[i]
  <2> HIDE DEF rows
  <2>1. QED
    BY <1>3
<1>11. /\ report.number = probes /\ report.found /\ report.rows = Append(rows, row)
       /\ report \in [number : Nat, found : BOOLEAN, rows : Seq(RowSet)]
  BY <1>1, <1>3, <1>4
<1>12. report \in Report
  BY <1>11 DEF Report, RowSet
<1>5. RowsAreTrue(report)
  <2>1. RowIsTrue(row)
    BY DEF row
  <2>2. QED
    BY <1>1, <1>4, <1>11, <2>1 DEF RowsAreTrue
<1> HIDE DEF report
<1>6. ProbeTypeOK'
  BY <1>2, <1>12 DEF ProbeInv, ProbeTypeOK
<1>7. Len(report.rows) = Len(Events) \/ Len(report.rows) < Len(Events)
  <2>1. Len(rows) < Len(Events) /\ Len(rows) \in Nat /\ Len(report.rows) = Len(rows) + 1
    BY <1>1, <1>4, <1>11
  <2>2. Len(Events) \in Nat
    BY EventNames
  <2> HIDE DEF rows
  <2>3. QED
    BY <2>1, <2>2
<1>8. Making'
  <2>1. /\ prober'.report = report /\ prober'.at \in {"json", "launch"}
        /\ prober'.at = "json" <=> Len(report.rows) = Len(Events)
    BY <1>2
  <2>2. QED
    BY <1>1, <1>2, <1>5, <1>7, <1>11, <2>1 DEF Making
<1>9. Numbered' /\ ReportsAgree'
  BY <1>2 DEF ProbeInv, Numbered, ReportsAgree
<1>10. QED
  BY <1>6, <1>8, <1>9 DEF ProbeInv

LEMMA ProbeKeeps == ProbeInv /\ ProbeNext => ProbeInv'
<1> SUFFICES ASSUME ProbeInv, ProbeNext PROVE ProbeInv'
  OBVIOUS
<1>1. ASSUME NEW given \in BOOLEAN, StartProbe(given) PROVE ProbeInv'
  <2> DEFINE found == given \/ perf # Absent
             report == NewReport(probes + 1, found)
  <2>1. /\ prober = Absent /\ probes' = probes + 1 /\ exitStatus' = Absent
        /\ prober' = [at     |-> IF found THEN "launch" ELSE "json",
                      hears  |-> Absent, report |-> report]
        /\ UNCHANGED <<perf, json, markdown, changes>> /\ probes \in Nat
    BY <1>1 DEF StartProbe, ProbeInv, ProbeTypeOK
  <2>2. /\ report \in Report /\ report.number = probes' /\ report.rows = <<>>
        /\ report.found = found /\ Len(report.rows) = 0
    BY <2>1 DEF NewReport, Report
  <2> HIDE DEF found, report
  <2>3. ProbeTypeOK'
    BY <2>1, <2>2 DEF ProbeInv, ProbeTypeOK
  <2>4. Making'
    <3>1. RowsAreTrue(report)
      BY <2>2 DEF RowsAreTrue
    <3>2. 0 < Len(Events)
      BY EventNames
    <3>3. QED
      BY <2>1, <2>2, <3>1, <3>2 DEF Making
  <2>5. Numbered'
    <3>1. /\ json \notin {Absent, Torn} => json.number \in Nat /\ json.number <= probes
          /\ markdown \notin {Absent, Torn} =>
               markdown.number \in Nat /\ markdown.number <= probes
      BY DEF ProbeInv, ProbeTypeOK, Numbered, Report
    <3>2. QED
      BY <2>1, <3>1 DEF ProbeInv, Numbered
  <2>6. ReportsAgree'
    BY <2>1, ProbeAssumption DEF ProbeInv, ReportsAgree
  <2>7. QED
    BY <2>3, <2>4, <2>5, <2>6 DEF ProbeInv
<1>2. CASE LaunchPerf
  <2>1. /\ prober # Absent /\ prober.at = "launch" /\ prober.report.found
        /\ Len(prober.report.rows) < Len(Events) /\ prober.report \in Report
        /\ UNCHANGED <<perf, json, markdown, probes, changes>>
    BY <1>2 DEF LaunchPerf, ProberAt, ProbeInv, ProbeTypeOK, Making
  <2>2. CASE perf = Absent
    <3>1. prober' = Absent /\ exitStatus' = 1
      BY <1>2, <2>2 DEF LaunchPerf
    <3>2. QED
      BY <2>1, <3>1 DEF ProbeInv, ProbeTypeOK, Making, Numbered, ReportsAgree
  <2>3. CASE perf # Absent
    <3>1. prober' = [prober EXCEPT !.at = "listen", !.hears = perf[event]]
          /\ UNCHANGED exitStatus
      BY <1>2, <2>3 DEF LaunchPerf
    <3>2. event \in Range(Events)
      <4>1. Len(prober.report.rows) \in Nat
        BY <2>1 DEF Report
      <4>2. Len(prober.report.rows) + 1 \in 1 .. Len(Events)
        BY <2>1, <4>1, EventNames
      <4>3. QED
        BY <4>2, EventNames DEF event
    <3>3. perf[event] \in Answers
      BY <2>3, <3>2 DEF ProbeInv, ProbeTypeOK, PerfStates
    <3>4. ProbeTypeOK'
      BY <2>1, <3>1, <3>3 DEF ProbeInv, ProbeTypeOK
    <3>5. Making'
      <4>1. /\ prober'.at = "listen" /\ prober'.hears = perf[event]
            /\ prober'.report = prober.report
        BY <2>1, <3>1 DEF ProbeInv, ProbeTypeOK
      <4>2. QED
        BY <2>1, <3>1, <3>3, <4>1 DEF ProbeInv, Making
    <3>6. Numbered' /\ ReportsAgree'
      BY <2>1, <3>1 DEF ProbeInv, Numbered, ReportsAgree
    <3>7. QED
      BY <3>4, <3>5, <3>6 DEF ProbeInv
  <2>4. QED
    BY <2>2, <2>3
<1>3. CASE PerfAnswers
  <2>1. prober.hears \in Answers /\ prober.hears # Hangs /\ ProberAt("listen")
    BY <1>3 DEF PerfAnswers, ProberAt, ProbeInv, Making
  <2>2. Classify(prober.hears.code, prober.hears.says) \in Classes
    BY DEF Classify, Classes
  <2>3. QED
    BY <1>3, <2>1, <2>2, ClassifiesTruly, AddRowKeeps DEF PerfAnswers
<1>4. CASE PerfTimesOut
  <2>1. RowIsTrue([class |-> "noisy or unreliable", heard |-> Absent])
    BY ProbeAssumption DEF RowIsTrue, ExitCodes
  <2>2. "noisy or unreliable" \in Classes
    BY DEF Classes
  <2>3. QED
    BY <1>4, <2>1, <2>2, AddRowKeeps DEF PerfTimesOut
<1>5. CASE WriteJson
  <2>1. /\ prober # Absent /\ prober.at = "json" /\ prober.report \in Report
        /\ json' = prober.report /\ prober' = [prober EXCEPT !.at = "markdown"]
        /\ UNCHANGED <<perf, markdown, exitStatus, probes, changes>>
    BY <1>5 DEF WriteJson, ProberAt, ProbeInv, ProbeTypeOK
  <2>2. /\ prober'.at = "markdown" /\ prober'.report = prober.report
        /\ prober'.hears = prober.hears
    BY <2>1 DEF ProbeInv, ProbeTypeOK
  <2>3. ProbeTypeOK'
    BY <2>1 DEF ProbeInv, ProbeTypeOK
  <2>4. Making'
    BY <2>1, <2>2 DEF ProbeInv, Making
  <2>5. /\ prober.report.number = probes /\ RowsAreTrue(prober.report)
        /\ exitStatus = Absent /\ probes \in Nat
    BY <2>1 DEF ProbeInv, ProbeTypeOK, Making
  <2>6. Numbered'
    BY <2>1, <2>5 DEF ProbeInv, Numbered
  <2>7. ReportsAgree'
    BY <2>1, <2>5, ProbeAssumption DEF ProbeInv, Numbered, ReportsAgree
  <2>8. QED
    BY <2>3, <2>4, <2>6, <2>7 DEF ProbeInv
<1>6. CASE WriteMarkdown
  <2>1. /\ prober # Absent /\ prober.at = "markdown" /\ prober.report \in Report
        /\ markdown' = prober.report /\ prober' = Absent
        /\ exitStatus' = IF prober.report.found THEN 0 ELSE 127
        /\ UNCHANGED <<perf, json, probes, changes>>
    BY <1>6 DEF WriteMarkdown, ProberAt, ProbeInv, ProbeTypeOK
  <2>2. /\ prober.report.number = probes /\ RowsAreTrue(prober.report)
        /\ json = prober.report /\ probes \in Nat
        /\ Len(prober.report.rows) = IF prober.report.found THEN Len(Events) ELSE 0
    BY <2>1 DEF ProbeInv, ProbeTypeOK, Making
  <2>3. ProbeTypeOK' /\ Making'
    BY <2>1 DEF ProbeInv, ProbeTypeOK, Making
  <2>4. Numbered'
    BY <2>1, <2>2 DEF ProbeInv, Numbered
  <2>5. ReportsAgree'
    BY <2>1, <2>2, ProbeAssumption DEF ReportsAgree
  <2>6. QED
    BY <2>3, <2>4, <2>5 DEF ProbeInv
<1>7. CASE ProberStops
  <2>1. /\ prober' = Absent /\ exitStatus' = 1
        /\ json' \in {json, Torn} /\ markdown' \in {markdown, Torn}
        /\ UNCHANGED <<perf, probes, changes>>
    BY <1>7 DEF ProberStops
  <2>2. ProbeTypeOK' /\ Making' /\ Numbered'
    BY <2>1 DEF ProbeInv, ProbeTypeOK, Making, Numbered
  <2>3. ReportsAgree'
    BY <2>1 DEF ProbeInv, ReportsAgree
  <2>4. QED
    BY <2>2, <2>3 DEF ProbeInv
<1>8. CASE HostChanges
  BY <1>8 DEF HostChanges, ProbeInv, ProbeTypeOK, Making, Numbered, ReportsAgree
<1>9. QED
  BY <1>1, <1>2, <1>3, <1>4, <1>5, <1>6, <1>7, <1>8 DEF ProbeNext, ProberStep

LEMMA ProbeStutters == ProbeInv /\ UNCHANGED probeVars => ProbeInv'
BY DEF ProbeInv, probeVars, ProbeTypeOK, Making, Numbered, ReportsAgree

LEMMA ProbeInvariant == HostSpec => []ProbeInv
<1>1. ProbeInv /\ [HostNext]_hostVars => ProbeInv'
  BY ProbeKeeps, ProbeStutters DEF HostNext, Building, Probing, hostVars
<1>2. QED
  BY ProbeInitially, <1>1, PTL DEF HostSpec

\* ClassesAreTrue: whatever perf answers, and however the host changes while a report is
\* made, an event is supported only if perf ran for it, exited 0 and said nothing against
\* it, and a refusal is a refusal.
THEOREM ClassesTrue == HostSpec => []ClassesAreTrue
<1>1. ProbeInv => ClassesAreTrue
  BY DEF ProbeInv, Numbered, RowsAreTrue, RowIsTrue, ClassesAreTrue
<1>2. QED
  BY <1>1, ProbeInvariant, PTL

\* ReportsAgree: through any number of probes, each stopped anywhere, the Markdown never
\* shows a newer report than the JSON, and both are the last report if its probe ended by
\* itself.  One stopped between its two writes leaves a JSON newer than the Markdown.
THEOREM ReportsAgreeing == HostSpec => []ReportsAgree
<1>1. ProbeInv => ReportsAgree
  BY DEF ProbeInv
<1>2. QED
  BY <1>1, ProbeInvariant, PTL
=============================================================================
