------------------------------ MODULE LogProofs ------------------------------
(***************************************************************************)
(* What replay reads, for any buffer, any number of failed writes and       *)
(* syncs, and any crashes.                                                  *)
(*                                                                         *)
(* The argument is about the file with the buffer behind it: what a crash   *)
(* leaves is a beginning of that, and a retry repeats entries that are      *)
(* there already.                                                           *)
(***************************************************************************)
EXTENDS Log, WellFoundedInduction, TLAPS

Entries == [seq : Nat, call : Nat, exact : BOOLEAN]
RecordSet == [kind : {"whole"} \cup CutParts, entry : Entries]

\* The file as it will be once the buffer is written.
Log == file \o Records(buffer)

\* Nothing up to position n stops a reader.
Clear(records, n) == \A k \in 1..n : records[k].kind = "whole" /\ records[k].entry.exact

Types ==
    /\ file \in Seq(RecordSet) /\ synced \in 0..Len(file)
    /\ buffer \in Seq(Entries)
    /\ seq \in Nat /\ calls \in Nat /\ faults \in Nat
    /\ status \in {"open", "checkpoint", "replaying", "down", "refused"}
    /\ status \notin {"open", "checkpoint"} => buffer = <<>>

\* What Open has found is still so until the log is emptied.
Opened ==
    /\ status # "replaying" => reads = <<>>
    /\ status = "replaying" => ReadsOn(file) /\ reads = EntriesIn(file, Readable(file))
    /\ status = "refused" => Fails(file)

\* What a flush has reported is out of a power loss's reach.
Kept == \A e \in flushed : \E k \in 1..synced : file[k] = Whole(e)

\* Unless something is to blame, only the last record can be cut, and only by the power
\* loss that the process has not yet recovered from.
CutAtEnd ==
    blame = {} => \A k \in DOMAIN file :
        file[k].kind # "whole" => k = Len(file) /\ status \notin {"open", "checkpoint"}

\* Calls go up from record to record, repetitions aside, ...
Ordered(records) ==
    \A j, k \in DOMAIN records : j < k =>
        \/ records[j].entry.call < records[k].entry.call
        \/ \E l \in 1..(j - 1) : records[l].entry = records[k].entry
        \/ records[j].entry = records[k].entry

\* ... and without any in the buffer.
Calling(records, entries, n) ==
    /\ Ordered(records \o Records(entries))
    /\ \A k \in DOMAIN (records \o Records(entries)) :
          (records \o Records(entries))[k].entry.call <= n
    /\ \A j, k \in DOMAIN entries : j < k => entries[j].call < entries[k].call

CallsUp == Calling(file, buffer, calls)

\* As far as a reader comes, so do the numbers, ...
Numbered(records) ==
    \A k \in DOMAIN records : Clear(records, k) =>
        \A j \in 1..(k - 1) : records[j].entry.seq < records[k].entry.seq

\* ... and the next one is above them.
Below(records, n) == \A k \in DOMAIN records : Clear(records, k) => records[k].entry.seq <= n

NumbersUp ==
    faults = 0 =>
        /\ Numbered(Log)
        /\ status \in {"open", "checkpoint"} => Below(Log, seq)

IInv == Types /\ Opened /\ Kept /\ CutAtEnd /\ CallsUp /\ NumbersUp

-----------------------------------------------------------------------------
(* Records, and beginnings of them. *)

\* The greatest of the numbers up to a bound.
LEMMA MaxExists ==
    ASSUME NEW n \in Nat, NEW S \in SUBSET (0..n), S # {}
    PROVE  Max(S) \in S /\ \A j \in S : j <= Max(S)
<1> DEFINE Smaller == {ss \in Nat \X Nat : ss[1] < ss[2]}
           Gaps == {n - j : j \in S}
<1>1. IsWellFoundedOn(Smaller, Nat)
  BY NatLessThanWellFounded DEF OpToRel
<1>2. Gaps \in SUBSET Nat /\ Gaps # {}
  <2>1. \A j \in S : n - j \in Nat
    OBVIOUS
  <2>2. QED
    BY <2>1
<1>3. PICK g \in Gaps : \A h \in Gaps : ~ (<<h, g>> \in Smaller)
  <2> HIDE DEF Smaller, Gaps
  <2> QED
    BY <1>1, <1>2, WFMin
<1>4. PICK k \in S : g = n - k
  OBVIOUS
<1>5. ASSUME NEW j \in S PROVE j <= k
  <2>1. n - j \in Gaps /\ n - j \in Nat /\ n - k \in Nat
    OBVIOUS
  <2>2. n - j < n - k => <<n - j, n - k>> \in Smaller
    BY <2>1
  <2>3. QED
    BY <1>3, <1>4, <2>1, <2>2
<1>6. QED
  BY <1>5 DEF Max

\* How far a reader comes.
LEMMA ReadableFact ==
    ASSUME NEW records \in Seq(RecordSet)
    PROVE  /\ Readable(records) \in 0..Len(records)
           /\ Clear(records, Readable(records))
           /\ \A n \in 0..Len(records) : Clear(records, n) => n <= Readable(records)
<1> DEFINE S == {n \in 0..Len(records) : Clear(records, n)}
<1>1. Readable(records) = Max(S)
  BY DEF Readable, Clear
<1>2. S \in SUBSET (0..Len(records)) /\ 0 \in S /\ Len(records) \in Nat
  BY DEF Clear
<1>3. Max(S) \in S /\ \A j \in S : j <= Max(S)
  <2> HIDE DEF S
  <2> QED
    BY <1>2, MaxExists
<1>4. QED
  BY <1>1, <1>3

\* What stops him, if anything does, cannot be read.
LEMMA StopFact ==
    ASSUME NEW records \in Seq(RecordSet), Readable(records) < Len(records)
    PROVE  /\ Readable(records) + 1 \in DOMAIN records
           /\ ~ (/\ records[Readable(records) + 1].kind = "whole"
                 /\ records[Readable(records) + 1].entry.exact)
<1>1. Readable(records) + 1 \in 1..Len(records) /\ Clear(records, Readable(records))
  BY ReadableFact
<1>2. ~Clear(records, Readable(records) + 1)
  BY <1>1, ReadableFact
<1>3. QED
  BY <1>1, <1>2, ReadableFact DEF Clear

\* A buffer behind some records.
LEMMA Behind ==
    ASSUME NEW records \in Seq(RecordSet), NEW entries \in Seq(Entries)
    PROVE  /\ records \o Records(entries) \in Seq(RecordSet)
           /\ Len(records \o Records(entries)) = Len(records) + Len(entries)
           /\ \A k \in 1..Len(records) : (records \o Records(entries))[k] = records[k]
           /\ \A k \in 1..Len(entries) :
                 (records \o Records(entries))[Len(records) + k] = Whole(entries[k])
<1>1. \A e \in Entries : Whole(e) \in RecordSet
  BY DEF Whole, RecordSet
<1>2. Records(entries) \in Seq(RecordSet) /\ Len(Records(entries)) = Len(entries)
  BY <1>1 DEF Records
<1>3. \A k \in 1..Len(entries) : Records(entries)[k] = Whole(entries[k])
  BY DEF Records
<1>4. QED
  BY <1>2, <1>3

\* No buffer adds nothing.
LEMMA NoneBehind == \A records \in Seq(RecordSet) : records \o Records(<<>>) = records
<1>1. Records(<<>>) = <<>>
  BY DEF Records
<1>2. QED
  BY <1>1

\* Nor is there anything to read in an empty log.
LEMMA EmptyLog ==
    <<>> \in Seq(RecordSet) /\ <<>> \o Records(<<>>) = <<>> /\ Readable(<<>>) = 0
<1>1. <<>> \in Seq(RecordSet) /\ Len(<<>>) = 0
  OBVIOUS
<1>2. <<>> \o Records(<<>>) = <<>>
  BY <1>1, NoneBehind
<1>3. Readable(<<>>) \in 0..0
  BY <1>1, ReadableFact
<1>4. QED
  BY <1>1, <1>2, <1>3

\* left is a beginning of records, whose last one may be cut.
Begins(left, records) ==
    /\ left \in Seq(RecordSet) /\ Len(left) <= Len(records)
    /\ \A k \in 1..Len(left) :
          /\ left[k].entry = records[k].entry
          /\ left[k] = records[k] \/ (k = Len(left) /\ left[k].kind \in CutParts)

\* That is what a write that stops half way leaves, and a crash.
LEMMA CutBegins ==
    ASSUME NEW records \in Seq(RecordSet), NEW left \in {records} \cup Cuts(records)
    PROVE  Begins(left, records)
<1>1. CASE left = records
  BY <1>1 DEF Begins
<1>2. ASSUME NEW n \in 0..(Len(records) - 1), left = SubSeq(records, 1, n)
      PROVE  Begins(left, records)
  <2>1. left \in Seq(RecordSet) /\ Len(left) = n /\ \A k \in 1..n : left[k] = records[k]
    BY <1>2
  <2>2. QED
    BY <2>1 DEF Begins
<1>3. ASSUME NEW n \in DOMAIN records, NEW part \in CutParts,
             left = Append(SubSeq(records, 1, n - 1), CutTo(part, records[n].entry))
      PROVE  Begins(left, records)
  <2> DEFINE first == SubSeq(records, 1, n - 1)
             last == CutTo(part, records[n].entry)
  <2>1. last \in RecordSet /\ last.kind \in CutParts /\ last.entry = records[n].entry
    <3>1. records[n] \in RecordSet
      OBVIOUS
    <3>2. records[n].entry \in Entries
      BY <3>1 DEF RecordSet
    <3>3. last = [kind |-> part, entry |-> records[n].entry]
      BY DEF CutTo
    <3>4. QED
      BY <3>2, <3>3 DEF RecordSet
  <2>2. first \in Seq(RecordSet) /\ Len(first) = n - 1 /\ \A k \in 1..(n - 1) : first[k] = records[k]
    OBVIOUS
  <2> HIDE DEF first, last
  <2>3. left = Append(first, last)
    BY <1>3 DEF first, last
  <2>4. left \in Seq(RecordSet) /\ Len(left) = n /\ left[n] = last /\ \A k \in 1..(n - 1) : left[k] = records[k]
    BY <2>1, <2>2, <2>3
  <2>5. QED
    BY <2>1, <2>4 DEF Begins
<1>4. CASE left \in Cuts(records)
  <2>1. \/ \E n \in 0..(Len(records) - 1) : left = SubSeq(records, 1, n)
        \/ \E n \in DOMAIN records, part \in CutParts :
              left = Append(SubSeq(records, 1, n - 1), CutTo(part, records[n].entry))
    BY <1>4 DEF Cuts
  <2>2. QED
    BY <1>2, <1>3, <2>1
<1>5. QED
  BY <1>1, <1>4

\* The order of calls is one of beginnings too, ...
LEMMA OrderedBegins ==
    ASSUME NEW records \in Seq(RecordSet), NEW left, Ordered(records), Begins(left, records)
    PROVE  Ordered(left)
<1>1. Len(left) \in Nat /\ Len(records) \in Nat /\ DOMAIN left = 1..Len(left)
      /\ DOMAIN records = 1..Len(records) /\ Len(left) <= Len(records)
  BY DEF Begins
<1>2. \A k \in 1..Len(left) : left[k].entry = records[k].entry
  BY DEF Begins
<1>3. QED
  BY <1>1, <1>2 DEF Ordered

\* ... and so is that of the numbers a reader meets.
LEMMA NumberedBegins ==
    ASSUME NEW records \in Seq(RecordSet), NEW left, Numbered(records), Begins(left, records)
    PROVE  Numbered(left)
<1>1. Len(left) \in Nat /\ Len(records) \in Nat /\ DOMAIN left = 1..Len(left)
      /\ DOMAIN records = 1..Len(records) /\ Len(left) <= Len(records)
  BY DEF Begins
<1>2. \A k \in 1..Len(left) : left[k].entry = records[k].entry
                             /\ (left[k].kind = "whole" => left[k] = records[k])
  BY DEF Begins, CutParts
<1>3. \A k \in 1..Len(left) : Clear(left, k) => Clear(records, k)
  BY <1>1, <1>2 DEF Clear
<1>4. QED
  BY <1>1, <1>2, <1>3 DEF Numbered

-----------------------------------------------------------------------------
(* Writing. *)

\* An entry more.
LEMMA OneMore ==
    ASSUME NEW records \in Seq(RecordSet), NEW entries \in Seq(Entries), NEW e \in Entries
    PROVE  /\ Append(entries, e) \in Seq(Entries)
           /\ records \o Records(Append(entries, e)) = Append(records \o Records(entries), Whole(e))
<1>1. Append(entries, e) \in Seq(Entries) /\ Len(Append(entries, e)) = Len(entries) + 1
  OBVIOUS
<1>2. \A k \in 1..Len(entries) : Append(entries, e)[k] = entries[k]
  OBVIOUS
<1>3. Append(entries, e)[Len(entries) + 1] = e
  OBVIOUS
<1>4. Records(Append(entries, e)) = Append(Records(entries), Whole(e))
  <2>1. Records(entries) = [k \in 1..Len(entries) |-> Whole(entries[k])]
    BY DEF Records
  <2>2. Append(Records(entries), Whole(e)) =
            [k \in 1..(Len(entries) + 1) |-> IF k = Len(entries) + 1 THEN Whole(e) ELSE Whole(entries[k])]
    BY <2>1
  <2>3. Records(Append(entries, e)) = [k \in 1..(Len(entries) + 1) |-> Whole(Append(entries, e)[k])]
    BY <1>1 DEF Records
  <2>4. \A k \in 1..(Len(entries) + 1) : Whole(Append(entries, e)[k]) =
            IF k = Len(entries) + 1 THEN Whole(e) ELSE Whole(entries[k])
    BY <1>2, <1>3
  <2>5. [k \in 1..(Len(entries) + 1) |-> Whole(Append(entries, e)[k])] =
            [k \in 1..(Len(entries) + 1) |-> IF k = Len(entries) + 1 THEN Whole(e) ELSE Whole(entries[k])]
    BY <2>4, Zenon
  <2>6. QED
    BY <2>2, <2>3, <2>5, Zenon
<1>5. Records(entries) \in Seq(RecordSet) /\ Whole(e) \in RecordSet
  <2>1. \A d \in Entries : Whole(d) \in RecordSet
    BY DEF Whole, RecordSet
  <2>2. QED
    BY <2>1 DEF Records
<1>6. QED
  BY <1>1, <1>4, <1>5

\* It is from the newest call.
LEMMA AppendCalling ==
    ASSUME NEW records \in Seq(RecordSet), NEW entries \in Seq(Entries), NEW e \in Entries,
           NEW n \in Nat, Calling(records, entries, n), e.call = n + 1
    PROVE  Calling(records, Append(entries, e), n + 1)
<1> DEFINE W == records \o Records(entries)
           V == records \o Records(Append(entries, e))
<1>1. W \in Seq(RecordSet) /\ V = Append(W, Whole(e)) /\ Whole(e).entry = e
  BY Behind, OneMore DEF Whole
<1>2. Ordered(W) /\ \A k \in DOMAIN W : W[k].entry.call <= n
  BY DEF Calling
<1>3. \A k \in 1..Len(W) : W[k].entry.call \in Nat
  <2>1. \A k \in 1..Len(W) : W[k] \in RecordSet
    BY <1>1
  <2>2. QED
    BY <2>1 DEF RecordSet, Entries
<1> HIDE DEF W, V
<1>4. DOMAIN V = 1..(Len(W) + 1) /\ Len(W) \in Nat /\ V[Len(W) + 1] = Whole(e)
      /\ \A k \in 1..Len(W) : V[k] = W[k]
  BY <1>1
<1>5. Ordered(V)
  <2> SUFFICES ASSUME NEW j \in DOMAIN V, NEW k \in DOMAIN V, j < k
               PROVE  \/ V[j].entry.call < V[k].entry.call
                      \/ \E l \in 1..(j - 1) : V[l].entry = V[k].entry
                      \/ V[j].entry = V[k].entry
    BY DEF Ordered
  <2>1. CASE k = Len(W) + 1
    <3>1. j \in 1..Len(W) /\ j \in DOMAIN W
      BY <1>1, <1>4, <2>1
    <3>2. V[j].entry.call <= n /\ V[j].entry.call \in Nat /\ V[k].entry.call = n + 1
      BY <1>1, <1>2, <1>3, <1>4, <2>1, <3>1
    <3>3. QED
      BY <3>2
  <2>2. CASE k \in 1..Len(W)
    <3>1. j \in DOMAIN W /\ k \in DOMAIN W /\ \A l \in 1..(j - 1) : V[l] = W[l]
      BY <1>1, <1>4, <2>2
    <3>2. V[j] = W[j] /\ V[k] = W[k]
      BY <1>4, <2>2
    <3>3. QED
      BY <1>2, <3>1, <3>2 DEF Ordered
  <2>3. QED
    BY <1>4, <2>1, <2>2
<1>6. \A k \in DOMAIN V : V[k].entry.call <= n + 1
  <2> TAKE k \in DOMAIN V
  <2>1. CASE k = Len(W) + 1
    BY <1>1, <1>4, <2>1
  <2>2. CASE k \in 1..Len(W)
    BY <1>1, <1>2, <1>3, <1>4, <2>2
  <2>3. QED
    BY <1>4, <2>1, <2>2
<1>7. ASSUME NEW j \in DOMAIN Append(entries, e), NEW k \in DOMAIN Append(entries, e), j < k
      PROVE  Append(entries, e)[j].call < Append(entries, e)[k].call
  <2>1. CASE k = Len(entries) + 1
    <3>1. j \in 1..Len(entries) /\ Append(entries, e)[j] = entries[j] /\ Append(entries, e)[k] = e
      BY <1>7, <2>1
    <3>2. Len(records) + j \in 1..Len(W) /\ W[Len(records) + j].entry = entries[j]
      <4>1. Len(records) + j \in 1..Len(W) /\ W[Len(records) + j] = Whole(entries[j])
        BY <3>1, Behind DEF W
      <4>2. QED
        BY <4>1 DEF Whole
    <3>3. entries[j].call <= n /\ entries[j].call \in Nat
      BY <1>1, <1>2, <1>3, <3>2
    <3>4. QED
      BY <3>1, <3>3
  <2>2. CASE k \in 1..Len(entries)
    <3>1. j \in 1..Len(entries) /\ Append(entries, e)[j] = entries[j] /\ Append(entries, e)[k] = entries[k]
      BY <1>7, <2>2
    <3>2. QED
      BY <1>7, <2>2, <3>1 DEF Calling
  <2>3. QED
    BY <2>1, <2>2
<1>8. QED
  BY <1>5, <1>6, <1>7 DEF Calling, V

\* It has the greatest number.
LEMMA AppendNumbered ==
    ASSUME NEW records \in Seq(RecordSet), NEW r \in RecordSet, NEW n \in Nat,
           Numbered(records), Below(records, n), r.entry.seq = n + 1
    PROVE  Numbered(Append(records, r)) /\ Below(Append(records, r), n + 1)
<1> DEFINE V == Append(records, r)
<1>1. DOMAIN V = 1..(Len(records) + 1) /\ Len(records) \in Nat /\ V[Len(records) + 1] = r
      /\ DOMAIN records = 1..Len(records) /\ \A k \in 1..Len(records) : V[k] = records[k]
  OBVIOUS
<1>2. \A k \in 1..Len(records) : records[k].entry.seq \in Nat
  <2>1. \A k \in 1..Len(records) : records[k] \in RecordSet
    OBVIOUS
  <2>2. QED
    BY <2>1 DEF RecordSet, Entries
<1> HIDE DEF V
<1>3. \A k \in 1..(Len(records) + 1) : Clear(V, k) =>
          \A j \in 1..Len(records) : j <= k => Clear(records, j)
  BY <1>1 DEF Clear
<1>4. ASSUME NEW k \in 1..(Len(records) + 1), Clear(V, k)
      PROVE  V[k].entry.seq <= n + 1 /\ \A j \in 1..(k - 1) : V[j].entry.seq < V[k].entry.seq
  <2>1. CASE k = Len(records) + 1
    <3>1. \A j \in 1..Len(records) : V[j].entry.seq <= n /\ V[j].entry.seq \in Nat
      BY <1>1, <1>2, <1>3, <1>4, <2>1 DEF Below
    <3>2. V[k].entry.seq = n + 1
      BY <1>1, <2>1
    <3>3. QED
      BY <1>1, <2>1, <3>1, <3>2
  <2>2. CASE k \in 1..Len(records)
    <3>1. V[k] = records[k] /\ Clear(records, k) /\ \A j \in 1..(k - 1) : V[j] = records[j]
      BY <1>1, <1>3, <1>4, <2>2
    <3>2. V[k].entry.seq <= n /\ V[k].entry.seq \in Nat
      BY <1>1, <1>2, <2>2, <3>1 DEF Below
    <3>3. QED
      BY <1>1, <2>2, <3>1, <3>2, SMTT(30) DEF Numbered
  <2>3. QED
    BY <1>1, <2>1, <2>2
<1>5. Numbered(V)
  BY <1>1, <1>4 DEF Numbered
<1>6. Below(V, n + 1)
  BY <1>1, <1>4 DEF Below
<1>7. QED
  BY <1>5, <1>6 DEF V

\* A failed write is written again behind what it left.
LEMMA RetryCalling ==
    ASSUME NEW records \in Seq(RecordSet), NEW entries \in Seq(Entries), NEW left,
           NEW n \in Nat, Begins(left, Records(entries)), Calling(records, entries, n)
    PROVE  Calling(records \o left, entries, n)
<1> DEFINE W == records \o Records(entries)
           V == (records \o left) \o Records(entries)
           a == Len(records)
           b == Len(left)
           c == Len(entries)
<1>1. a \in Nat /\ c \in Nat /\ W \in Seq(RecordSet) /\ Len(W) = a + c
  BY Behind
<1>2. left \in Seq(RecordSet) /\ b \in Nat /\ b <= c
  BY DEF Begins, Records
<1>3. records \o left \in Seq(RecordSet) /\ Len(records \o left) = a + b
  BY <1>2
<1>4. V \in Seq(RecordSet) /\ Len(V) = a + b + c
  BY <1>3, Behind
<1>5. \A k \in 1..(a + b) : V[k].entry = W[k].entry
  <2> TAKE k \in 1..(a + b)
  <2>1. V[k] = (records \o left)[k]
    BY <1>3, Behind
  <2>2. CASE k \in 1..a
    <3>1. (records \o left)[k] = records[k]
      BY <1>2, <2>2
    <3>2. W[k] = records[k]
      BY <2>2, Behind
    <3>3. QED
      BY <2>1, <3>1, <3>2
  <2>3. CASE k \in (a + 1)..(a + b)
    <3>1. k - a \in 1..b /\ k - a \in 1..c /\ (records \o left)[k] = left[k - a]
      BY <1>1, <1>2, <2>3
    <3>2. left[k - a].entry = Records(entries)[k - a].entry
      BY <3>1 DEF Begins
    <3>3. Records(entries)[k - a] = Whole(entries[k - a]) /\ W[a + (k - a)] = Whole(entries[k - a])
      BY <3>1, Behind DEF Records
    <3>4. a + (k - a) = k
      BY <1>1, <2>3
    <3>5. QED
      BY <2>1, <3>1, <3>2, <3>3, <3>4
  <2>4. QED
    BY <1>1, <1>2, <2>2, <2>3
<1>6. \A k \in (a + b + 1)..(a + b + c) : V[k].entry = W[k - b].entry
  <2> TAKE k \in (a + b + 1)..(a + b + c)
  <2>1. k - a - b \in 1..c
    BY <1>1, <1>2
  <2>2. \A m \in 1..c : V[(a + b) + m] = Whole(entries[m])
    <3>1. \A m \in 1..c : V[Len(records \o left) + m] = Whole(entries[m])
      BY <1>3, Behind
    <3>2. QED
      BY <1>3, <3>1
  <2>3. \A m \in 1..c : W[a + m] = Whole(entries[m])
    BY Behind
  <2>4. (a + b) + (k - a - b) = k /\ a + (k - a - b) = k - b
    BY <1>1, <1>2
  <2>5. QED
    BY <2>1, <2>2, <2>3, <2>4
<1>7. Ordered(W) /\ (\A k \in 1..(a + c) : W[k].entry.call <= n)
  BY <1>1 DEF Calling
<1>8. DOMAIN V = 1..(a + b + c) /\ DOMAIN W = 1..(a + c)
  BY <1>1, <1>4
<1>0. a \in Nat /\ b \in Nat /\ c \in Nat /\ b <= c
  BY <1>1, <1>2
<1> HIDE DEF V, W, a, b, c
<1>9. ASSUME NEW j \in 1..(a + b + c), NEW k \in 1..(a + b + c), j < k
      PROVE  \/ V[j].entry.call < V[k].entry.call
             \/ \E l \in 1..(j - 1) : V[l].entry = V[k].entry
             \/ V[j].entry = V[k].entry
  <2>1. CASE k <= a + b
    <3>1. \A l \in 1..k : V[l].entry = W[l].entry
      <4>1. \A l \in 1..k : l \in 1..(a + b)
        BY <1>0, <2>1
      <4>2. QED
        BY <1>5, <4>1
    <3>2. j \in DOMAIN W /\ k \in DOMAIN W
      BY <1>0, <1>8, <1>9, <2>1
    <3>3. QED
      BY <1>7, <1>9, <3>1, <3>2 DEF Ordered
  <2>2. CASE j > a + b
    <3>1. j - b \in DOMAIN W /\ k - b \in DOMAIN W /\ j - b < k - b
          /\ V[j].entry = W[j - b].entry /\ V[k].entry = W[k - b].entry
      <4>1. j \in (a + b + 1)..(a + b + c) /\ k \in (a + b + 1)..(a + b + c)
        BY <1>0, <1>9, <2>2
      <4>2. j - b \in 1..(a + c) /\ k - b \in 1..(a + c) /\ j - b < k - b
        BY <1>0, <1>9, <4>1
      <4>3. QED
        BY <1>6, <1>8, <4>1, <4>2
    <3>2. CASE \E l \in 1..(j - b - 1) : W[l].entry = W[k - b].entry
      <4>1. PICK l \in 1..(j - b - 1) : W[l].entry = W[k - b].entry
        BY <3>2
      <4>2. CASE l <= a + b
        <5>1. l \in 1..(j - 1) /\ V[l].entry = W[l].entry
          BY <1>0, <1>5, <4>2
        <5>2. QED
          BY <3>1, <4>1, <5>1
      <4>3. CASE l > a + b
        <5>1. l + b \in 1..(j - 1) /\ l + b \in (a + b + 1)..(a + b + c) /\ (l + b) - b = l
          BY <1>0, <4>3
        <5>2. V[l + b].entry = W[l].entry
          BY <1>6, <5>1
        <5>3. QED
          BY <3>1, <4>1, <5>1, <5>2
      <4>4. QED
        BY <1>0, <4>2, <4>3
    <3>3. QED
      BY <1>7, <3>1, <3>2 DEF Ordered
  <2>3. CASE j <= a + b /\ k > a + b
    <3>1. V[j].entry = W[j].entry /\ V[k].entry = W[k - b].entry /\ j \in DOMAIN W /\ k - b \in DOMAIN W
      <4>1. j \in 1..(a + b) /\ k \in (a + b + 1)..(a + b + c)
        BY <1>0, <1>9, <2>3
      <4>2. j \in 1..(a + c) /\ k - b \in 1..(a + c)
        BY <1>0, <4>1
      <4>3. QED
        BY <1>5, <1>6, <1>8, <4>1, <4>2
    <3>2. CASE j = k - b
      BY <3>1, <3>2
    <3>3. CASE j > k - b
      <4>1. k - b \in 1..(j - 1) /\ k - b \in 1..(a + b)
        BY <1>0, <2>3, <3>3
      <4>2. V[k - b].entry = W[k - b].entry
        BY <1>5, <4>1
      <4>3. QED
        BY <3>1, <4>1, <4>2
    <3>4. CASE j < k - b
      <4>1. \A l \in 1..(j - 1) : V[l].entry = W[l].entry
        BY <1>0, <1>5, <2>3
      <4>2. QED
        BY <1>7, <3>1, <3>4, <4>1 DEF Ordered
    <3>5. QED
      BY <1>0, <3>2, <3>3, <3>4
  <2>4. QED
    BY <1>0, <2>1, <2>2, <2>3
<1>10. \A k \in 1..(a + b + c) : V[k].entry.call <= n
  <2> TAKE k \in 1..(a + b + c)
  <2>1. CASE k <= a + b
    BY <1>0, <1>5, <1>7, <2>1
  <2>2. CASE k > a + b
    <3>1. k - b \in 1..(a + c) /\ V[k].entry = W[k - b].entry
      BY <1>0, <1>6, <2>2
    <3>2. QED
      BY <1>7, <3>1
  <2>3. QED
    BY <1>0, <2>1, <2>2
<1>11. QED
  BY <1>8, <1>9, <1>10 DEF Calling, Ordered, V

\* What a flush does to the invariant, whether it succeeds, fails or stops half way.
LEMMA FlushFact ==
    ASSUME Types, CutAtEnd, Kept, status \in {"open", "checkpoint"}, status' \in {"open", "checkpoint"},
           NEW entries \in Seq(Entries), FlushEntries(entries),
           NEW n \in Nat, Calling(file, entries, n),
           NEW m \in Nat,
           faults = 0 => Numbered(file \o Records(entries)) /\ Below(file \o Records(entries), m)
    PROVE  /\ file' \in Seq(RecordSet) /\ synced' \in 0..Len(file')
           /\ buffer' \in Seq(Entries) /\ faults' \in Nat
           /\ Kept' /\ CutAtEnd' /\ Calling(file', buffer', n)
           /\ faults' = 0 => Numbered(Log') /\ Below(Log', m)
<1> DEFINE W == file \o Records(entries)
<1>0. file \in Seq(RecordSet) /\ Len(file) \in Nat /\ Len(entries) \in Nat /\ faults \in Nat
      /\ synced \in 0..Len(file)
  BY DEF Types
<1>1. W \in Seq(RecordSet) /\ Len(W) = Len(file) + Len(entries)
      /\ (\A k \in 1..Len(file) : W[k] = file[k])
      /\ \A k \in 1..Len(entries) : W[Len(file) + k] = Whole(entries[k])
  BY <1>0, Behind
<1>2. blame = {} => \A k \in 1..Len(file) : file[k].kind = "whole"
  BY <1>0 DEF CutAtEnd
<1>3. blame = {} => \A k \in 1..Len(W) : W[k].kind = "whole"
  <2> SUFFICES ASSUME blame = {}, NEW k \in 1..Len(W) PROVE W[k].kind = "whole"
    OBVIOUS
  <2>1. CASE k \in 1..Len(file)
    BY <1>1, <1>2, <2>1
  <2>2. CASE k \in (Len(file) + 1)..(Len(file) + Len(entries))
    <3>1. k - Len(file) \in 1..Len(entries) /\ Len(file) + (k - Len(file)) = k
      BY <1>0, <2>2
    <3>2. W[k] = Whole(entries[k - Len(file)])
      BY <1>1, <3>1
    <3>3. QED
      BY <3>2 DEF Whole
  <2>3. QED
    BY <1>0, <1>1, <2>1, <2>2
<1>4. CASE /\ file' = W /\ synced' = Len(file') /\ buffer' = <<>>
           /\ flushed' = flushed \cup ToSet(entries) /\ UNCHANGED <<faults, blame>>
  <2>1. file' \o Records(buffer') = file' /\ Log' = file'
    BY <1>1, <1>4, NoneBehind DEF Log
  <2>2. Kept'
    <3> SUFFICES ASSUME NEW e \in flushed' PROVE \E k \in 1..synced' : file'[k] = Whole(e)
      BY DEF Kept
    <3>1. CASE e \in flushed
      <4>1. PICK k \in 1..synced : file[k] = Whole(e)
        BY <3>1 DEF Kept
      <4>2. k \in 1..synced' /\ file'[k] = file[k]
        BY <1>0, <1>1, <1>4
      <4>3. QED
        BY <4>1, <4>2
    <3>2. CASE e \in ToSet(entries)
      <4>1. PICK k \in 1..Len(entries) : e = entries[k]
        BY <3>2 DEF ToSet
      <4>2. Len(file) + k \in 1..synced' /\ file'[Len(file) + k] = Whole(e)
        BY <1>0, <1>1, <1>4, <4>1
      <4>3. QED
        BY <4>2
    <3>3. QED
      BY <1>4, <3>1, <3>2
  <2>3. CutAtEnd'
    BY <1>1, <1>3, <1>4 DEF CutAtEnd
  <2>4. Calling(file', buffer', n)
    <3>1. Ordered(W) /\ \A k \in DOMAIN W : W[k].entry.call <= n
      BY DEF Calling
    <3>2. file' \o Records(buffer') = W /\ DOMAIN buffer' = {}
      BY <1>4, <2>1
    <3> HIDE DEF W
    <3>3. QED
      BY <3>1, <3>2 DEF Calling
  <2>5. QED
    BY <1>0, <1>1, <1>4, <2>1, <2>2, <2>3, <2>4
<1>5. ASSUME NEW left, Begins(left, Records(entries)), file' = file \o left,
             faults' = faults + 1, buffer' = entries, UNCHANGED <<synced, flushed>>,
             blame' = {} => left = Records(entries) /\ blame = {}
      PROVE  /\ file' \in Seq(RecordSet) /\ synced' \in 0..Len(file')
             /\ buffer' \in Seq(Entries) /\ faults' \in Nat
             /\ Kept' /\ CutAtEnd' /\ Calling(file', buffer', n)
             /\ faults' = 0 => Numbered(Log') /\ Below(Log', m)
  <2>1. left \in Seq(RecordSet) /\ Len(left) \in Nat
    BY <1>5 DEF Begins
  <2>2. file' \in Seq(RecordSet) /\ Len(file') = Len(file) + Len(left) /\ \A k \in 1..Len(file) : file'[k] = file[k]
    BY <1>0, <1>5, <2>1
  <2>3. Kept'
    <3>1. \A k \in 1..synced : file'[k] = file[k]
      BY <1>0, <2>2
    <3>2. QED
      BY <1>5, <3>1 DEF Kept
  <2>4. CutAtEnd'
    BY <1>1, <1>3, <1>5 DEF CutAtEnd
  <2>5. Calling(file', buffer', n)
    BY <1>0, <1>5, RetryCalling
  <2>6. faults' # 0 /\ faults' \in Nat
    BY <1>0, <1>5
  <2>7. QED
    BY <1>0, <1>5, <2>2, <2>3, <2>4, <2>5, <2>6
<1>6. Records(entries) \in Seq(RecordSet)
  <2>1. \A e \in Entries : Whole(e) \in RecordSet
    BY DEF Whole, RecordSet
  <2>2. QED
    BY <2>1 DEF Records
<1>7. CASE /\ faults' = faults + 1 /\ buffer' = entries
           /\ file' = file \o Records(entries) /\ UNCHANGED <<blame, synced, flushed>>
  BY <1>5, <1>6, <1>7, CutBegins
<1>8. CASE /\ faults' = faults + 1 /\ buffer' = entries
           /\ \E left \in Cuts(Records(entries)) : file' = file \o left
           /\ blame' = blame \cup {"partial write"} /\ UNCHANGED <<synced, flushed>>
  <2>1. PICK left \in Cuts(Records(entries)) : file' = file \o left
    BY <1>8
  <2>2. Begins(left, Records(entries))
    BY <1>6, <2>1, CutBegins
  <2>3. blame' # {}
    BY <1>8
  <2>4. QED
    BY <1>5, <1>8, <2>1, <2>2, <2>3
<1>9. QED
  BY <1>4, <1>7, <1>8 DEF FlushEntries, Sync

-----------------------------------------------------------------------------
(* The steps. *)

\* A flush of the buffer, by a commit or by the checkpoint.
LEMMA BufferFlushed ==
    ASSUME IInv, status \in {"open", "checkpoint"}, status' \in {"open", "checkpoint"},
           FlushEntries(buffer), UNCHANGED <<seq, reads, calls>>
    PROVE  IInv'
<1> USE DEF IInv
<1>1. buffer \in Seq(Entries) /\ calls \in Nat /\ seq \in Nat /\ reads = <<>>
  BY DEF Types, Opened
<1>2. Calling(file, buffer, calls) /\ (faults = 0 => Numbered(file \o Records(buffer)) /\ Below(file \o Records(buffer), seq))
  BY DEF CallsUp, NumbersUp, Log
<1>3. /\ file' \in Seq(RecordSet) /\ synced' \in 0..Len(file')
      /\ buffer' \in Seq(Entries) /\ faults' \in Nat
      /\ Kept' /\ CutAtEnd' /\ Calling(file', buffer', calls)
      /\ faults' = 0 => Numbered(Log') /\ Below(Log', seq)
  BY <1>1, <1>2, FlushFact
<1>4. Types' /\ Opened' /\ CallsUp' /\ NumbersUp'
  BY <1>1, <1>3 DEF Types, Opened, CallsUp, NumbersUp
<1>5. QED
  BY <1>3, <1>4

LEMMA AppendStep ==
    ASSUME IInv, NEW metadata \in {"exact", "inexact", "invalid"}, AppendEntry(metadata)
    PROVE  IInv'
<1> USE DEF IInv
<1> DEFINE e == Entry(seq + 1, calls + 1, metadata = "exact")
           full == Append(buffer, e)
<1>1. /\ status \in {"open", "checkpoint"} /\ status' = status /\ reads' = reads /\ reads = <<>>
      /\ calls' = calls + 1 /\ seq' = seq + 1
  BY DEF AppendEntry, NextNumber, Opened
<1>2. /\ file \in Seq(RecordSet) /\ buffer \in Seq(Entries) /\ calls \in Nat /\ seq \in Nat /\ faults \in Nat
      /\ calls' \in Nat /\ seq' \in Nat
  BY <1>1 DEF Types
<1>3. e \in Entries /\ e.call = calls + 1 /\ e.seq = seq + 1
  BY <1>2 DEF Entry, Entries
<1>4. Log \in Seq(RecordSet) /\ Whole(e) \in RecordSet /\ Whole(e).entry = e
      /\ full \in Seq(Entries) /\ file \o Records(full) = Append(Log, Whole(e))
  <2> HIDE DEF e
  <2>1. Whole(e) \in RecordSet /\ Whole(e).entry = e
    BY <1>3 DEF Whole, RecordSet
  <2>2. QED
    BY <1>2, <1>3, <2>1, Behind, OneMore DEF Log
<1>5. Calling(file, full, calls + 1)
  <2> HIDE DEF e
  <2> QED
    BY <1>2, <1>3, AppendCalling DEF CallsUp
<1>6. faults = 0 => Numbered(file \o Records(full)) /\ Below(file \o Records(full), seq + 1)
  <2>1. faults = 0 => Numbered(Log) /\ Below(Log, seq)
    BY <1>1 DEF NumbersUp
  <2> HIDE DEF e, full
  <2>2. QED
    BY <1>2, <1>3, <1>4, <2>1, AppendNumbered
<1> HIDE DEF e, full
<1>7. CASE UNCHANGED <<file, synced, buffer, faults, flushed, blame>>
  <2>1. Types' /\ Opened' /\ Kept' /\ CutAtEnd'
    BY <1>1, <1>2, <1>7 DEF Types, Opened, Kept, CutAtEnd
  <2>2. Log' = Log
    BY <1>7 DEF Log
  <2>3. CallsUp'
    <3>1. \A k \in DOMAIN Log : Log[k].entry.call <= calls /\ Log[k].entry.call \in Nat
      <4>1. \A k \in DOMAIN Log : Log[k] \in RecordSet
        BY <1>4
      <4>2. QED
        BY <4>1 DEF CallsUp, Calling, Log, RecordSet, Entries
    <3>2. \A k \in DOMAIN Log : Log[k].entry.call <= calls + 1
      BY <1>2, <3>1
    <3>3. QED
      BY <1>1, <1>7, <3>2 DEF CallsUp, Calling, Log
  <2>4. NumbersUp'
    <3>1. \A k \in DOMAIN Log : Log[k].entry.seq \in Nat
      <4>1. \A k \in DOMAIN Log : Log[k] \in RecordSet
        BY <1>4
      <4>2. QED
        BY <4>1 DEF RecordSet, Entries
    <3>2. Below(Log, seq) => Below(Log, seq + 1)
      BY <1>2, <3>1 DEF Below
    <3>3. QED
      BY <1>1, <1>7, <2>2, <3>2 DEF NumbersUp
  <2>5. QED
    BY <2>1, <2>3, <2>4
<1>8. CASE buffer' = full /\ UNCHANGED <<file, synced, faults, flushed, blame>>
  <2>1. Types' /\ Opened' /\ Kept' /\ CutAtEnd'
    BY <1>1, <1>2, <1>4, <1>8 DEF Types, Opened, Kept, CutAtEnd
  <2>2. Log' = file \o Records(full)
    BY <1>8 DEF Log
  <2>3. CallsUp' /\ NumbersUp'
    BY <1>1, <1>5, <1>6, <1>8, <2>2 DEF CallsUp, NumbersUp
  <2>4. QED
    BY <2>1, <2>3
<1>9. CASE FlushEntries(full)
  <2>1. /\ file' \in Seq(RecordSet) /\ synced' \in 0..Len(file')
        /\ buffer' \in Seq(Entries) /\ faults' \in Nat
        /\ Kept' /\ CutAtEnd' /\ Calling(file', buffer', calls + 1)
        /\ faults' = 0 => Numbered(Log') /\ Below(Log', seq + 1)
    <3>1. calls + 1 \in Nat /\ seq + 1 \in Nat
      BY <1>2
    <3>2. QED
      BY <1>1, <1>4, <1>5, <1>6, <1>9, <3>1, FlushFact
  <2>2. Types' /\ Opened' /\ CallsUp' /\ NumbersUp'
    BY <1>1, <1>2, <2>1 DEF Types, Opened, CallsUp, NumbersUp
  <2>3. QED
    BY <2>1, <2>2
<1>10. QED
  BY <1>7, <1>8, <1>9 DEF AppendEntry, NextNumber, e, full

\* An emptied log.
LEMMA EmptiedStep ==
    ASSUME IInv, Emptied, seq' \in Nat, reads' = <<>>, status' \in {"open", "down"},
           UNCHANGED <<calls, faults>>
    PROVE  IInv'
<1> USE DEF IInv
<1>1. file' = <<>> /\ buffer' = <<>> /\ synced' = 0 /\ flushed' = {}
  BY DEF Emptied
<1>2. <<>> \in Seq(RecordSet) /\ <<>> \in Seq(Entries) /\ Len(<<>>) = 0
  OBVIOUS
<1>3. file' \o Records(buffer') = <<>> /\ Log' = <<>>
  BY <1>1, EmptyLog DEF Log
<1>4. Types' /\ Opened' /\ Kept' /\ CutAtEnd'
  BY <1>1, <1>2 DEF Types, Opened, Kept, CutAtEnd
<1>5. CallsUp' /\ NumbersUp'
  BY <1>1, <1>3 DEF CallsUp, Calling, Ordered, NumbersUp, Numbered, Below
<1>6. QED
  BY <1>4, <1>5

LEMMA CrashStep == ASSUME IInv, Crash PROVE IInv'
<1> USE DEF IInv
<1>0. file \in Seq(RecordSet) /\ buffer \in Seq(Entries) /\ synced \in 0..Len(file) /\ calls \in Nat
      /\ faults \in Nat /\ status \in {"open", "checkpoint", "replaying"}
  BY DEF Types, Crash
<1>1. Log \in Seq(RecordSet) /\ Len(Log) = Len(file) + Len(buffer)
      /\ (\A k \in 1..Len(file) : Log[k] = file[k])
      /\ \A k \in 1..Len(buffer) : Log[Len(file) + k] = Whole(buffer[k])
  BY <1>0, Behind DEF Log
<1>2. PICK written \in {file, Log} :
          \E left \in {written} \cup Cuts(written) :
              /\ Len(left) >= synced
              /\ \A k \in 1..synced : left[k] = file[k]
              /\ file' = left
              /\ synced' = Len(left)
  BY DEF Crash, Log
<1>3. PICK left \in {written} \cup Cuts(written) :
          /\ Len(left) >= synced
          /\ \A k \in 1..synced : left[k] = file[k]
          /\ file' = left
          /\ synced' = Len(left)
  BY <1>2
<1>4. /\ buffer' = <<>> /\ seq' = 0 /\ reads' = <<>> /\ status' = "down"
      /\ UNCHANGED <<calls, faults, flushed, blame>>
  BY DEF Crash
<1>5. Begins(left, Log)
  <2>1. Begins(left, written)
    BY <1>0, <1>1, CutBegins
  <2>2. Begins(left, file) => Begins(left, Log)
    <3>1. Len(file) \in Nat /\ Len(buffer) \in Nat
      BY <1>0
    <3>2. QED
      BY <1>1, <3>1 DEF Begins
  <2>3. QED
    BY <2>1, <2>2
<1>6. left \in Seq(RecordSet) /\ Len(left) \in Nat /\ Len(left) <= Len(Log)
  BY <1>5 DEF Begins
<1>7. file' \o Records(buffer') = left /\ Log' = left
  BY <1>3, <1>4, <1>6, NoneBehind DEF Log
<1>8. Types' /\ Opened' /\ Kept'
  BY <1>0, <1>3, <1>4, <1>6 DEF Types, Opened, Kept
<1>9. CutAtEnd'
  <2> SUFFICES ASSUME blame = {}, NEW k \in 1..Len(left), left[k].kind # "whole"
               PROVE  k = Len(left)
    BY <1>3, <1>4, <1>6 DEF CutAtEnd
  <2>1. SUFFICES ASSUME left[k] = Log[k] PROVE k = Len(left)
    BY <1>5 DEF Begins
  <2>2. CASE k \in 1..Len(file)
    <3>1. k = Len(file) /\ status = "replaying"
      BY <1>0, <1>1, <2>1, <2>2 DEF CutAtEnd
    <3>2. Len(Log) = Len(file)
      BY <1>0, <1>1, <3>1 DEF Types
    <3>3. QED
      BY <1>6, <3>1, <3>2
  <2>3. CASE k \in (Len(file) + 1)..(Len(file) + Len(buffer))
    <3>1. k - Len(file) \in 1..Len(buffer) /\ Len(file) + (k - Len(file)) = k
      BY <1>0, <2>3
    <3>2. Log[k] = Whole(buffer[k - Len(file)])
      BY <1>1, <3>1
    <3>3. QED
      BY <2>1, <3>2 DEF Whole
  <2>4. QED
    <3>1. Len(file) \in Nat /\ Len(buffer) \in Nat
      BY <1>0
    <3>2. QED
      BY <1>1, <1>6, <2>2, <2>3, <3>1
<1>10. CallsUp'
  <2>1. Ordered(Log) /\ \A k \in DOMAIN Log : Log[k].entry.call <= calls
    BY DEF CallsUp, Calling, Log
  <2>2. Ordered(left)
    BY <1>1, <1>5, <2>1, OrderedBegins
  <2>3. \A k \in DOMAIN left : left[k].entry.call <= calls
    <3>1. DOMAIN left = 1..Len(left) /\ DOMAIN Log = 1..Len(Log) /\ Len(Log) \in Nat
      <4>1. \A r \in Seq(RecordSet) : DOMAIN r = 1..Len(r) /\ Len(r) \in Nat
        OBVIOUS
      <4>2. QED
        BY <1>1, <1>6, <4>1
    <3>2. \A k \in DOMAIN left : k \in DOMAIN Log /\ left[k].entry = Log[k].entry
      <4>1. \A k \in 1..Len(left) : left[k].entry = Log[k].entry
        BY <1>5 DEF Begins
      <4>2. \A k \in 1..Len(left) : k \in 1..Len(Log)
        BY <1>6, <3>1
      <4>3. QED
        BY <3>1, <4>1, <4>2, Zenon
    <3>3. QED
      BY <2>1, <3>2
  <2>4. DOMAIN buffer' = {}
    BY <1>4
  <2>5. Ordered(file' \o Records(buffer')) /\ \A k \in DOMAIN (file' \o Records(buffer')) :
            (file' \o Records(buffer'))[k].entry.call <= calls'
    BY <1>4, <1>7, <2>2, <2>3
  <2>6. QED
    BY <2>4, <2>5 DEF CallsUp, Calling
<1>11. NumbersUp'
  <2>1. faults = 0 => Numbered(left)
    BY <1>1, <1>5, NumberedBegins DEF NumbersUp
  <2>2. QED
    BY <1>4, <1>7, <2>1 DEF NumbersUp
<1>12. QED
  BY <1>8, <1>9, <1>10, <1>11

LEMMA OpenStep == ASSUME IInv, Open PROVE IInv'
<1> USE DEF IInv
<1>1. UNCHANGED <<file, synced, buffer, seq, calls, faults, flushed, blame>>
      /\ status' \in {"replaying", "refused"} /\ status \in {"down", "refused"}
  BY DEF Open
<1>2. Types' /\ Kept' /\ CutAtEnd'
  BY <1>1 DEF Types, Kept, CutAtEnd
<1>3. Opened'
  BY <1>1 DEF Open, Opened
<1>4. CallsUp' /\ NumbersUp'
  BY <1>1 DEF CallsUp, NumbersUp, Log
<1>5. QED
  BY <1>2, <1>3, <1>4

\* A new database goes on where a reader of the old log would stop.
LEMMA OpenNewStep == ASSUME IInv, OpenNew PROVE IInv'
<1> USE DEF IInv
<1>1. /\ UNCHANGED <<file, synced, buffer, reads, calls, faults, flushed>>
      /\ status' = "open" /\ status \in {"down", "refused"} /\ seq' = LastNumber(file)
      /\ blame' = {} => blame = {} /\ Readable(file) = Len(file)
  BY DEF OpenNew
<1>2. file \in Seq(RecordSet) /\ buffer = <<>> /\ Log = file
  BY <1>1, NoneBehind DEF Types, Log
<1>3. Readable(file) \in 0..Len(file) /\ Clear(file, Readable(file))
      /\ \A k \in 0..Len(file) : Clear(file, k) => k <= Readable(file)
  BY <1>2, ReadableFact
<1>4. seq' \in Nat
  <2>1. CASE Readable(file) = 0
    BY <1>1, <2>1 DEF LastNumber
  <2>2. CASE Readable(file) # 0
    <3>1. file[Readable(file)] \in RecordSet
      BY <1>2, <1>3, <2>2
    <3>2. QED
      BY <1>1, <2>2, <3>1 DEF LastNumber, RecordSet, Entries
  <2>3. QED
    BY <2>1, <2>2
<1>5. Types' /\ Opened' /\ Kept'
  BY <1>1, <1>4 DEF Types, Opened, Kept
<1>6. CutAtEnd'
  BY <1>1, <1>2, <1>3 DEF CutAtEnd, Clear
<1>7. CallsUp'
  BY <1>1 DEF CallsUp
<1>8. NumbersUp'
  <2> SUFFICES ASSUME faults = 0 PROVE Numbered(file) /\ Below(file, seq')
    BY <1>1, <1>2 DEF NumbersUp, Log
  <2>1. Numbered(file)
    BY <1>2 DEF NumbersUp
  <2>2. ASSUME NEW k \in DOMAIN file, Clear(file, k)
        PROVE  file[k].entry.seq <= seq'
    <3>1. k \in 1..Readable(file) /\ Readable(file) \in DOMAIN file
      BY <1>2, <1>3, <2>2
    <3>2. seq' = file[Readable(file)].entry.seq
      BY <1>1, <3>1 DEF LastNumber
    <3>3. CASE k = Readable(file)
      BY <1>4, <3>2, <3>3
    <3>4. CASE k # Readable(file)
      <4>1. k \in 1..(Readable(file) - 1)
        BY <1>3, <3>1, <3>4
      <4>2. file[k].entry.seq < seq'
        BY <1>3, <2>1, <3>1, <3>2, <4>1 DEF Numbered
      <4>3. file[k].entry.seq \in Nat
        <5>1. file[k] \in RecordSet
          BY <1>2, <2>2
        <5>2. QED
          BY <5>1 DEF RecordSet, Entries
      <4>4. QED
        BY <1>4, <4>2, <4>3
    <3>5. QED
      BY <3>3, <3>4
  <2>3. QED
    BY <2>1, <2>2 DEF Below
<1>9. QED
  BY <1>5, <1>6, <1>7, <1>8

-----------------------------------------------------------------------------
\* The invariant holds, however writes fail and processes end.
THEOREM Invariant == Spec => []IInv
<1>1. Init => IInv
  <2> SUFFICES ASSUME Init PROVE IInv
    OBVIOUS
  <2>1. file = <<>> /\ buffer = <<>> /\ Log = <<>> /\ file \o Records(buffer) = <<>>
    BY EmptyLog DEF Init, Log
  <2>2. <<>> \in Seq(RecordSet) /\ <<>> \in Seq(Entries) /\ Len(<<>>) = 0
    OBVIOUS
  <2>3. Types /\ Opened /\ Kept /\ CutAtEnd
    BY <2>2 DEF Init, Types, Opened, Kept, CutAtEnd
  <2>4. CallsUp /\ NumbersUp
    BY <2>1 DEF CallsUp, Calling, Ordered, NumbersUp, Numbered, Below
  <2>5. QED
    BY <2>3, <2>4 DEF IInv
<1>2. IInv /\ [Next]_vars => IInv'
  <2> SUFFICES ASSUME IInv, [Next]_vars PROVE IInv'
    OBVIOUS
  <2>1. CASE \E metadata \in {"exact", "inexact", "invalid"} : AppendEntry(metadata)
    BY <2>1, AppendStep
  <2>2. CASE Flush
    BY <2>2, BufferFlushed DEF Flush
  <2>3. CASE CheckpointFlush
    <3>1. CASE buffer # <<>>
      BY <2>3, <3>1, BufferFlushed DEF CheckpointFlush
    <3>2. CASE buffer = <<>>
      <4>1. UNCHANGED <<file, synced, buffer, flushed, faults, blame, seq, reads, calls>>
            /\ status = "open" /\ status' \in {"open", "checkpoint"}
        BY <2>3, <3>2 DEF CheckpointFlush
      <4>2. QED
        BY <4>1 DEF IInv, Types, Opened, Kept, CutAtEnd, CallsUp, NumbersUp, Log
    <3>3. QED
      BY <3>1, <3>2
  <2>4. CASE Truncate
    BY <2>4, EmptiedStep DEF Truncate, IInv, Types, Opened
  <2>5. CASE Close
    BY <2>5, EmptiedStep DEF Close, IInv, Opened
  <2>6. CASE ReplayEnd
    <3>1. seq' = 0
      BY <2>6, EmptyLog DEF ReplayEnd, Emptied, LastNumber
    <3>2. QED
      BY <2>6, <3>1, EmptiedStep DEF ReplayEnd
  <2>7. CASE Crash
    BY <2>7, CrashStep
  <2>8. CASE Open
    BY <2>8, OpenStep
  <2>9. CASE OpenNew
    BY <2>9, OpenNewStep
  <2>10. CASE UNCHANGED vars
    BY <2>10 DEF vars, IInv, Types, Opened, Kept, CutAtEnd, CallsUp, NumbersUp, Log
  <2>11. QED
    BY <2>1, <2>2, <2>3, <2>4, <2>5, <2>6, <2>7, <2>8, <2>9, <2>10 DEF Next
<1>3. QED
  BY <1>1, <1>2, PTL DEF Spec

\* What stops a reader, unless something is to blame, is an entry that is not the same
\* after JSON, or a cut at the end.
LEMMA StopsAt ==
    ASSUME IInv, blame = {}, Readable(file) < Len(file)
    PROVE  LET stop == Readable(file) + 1 IN
           /\ stop \in DOMAIN file
           /\ file[stop].kind = "whole" => ~file[stop].entry.exact
           /\ file[stop].kind # "whole" => stop = Len(file)
<1>1. file \in Seq(RecordSet)
  BY DEF IInv, Types
<1>2. QED
  BY <1>1, StopFact DEF IInv, CutAtEnd

\* FlushedIsRead: unless something is to blame, replay gets all that a flush reported.
THEOREM FlushedComesBack == Spec => []FlushedIsRead
<1>1. IInv => FlushedIsRead
  <2> SUFFICES ASSUME IInv, status = "replaying", blame = {}, NEW e \in flushed
               PROVE  e \in ToSet(reads)
    BY DEF FlushedIsRead
  <2>1. file \in Seq(RecordSet) /\ synced \in 0..Len(file) /\ Readable(file) \in 0..Len(file)
    BY ReadableFact DEF IInv, Types
  <2>2. PICK k \in 1..synced : file[k] = Whole(e)
    BY DEF IInv, Kept
  <2>3. k \in 1..Readable(file)
    <3>1. SUFFICES ASSUME Readable(file) < k PROVE FALSE
      BY <2>1
    <3>2. Readable(file) < Len(file)
      BY <2>1, <3>1
    <3>3. file[Readable(file) + 1].kind # "whole"
      BY <3>2 DEF IInv, Opened, ReadsOn
    <3>4. Readable(file) + 1 = Len(file)
      BY <3>2, <3>3, StopsAt
    <3>5. k = Readable(file) + 1
      BY <2>1, <3>1, <3>4
    <3>6. QED
      BY <2>2, <3>3, <3>5 DEF Whole
  <2>4. reads = EntriesIn(file, Readable(file))
    BY DEF IInv, Opened
  <2>5. k \in DOMAIN reads /\ reads[k] = e
    BY <2>2, <2>3, <2>4 DEF EntriesIn, Whole
  <2>6. QED
    BY <2>5 DEF ToSet
<1>2. QED
  BY <1>1, Invariant, PTL

\* RefusedForAReason: the four reasons for which Open refuses a database for its log.
THEOREM RefusalsHaveReasons == Spec => []RefusedForAReason
<1>1. IInv => RefusedForAReason
  <2> SUFFICES ASSUME IInv, status = "refused", blame = {}
               PROVE  \/ \E k \in DOMAIN file : ~file[k].entry.exact
                      \/ file[Len(file)].kind = "prefix"
    BY DEF RefusedForAReason
  <2>1. Fails(file)
    BY DEF IInv, Opened
  <2>2. file \in Seq(RecordSet) /\ Readable(file) \in 0..Len(file) /\ Readable(file) < Len(file)
    BY <2>1, ReadableFact DEF IInv, Types, Fails
  <2>3. CASE file[Readable(file) + 1].kind = "whole"
    BY <2>2, <2>3, StopsAt
  <2>4. CASE file[Readable(file) + 1].kind # "whole"
    <3>1. Readable(file) + 1 = Len(file)
      BY <2>2, <2>4, StopsAt
    <3>2. file[Readable(file) + 1].kind = "prefix"
      BY <2>1, <2>2, <2>4, <3>1 DEF Fails
    <3>3. QED
      BY <3>1, <3>2
  <2>5. QED
    BY <2>3, <2>4
<1>2. QED
  BY <1>1, Invariant, PTL

\* ReadsInOrder: replay gets entries in the order of their calls, repetitions aside, and
\* without failed writes under ascending numbers.
THEOREM ReadsAreOrdered == Spec => []ReadsInOrder
<1>1. IInv => ReadsInOrder
  <2> SUFFICES ASSUME IInv, NEW j \in DOMAIN reads, NEW k \in DOMAIN reads, j < k
               PROVE  /\ faults = 0 => reads[j].seq < reads[k].seq
                      /\ \/ reads[j].call < reads[k].call
                         \/ \E l \in 1..(j - 1) : reads[l] = reads[k]
                         \/ reads[j] = reads[k]
    BY DEF ReadsInOrder
  <2>1. status = "replaying" /\ reads = EntriesIn(file, Readable(file))
    BY DEF IInv, Opened
  <2>2. file \in Seq(RecordSet) /\ Log = file /\ Readable(file) \in 0..Len(file) /\ Clear(file, Readable(file))
    BY <2>1, ReadableFact, NoneBehind DEF IInv, Types, Log
  <2>3. j \in 1..Readable(file) /\ k \in 1..Readable(file) /\ k \in DOMAIN file /\ j \in DOMAIN file
        /\ \A l \in 1..Readable(file) : reads[l] = file[l].entry
    BY <2>1, <2>2 DEF EntriesIn
  <2>4. faults = 0 => reads[j].seq < reads[k].seq
    <3>1. Clear(file, k) /\ j \in 1..(k - 1)
      BY <2>2, <2>3 DEF Clear
    <3>2. QED
      BY <2>2, <2>3, <3>1 DEF IInv, NumbersUp, Numbered
  <2>5. \/ reads[j].call < reads[k].call
        \/ \E l \in 1..(j - 1) : reads[l] = reads[k]
        \/ reads[j] = reads[k]
    <3>1. Ordered(file)
      BY <2>2 DEF IInv, CallsUp, Calling, Log
    <3>2. \A l \in 1..(j - 1) : reads[l] = file[l].entry
      BY <2>2, <2>3
    <3>3. QED
      BY <2>3, <3>1, <3>2 DEF Ordered
  <2>6. QED
    BY <2>4, <2>5
<1>2. QED
  BY <1>1, Invariant, PTL

=============================================================================
