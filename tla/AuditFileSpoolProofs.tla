------------------------- MODULE AuditFileSpoolProofs -------------------------
(***************************************************************************)
(* The safety of AuditFileSpool for every number of events, batch size,    *)
(* number of failing calls and of deaths of the process, with a            *)
(* destination that parses the lines and with one that does not.           *)
(***************************************************************************)
EXTENDS AuditFileSpool, FiniteSetTheorems, WellFoundedInduction, TLAPS

Sorted(s) == \A i, j \in DOMAIN s : i < j => s[i] < s[j]
Before(S, T) == \A s \in S, t \in T : s < t

Used == {f \in Files : disk[f].place # "none"}
EventsIn(file) == {file.lines[i].event : i \in DOMAIN file.lines}
EventsOf(f) == EventsIn(disk[f])
SpoolFile(f) == disk[f].place = "spool"

Reading == {"retry", "send", "ack", "fail", "ackSave", "failSave"}
Rolling == wpc = "rolled" \/ rpc = "rollSave"

(* Events are numbered, kept and written in the order of their arrival.    *)
LinesInv ==
    /\ \A f \in Files : EventsOf(f) \subseteq stashed
    /\ \A f \in Files : \A i, j \in DOMAIN disk[f].lines :
          i < j => disk[f].lines[i].event < disk[f].lines[j].event
    /\ \A f, g \in Files : f < g => Before(EventsOf(f), EventsOf(g))
    /\ \A f \in Files : disk[f].place = "none" => disk[f].lines = <<>>

(* The files are opened in their order, and each for an event.             *)
Opening == IF wpc \in {"created", "print"} THEN 1 ELSE 0

FilesInv ==
    /\ \A f \in Used, g \in Files : g < f => g \in Used
    /\ \A f \in Used : f <= next - 1 - Len(todo) + Opening

FlowInv ==
    /\ next <= MaxEvents + 1
    /\ \A e \in stashed \cup Range(buffer) \cup Range(todo) : e < next
    /\ Before(stashed, Range(buffer) \cup Range(todo))
    /\ Before(Range(buffer), Range(todo))
    /\ Sorted(buffer) /\ Sorted(todo)
    /\ buffer # <<>> => pending /\ writing # NoFile
    /\ Len(todo) < next

ControlInv ==
    /\ wpc \in {"event", "rolled", "created", "print"} => todo # <<>>
    /\ wpc \in {"rolled", "created", "print", "flush"} => writing # NoFile
    /\ wpc # "idle" => rpc \notin Locked
    /\ rpc = "rollSave" => writing # NoFile
    /\ Rolling => buffer = <<>>
    /\ rpc \in {"poll", "close", "rollSave"} => consuming = NoFile
    /\ rpc \in Reading \cup {"remove", "archived", "removeSave"} => consuming # NoFile
    /\ ~alive =>
          /\ records = <<>> /\ queue = <<>> /\ writing = NoFile /\ buffer = <<>>
          /\ wpc = "idle" /\ rpc = "poll" /\ todo = <<>> /\ fresh = {} /\ ~drain

(* One record for a file, in the order in which the files were opened.     *)
Increasing(recs) == \A i, j \in DOMAIN recs : i < j => recs[i].file < recs[j].file

Listed(recs) ==
    /\ Increasing(recs)
    /\ \A r \in Range(recs) : r.file \in Used
    /\ \A r, q \in Range(recs) :
          r.status = "read" /\ q.status = "pending" /\ SpoolFile(q.file) => r.file < q.file
    /\ \A r \in Range(recs) : r.status = "done" => Unsent(r) \subseteq Settled
    /\ \A r \in Range(recs) : r.status = "write" =>
          r.position = 0 /\ SpoolFile(r.file) /\ \A f \in Used : f <= r.file

(* indexRecords; a file in it that is not done is a file of some thread.    *)
RecordsInv ==
    /\ Listed(records)
    /\ \A r \in Range(records) : r.status = "write" => r.file = writing
    /\ \A r \in Range(records) :
          r.status \in {"pending", "read"} /\ SpoolFile(r.file) => r.file \in Tracked

(* The current file is the last one, and nothing of it is sent.            *)
WritingInv ==
    writing # NoFile =>
        /\ SpoolFile(writing) /\ \A f \in Used : f <= writing
        /\ writing # consuming /\ writing \notin Range(queue)
        /\ \E r \in Range(records) :
              r.file = writing /\ r.position = 0
              /\ r.status = (IF Rolling THEN "pending" ELSE "write")

(* The files are read in the order in which they were opened.              *)
QueueInv ==
    /\ Sorted(queue)
    /\ \A f \in Range(queue) :
          \E r \in Range(records) : r.file = f /\ r.status \in {"pending", "read"}
    /\ consuming # NoFile => consuming \in Used /\ Before({consuming}, Range(queue))

(* Behind the position of its record nothing of the file is sent, but for  *)
(* batches the consumer threw at; a file is removed when it is read.       *)
ConsumingInv ==
    /\ rpc \in Reading =>
          /\ SpoolFile(consuming)
          /\ \E r \in Range(records) :
                /\ r.file = consuming /\ r.status \in {"pending", "read"}
                /\ r.position <= line + 1
                /\ \A i \in DOMAIN disk[consuming].lines :
                      /\ r.position < i /\ i <= line
                            => disk[consuming].lines[i].event \in Settled
                      /\ r.position < i => disk[consuming].lines[i].event \notin fresh
    /\ rpc = "remove" =>
          \E r \in Range(records) :
              r.file = consuming /\ (SpoolFile(consuming) => r.status = "done")
    /\ rpc \in {"archived", "removeSave"} => \A r \in Range(records) : r.file # consuming

(* Of a file that waits this process has sent nothing.                     *)
FreshInv == \A f \in Range(queue) \cup ({writing} \ {NoFile}) : EventsOf(f) \cap fresh = {}

(* Between two saves the index file is never ahead of the records; within  *)
(* saveIndexFile it may be empty.                                          *)
IndexInv ==
    /\ Listed(index)
    /\ alive => \A q \in Range(index) : q.status = "write" <=> q.file = writing
    /\ alive /\ ~InSave => \A r \in Range(records) : r.status # "done" =>
          \E q \in Range(index) : q.file = r.file /\ q.position <= r.position /\ q.status # "done"

(* The loss of NoSilentLoss, without the files that threads will get to.   *)
LossInv ==
    LET listed == IF alive THEN Range(records)
                  ELSE {r \in Range(index) : r.status # "done"}
    IN  stashed \subseteq Settled \cup UNION {Unsent(r) : r \in listed}

IInv ==
    /\ TypeOK /\ LinesInv /\ FilesInv /\ FlowInv /\ ControlInv
    /\ RecordsInv /\ WritingInv /\ QueueInv /\ ConsumingInv /\ FreshInv
    /\ IndexInv /\ LossInv

-----------------------------------------------------------------------------
(* Sequences.                                                              *)

LEMMA RangeOfAppend ==
    ASSUME NEW S, NEW s \in Seq(S), NEW e \in S
    PROVE  /\ Append(s, e) \in Seq(S) /\ Append(s, e) # <<>>
           /\ Range(Append(s, e)) = Range(s) \cup {e}
<1>1. /\ DOMAIN Append(s, e) = 1 .. Len(s) + 1 /\ DOMAIN s = 1 .. Len(s)
      /\ \A i \in 1 .. Len(s) : Append(s, e)[i] = s[i]
      /\ Append(s, e)[Len(s) + 1] = e
      OBVIOUS
<1>2. \A x : x \in Range(Append(s, e)) <=> x \in Range(s) \/ x = e
      BY <1>1 DEF Range
<1> QED BY <1>2

LEMMA Shift ==
    ASSUME NEW a \in Nat, NEW b \in Nat, NEW i \in 1 .. a + b, i \notin 1 .. a
    PROVE  \E j \in 1 .. b : i = a + j
<1>1. i - a \in 1 .. b /\ i = a + (i - a)
      OBVIOUS
<1> QED BY <1>1

LEMMA RangeOfConcat ==
    ASSUME NEW S, NEW s \in Seq(S), NEW t \in Seq(S)
    PROVE  s \o t \in Seq(S) /\ Range(s \o t) = Range(s) \cup Range(t)
<1>1. /\ Len(s) \in Nat /\ DOMAIN s = 1 .. Len(s)
      /\ Len(t) \in Nat /\ DOMAIN t = 1 .. Len(t)
      /\ DOMAIN (s \o t) = 1 .. Len(s) + Len(t)
      /\ \A i \in 1 .. Len(s) : (s \o t)[i] = s[i]
      /\ \A j \in 1 .. Len(t) : (s \o t)[Len(s) + j] = t[j]
      OBVIOUS
<1>2. \A i \in 1 .. Len(s) + Len(t) :
         i \in 1 .. Len(s) \/ \E j \in 1 .. Len(t) : i = Len(s) + j
      BY <1>1, Shift
<1>3. \A i \in 1 .. Len(s) : i \in 1 .. Len(s) + Len(t)
      BY <1>1
<1>4. \A j \in 1 .. Len(t) : Len(s) + j \in 1 .. Len(s) + Len(t)
      BY <1>1
<1>5. ASSUME NEW x \in Range(s \o t)
      PROVE  x \in Range(s) \cup Range(t)
  <2>1. PICK i \in 1 .. Len(s) + Len(t) : x = (s \o t)[i]
        BY <1>1 DEF Range
  <2>2. CASE i \in 1 .. Len(s)
        BY <1>1, <2>1, <2>2 DEF Range
  <2>3. CASE \E j \in 1 .. Len(t) : i = Len(s) + j
        BY <1>1, <2>1, <2>3 DEF Range
  <2> QED BY <1>2, <2>2, <2>3
<1>6. ASSUME NEW x \in Range(s) \cup Range(t)
      PROVE  x \in Range(s \o t)
  <2>1. CASE x \in Range(s)
    <3>1. PICK i \in 1 .. Len(s) : x = s[i]
          BY <1>1, <2>1 DEF Range
    <3> QED BY <1>1, <1>3, <3>1 DEF Range
  <2>2. CASE x \in Range(t)
    <3>1. PICK j \in 1 .. Len(t) : x = t[j]
          BY <1>1, <2>2 DEF Range
    <3> QED BY <1>1, <1>4, <3>1 DEF Range
  <2> QED BY <2>1, <2>2
<1> QED BY <1>5, <1>6

LEMMA HeadAndTail ==
    ASSUME NEW S, NEW s \in Seq(S), s # <<>>
    PROVE  /\ Head(s) \in S /\ Tail(s) \in Seq(S)
           /\ Len(s) \in Nat \ {0} /\ Len(Tail(s)) = Len(s) - 1
           /\ Head(s) = s[1]
           /\ \A i \in DOMAIN Tail(s) : i + 1 \in DOMAIN s /\ Tail(s)[i] = s[i + 1]
           /\ Range(s) = {Head(s)} \cup Range(Tail(s))
<1>1. /\ Len(s) \in Nat \ {0} /\ DOMAIN s = 1 .. Len(s)
      /\ Head(s) = s[1] /\ Head(s) \in S
      /\ Tail(s) \in Seq(S) /\ DOMAIN Tail(s) = 1 .. Len(s) - 1 /\ Len(Tail(s)) = Len(s) - 1
      /\ \A i \in 1 .. Len(s) - 1 : Tail(s)[i] = s[i + 1]
      OBVIOUS
<1>2. \A i \in 1 .. Len(s) : i = 1 \/ (i - 1 \in 1 .. Len(s) - 1 /\ Tail(s)[i - 1] = s[i])
      BY <1>1
<1>3. \A i \in 1 .. Len(s) - 1 : i + 1 \in 1 .. Len(s)
      BY <1>1
<1>4. 1 \in 1 .. Len(s)
      BY <1>1
<1>5. \A x : x \in Range(s) => x = s[1] \/ x \in Range(Tail(s))
  <2> TAKE x
  <2> HAVE x \in Range(s)
  <2>1. PICK i \in 1 .. Len(s) : x = s[i]
        BY <1>1, Zenon DEF Range
  <2>2. CASE i = 1
        BY <2>1, <2>2
  <2>3. CASE i # 1
        BY <2>1, <2>3, <1>1, <1>2, Zenon DEF Range
  <2> QED BY <2>2, <2>3
<1>6. \A x : x \in Range(Tail(s)) => x \in Range(s)
  <2> TAKE x
  <2> HAVE x \in Range(Tail(s))
  <2>1. PICK i \in 1 .. Len(s) - 1 : x = Tail(s)[i]
        BY <1>1, Zenon DEF Range
  <2>2. x = s[i + 1] /\ i + 1 \in 1 .. Len(s)
        BY <1>1, <1>3, <2>1, Zenon
  <2> QED BY <1>1, <2>2, Zenon DEF Range
<1>7. s[1] \in Range(s)
      BY <1>1, <1>4, Zenon DEF Range
<1> QED BY <1>1, <1>3, <1>5, <1>6, <1>7

LEMMA RangeIn ==
    ASSUME NEW S, NEW s \in Seq(S)
    PROVE  Range(s) \subseteq S /\ (s # <<>> <=> Range(s) # {})
<1>1. DOMAIN s = 1 .. Len(s) /\ \A i \in 1 .. Len(s) : s[i] \in S
      OBVIOUS
<1>2. s # <<>> <=> 1 \in 1 .. Len(s)
      OBVIOUS
<1>3. s = <<>> => 1 .. Len(s) = {}
      OBVIOUS
<1> QED BY <1>1, <1>2, <1>3, Zenon DEF Range

-----------------------------------------------------------------------------
(* Kept: the places I, counted off in their order.                         *)

LEMMA KeptIs ==
    ASSUME NEW S, NEW s \in Seq(S), NEW I \in SUBSET DOMAIN s
    PROVE  /\ Kept(s, I) \in Seq(S) /\ Len(Kept(s, I)) = Cardinality(I)
           /\ \E h \in [1 .. Cardinality(I) -> I] :
                 /\ \A m, n \in 1 .. Cardinality(I) : m < n => h[m] < h[n]
                 /\ \A i \in I : \E n \in 1 .. Cardinality(I) : h[n] = i
                 /\ \A n \in 1 .. Cardinality(I) : Kept(s, I)[n] = s[h[n]]
<1> DEFINE UpTo(i) == {j \in I : j <= i}
           N == Cardinality(I)
           rank == [i \in I |-> Cardinality(UpTo(i))]
           h == [n \in 1 .. N |-> CHOOSE i \in I : Cardinality(UpTo(i)) = n]
<1>1. I \subseteq 1 .. Len(s) /\ Len(s) \in Nat
      OBVIOUS
<1>2. IsFiniteSet(I) /\ N \in Nat
  <2>1. IsFiniteSet(1 .. Len(s))
        BY <1>1, FS_Interval
  <2>2. IsFiniteSet(I)
        BY <1>1, <2>1, FS_Subset, Zenon
  <2> QED BY <2>2, FS_CardinalityType
<1>3. \A i \in I : IsFiniteSet(UpTo(i)) /\ Cardinality(UpTo(i)) \in 1 .. N
  <2> TAKE i \in I
  <2>1. UpTo(i) \in SUBSET I /\ i \in UpTo(i)
        BY <1>1
  <2> HIDE DEF UpTo
  <2>2. IsFiniteSet(UpTo(i)) /\ Cardinality(UpTo(i)) <= N
        BY <2>1, <1>2, FS_Subset
  <2>3. Cardinality(UpTo(i)) \in Nat /\ Cardinality(UpTo(i)) # 0
        BY <2>1, <2>2, FS_CardinalityType, FS_EmptySet
  <2> HIDE DEF N
  <2> QED BY <2>2, <2>3, <1>2
<1>4. \A i, j \in I : i < j => Cardinality(UpTo(i)) < Cardinality(UpTo(j))
  <2> TAKE i, j \in I
  <2> HAVE i < j
  <2>1. UpTo(i) \in SUBSET UpTo(j) /\ j \in UpTo(j) /\ j \notin UpTo(i)
        BY <1>1
  <2>2. IsFiniteSet(UpTo(j)) /\ Cardinality(UpTo(i)) \in Nat /\ Cardinality(UpTo(j)) \in Nat
    <3> HIDE DEF UpTo, N
    <3> QED BY <1>2, <1>3
  <2> HIDE DEF UpTo
  <2>3. Cardinality(UpTo(i)) <= Cardinality(UpTo(j)) /\ Cardinality(UpTo(j)) # Cardinality(UpTo(i))
        BY <2>1, <2>2, FS_Subset
  <2> QED BY <2>2, <2>3
<1>a. \A i \in I : rank[i] = Cardinality(UpTo(i))
      OBVIOUS
<1> HIDE DEF UpTo
<1>b. rank \in [I -> 1 .. N]
      BY <1>3
<1>c. \A i, j \in I : i < j => rank[i] < rank[j]
      BY <1>4, <1>a
<1> HIDE DEF rank, N
<1>5. \A i, j \in I : rank[i] = rank[j] => i = j
  <2> TAKE i, j \in I
  <2>1. i \in Nat /\ j \in Nat /\ rank[i] \in Nat /\ rank[j] \in Nat
        BY <1>1, <1>b, <1>2
  <2> QED BY <2>1, <1>c
<1>6. rank \in Surjection(I, 1 .. N)
  <2>1. IsFiniteSet(1 .. N) /\ Cardinality(1 .. N) = N
        BY <1>2, FS_Interval
  <2>2. rank \in Injection(I, 1 .. N)
        BY <1>b, <1>5 DEF Injection, IsInjective
  <2>3. Cardinality(I) = Cardinality(1 .. N)
        BY <2>1 DEF N
  <2> QED BY <2>1, <2>2, <2>3, FS_Injection
<1>7. \A n \in 1 .. N : h[n] \in I /\ rank[h[n]] = n
  <2>1. \A n \in 1 .. N : \E i \in I : Cardinality(UpTo(i)) = n
        BY <1>6, <1>a DEF Surjection
  <2>2. \A n \in 1 .. N : h[n] \in I /\ Cardinality(UpTo(h[n])) = n
        BY <2>1
  <2> QED BY <2>2, <1>a
<1>8. h \in [1 .. N -> I]
      BY <1>7
<1>9. \A m, n \in 1 .. N : m < n => h[m] < h[n]
  <2> TAKE m, n \in 1 .. N
  <2> HAVE m < n
  <2>1. h[m] \in I /\ h[n] \in I /\ rank[h[m]] = m /\ rank[h[n]] = n
        BY <1>7
  <2> HIDE DEF h
  <2>2. h[m] \in Nat /\ h[n] \in Nat /\ m \in Nat /\ n \in Nat
        BY <1>1, <1>2, <2>1
  <2>3. ~(h[n] < h[m]) /\ h[n] # h[m]
        BY <1>c, <2>1, <2>2
  <2> QED BY <2>2, <2>3
<1>10. \A i \in I : \E n \in 1 .. N : h[n] = i
  <2> TAKE i \in I
  <2>1. rank[i] \in 1 .. N
        BY <1>b
  <2>2. h[rank[i]] \in I /\ rank[h[rank[i]]] = rank[i]
        BY <1>7, <2>1
  <2>3. h[rank[i]] = i
        BY <1>5, <2>2
  <2> QED BY <2>1, <2>3
<1>11. \A n \in 1 .. N : Kept(s, I)[n] = s[h[n]]
      BY DEF Kept, UpTo, N
<1>12. Kept(s, I) \in [1 .. N -> S]
  <2>1. \A n \in 1 .. N : s[h[n]] \in S
        BY <1>1, <1>7
  <2>2. Kept(s, I) = [n \in 1 .. N |-> Kept(s, I)[n]]
        BY DEF Kept, N
  <2> QED BY <2>1, <2>2, <1>11
<1>13. Kept(s, I) \in Seq(S) /\ Len(Kept(s, I)) = N
      BY <1>2, <1>12
<1> QED BY <1>8, <1>9, <1>10, <1>11, <1>13 DEF N

LEMMA KeptRecords ==
    ASSUME NEW recs \in Seq(Records), NEW I \in SUBSET DOMAIN recs, Increasing(recs)
    PROVE  /\ Kept(recs, I) \in Seq(Records) /\ Increasing(Kept(recs, I))
           /\ Range(Kept(recs, I)) = {recs[i] : i \in I}
           /\ FilesOf(Kept(recs, I)) \in Seq(Files) /\ Sorted(FilesOf(Kept(recs, I)))
           /\ Range(FilesOf(Kept(recs, I))) = {recs[i].file : i \in I}
<1> DEFINE k == Kept(recs, I)
           N == Cardinality(I)
<1>1. k \in Seq(Records) /\ Len(k) = N
      BY KeptIs
<1>2. PICK h \in [1 .. N -> I] :
         /\ \A m, n \in 1 .. N : m < n => h[m] < h[n]
         /\ \A i \in I : \E n \in 1 .. N : h[n] = i
         /\ \A n \in 1 .. N : k[n] = recs[h[n]]
      BY KeptIs
<1> HIDE DEF k, N
<1>3. DOMAIN k = 1 .. N /\ N \in Nat /\ \A n \in 1 .. N : k[n] \in Records
      BY <1>1
<1>4. Increasing(k)
      BY <1>2, <1>3 DEF Increasing
<1>5. Range(k) = {recs[i] : i \in I}
      BY <1>2, <1>3 DEF Range
<1>6. FilesOf(k) = [n \in 1 .. N |-> k[n].file]
      BY <1>3 DEF FilesOf
<1>7. FilesOf(k) \in Seq(Files)
  <2>1. \A n \in 1 .. N : k[n].file \in Files
        BY <1>3 DEF Records
  <2> QED BY <1>3, <1>6, <2>1
<1>8. Sorted(FilesOf(k))
      BY <1>3, <1>4, <1>6 DEF Sorted, Increasing
<1>9. Range(FilesOf(k)) = {recs[i].file : i \in I}
  <2>1. DOMAIN FilesOf(k) = 1 .. N /\ \A n \in 1 .. N : FilesOf(k)[n] = recs[h[n]].file
        BY <1>2, <1>6
  <2>2. \A n \in 1 .. N : h[n] \in I
        BY <1>2
  <2>3. ASSUME NEW x \in Range(FilesOf(k))
        PROVE  x \in {recs[i].file : i \in I}
    <3>1. PICK n \in 1 .. N : x = FilesOf(k)[n]
          BY <2>1 DEF Range
    <3> QED BY <2>1, <2>2, <3>1
  <2>4. ASSUME NEW i \in I
        PROVE  recs[i].file \in Range(FilesOf(k))
    <3>1. PICK n \in 1 .. N : h[n] = i
          BY <1>2
    <3> QED BY <2>1, <3>1 DEF Range
  <2> QED BY <2>3, <2>4
<1> QED BY <1>1, <1>4, <1>5, <1>7, <1>8, <1>9 DEF k

-----------------------------------------------------------------------------
(* The records of the index.                                               *)

LEMMA OneRecord ==
    ASSUME NEW recs \in Seq(Records), Increasing(recs),
           NEW r \in Range(recs), NEW q \in Range(recs), r.file = q.file
    PROVE  r = q
<1>1. PICK i \in DOMAIN recs : r = recs[i]
      BY DEF Range
<1>2. PICK j \in DOMAIN recs : q = recs[j]
      BY DEF Range
<1>3. i \in Nat /\ j \in Nat /\ recs[i] \in Records /\ recs[j] \in Records
      OBVIOUS
<1>4. \A x \in Files : ~(x < x)
      BY SpoolAssumption DEF Files
<1>5. r.file \in Files
      BY <1>1, <1>3 DEF Records
<1>6. ~(i < j) /\ ~(j < i)
      BY <1>1, <1>2, <1>4, <1>5 DEF Increasing
<1> QED BY <1>1, <1>2, <1>3, <1>6

LEMMA RecordIs ==
    ASSUME records \in Seq(Records), Increasing(records), NEW r \in Range(records)
    PROVE  Record(r.file) = r /\ r \in Records
<1>1. Record(r.file) \in Range(records) /\ Record(r.file).file = r.file
      BY DEF Record
<1>2. Record(r.file) = r
      BY <1>1, OneRecord
<1> QED BY <1>2, RangeIn

LEMMA UpdatedIs ==
    ASSUME records \in Seq(Records), Increasing(records),
           NEW r \in Range(records), NEW q \in Records, q.file = r.file
    PROVE  /\ Updated(r.file, q) \in Seq(Records) /\ Increasing(Updated(r.file, q))
           /\ Len(Updated(r.file, q)) = Len(records)
           /\ Range(Updated(r.file, q)) = (Range(records) \ {r}) \cup {q}
<1> DEFINE u == Updated(r.file, q)
<1>1. DOMAIN records = 1 .. Len(records) /\ Len(records) \in Nat
      /\ \A i \in 1 .. Len(records) : records[i] \in Records /\ records[i] \in Range(records)
      BY DEF Range
<1>2. /\ u = [i \in 1 .. Len(records) |-> u[i]]
      /\ \A i \in 1 .. Len(records) :
            u[i] = IF records[i].file = r.file THEN q ELSE records[i]
      BY <1>1 DEF Updated
<1>3. \A i \in 1 .. Len(records) : records[i].file = r.file <=> records[i] = r
      BY <1>1, OneRecord
<1>4. PICK k \in 1 .. Len(records) : records[k] = r
      BY <1>1 DEF Range
<1> HIDE DEF u
<1>5. \A i \in 1 .. Len(records) : u[i] \in Records /\ u[i].file = records[i].file
      BY <1>1, <1>2
<1>6. u \in Seq(Records) /\ DOMAIN u = 1 .. Len(records) /\ Len(u) = Len(records)
      BY <1>1, <1>2, <1>5
<1>7. Increasing(u)
      BY <1>1, <1>5, <1>6 DEF Increasing
<1>8. ASSUME NEW x \in Range(u) PROVE x \in (Range(records) \ {r}) \cup {q}
  <2>1. PICK i \in 1 .. Len(records) : x = u[i]
        BY <1>6 DEF Range
  <2> QED BY <1>1, <1>2, <1>3, <2>1
<1>9. ASSUME NEW x \in (Range(records) \ {r}) \cup {q} PROVE x \in Range(u)
  <2>1. CASE x = q
    <3>1. u[k] = x
          BY <1>2, <1>4, <2>1
    <3> QED BY <1>4, <1>6, <3>1 DEF Range
  <2>2. CASE x \in Range(records) /\ x # r
    <3>1. PICK i \in 1 .. Len(records) : x = records[i]
          BY <1>1, <2>2 DEF Range
    <3>2. u[i] = x
          BY <1>2, <1>3, <2>2, <3>1
    <3> QED BY <1>6, <3>1, <3>2 DEF Range
  <2> QED BY <2>1, <2>2
<1> QED BY <1>6, <1>7, <1>8, <1>9 DEF u

-----------------------------------------------------------------------------
(* The log files.                                                          *)

LEMMA PrintedIs ==
    ASSUME NEW f \in LogFiles, NEW events \in Seq(Events)
    PROVE  /\ Printed(f, events) \in LogFiles
           /\ Printed(f, events).place = f.place
           /\ Len(Printed(f, events).lines) = Len(f.lines) + Len(events)
           /\ \A i \in DOMAIN f.lines : Printed(f, events).lines[i] = f.lines[i]
           /\ \A j \in DOMAIN events :
                 Printed(f, events).lines[Len(f.lines) + j].event = events[j]
<1> DEFINE new == [i \in DOMAIN events |-> [event |-> events[i], good |-> ~(i = 1 /\ f.torn)]]
<1>1. f.lines \in Seq(Lines) /\ f.torn \in BOOLEAN
      BY DEF LogFiles
<1>2. DOMAIN events = 1 .. Len(events) /\ Len(events) \in Nat
      /\ \A i \in 1 .. Len(events) : events[i] \in Events
      OBVIOUS
<1>3. \A i \in 1 .. Len(events) : [event |-> events[i], good |-> ~(i = 1 /\ f.torn)] \in Lines
  <2> TAKE i \in 1 .. Len(events)
  <2>1. events[i] \in 0 .. MaxEvents
        BY <1>2, SpoolAssumption DEF Events
  <2> QED BY <2>1 DEF Lines
<1>4. new \in Seq(Lines) /\ Len(new) = Len(events) /\ DOMAIN new = 1 .. Len(events)
      BY <1>2, <1>3
<1>5. \A j \in 1 .. Len(events) : new[j].event = events[j]
      BY <1>2
<1>6. Printed(f, events) =
         [f EXCEPT !.lines = f.lines \o new, !.torn = f.torn /\ events = <<>>]
      BY DEF Printed
<1>t. (f.torn /\ events = <<>>) \in BOOLEAN
      OBVIOUS
<1> HIDE DEF new
<1>7. /\ f.lines \o new \in Seq(Lines) /\ Len(f.lines \o new) = Len(f.lines) + Len(events)
      /\ \A i \in DOMAIN f.lines : (f.lines \o new)[i] = f.lines[i]
      /\ \A j \in 1 .. Len(events) : (f.lines \o new)[Len(f.lines) + j] = new[j]
      BY <1>1, <1>4, SMTT(30)
<1>8. Printed(f, events).lines = f.lines \o new /\ Printed(f, events).place = f.place
      BY <1>6 DEF LogFiles
<1>9. Printed(f, events) \in LogFiles
      BY <1>6, <1>7, <1>t DEF LogFiles
<1> QED BY <1>2, <1>5, <1>7, <1>8, <1>9

(* A write of events to the current file, torn or not.                     *)
Writes(events) ==
    \E torn \in BOOLEAN :
        disk' = [disk EXCEPT ![writing] = [Printed(@, events) EXCEPT !.torn = torn]]

LEMMA WriteIs ==
    ASSUME TypeOK, writing # NoFile, NEW events \in Seq(Events), Writes(events)
    PROVE  /\ disk' \in [Files -> LogFiles]
           /\ writing \in Files
           /\ \A f \in Files : disk'[f].place = disk[f].place
           /\ \A f \in Files : f # writing => disk'[f] = disk[f]
           /\ \A f \in Files : DOMAIN disk[f].lines \subseteq DOMAIN disk'[f].lines
           /\ \A f \in Files : \A i \in DOMAIN disk[f].lines :
                 disk'[f].lines[i] = disk[f].lines[i]
           /\ \A i \in DOMAIN disk'[writing].lines :
                 i \notin DOMAIN disk[writing].lines
                    => /\ i - Len(disk[writing].lines) \in DOMAIN events
                       /\ disk'[writing].lines[i].event = events[i - Len(disk[writing].lines)]
           /\ EventsIn(disk'[writing]) = EventsIn(disk[writing]) \cup Range(events)
<1> DEFINE old == disk[writing]
           new == disk'[writing]
<1>1. disk \in [Files -> LogFiles] /\ writing \in Files
      BY DEF TypeOK, Optional
<1>2. PICK torn \in BOOLEAN :
         disk' = [disk EXCEPT ![writing] = [Printed(@, events) EXCEPT !.torn = torn]]
      BY DEF Writes
<1>3. old \in LogFiles
      BY <1>1
<1>4. Printed(old, events) \in LogFiles
      BY <1>3, PrintedIs
<1>5. new = [Printed(old, events) EXCEPT !.torn = torn]
      BY <1>1, <1>2
<1>6. new \in LogFiles /\ new.place = Printed(old, events).place
      /\ new.lines = Printed(old, events).lines
      BY <1>4, <1>5 DEF LogFiles
<1>p. /\ Printed(old, events).place = old.place
      /\ Len(Printed(old, events).lines) = Len(old.lines) + Len(events)
      /\ \A i \in DOMAIN old.lines : Printed(old, events).lines[i] = old.lines[i]
      /\ \A j \in DOMAIN events : Printed(old, events).lines[Len(old.lines) + j].event = events[j]
      BY <1>3, PrintedIs
<1>7. /\ new.place = old.place
      /\ Len(new.lines) = Len(old.lines) + Len(events)
      /\ \A i \in DOMAIN old.lines : new.lines[i] = old.lines[i]
      /\ \A j \in DOMAIN events : new.lines[Len(old.lines) + j].event = events[j]
      BY <1>6, <1>p
<1>8. disk' \in [Files -> LogFiles] /\ \A f \in Files : f # writing => disk'[f] = disk[f]
      BY <1>1, <1>2, <1>5, <1>6
<1>9. new.lines \in Seq(Lines) /\ old.lines \in Seq(Lines)
      BY <1>3, <1>6 DEF LogFiles
<1> HIDE DEF old, new
<1>10. /\ DOMAIN new.lines = 1 .. Len(new.lines) /\ DOMAIN old.lines = 1 .. Len(old.lines)
       /\ DOMAIN events = 1 .. Len(events)
       /\ Len(new.lines) \in Nat /\ Len(old.lines) \in Nat /\ Len(events) \in Nat
       BY <1>9
<1>11. DOMAIN old.lines \subseteq DOMAIN new.lines
       BY <1>7, <1>10
<1>12. \A i \in DOMAIN new.lines : i \notin DOMAIN old.lines =>
          i - Len(old.lines) \in DOMAIN events /\ i = Len(old.lines) + (i - Len(old.lines))
       BY <1>7, <1>10
<1>13. \A i \in DOMAIN new.lines : i \notin DOMAIN old.lines =>
          new.lines[i].event = events[i - Len(old.lines)]
       BY <1>7, <1>12
<1>14. \A j \in DOMAIN events : Len(old.lines) + j \in DOMAIN new.lines
       BY <1>7, <1>10
<1>15. ASSUME NEW e
       PROVE  e \in {new.lines[i].event : i \in DOMAIN new.lines}
                 <=> e \in {old.lines[i].event : i \in DOMAIN old.lines} \/ e \in Range(events)
  <2>1. ASSUME NEW i \in DOMAIN new.lines, e = new.lines[i].event
        PROVE  e \in {old.lines[k].event : k \in DOMAIN old.lines} \/ e \in Range(events)
    <3>1. CASE i \in DOMAIN old.lines
          BY <1>7, <2>1, <3>1
    <3>2. CASE i \notin DOMAIN old.lines
          BY <1>12, <1>13, <2>1, <3>2 DEF Range
    <3> QED BY <3>1, <3>2
  <2>2. ASSUME NEW i \in DOMAIN old.lines, e = old.lines[i].event
        PROVE  e \in {new.lines[k].event : k \in DOMAIN new.lines}
        BY <1>7, <1>11, <2>2
  <2>3. ASSUME NEW j \in DOMAIN events, e = events[j]
        PROVE  e \in {new.lines[k].event : k \in DOMAIN new.lines}
        BY <1>7, <1>14, <2>3
  <2> QED BY <2>1, <2>2, <2>3 DEF Range
<1>16. EventsIn(new) = EventsIn(old) \cup Range(events)
       BY <1>15 DEF EventsIn
<1> QED BY <1>1, <1>7, <1>8, <1>11, <1>12, <1>13, <1>16 DEF old, new

-----------------------------------------------------------------------------
(* What a step leaves alone keeps the part of the invariant it is about.   *)

LEMMA LinesFrame ==
    ASSUME LinesInv, UNCHANGED <<disk, stashed>>
    PROVE  LinesInv'
BY DEF LinesInv, EventsOf

LEMMA FilesFrame ==
    ASSUME FilesInv, UNCHANGED <<next, todo>>, Used' = Used,
           Opening <= Opening', Opening' \in Nat, TypeOK
    PROVE  FilesInv'
<1>1. \A f \in Used : f \in Nat
      BY SpoolAssumption DEF Used, Files
<1>2. next \in Nat /\ Len(todo) \in Nat /\ Opening \in Nat
      BY DEF TypeOK, Opening
<1>3. \A f \in Used : f <= next - 1 - Len(todo) + Opening'
      BY <1>1, <1>2 DEF FilesInv
<1> QED BY <1>3 DEF FilesInv

LEMMA FlowFrame ==
    ASSUME FlowInv, UNCHANGED <<next, stashed, buffer, todo>>,
           buffer # <<>> => pending' /\ writing' # NoFile
    PROVE  FlowInv'
BY DEF FlowInv

LEMMA SettledGrows ==
    ASSUME UNCHANGED disk, Settled \subseteq Settled'
    PROVE  \A r : Unsent(r) \subseteq Settled => Unsent(r)' \subseteq Settled'
<1>1. \A r : Unsent(r)' = Unsent(r)
      BY DEF Unsent
<1> QED BY <1>1

LEMMA RecordsFrame ==
    ASSUME RecordsInv, UNCHANGED <<disk, records, writing>>,
           Settled \subseteq Settled', Tracked \subseteq Tracked'
    PROVE  RecordsInv'
<1>1. Listed(records)'
  <2>1. \A r \in Range(records) : r.status = "done" => Unsent(r)' \subseteq Settled'
        BY SettledGrows DEF RecordsInv, Listed
  <2>2. Used' = Used /\ \A f : SpoolFile(f)' = SpoolFile(f)
        BY DEF Used, SpoolFile
  <2> QED BY <2>1, <2>2 DEF RecordsInv, Listed, Increasing
<1> QED BY <1>1 DEF RecordsInv, SpoolFile

LEMMA WritingFrame ==
    ASSUME WritingInv, UNCHANGED <<disk, records, queue, writing>>,
           consuming' \in {consuming, NoFile}, Rolling' <=> Rolling
    PROVE  WritingInv'
BY DEF WritingInv, SpoolFile, Used

LEMMA QueueFrame ==
    ASSUME QueueInv, UNCHANGED <<disk, records, queue>>, consuming' \in {consuming, NoFile}
    PROVE  QueueInv'
BY DEF QueueInv, Used

LEMMA ConsumingFrame ==
    ASSUME ConsumingInv, UNCHANGED <<disk, records, consuming, line, fresh, rpc>>,
           Settled \subseteq Settled'
    PROVE  ConsumingInv'
BY DEF ConsumingInv, SpoolFile

LEMMA FreshFrame ==
    ASSUME FreshInv, UNCHANGED <<disk, fresh>>,
           Range(queue') \cup {writing'} \subseteq Range(queue) \cup {writing, NoFile},
           NoFile \notin Range(queue')
    PROVE  FreshInv'
BY DEF FreshInv, EventsOf

LEMMA IndexFrame ==
    ASSUME IndexInv, UNCHANGED <<disk, index, records, writing, alive>>,
           Settled \subseteq Settled', InSave' <=> InSave
    PROVE  IndexInv'
<1>1. Listed(index)'
  <2>1. \A r \in Range(index) : r.status = "done" => Unsent(r)' \subseteq Settled'
        BY SettledGrows DEF IndexInv, Listed
  <2>2. Used' = Used /\ \A f : SpoolFile(f)' = SpoolFile(f)
        BY DEF Used, SpoolFile
  <2> QED BY <2>1, <2>2 DEF IndexInv, Listed, Increasing
<1> QED BY <1>1 DEF IndexInv

LEMMA LossFrame ==
    ASSUME LossInv, UNCHANGED <<disk, stashed, index, records, alive>>,
           Settled \subseteq Settled'
    PROVE  LossInv'
<1>1. \A r : Unsent(r)' = Unsent(r)
      BY DEF Unsent
<1> QED BY <1>1 DEF LossInv

(* An index that is cut says nothing, one that is written says all.        *)
LEMMA IndexCut ==
    ASSUME index' = <<>>, InSave'
    PROVE  IndexInv'
<1>1. Range(index') = {} /\ DOMAIN index' = {}
      BY DEF Range
<1> QED BY <1>1 DEF IndexInv, Listed, Increasing

LEMMA IndexWritten ==
    ASSUME index' = records', RecordsInv', WritingInv', ~Rolling', NoFile \notin Files,
           records' \in Seq(Records)
    PROVE  IndexInv'
<1>1. Listed(index)'
      BY DEF RecordsInv, Listed, Unsent, Settled, Used, SpoolFile
<1>2. \A q \in Range(index)' : q.file # NoFile /\ q.position <= q.position
  <2>1. \A q \in Range(index)' : q \in Records
        BY RangeIn
  <2> QED BY <2>1 DEF Records
<1>3. ASSUME NEW q \in Range(index)', q.file = writing'
      PROVE  q.status = "write"
  <2>1. writing' # NoFile
        BY <1>2, <1>3
  <2>2. PICK r \in Range(records)' : r.file = writing' /\ r.status = "write"
        BY <2>1 DEF WritingInv
  <2>3. Increasing(records')
        BY DEF RecordsInv, Listed, Increasing
  <2>4. r = q
        BY <1>3, <2>2, <2>3, OneRecord
  <2> QED BY <2>2, <2>4
<1>4. \A q \in Range(index)' : q.status = "write" => q.file = writing'
      BY DEF RecordsInv
<1> QED BY <1>1, <1>2, <1>3, <1>4 DEF IndexInv

-----------------------------------------------------------------------------
(* A write to the current file.                                            *)

LEMMA WriteLines ==
    ASSUME TypeOK, LinesInv, FlowInv, WritingInv, writing # NoFile,
           NEW events \in Seq(Events), Sorted(events), Range(events) \subseteq Range(buffer),
           Writes(events), stashed' = stashed \cup Range(events)
    PROVE  LinesInv'
<1> DEFINE old == disk[writing].lines
           new == disk'[writing].lines
<1>1. /\ disk' \in [Files -> LogFiles] /\ disk \in [Files -> LogFiles] /\ writing \in Files
      /\ \A f \in Files : disk'[f].place = disk[f].place
      /\ \A f \in Files : f # writing => disk'[f] = disk[f]
      /\ DOMAIN old \subseteq DOMAIN new
      /\ \A i \in DOMAIN old : new[i] = old[i]
      /\ \A i \in DOMAIN new : i \notin DOMAIN old =>
            i - Len(old) \in DOMAIN events /\ new[i].event = events[i - Len(old)]
      /\ EventsIn(disk'[writing]) = EventsIn(disk[writing]) \cup Range(events)
      BY WriteIs DEF TypeOK
<1>2. /\ \A f \in Files : EventsIn(disk[f]) \subseteq stashed
      /\ \A f, g \in Files : f < g => Before(EventsIn(disk[f]), EventsIn(disk[g]))
      BY DEF LinesInv, EventsOf
<1>3. Before(stashed, Range(events))
      BY DEF FlowInv, Before
<1>4. disk[writing].place = "spool" /\ \A f \in Files : writing < f => disk[f].place = "none"
  <2>1. \A f \in Used : f <= writing
        BY DEF WritingInv
  <2>2. \A f \in Files : writing < f => ~(f <= writing)
        BY <1>1, SpoolAssumption DEF Files
  <2> QED BY <2>1, <2>2 DEF WritingInv, SpoolFile, Used
<1>5. \A f \in Files : EventsOf(f)' \subseteq stashed'
      BY <1>1, <1>2 DEF EventsOf
<1>6. \A f \in Files : disk'[f].place = "none" => disk'[f].lines = <<>>
      BY <1>1, <1>4 DEF LinesInv
<1>7. \A f, g \in Files : f < g => Before(EventsOf(f)', EventsOf(g)')
  <2> TAKE f, g \in Files
  <2> HAVE f < g
  <2>0. f # g
        BY SpoolAssumption DEF Files
  <2>1. CASE g = writing
    <3>1. Before(EventsIn(disk[f]), EventsIn(disk[writing]) \cup Range(events))
          BY <1>2, <1>3, <2>1 DEF Before
    <3> QED BY <3>1, <1>1, <2>0, <2>1 DEF EventsOf
  <2>2. CASE f = writing
    <3>1. disk'[g].lines = <<>>
          BY <1>1, <1>4, <1>6, <2>2
    <3>2. EventsIn(disk'[g]) = {}
          BY <3>1 DEF EventsIn
    <3> QED BY <3>2 DEF EventsOf, Before
  <2>3. CASE f # writing /\ g # writing
        BY <2>3, <1>1, <1>2 DEF EventsOf
  <2> QED BY <2>1, <2>2, <2>3
<1>8. \A i, j \in DOMAIN new : i < j => new[i].event < new[j].event
  <2> TAKE i, j \in DOMAIN new
  <2> HAVE i < j
  <2>1. disk[writing] \in LogFiles /\ disk'[writing] \in LogFiles
        BY <1>1
  <2>2. /\ DOMAIN old = 1 .. Len(old) /\ Len(old) \in Nat
        /\ DOMAIN new = 1 .. Len(new) /\ Len(new) \in Nat
        BY <2>1 DEF LogFiles
  <2>3. CASE j \in DOMAIN old
    <3>1. i \in DOMAIN old
          BY <2>2, <2>3
    <3>2. old[i].event < old[j].event
          BY <1>1, <2>3, <3>1 DEF LinesInv
    <3> QED BY <1>1, <2>3, <3>1, <3>2
  <2>4. CASE i \in DOMAIN old /\ j \notin DOMAIN old
    <3>1. new[j].event \in Range(events)
          BY <1>1, <2>4 DEF Range
    <3>2. new[i].event \in EventsIn(disk[writing])
          BY <1>1, <2>4 DEF EventsIn
    <3>3. new[i].event \in stashed
          BY <1>1, <1>2, <3>2
    <3> QED BY <1>3, <3>1, <3>3 DEF Before
  <2>5. CASE i \notin DOMAIN old /\ j \notin DOMAIN old
    <3>1. i - Len(old) < j - Len(old)
          BY <2>2
    <3>2. events[i - Len(old)] < events[j - Len(old)]
          BY <1>1, <2>5, <3>1 DEF Sorted
    <3> QED BY <1>1, <2>5, <3>2
  <2> QED BY <2>3, <2>4, <2>5
<1>9. \A f \in Files : \A i, j \in DOMAIN disk'[f].lines :
          i < j => disk'[f].lines[i].event < disk'[f].lines[j].event
  <2> TAKE f \in Files
  <2>1. CASE f = writing
        BY <1>8, <2>1
  <2>2. CASE f # writing
    <3>1. disk'[f] = disk[f]
          BY <1>1, <2>2
    <3> QED BY <3>1 DEF LinesInv
  <2> QED BY <2>1, <2>2
<1> QED BY <1>5, <1>6, <1>7, <1>9 DEF LinesInv

LEMMA WriteUnsent ==
    ASSUME TypeOK, WritingInv, writing # NoFile, NEW events \in Seq(Events), Writes(events),
           NEW r \in Records
    PROVE  /\ Unsent(r) \subseteq Unsent(r)'
           /\ r.file # writing => Unsent(r)' = Unsent(r)
           /\ r.file = writing /\ r.position = 0 => Range(events) \subseteq Unsent(r)'
<1> DEFINE old == disk[r.file].lines
           new == disk'[r.file].lines
<1>1. /\ disk' \in [Files -> LogFiles] /\ disk \in [Files -> LogFiles] /\ writing \in Files
      /\ disk'[r.file].place = disk[r.file].place
      /\ r.file # writing => disk'[r.file] = disk[r.file]
      /\ DOMAIN old \subseteq DOMAIN new
      /\ \A i \in DOMAIN old : new[i] = old[i]
      /\ EventsIn(disk'[writing]) = EventsIn(disk[writing]) \cup Range(events)
  <2>1. r.file \in Files
        BY DEF Records
  <2> QED BY <2>1, WriteIs DEF TypeOK
<1>2. r.file \in Files /\ r.position \in Nat
      BY DEF Records
<1>3. old \in Seq(Lines) /\ new \in Seq(Lines)
      BY <1>1, <1>2 DEF LogFiles
<1>4. /\ DOMAIN old = 1 .. Len(old) /\ Len(old) \in Nat
      /\ DOMAIN new = 1 .. Len(new) /\ Len(new) \in Nat
      BY <1>3
<1>5. r.file # writing => Unsent(r)' = Unsent(r)
      BY <1>1 DEF Unsent
<1>6. Unsent(r) \subseteq Unsent(r)'
  <2> SUFFICES ASSUME NEW e \in Unsent(r) PROVE e \in Unsent(r)'
      OBVIOUS
  <2>1. disk[r.file].place = "spool"
        BY DEF Unsent
  <2>2. PICK i \in r.position + 1 .. Len(old) : e = old[i].event
        BY <2>1 DEF Unsent
  <2>3. i \in DOMAIN old /\ i \in r.position + 1 .. Len(new)
        BY <1>1, <1>2, <1>4
  <2>4. e = new[i].event
        BY <1>1, <2>2, <2>3
  <2> QED BY <1>1, <2>1, <2>3, <2>4 DEF Unsent
<1>7. ASSUME r.file = writing, r.position = 0, NEW e \in Range(events)
      PROVE  e \in Unsent(r)'
  <2>1. e \in EventsIn(disk'[writing])
        BY <1>1
  <2>2. PICK i \in 1 .. Len(new) : e = new[i].event
        BY <1>4, <1>7, <2>1 DEF EventsIn
  <2>3. disk'[r.file].place = "spool"
        BY <1>1, <1>7 DEF WritingInv, SpoolFile
  <2>4. i \in r.position + 1 .. Len(new)
        BY <1>4, <1>7
  <2> QED BY <2>2, <2>3, <2>4 DEF Unsent
<1> QED BY <1>5, <1>6, <1>7

-----------------------------------------------------------------------------
(* The steps of stashLogs.                                                 *)

LEMMA NoFileIsNone == NoFile \notin Files
BY SpoolAssumption DEF NoFile, Files

LEMMA QueueHoldsFiles == TypeOK => NoFile \notin Range(queue)
BY NoFileIsNone, RangeIn DEF TypeOK

LEMMA StashBeginKeeps ==
    ASSUME IInv, StashBegin
    PROVE  IInv'
<1>s. PICK size \in 1 .. MaxBatch :
         /\ next + size <= MaxEvents + 1
         /\ todo' = [i \in 1 .. size |-> next + i - 1]
         /\ next' = next + size
      BY DEF StashBegin
<1>n. next \in Nat \ {0} /\ size \in Nat \ {0} /\ MaxEvents \in Nat /\ Len(todo) \in Nat
      BY SpoolAssumption DEF IInv, TypeOK, FlowInv
<1>t. \A i \in 1 .. size : next + i - 1 \in Events
      BY <1>n, <1>s DEF Events
<1>d. /\ todo' \in Seq(Events) /\ Len(todo') = size /\ DOMAIN todo' = 1 .. size
      /\ \A i \in 1 .. size : todo'[i] = next + i - 1
      BY <1>n, <1>s, <1>t
<1>e. \A e \in Range(todo') : next <= e /\ e < next'
      BY <1>n, <1>s, <1>d DEF Range
<1>1. TypeOK'
      BY <1>d, <1>n, <1>s DEF IInv, TypeOK, StashBegin, Stash, diskVars, memoryVars, readerVars,
         bounds, history
<1>2. LinesInv'
      BY LinesFrame DEF IInv, StashBegin, Stash, diskVars, memoryVars, writerVars, readerVars,
         bounds, history
<1>3. FilesInv'
  <2>1. Used' = Used /\ Opening' = 0 /\ Opening = 0
        BY DEF Used, Opening, StashBegin, Stash, diskVars
  <2>2. \A f \in Used : f \in Nat /\ f <= next - 1 - Len(todo) + 0
        BY <2>1, SpoolAssumption DEF IInv, FilesInv, Used, Files
  <2>3. \A f \in Used : f <= next' - 1 - Len(todo') + 0
        BY <2>2, <1>n, <1>s, <1>d
  <2> QED BY <2>1, <2>3 DEF IInv, FilesInv
<1>4. FlowInv'
  <2>1. UNCHANGED <<stashed, buffer, pending, writing>>
        BY DEF StashBegin, history, memoryVars
  <2>2. stashed \subseteq Nat /\ Range(buffer) \subseteq Nat /\ Range(todo') \subseteq Nat
        BY <1>d, RangeIn, SpoolAssumption DEF IInv, TypeOK, Events
  <2>3. \A e \in stashed \cup Range(buffer) : e < next
        BY DEF IInv, FlowInv
  <2>4. \A e \in stashed \cup Range(buffer) \cup Range(todo') : e < next'
        BY <2>2, <2>3, <1>n, <1>s, <1>e
  <2>5. Before(stashed, Range(buffer) \cup Range(todo')) /\ Before(Range(buffer), Range(todo'))
        BY <2>2, <2>3, <1>n, <1>e DEF IInv, FlowInv, Before
  <2>6. Sorted(todo')
        BY <1>d, <1>n DEF Sorted
  <2>7. next' <= MaxEvents + 1 /\ Len(todo') < next'
        BY <1>n, <1>s, <1>d
  <2> QED BY <2>1, <2>4, <2>5, <2>6, <2>7 DEF IInv, FlowInv
<1>5. ControlInv'
  <2>1. todo' # <<>>
        BY <1>d, <1>n
  <2> QED BY <2>1 DEF IInv, TypeOK, ControlInv, Rolling, Locked, Reading, StashBegin, Stash,
             diskVars, memoryVars, readerVars, bounds, history
<1>6. RecordsInv'
      BY RecordsFrame DEF IInv, Tracked, Settled, StashBegin, Stash, diskVars, memoryVars,
         writerVars, readerVars, bounds, history
<1>7. WritingInv'
      BY WritingFrame DEF IInv, Rolling, StashBegin, Stash, diskVars, memoryVars, writerVars,
         readerVars, bounds, history
<1>8. QueueInv'
      BY QueueFrame DEF IInv, StashBegin, Stash, diskVars, memoryVars, writerVars, readerVars,
         bounds, history
<1>9. ConsumingInv'
      BY ConsumingFrame DEF IInv, Settled, StashBegin, Stash, diskVars, memoryVars, writerVars,
         readerVars, bounds, history
<1>10. FreshInv'
      BY QueueHoldsFiles, FreshFrame DEF IInv, StashBegin, Stash, Read, diskVars, memoryVars,
         history
<1>11. IndexInv'
      BY IndexFrame DEF IInv, InSave, Locked, Settled, StashBegin, Stash, diskVars, memoryVars,
         writerVars, readerVars, bounds, history
<1>12. LossInv'
      BY LossFrame DEF IInv, Settled, StashBegin, Stash, diskVars, memoryVars, writerVars,
         readerVars, bounds, history
<1> QED BY <1>1, <1>2, <1>3, <1>4, <1>5, <1>6, <1>7, <1>8, <1>9, <1>10, <1>11, <1>12 DEF IInv

LEMMA KeepFileKeeps ==
    ASSUME IInv, KeepFile
    PROVE  IInv'
<1>1. TypeOK'
      BY SpoolAssumption DEF IInv, TypeOK, Optional, Locked, KeepFile, Stash, diskVars,
         memoryVars, writerVars, readerVars, bounds, history
<1>2. LinesInv'
      BY LinesFrame DEF IInv, KeepFile, Stash, diskVars, memoryVars, writerVars, readerVars,
         bounds, history
<1>3. FilesInv'
      BY FilesFrame DEF IInv, Opening, Used, KeepFile, Stash, diskVars, memoryVars, writerVars,
         readerVars, bounds, history
<1>4. FlowInv'
      BY FlowFrame DEF IInv, FlowInv, KeepFile, Stash, diskVars, memoryVars, writerVars,
         readerVars, bounds, history
<1>5. ControlInv'
      BY DEF IInv, TypeOK, ControlInv, Rolling, Locked, Reading, KeepFile, Stash, diskVars,
         memoryVars, writerVars, readerVars, bounds, history
<1>6. RecordsInv'
      BY RecordsFrame DEF IInv, Tracked, Settled, KeepFile, Stash, diskVars, memoryVars,
         writerVars, readerVars, bounds, history
<1>7. WritingInv'
      BY WritingFrame DEF IInv, Rolling, KeepFile, Stash, diskVars, memoryVars, writerVars,
         readerVars, bounds, history
<1>8. QueueInv'
      BY QueueFrame DEF IInv, KeepFile, Stash, diskVars, memoryVars, writerVars, readerVars,
         bounds, history
<1>9. ConsumingInv'
      BY ConsumingFrame DEF IInv, Settled, KeepFile, Stash, diskVars, memoryVars, writerVars,
         readerVars, bounds, history
<1>10. FreshInv'
      BY QueueHoldsFiles, FreshFrame DEF IInv, KeepFile, Stash, Read, diskVars, memoryVars,
         history
<1>11. IndexInv'
      BY IndexFrame DEF IInv, InSave, Locked, Settled, KeepFile, Stash, diskVars, memoryVars,
         writerVars, readerVars, bounds, history
<1>12. LossInv'
      BY LossFrame DEF IInv, Settled, KeepFile, Stash, diskVars, memoryVars, writerVars,
         readerVars, bounds, history
<1> QED BY <1>1, <1>2, <1>3, <1>4, <1>5, <1>6, <1>7, <1>8, <1>9, <1>10, <1>11, <1>12 DEF IInv

LEMMA StopKeeps ==
    ASSUME IInv, Stop
    PROVE  IInv'
<1>1. TypeOK'
      BY SpoolAssumption DEF IInv, TypeOK, Optional, Locked, Stop, diskVars, memoryVars,
         writerVars, readerVars, bounds, history
<1>2. LinesInv'
      BY LinesFrame DEF IInv, Stop, diskVars, memoryVars, writerVars, readerVars, bounds,
         history
<1>3. FilesInv'
      BY FilesFrame DEF IInv, Opening, Used, Stop, diskVars, memoryVars, writerVars, readerVars,
         bounds, history
<1>4. FlowInv'
      BY FlowFrame DEF IInv, FlowInv, Stop, diskVars, memoryVars, writerVars, readerVars,
         bounds, history
<1>5. ControlInv'
      BY DEF IInv, TypeOK, ControlInv, Rolling, Locked, Reading, Stop, diskVars, memoryVars,
         writerVars, readerVars, bounds, history
<1>6. RecordsInv'
      BY RecordsFrame DEF IInv, Tracked, Settled, Stop, diskVars, memoryVars, writerVars,
         readerVars, bounds, history
<1>7. WritingInv'
      BY WritingFrame DEF IInv, Rolling, Stop, diskVars, memoryVars, writerVars, readerVars,
         bounds, history
<1>8. QueueInv'
      BY QueueFrame DEF IInv, Stop, diskVars, memoryVars, writerVars, readerVars, bounds,
         history
<1>9. ConsumingInv'
      BY ConsumingFrame DEF IInv, Settled, Stop, diskVars, memoryVars, writerVars, readerVars,
         bounds, history
<1>10. FreshInv'
      BY QueueHoldsFiles, FreshFrame DEF IInv, Stop, Stash, Read, diskVars, memoryVars, history
<1>11. IndexInv'
      BY IndexFrame DEF IInv, InSave, Locked, Settled, Stop, diskVars, memoryVars, writerVars,
         readerVars, bounds, history
<1>12. LossInv'
      BY LossFrame DEF IInv, Settled, Stop, diskVars, memoryVars, writerVars, readerVars,
         bounds, history
<1> QED BY <1>1, <1>2, <1>3, <1>4, <1>5, <1>6, <1>7, <1>8, <1>9, <1>10, <1>11, <1>12 DEF IInv

LEMMA CreatedFileKeeps ==
    ASSUME IInv, CreatedFile
    PROVE  IInv'
<1>1. TypeOK'
      BY DEF IInv, TypeOK, CreatedFile, Stash, WriteIndex, memoryVars, readerVars, bounds,
         history
<1>2. LinesInv'
      BY LinesFrame DEF IInv, CreatedFile, Stash, WriteIndex, diskVars, memoryVars, writerVars,
         readerVars, bounds, history
<1>3. FilesInv'
      BY FilesFrame DEF IInv, Opening, Used, CreatedFile, Stash, WriteIndex, diskVars,
         memoryVars, writerVars, readerVars, bounds, history
<1>4. FlowInv'
      BY FlowFrame DEF IInv, FlowInv, CreatedFile, Stash, WriteIndex, diskVars, memoryVars,
         writerVars, readerVars, bounds, history
<1>5. ControlInv'
      BY DEF IInv, TypeOK, ControlInv, Rolling, Locked, Reading, CreatedFile, Stash, WriteIndex,
         diskVars, memoryVars, writerVars, readerVars, bounds, history
<1>6. RecordsInv'
      BY RecordsFrame DEF IInv, Tracked, Settled, CreatedFile, Stash, WriteIndex, diskVars,
         memoryVars, writerVars, readerVars, bounds, history
<1>7. WritingInv'
      BY WritingFrame DEF IInv, Rolling, CreatedFile, Stash, WriteIndex, diskVars, memoryVars,
         writerVars, readerVars, bounds, history
<1>8. QueueInv'
      BY QueueFrame DEF IInv, CreatedFile, Stash, WriteIndex, diskVars, memoryVars, writerVars,
         readerVars, bounds, history
<1>9. ConsumingInv'
      BY ConsumingFrame DEF IInv, Settled, CreatedFile, Stash, WriteIndex, diskVars, memoryVars,
         writerVars, readerVars, bounds, history
<1>10. FreshInv'
      BY QueueHoldsFiles, FreshFrame DEF IInv, CreatedFile, Stash, Read, diskVars, memoryVars,
         history
<1>11. IndexInv'
  <2>1. ~Rolling'
        BY DEF IInv, ControlInv, Rolling, Locked, CreatedFile, Stash, readerVars
  <2>2. index' = records' /\ records' \in Seq(Records)
        BY DEF IInv, TypeOK, CreatedFile, WriteIndex, memoryVars
  <2> QED BY <1>6, <1>7, <2>1, <2>2, IndexWritten, NoFileIsNone
<1>12. LossInv'
  <2>1. alive /\ UNCHANGED <<disk, stashed, records, alive, delivered, dropped, stranded>>
        BY DEF CreatedFile, Stash, memoryVars, history
  <2>2. \A r : Unsent(r)' = Unsent(r)
        BY <2>1 DEF Unsent
  <2> QED BY <2>1, <2>2 DEF IInv, LossInv, Settled
<1> QED BY <1>1, <1>2, <1>3, <1>4, <1>5, <1>6, <1>7, <1>8, <1>9, <1>10, <1>11, <1>12 DEF IInv

LEMMA PrintEventKeeps ==
    ASSUME IInv, PrintEvent
    PROVE  IInv'
<1>t. todo # <<>> /\ writing # NoFile /\ todo \in Seq(Events) /\ buffer \in Seq(Events)
      BY DEF IInv, TypeOK, ControlInv, PrintEvent, Stash
<1>h. /\ Head(todo) \in Events /\ todo' \in Seq(Events)
      /\ Len(todo) \in Nat \ {0} /\ Len(todo') = Len(todo) - 1
      /\ Head(todo) = todo[1]
      /\ \A i \in DOMAIN todo' : i + 1 \in DOMAIN todo /\ todo'[i] = todo[i + 1]
      /\ Range(todo) = {Head(todo)} \cup Range(todo')
      BY <1>t, HeadAndTail DEF PrintEvent
<1>b. /\ buffer' \in Seq(Events) /\ buffer' # <<>>
      /\ Range(buffer') = Range(buffer) \cup {Head(todo)}
      BY <1>t, <1>h, RangeOfAppend DEF PrintEvent
<1>d. /\ DOMAIN todo = 1 .. Len(todo) /\ DOMAIN todo' = 1 .. Len(todo')
      /\ DOMAIN buffer = 1 .. Len(buffer) /\ Len(buffer) \in Nat
      /\ DOMAIN buffer' = 1 .. Len(buffer) + 1 /\ buffer'[Len(buffer) + 1] = Head(todo)
      /\ \A i \in 1 .. Len(buffer) : buffer'[i] = buffer[i]
      BY <1>t, <1>h DEF PrintEvent
<1>1. TypeOK'
      BY <1>h, <1>b DEF IInv, TypeOK, PrintEvent, Stash, diskVars, memoryVars, readerVars,
         bounds, history
<1>2. LinesInv'
      BY LinesFrame DEF IInv, PrintEvent, Stash, diskVars, memoryVars, writerVars, readerVars,
         bounds, history
<1>3. FilesInv'
  <2>1. Used' = Used /\ Opening' = 0 /\ Opening = 1 /\ next' = next /\ next \in Nat
        BY DEF IInv, TypeOK, Used, Opening, PrintEvent, Stash, diskVars
  <2>2. \A f \in Used : f \in Nat /\ f <= next - 1 - Len(todo) + 1
        BY <2>1, SpoolAssumption DEF IInv, FilesInv, Used, Files
  <2>3. \A f \in Used : f <= next' - 1 - Len(todo') + 0
        BY <2>1, <2>2, <1>h
  <2> QED BY <2>1, <2>3 DEF IInv, FilesInv
<1>4. FlowInv'
  <2>1. UNCHANGED <<stashed, next, writing>> /\ pending' = TRUE /\ next \in Nat
        BY DEF IInv, TypeOK, PrintEvent, history
  <2>2. \A i \in DOMAIN todo' : todo[1] < todo'[i]
    <3> TAKE i \in DOMAIN todo'
    <3>1. 1 \in DOMAIN todo /\ i + 1 \in DOMAIN todo /\ 1 < i + 1
          BY <1>d, <1>h
    <3> QED BY <1>h, <3>1 DEF IInv, FlowInv, Sorted
  <2>3. Before({Head(todo)}, Range(todo'))
        BY <1>h, <2>2 DEF Before, Range
  <2>4. Before(stashed, Range(buffer') \cup Range(todo')) /\ Before(Range(buffer'), Range(todo'))
        BY <1>h, <1>b, <2>3 DEF IInv, FlowInv, Before
  <2>5. Before(Range(buffer), {Head(todo)})
        BY <1>h DEF IInv, FlowInv, Before
  <2>6. Sorted(buffer')
    <3> SUFFICES ASSUME NEW i \in DOMAIN buffer', NEW j \in DOMAIN buffer', i < j
                 PROVE  buffer'[i] < buffer'[j]
        BY DEF Sorted
    <3>1. i \in 1 .. Len(buffer)
          BY <1>d
    <3>2. CASE j \in 1 .. Len(buffer)
          BY <1>d, <3>1, <3>2 DEF IInv, FlowInv, Sorted
    <3>3. CASE j = Len(buffer) + 1
      <4>1. buffer[i] \in Range(buffer)
            BY <1>d, <3>1 DEF Range
      <4> QED BY <1>d, <2>5, <3>1, <3>3, <4>1 DEF Before
    <3> QED BY <1>d, <3>2, <3>3
  <2>7. Sorted(todo')
    <3> SUFFICES ASSUME NEW i \in DOMAIN todo', NEW j \in DOMAIN todo', i < j
                 PROVE  todo'[i] < todo'[j]
        BY DEF Sorted
    <3>1. i + 1 < j + 1
          BY <1>d
    <3> QED BY <1>h, <3>1 DEF IInv, FlowInv, Sorted
  <2>8. Len(todo') < next'
        BY <1>h, <2>1 DEF IInv, FlowInv
  <2>9. \A e \in stashed \cup Range(buffer') \cup Range(todo') : e < next
        BY <1>h, <1>b DEF IInv, FlowInv
  <2> QED BY <1>t, <2>1, <2>4, <2>6, <2>7, <2>8, <2>9 DEF IInv, FlowInv
<1>5. ControlInv'
  <2>1. wpc' = "event" => todo' # <<>>
        BY <1>h DEF PrintEvent, Stash
  <2>2. wpc' \in {"event", "flush"}
        BY DEF PrintEvent, Stash
  <2>3. ~Rolling'
        BY <2>2 DEF IInv, ControlInv, Rolling, Locked, PrintEvent, Stash, readerVars
  <2> QED BY <2>1, <2>2, <2>3, <1>t DEF IInv, TypeOK, ControlInv, Locked, Reading, PrintEvent,
             Stash, diskVars, readerVars, history
<1>6. RecordsInv'
      BY RecordsFrame DEF IInv, Tracked, Settled, PrintEvent, Stash, diskVars, memoryVars,
         writerVars, readerVars, bounds, history
<1>7. WritingInv'
      BY WritingFrame DEF IInv, Rolling, PrintEvent, Stash, diskVars, memoryVars, writerVars,
         readerVars, bounds, history
<1>8. QueueInv'
      BY QueueFrame DEF IInv, PrintEvent, Stash, diskVars, memoryVars, writerVars, readerVars,
         bounds, history
<1>9. ConsumingInv'
      BY ConsumingFrame DEF IInv, Settled, PrintEvent, Stash, diskVars, memoryVars, writerVars,
         readerVars, bounds, history
<1>10. FreshInv'
      BY QueueHoldsFiles, FreshFrame DEF IInv, PrintEvent, Stash, Read, diskVars, memoryVars,
         history
<1>11. IndexInv'
      BY IndexFrame DEF IInv, InSave, Locked, Settled, PrintEvent, Stash, diskVars, memoryVars,
         writerVars, readerVars, bounds, history
<1>12. LossInv'
      BY LossFrame DEF IInv, Settled, PrintEvent, Stash, diskVars, memoryVars, writerVars,
         readerVars, bounds, history
<1> QED BY <1>1, <1>2, <1>3, <1>4, <1>5, <1>6, <1>7, <1>8, <1>9, <1>10, <1>11, <1>12 DEF IInv

-----------------------------------------------------------------------------
(* closeFileIfNeeded, which both threads go through.                       *)

LEMMA PrintedIsWritten ==
    ASSUME TypeOK, writing # NoFile, disk' = [disk EXCEPT ![writing] = Printed(@, buffer)]
    PROVE  Writes(buffer)
<1> DEFINE p == Printed(disk[writing], buffer)
<1>1. p \in LogFiles
      BY PrintedIs DEF TypeOK, Optional
<1> HIDE DEF p
<1>2. p = [p EXCEPT !.torn = p.torn] /\ p.torn \in BOOLEAN
      BY <1>1 DEF LogFiles
<1>3. disk' = [disk EXCEPT ![writing] = p]
      BY DEF p
<1>4. disk' = [disk EXCEPT ![writing] = [p EXCEPT !.torn = p.torn]]
      BY <1>2, <1>3
<1> QED BY <1>2, <1>4 DEF Writes, p

LEMMA WritingRecord ==
    ASSUME TypeOK, RecordsInv, WritingInv, writing # NoFile
    PROVE  /\ Record(writing) \in Range(records) /\ Record(writing) \in Records
           /\ Record(writing).file = writing /\ Record(writing).position = 0
           /\ Record(writing).status = (IF Rolling THEN "pending" ELSE "write")
           /\ \A r \in Range(records) : r.file = writing => r = Record(writing)
<1>1. records \in Seq(Records) /\ Increasing(records)
      BY DEF TypeOK, RecordsInv, Listed
<1>2. PICK r \in Range(records) :
         r.file = writing /\ r.position = 0 /\ r.status = (IF Rolling THEN "pending" ELSE "write")
      BY DEF WritingInv
<1>3. Record(writing) = r /\ r \in Records
      BY <1>1, <1>2, RecordIs
<1>4. \A q \in Range(records) : q.file = writing => q = r
      BY <1>1, <1>2, OneRecord
<1> QED BY <1>2, <1>3, <1>4

LEMMA RollBegins ==
    ASSUME IInv, RollBegin, alive, ~Rolling, Rolling',
           UNCHANGED <<queue, writing, consuming, delivered, dropped, stranded, fresh,
                       next, todo, pending, alive>>
    PROVE  /\ disk' \in [Files -> LogFiles] /\ records' \in Seq(Records)
           /\ stashed' \subseteq Events /\ stashed \subseteq stashed' /\ buffer' = <<>>
           /\ Used' = Used /\ \A f \in Files : f # writing => disk'[f] = disk[f]
           /\ \A r \in Range(records) : r.file # writing => r \in Range(records')
           /\ LinesInv' /\ FlowInv' /\ RecordsInv' /\ WritingInv' /\ QueueInv'
           /\ FreshInv' /\ LossInv'
<1>1. /\ TypeOK /\ writing # NoFile /\ writing \in Files /\ buffer \in Seq(Events)
      /\ records \in Seq(Records) /\ Increasing(records) /\ Range(records) \subseteq Records
      BY RangeIn DEF IInv, TypeOK, Optional, RollBegin, RecordsInv, Listed
<1>2. PICK old \in Range(records) :
      /\ old = Record(writing) /\ old \in Records /\ old.file = writing /\ old.position = 0
      /\ old.status = "write" /\ \A r \in Range(records) : r.file = writing => r = old
      BY <1>1, WritingRecord DEF IInv
<1>3. PICK new \in Records :
         /\ new = [old EXCEPT !.status = "pending"]
         /\ new.file = writing /\ new.position = 0 /\ new.status = "pending"
  <2> DEFINE n == [old EXCEPT !.status = "pending"]
  <2>1. n \in Records /\ n.file = old.file /\ n.position = old.position /\ n.status = "pending"
        BY <1>2 DEF Records
  <2>2. n = [old EXCEPT !.status = "pending"]
        OBVIOUS
  <2> HIDE DEF n
  <2> QED BY <1>2, <2>1, <2>2
<1>4. records' = Updated(old.file, new)
      BY <1>2, <1>3 DEF RollBegin
<1>5. /\ records' \in Seq(Records) /\ Increasing(records')
      /\ Range(records') = (Range(records) \ {old}) \cup {new}
      BY <1>1, <1>2, <1>3, <1>4, UpdatedIs
<1>6. Writes(buffer) /\ buffer' = <<>> /\ stashed' = stashed \cup Range(buffer)
      BY <1>1, PrintedIsWritten DEF RollBegin
<1>7. /\ disk' \in [Files -> LogFiles]
      /\ \A f \in Files : disk'[f].place = disk[f].place
      /\ \A f \in Files : f # writing => disk'[f] = disk[f]
      /\ EventsIn(disk'[writing]) = EventsIn(disk[writing]) \cup Range(buffer)
      BY <1>1, <1>6, WriteIs
<1>8. Range(buffer) \subseteq Events /\ stashed' \subseteq Events
      BY <1>1, <1>6, RangeIn DEF TypeOK
<1>9. Used' = Used /\ \A f \in Files : SpoolFile(f)' = SpoolFile(f)
      BY <1>7 DEF Used, SpoolFile
<1>10. LinesInv'
       BY <1>1, <1>6, WriteLines DEF IInv, FlowInv
<1>11. FlowInv'
  <2>1. Range(buffer') = {} /\ DOMAIN buffer' = {}
        BY <1>6 DEF Range
  <2>2. Before(stashed', Range(todo))
        BY <1>6 DEF IInv, FlowInv, Before
  <2> QED BY <1>6, <2>1, <2>2 DEF IInv, FlowInv, Before, Sorted
<1>12. Settled' = Settled /\ Tracked' = Tracked
       BY DEF Settled, Tracked
<1>13. \A r \in Range(records) : r # old =>
          r \in Range(records') /\ r.file # writing /\ Unsent(r)' = Unsent(r)
  <2> TAKE r \in Range(records)
  <2> HAVE r # old
  <2>1. r.file # writing /\ r \in Records
        BY <1>1, <1>2
  <2> QED BY <1>1, <1>5, <1>6, <2>1, WriteUnsent DEF IInv
<1>14. RecordsInv'
  <2>1. \A r \in Range(records') : r = new \/ (r \in Range(records) /\ r # old)
        BY <1>5
  <2>2. \A r \in Range(records') : r.file \in Used
        BY <1>1, <1>2, <1>3, <2>1 DEF IInv, RecordsInv, Listed
  <2>3. \A r, q \in Range(records') :
           r.status = "read" /\ q.status = "pending" /\ SpoolFile(q.file)' => r.file < q.file
    <3> SUFFICES ASSUME NEW r \in Range(records'), NEW q \in Range(records'),
                        r.status = "read", q.status = "pending", SpoolFile(q.file)'
                 PROVE  r.file < q.file
        OBVIOUS
    <3>1. r \in Range(records) /\ r # old
          BY <1>3, <2>1
    <3>2. CASE q = new
      <4>1. r.file <= writing /\ r.file # writing
            BY <1>1, <1>2, <2>2, <3>1 DEF IInv, WritingInv
      <4>2. r.file \in Nat /\ writing \in Nat
            BY <1>1, <2>2, SpoolAssumption DEF Used, Files
      <4> QED BY <1>3, <3>2, <4>1, <4>2
    <3>3. CASE q \in Range(records)
      <4>1. SpoolFile(q.file)
            BY <1>9, <2>2 DEF Used
      <4> QED BY <3>1, <3>3, <4>1 DEF IInv, RecordsInv, Listed
    <3> QED BY <2>1, <3>2, <3>3
  <2>4. \A r \in Range(records') : r.status = "done" => Unsent(r)' \subseteq Settled'
        BY <1>3, <1>12, <1>13, <2>1 DEF IInv, RecordsInv, Listed
  <2>5. \A r \in Range(records') : r.status # "write"
        BY <1>2, <1>3, <2>1 DEF IInv, RecordsInv
  <2>6. Listed(records)'
        BY <1>5, <1>9, <2>2, <2>3, <2>4, <2>5 DEF Listed
  <2>7. \A r \in Range(records') :
           r.status \in {"pending", "read"} /\ SpoolFile(r.file)' => r.file \in Tracked'
    <3> TAKE r \in Range(records')
    <3>1. CASE r = new
          BY <1>1, <1>3, <1>12, <3>1 DEF Tracked
    <3>2. CASE r \in Range(records)
      <4>1. SpoolFile(r.file)' <=> SpoolFile(r.file)
            BY <1>9, <2>2 DEF Used
      <4> QED BY <1>12, <3>2, <4>1 DEF IInv, RecordsInv
    <3> QED BY <2>1, <3>1, <3>2
  <2> QED BY <2>5, <2>6, <2>7 DEF RecordsInv
<1>15. WritingInv'
  <2>1. new \in Range(records')
        BY <1>5
  <2>2. SpoolFile(writing)' /\ \A f \in Used' : f <= writing'
        BY <1>1, <1>9 DEF IInv, WritingInv
  <2> QED BY <1>1, <1>3, <1>9, <2>1, <2>2 DEF IInv, WritingInv
<1>16. QueueInv'
  <2>1. \A f \in Range(queue) : \E r \in Range(records') :
           r.file = f /\ r.status \in {"pending", "read"}
    <3> TAKE f \in Range(queue)
    <3>1. PICK r \in Range(records) : r.file = f /\ r.status \in {"pending", "read"}
          BY DEF IInv, QueueInv
    <3> QED BY <1>2, <1>13, <3>1
  <2> QED BY <1>9, <2>1 DEF IInv, QueueInv
<1>17. FreshInv'
  <2>1. Range(buffer) \cap fresh = {}
    <3>1. fresh \subseteq stashed
          BY <1>1 DEF TypeOK
    <3>2. \A e \in Range(buffer) : e \in Nat
          BY <1>8, SpoolAssumption DEF Events
    <3>3. \A e \in Range(buffer) : ~(e < e)
          BY <3>2
    <3> QED BY <3>1, <3>3 DEF IInv, FlowInv, Before
  <2>2. \A f \in Range(queue) \cup ({writing} \ {NoFile}) : f \in Files
        BY <1>1, RangeIn DEF TypeOK
  <2>3. \A f \in Range(queue) \cup ({writing} \ {NoFile}) : EventsIn(disk'[f]) \cap fresh = {}
        BY <1>7, <2>1, <2>2 DEF IInv, FreshInv, EventsOf
  <2> QED BY <2>3 DEF FreshInv, EventsOf
<1>18. LossInv'
  <2> SUFFICES ASSUME NEW e \in stashed', e \notin Settled'
               PROVE  \E r \in Range(records') : e \in Unsent(r)'
      BY DEF LossInv
  <2>1. CASE e \in Range(buffer)
    <3>1. Range(buffer) \subseteq Unsent(new)'
          BY <1>1, <1>3, <1>6, WriteUnsent DEF IInv
    <3> QED BY <1>5, <2>1, <3>1
  <2>2. CASE e \in stashed
    <3>1. PICK r \in Range(records) : e \in Unsent(r)
          BY <1>12, <2>2 DEF IInv, LossInv
    <3>2. CASE r = old
      <4>1. e \in Unsent(old)'
            BY <1>1, <1>2, <1>6, <3>1, <3>2, WriteUnsent DEF IInv
      <4>2. Unsent(new)' = Unsent(old)'
            BY <1>2, <1>3, Zenon DEF Unsent
      <4> QED BY <1>5, <4>1, <4>2
    <3>3. CASE r # old
          BY <1>13, <3>1, <3>3
    <3> QED BY <3>2, <3>3
  <2> QED BY <1>6, <2>1, <2>2
<1>19. \A r \in Range(records) : r.file # writing => r \in Range(records')
       BY <1>2, <1>13
<1> QED BY <1>5, <1>6, <1>7, <1>8, <1>9, <1>10, <1>11, <1>14, <1>15, <1>16, <1>17, <1>18, <1>19

LEMMA RollEnds ==
    ASSUME IInv, RollEnd, alive, Rolling, ~Rolling', writing # NoFile,
           UNCHANGED <<disk, records, buffer, consuming, delivered, dropped, stranded,
                       stashed, fresh, next, todo, pending, alive>>
    PROVE  /\ queue' \in Seq(Files) /\ writing' = NoFile /\ index' \in Seq(Records)
           /\ FlowInv' /\ RecordsInv' /\ WritingInv' /\ QueueInv' /\ FreshInv'
           /\ IndexInv' /\ LossInv'
<1>1. /\ TypeOK /\ writing \in Files /\ queue \in Seq(Files) /\ records \in Seq(Records)
      BY DEF IInv, TypeOK, Optional
<1>2. /\ queue' = Append(queue, writing) /\ writing' = NoFile /\ index' = records'
      BY DEF RollEnd, WriteIndex
<1>3. queue' \in Seq(Files) /\ Range(queue') = Range(queue) \cup {writing}
      BY <1>1, <1>2, RangeOfAppend
<1>4. /\ Record(writing) \in Range(records) /\ Record(writing).file = writing
      /\ Record(writing).status = "pending"
      /\ \A r \in Range(records) : r.file = writing => r = Record(writing)
      BY <1>1, WritingRecord DEF IInv
<1>5. Used' = Used /\ Settled' = Settled /\ \A f : SpoolFile(f)' = SpoolFile(f)
      BY DEF Used, Settled, SpoolFile
<1>6. FlowInv'
      BY FlowFrame DEF IInv, ControlInv
<1>7. RecordsInv'
  <2>1. Listed(records)'
    <3>1. \A r \in Range(records) : r.status = "done" => Unsent(r)' \subseteq Settled'
          BY <1>5, SettledGrows DEF IInv, RecordsInv, Listed
    <3> QED BY <1>5, <3>1 DEF IInv, RecordsInv, Listed, Increasing
  <2>2. \A r \in Range(records) : r.status # "write"
        BY <1>4 DEF IInv, RecordsInv
  <2>3. Tracked \subseteq Tracked'
        BY <1>3 DEF Tracked
  <2> QED BY <1>5, <2>1, <2>2, <2>3 DEF IInv, RecordsInv
<1>8. WritingInv'
      BY <1>2 DEF WritingInv
<1>9. QueueInv'
  <2>1. \A f \in Range(queue) : f \in Used /\ f # writing
        BY <1>1 DEF IInv, QueueInv, RecordsInv, Listed, WritingInv
  <2>2. \A f \in Used : f <= writing /\ f \in Nat /\ writing \in Nat
        BY <1>1, SpoolAssumption DEF IInv, WritingInv, Used, Files
  <2>3. \A f \in Range(queue) : f < writing
        BY <2>1, <2>2
  <2>4. /\ DOMAIN queue = 1 .. Len(queue) /\ Len(queue) \in Nat
        /\ DOMAIN queue' = 1 .. Len(queue) + 1 /\ queue'[Len(queue) + 1] = writing
        /\ \A i \in 1 .. Len(queue) : queue'[i] = queue[i]
        BY <1>1, <1>2
  <2>5. Sorted(queue')
    <3> SUFFICES ASSUME NEW i \in DOMAIN queue', NEW j \in DOMAIN queue', i < j
                 PROVE  queue'[i] < queue'[j]
        BY DEF Sorted
    <3>1. i \in 1 .. Len(queue)
          BY <2>4
    <3>2. CASE j \in 1 .. Len(queue)
          BY <2>4, <3>1, <3>2 DEF IInv, QueueInv, Sorted
    <3>3. CASE j = Len(queue) + 1
      <4>1. queue[i] \in Range(queue)
            BY <2>4, <3>1 DEF Range
      <4> QED BY <2>3, <2>4, <3>1, <3>3, <4>1
    <3> QED BY <2>4, <3>2, <3>3
  <2>6. \A f \in Range(queue') : \E r \in Range(records) :
           r.file = f /\ r.status \in {"pending", "read"}
        BY <1>3, <1>4 DEF IInv, QueueInv
  <2>7. consuming # NoFile => consuming \in Used /\ consuming < writing
        BY <2>2 DEF IInv, QueueInv, WritingInv
  <2>8. consuming # NoFile => Before({consuming}, Range(queue'))
        BY <1>3, <2>7 DEF IInv, QueueInv, Before
  <2> QED BY <1>5, <2>5, <2>6, <2>7, <2>8 DEF QueueInv
<1>10. FreshInv'
  <2>1. NoFile \notin Range(queue')
        BY <1>3, NoFileIsNone, RangeIn
  <2> QED BY <1>2, <1>3, <2>1, FreshFrame DEF IInv
<1>11. IndexInv'
       BY <1>1, <1>2, <1>7, <1>8, IndexWritten, NoFileIsNone
<1>12. LossInv'
  <2>1. \A r : Unsent(r)' = Unsent(r)
        BY DEF Unsent
  <2> QED BY <1>5, <2>1 DEF IInv, LossInv
<1> QED BY <1>1, <1>2, <1>3, <1>6, <1>7, <1>8, <1>9, <1>10, <1>11, <1>12

LEMMA RollFileKeeps ==
    ASSUME IInv, RollFile
    PROVE  IInv'
<1>i. index' = <<>> /\ index' \in Seq(Records)
      BY DEF RollFile, RollBegin, TruncateIndex
<1>c. alive /\ ~Rolling /\ Rolling' /\ wpc' = "rolled"
      BY DEF IInv, ControlInv, Rolling, Locked, RollFile, Stash, readerVars
<1>w. writing # NoFile /\ writing' = writing
      BY DEF RollFile, RollBegin
<1>r. /\ disk' \in [Files -> LogFiles] /\ records' \in Seq(Records)
      /\ stashed' \subseteq Events /\ stashed \subseteq stashed' /\ buffer' = <<>>
      /\ Used' = Used /\ \A f \in Files : f # writing => disk'[f] = disk[f]
      /\ \A r \in Range(records) : r.file # writing => r \in Range(records')
      /\ LinesInv' /\ FlowInv' /\ RecordsInv' /\ WritingInv' /\ QueueInv'
      /\ FreshInv' /\ LossInv'
      BY <1>c, RollBegins DEF RollFile, Stash, readerVars, history
<1>1. TypeOK'
      BY <1>r, <1>i DEF IInv, TypeOK, RollBegin, TruncateIndex, Locked, RollFile, Stash,
         readerVars, bounds
<1>2. LinesInv'
      BY <1>r DEF IInv
<1>3. FilesInv'
      BY <1>r, FilesFrame DEF IInv, Opening, RollFile, Stash
<1>4. FlowInv'
      BY <1>r DEF IInv
<1>5. ControlInv'
      BY <1>r, <1>c, <1>w DEF IInv, TypeOK, ControlInv, Rolling, Locked, Reading, RollFile,
         Stash, readerVars
<1>6. RecordsInv'
      BY <1>r DEF IInv
<1>7. WritingInv'
      BY <1>r DEF IInv
<1>8. QueueInv'
      BY <1>r DEF IInv
<1>9. ConsumingInv'
  <2>1. UNCHANGED <<rpc, consuming, line, delivered, dropped, stranded, fresh>>
        BY DEF RollFile, readerVars
  <2>2. rpc \notin Locked
        BY DEF IInv, ControlInv, RollFile, Stash
  <2>3. ASSUME rpc \in Reading \cup {"remove"}
        PROVE  /\ consuming \in Files /\ consuming # writing /\ disk'[consuming] = disk[consuming]
               /\ \A r \in Range(records) : r.file = consuming => r \in Range(records')
        BY <2>3, <1>w, <1>r DEF IInv, TypeOK, Optional, ControlInv, WritingInv
  <2>4. CASE rpc \in Reading
        BY <2>1, <2>2, <2>3, <2>4 DEF IInv, ConsumingInv, SpoolFile, Settled, Reading
  <2>5. CASE rpc = "remove"
        BY <2>1, <2>2, <2>3, <2>5 DEF IInv, ConsumingInv, SpoolFile, Reading
  <2>6. CASE rpc \notin Reading \cup {"remove"}
        BY <2>1, <2>2, <2>6 DEF ConsumingInv, Locked
  <2> QED BY <2>4, <2>5, <2>6
<1>10. FreshInv'
      BY <1>r DEF IInv
<1>11. IndexInv'
      BY <1>i, <1>c, IndexCut DEF InSave, Locked
<1>12. LossInv'
      BY <1>r DEF IInv
<1> QED BY <1>1, <1>2, <1>3, <1>4, <1>5, <1>6, <1>7, <1>8, <1>9, <1>10, <1>11, <1>12 DEF IInv

LEMMA CloseFileKeeps ==
    ASSUME IInv, CloseFile
    PROVE  IInv'
<1>i. index' = <<>> /\ index' \in Seq(Records)
      BY DEF CloseFile, RollBegin, TruncateIndex
<1>c. alive /\ ~Rolling /\ Rolling' /\ rpc' = "rollSave"
      BY DEF IInv, ControlInv, Rolling, Locked, CloseFile, Read, writerVars, readerVars
<1>w. writing # NoFile /\ writing' = writing
      BY DEF CloseFile, RollBegin
<1>r. /\ disk' \in [Files -> LogFiles] /\ records' \in Seq(Records)
      /\ stashed' \subseteq Events /\ stashed \subseteq stashed' /\ buffer' = <<>>
      /\ Used' = Used /\ \A f \in Files : f # writing => disk'[f] = disk[f]
      /\ \A r \in Range(records) : r.file # writing => r \in Range(records')
      /\ LinesInv' /\ FlowInv' /\ RecordsInv' /\ WritingInv' /\ QueueInv'
      /\ FreshInv' /\ LossInv'
      BY <1>c, RollBegins DEF CloseFile, Read, writerVars, readerVars, history
<1>1. TypeOK'
      BY <1>r, <1>i DEF IInv, TypeOK, RollBegin, TruncateIndex, Locked, CloseFile, Read,
         writerVars, readerVars, bounds
<1>2. LinesInv'
      BY <1>r DEF IInv
<1>3. FilesInv'
      BY <1>r, FilesFrame DEF IInv, Opening, CloseFile, Read, writerVars
<1>4. FlowInv'
      BY <1>r DEF IInv
<1>5. ControlInv'
      BY <1>r, <1>c, <1>w DEF IInv, TypeOK, ControlInv, Rolling, Locked, Reading, CloseFile,
         Read, writerVars, readerVars
<1>6. RecordsInv'
      BY <1>r DEF IInv
<1>7. WritingInv'
      BY <1>r DEF IInv
<1>8. QueueInv'
      BY <1>r DEF IInv
<1>9. ConsumingInv'
      BY <1>c DEF ConsumingInv, Reading
<1>10. FreshInv'
      BY <1>r DEF IInv
<1>11. IndexInv'
      BY <1>i, <1>c, IndexCut DEF InSave, Locked
<1>12. LossInv'
      BY <1>r DEF IInv
<1> QED BY <1>1, <1>2, <1>3, <1>4, <1>5, <1>6, <1>7, <1>8, <1>9, <1>10, <1>11, <1>12 DEF IInv

LEMMA RolledFileKeeps ==
    ASSUME IInv, RolledFile
    PROVE  IInv'
<1>c. alive /\ Rolling /\ ~Rolling' /\ writing # NoFile
      BY DEF IInv, ControlInv, Rolling, Locked, Stash, Read, RolledFile, writerVars, readerVars
<1>r. /\ queue' \in Seq(Files) /\ writing' = NoFile /\ index' \in Seq(Records)
      /\ FlowInv' /\ RecordsInv' /\ WritingInv' /\ QueueInv' /\ FreshInv'
      /\ IndexInv' /\ LossInv'
      BY <1>c, RollEnds DEF RolledFile, writerVars, readerVars, history
<1>1. TypeOK'
      BY <1>r DEF IInv, TypeOK, Optional, Locked, RolledFile, Stash, RollEnd, writerVars,
         readerVars, bounds, history
<1>2. LinesInv'
      BY LinesFrame DEF IInv, RolledFile, history
<1>3. FilesInv'
      BY FilesFrame DEF IInv, Opening, Used, RolledFile, Stash
<1>4. FlowInv'
      BY <1>r DEF IInv
<1>5. ControlInv'
      BY <1>r, <1>c DEF IInv, TypeOK, ControlInv, Rolling, Locked, Reading, Stash, RollEnd,
         RolledFile, writerVars, readerVars
<1>6. RecordsInv'
      BY <1>r DEF IInv
<1>7. WritingInv'
      BY <1>r DEF IInv
<1>8. QueueInv'
      BY <1>r DEF IInv
<1>9. ConsumingInv'
      BY ConsumingFrame DEF IInv, RolledFile, Settled, readerVars, history
<1>10. FreshInv'
      BY <1>r DEF IInv
<1>11. IndexInv'
      BY <1>r DEF IInv
<1>12. LossInv'
      BY <1>r DEF IInv
<1> QED BY <1>1, <1>2, <1>3, <1>4, <1>5, <1>6, <1>7, <1>8, <1>9, <1>10, <1>11, <1>12 DEF IInv

LEMMA ClosedFileKeeps ==
    ASSUME IInv, ClosedFile
    PROVE  IInv'
<1>c. alive /\ Rolling /\ ~Rolling' /\ writing # NoFile
      BY DEF IInv, ControlInv, Rolling, Locked, Stash, Read, ClosedFile, writerVars, readerVars
<1>r. /\ queue' \in Seq(Files) /\ writing' = NoFile /\ index' \in Seq(Records)
      /\ FlowInv' /\ RecordsInv' /\ WritingInv' /\ QueueInv' /\ FreshInv'
      /\ IndexInv' /\ LossInv'
      BY <1>c, RollEnds DEF ClosedFile, writerVars, readerVars, history
<1>1. TypeOK'
      BY <1>r DEF IInv, TypeOK, Optional, Locked, ClosedFile, Read, RollEnd, writerVars,
         readerVars, bounds, history
<1>2. LinesInv'
      BY LinesFrame DEF IInv, ClosedFile, history
<1>3. FilesInv'
      BY FilesFrame DEF IInv, Opening, Used, ClosedFile, writerVars
<1>4. FlowInv'
      BY <1>r DEF IInv
<1>5. ControlInv'
      BY <1>r, <1>c DEF IInv, TypeOK, ControlInv, Rolling, Locked, Reading, Read, RollEnd,
         ClosedFile, writerVars, readerVars
<1>6. RecordsInv'
      BY <1>r DEF IInv
<1>7. WritingInv'
      BY <1>r DEF IInv
<1>8. QueueInv'
      BY <1>r DEF IInv
<1>9. ConsumingInv'
      BY DEF ConsumingInv, Reading, ClosedFile, Read
<1>10. FreshInv'
      BY <1>r DEF IInv
<1>11. IndexInv'
      BY <1>r DEF IInv
<1>12. LossInv'
      BY <1>r DEF IInv
<1> QED BY <1>1, <1>2, <1>3, <1>4, <1>5, <1>6, <1>7, <1>8, <1>9, <1>10, <1>11, <1>12 DEF IInv

LEMMA LeastFile ==
    ASSUME NEW S \in SUBSET Files, NEW f \in S
    PROVE  Min(S) \in S /\ \A g \in S : Min(S) <= g
<1>1. S \subseteq Nat /\ S # {}
      BY SpoolAssumption DEF Files
<1> DEFINE R == {p \in Nat \X Nat : p[1] < p[2]}
<1>2. IsWellFoundedOn(R, Nat)
      BY NatLessThanWellFounded DEF OpToRel
<1>3. PICK m \in S : \A g \in S : <<g, m>> \notin R
      BY <1>1, <1>2, WFMin
<1>4. \A g \in S : m <= g
  <2> TAKE g \in S
  <2>1. g \in Nat /\ m \in Nat /\ ~(g < m)
        BY <1>1, <1>3
  <2> QED BY <2>1
<1> QED BY <1>4 DEF Min

LEMMA CreateFileKeeps ==
    ASSUME IInv, CreateFile
    PROVE  IInv'
<1> DEFINE first == next - Len(todo)
           free == {f \in Files : disk[f].place = "none"}
<1>1a. /\ alive /\ wpc = "event" /\ wpc' = "created" /\ writing = NoFile
       /\ writing' = Min(free) /\ disk' = [disk EXCEPT ![writing'].place = "spool"]
       /\ records' = Append(records, [file |-> writing', status |-> "write", position |-> 0])
       /\ index' = <<>>
       /\ UNCHANGED <<queue, buffer, pending, drain, alive, todo, next, rpc, consuming, line,
                      faults, crashes, stashed, delivered, fresh, dropped, stranded>>
       BY DEF CreateFile, Stash, TruncateIndex, readerVars, bounds, history
<1>1b. todo # <<>> /\ todo \in Seq(Events) /\ next \in Nat /\ next <= MaxEvents + 1
       /\ Len(todo) < next /\ rpc \notin Locked /\ records \in Seq(Records)
       /\ disk \in [Files -> LogFiles]
       BY <1>1a DEF IInv, TypeOK, ControlInv, FlowInv
<1>1c. Len(todo) \in Nat \ {0}
       BY <1>1b, HeadAndTail
<1>1d. first \in Files /\ first \in Nat
       BY <1>1b, <1>1c, SpoolAssumption DEF Files
<1>1e. \A f \in Used : f \in Nat /\ f <= next - 1 - Len(todo)
  <2>1. Opening = 0
        BY <1>1a DEF Opening
  <2>2. \A f \in Used : f \in Nat /\ f <= next - 1 - Len(todo) + 0
        BY <2>1, SpoolAssumption DEF IInv, FilesInv, Used, Files
  <2> QED BY <2>2, <1>1b, <1>1c
<1>1f. first \in free
  <2>1. first \notin Used
        BY <1>1b, <1>1c, <1>1e
  <2> QED BY <1>1d, <2>1 DEF Used
<1> HIDE DEF first
<1>1g. writing' \in free /\ writing' <= first /\ writing' \in Files /\ writing' \in Nat
  <2>1. Min(free) \in free /\ \A g \in free : Min(free) <= g
        BY <1>1f, LeastFile
  <2>2. Min(free) \in Files /\ Min(free) \in Nat
        BY <2>1, SpoolAssumption DEF Files
  <2> QED BY <1>1a, <1>1f, <2>1, <2>2
<1>1h. writing' \notin Used /\ \A g \in Files : g < writing' => g \in Used
  <2>1. \A g \in free : Min(free) <= g
        BY <1>1f, LeastFile
  <2>2. \A g \in Files : g < writing' => g \notin free
    <3> SUFFICES ASSUME NEW g \in Files, g < writing', g \in free PROVE FALSE
        OBVIOUS
    <3>1. writing' <= g /\ g \in Nat
          BY <1>1a, <2>1, SpoolAssumption DEF Files
    <3> QED BY <1>1g, <3>1
  <2> QED BY <1>1g, <2>2 DEF Used
<1> HIDE DEF free
<1>1i. \A f \in Used : f < writing'
  <2> TAKE f \in Used
  <2>1. f \in Nat /\ f # writing'
        BY <1>1e, <1>1h
  <2>2. ~(writing' < f)
        BY <1>1g, <1>1h DEF IInv, FilesInv
  <2> QED BY <1>1g, <2>1, <2>2
<1>1j. /\ disk' \in [Files -> LogFiles]
       /\ \A f \in Files : disk'[f].lines = disk[f].lines
       /\ \A f \in Files : f # writing' => disk'[f] = disk[f]
       /\ disk'[writing'].place = "spool"
  <2>1. [disk[writing'] EXCEPT !.place = "spool"] \in LogFiles
        /\ [disk[writing'] EXCEPT !.place = "spool"].lines = disk[writing'].lines
        BY <1>1b, <1>1g DEF LogFiles
  <2> QED BY <1>1a, <1>1b, <1>1g, <2>1 DEF LogFiles
<1>1k. Used' = Used \cup {writing'}
       BY <1>1g, <1>1j DEF Used
<1>1l. \A f \in Files : EventsOf(f)' = EventsOf(f)
       BY <1>1j DEF EventsOf, EventsIn
<1>1m. PICK new \in Records :
          new.file = writing' /\ new.status = "write" /\ new.position = 0
          /\ records' = Append(records, new)
       BY <1>1a, <1>1g DEF Records
<1>1n. /\ records' \in Seq(Records) /\ Range(records') = Range(records) \cup {new}
       /\ Range(records) \subseteq Records
       BY <1>1b, <1>1m, RangeOfAppend, RangeIn
<1>1o. \A r \in Range(records) : r.file \in Used /\ r.file # writing' /\ r.file \in Files
       BY <1>1h DEF IInv, RecordsInv, Listed, Used
<1>1p. \A r \in Range(records) : Unsent(r)' = Unsent(r) /\ SpoolFile(r.file)' = SpoolFile(r.file)
       BY <1>1j, <1>1o DEF Unsent, SpoolFile
<1>1q. Settled' = Settled
       BY <1>1a DEF Settled
<1>1r. writing' # NoFile
       BY <1>1g, NoFileIsNone
<1>1s. ~Rolling'
       BY <1>1a, <1>1b DEF Rolling, Locked
<1>1t. disk'[writing'].place = "spool" /\ \A f \in Used' : f <= writing'
  <2>1. \A f \in Used : f <= writing'
        BY <1>1e, <1>1g, <1>1i
  <2> QED BY <1>1g, <1>1j, <1>1k, <2>1
<1>1. TypeOK'
      BY <1>1a, <1>1g, <1>1j, <1>1n DEF IInv, TypeOK, Optional
<1>2. LinesInv'
  <2>1. \A f \in Files : disk'[f].place = "none" => disk'[f].lines = <<>>
        BY <1>1j DEF IInv, LinesInv
  <2> QED BY <1>1a, <1>1j, <1>1l, <2>1 DEF IInv, LinesInv
<1>3. FilesInv'
  <2>1. Opening' = 1
        BY <1>1a DEF Opening
  <2>2. \A f \in Used, g \in Files : g < f => g \in Used
        BY DEF IInv, FilesInv
  <2>3. \A f \in Used', g \in Files : g < f => g \in Used'
        BY <1>1h, <1>1k, <2>2
  <2>4. \A f \in Used : f <= next - 1 - Len(todo) + 1
        BY <1>1b, <1>1c, <1>1e
  <2>5. writing' <= next - 1 - Len(todo) + 1
        BY <1>1b, <1>1c, <1>1g DEF first
  <2> QED BY <1>1a, <1>1k, <2>1, <2>3, <2>4, <2>5 DEF FilesInv
<1>4. FlowInv'
      BY <1>1a, <1>1r, FlowFrame DEF IInv, FlowInv
<1>5. ControlInv'
      BY <1>1a, <1>1b, <1>1r, <1>1s DEF IInv, TypeOK, ControlInv, Locked, Reading
<1>6. RecordsInv'
  <2>1. Increasing(records')
    <3>1. /\ DOMAIN records = 1 .. Len(records) /\ Len(records) \in Nat
          /\ DOMAIN records' = 1 .. Len(records) + 1 /\ records'[Len(records) + 1] = new
          /\ \A i \in 1 .. Len(records) : records'[i] = records[i]
          BY <1>1b, <1>1m
    <3> SUFFICES ASSUME NEW i \in DOMAIN records', NEW j \in DOMAIN records', i < j
                 PROVE  records'[i].file < records'[j].file
        BY DEF Increasing
    <3>2. i \in 1 .. Len(records)
          BY <3>1
    <3>3. CASE j \in 1 .. Len(records)
          BY <3>1, <3>2, <3>3 DEF IInv, RecordsInv, Listed, Increasing
    <3>4. CASE j = Len(records) + 1
      <4>1. records[i] \in Range(records)
            BY <3>1, <3>2 DEF Range
      <4> QED BY <1>1i, <1>1m, <1>1o, <3>1, <3>2, <3>4, <4>1
    <3> QED BY <3>1, <3>3, <3>4
  <2>2. \A r \in Range(records') : r.file \in Used'
        BY <1>1k, <1>1m, <1>1n, <1>1o
  <2>3. \A r, q \in Range(records') :
           r.status = "read" /\ q.status = "pending" /\ SpoolFile(q.file)' => r.file < q.file
        BY <1>1m, <1>1n, <1>1p DEF IInv, RecordsInv, Listed
  <2>4. \A r \in Range(records') : r.status = "done" => Unsent(r)' \subseteq Settled'
        BY <1>1m, <1>1n, <1>1p, <1>1q DEF IInv, RecordsInv, Listed
  <2>5. \A r \in Range(records') : r.status = "write" => r = new
    <3>1. \A r \in Range(records) : r.status # "write"
          BY <1>1a, <1>1o, NoFileIsNone DEF IInv, RecordsInv
    <3> QED BY <1>1n, <3>1
  <2>6. disk'[writing'].place = "spool" /\ \A f \in Used' : f <= writing'
        BY <1>1t
  <2>7. \A r \in Range(records') : r.status = "write" =>
           r.position = 0 /\ SpoolFile(r.file)' /\ \A f \in Used' : f <= r.file
        BY <1>1m, <2>5, <2>6 DEF SpoolFile
  <2>8. Listed(records)'
        BY <2>1, <2>2, <2>3, <2>4, <2>7 DEF Listed
  <2>9. Tracked \subseteq Tracked'
        BY <1>1a DEF Tracked
  <2>10. \A r \in Range(records') :
            r.status \in {"pending", "read"} /\ SpoolFile(r.file)' => r.file \in Tracked'
         BY <1>1m, <1>1n, <1>1p, <2>9 DEF IInv, RecordsInv
  <2> QED BY <1>1m, <2>5, <2>8, <2>10 DEF RecordsInv
<1>7. WritingInv'
  <2>1. SpoolFile(writing)' /\ \A f \in Used' : f <= writing'
        BY <1>1t DEF SpoolFile
  <2>2. writing' # consuming /\ writing' \notin Range(queue)
    <3>1. \A f \in Range(queue) : f \in Used
          BY <1>1o DEF IInv, QueueInv
    <3> QED BY <1>1h, <1>1r, <3>1 DEF IInv, QueueInv
  <2>3. new \in Range(records')
        BY <1>1n
  <2> QED BY <1>1a, <1>1m, <1>1s, <2>1, <2>2, <2>3 DEF WritingInv
<1>8. QueueInv'
      BY <1>1a, <1>1k, <1>1n DEF IInv, QueueInv
<1>9. ConsumingInv'
  <2>1. rpc \in Reading \cup {"remove"} =>
           consuming \in Files /\ disk'[consuming] = disk[consuming]
        BY <1>1h, <1>1j DEF IInv, ControlInv, QueueInv, Used
  <2>2. CASE rpc \in Reading
        BY <1>1a, <1>1b, <1>1n, <1>1q, <2>1, <2>2, SMTT(30) DEF IInv, ConsumingInv, SpoolFile,
           Reading
  <2>3. CASE rpc = "remove"
        BY <1>1a, <1>1b, <1>1n, <1>1q, <2>1, <2>3 DEF IInv, ConsumingInv, SpoolFile, Reading
  <2>4. CASE rpc \notin Reading \cup {"remove"}
        BY <1>1a, <1>1b, <2>4 DEF ConsumingInv, Locked
  <2> QED BY <2>2, <2>3, <2>4
<1>10. FreshInv'
  <2>1. EventsIn(disk'[writing']) = {}
    <3>1. disk'[writing'].lines = <<>>
          BY <1>1g, <1>1h, <1>1j DEF IInv, LinesInv, Used
    <3> QED BY <3>1 DEF EventsIn
  <2>2. \A f \in Range(queue) : f \in Files
        BY RangeIn DEF IInv, TypeOK
  <2>3. \A f \in Range(queue) : EventsOf(f)' \cap fresh' = {}
        BY <1>1a, <1>1l, <2>2 DEF IInv, FreshInv
  <2> QED BY <1>1a, <2>1, <2>3 DEF FreshInv, EventsOf
<1>11. IndexInv'
      BY <1>1a, IndexCut DEF InSave
<1>12. LossInv'
      BY <1>1a, <1>1n, <1>1p, <1>1q DEF IInv, LossInv
<1> QED BY <1>1, <1>2, <1>3, <1>4, <1>5, <1>6, <1>7, <1>8, <1>9, <1>10, <1>11, <1>12 DEF IInv

LEMMA FlushBatchKeeps ==
    ASSUME IInv, FlushBatch
    PROVE  IInv'
<1>1a. /\ alive /\ wpc = "flush" /\ wpc' = "idle" /\ buffer' = <<>>
       /\ disk' = [disk EXCEPT ![writing] = Printed(@, buffer)]
       /\ stashed' = stashed \cup Range(buffer)
       /\ UNCHANGED <<index, records, queue, writing, pending, drain, alive, todo, next, rpc,
                      consuming, line, faults, crashes, delivered, fresh, dropped, stranded>>
       BY DEF FlushBatch, Stash, readerVars, bounds
<1>1b. /\ writing # NoFile /\ rpc \notin Locked /\ writing \in Files /\ buffer \in Seq(Events)
       /\ records \in Seq(Records) /\ index \in Seq(Records) /\ Range(records) \subseteq Records
       /\ Range(index) \subseteq Records /\ TypeOK
       BY <1>1a, RangeIn DEF IInv, TypeOK, Optional, ControlInv
<1>1c. Writes(buffer)
       BY <1>1a, <1>1b, PrintedIsWritten
<1>1d. /\ disk' \in [Files -> LogFiles]
       /\ \A f \in Files : disk'[f].place = disk[f].place
       /\ \A f \in Files : f # writing => disk'[f] = disk[f]
       /\ EventsIn(disk'[writing]) = EventsIn(disk[writing]) \cup Range(buffer)
       BY <1>1b, <1>1c, WriteIs
<1>1e. Used' = Used /\ \A f \in Files : SpoolFile(f)' = SpoolFile(f)
       BY <1>1d DEF Used, SpoolFile
<1>1f. Settled' = Settled /\ Tracked' = Tracked
       BY <1>1a DEF Settled, Tracked
<1>1g. ~Rolling /\ ~Rolling' /\ ~InSave /\ ~InSave'
       BY <1>1a, <1>1b DEF Rolling, InSave, Locked
<1>1h. \A r \in Records : r.file # writing => Unsent(r)' = Unsent(r)
       BY <1>1b, <1>1c, WriteUnsent DEF IInv
<1>1i. PICK own \in Range(records) :
          /\ own.file = writing /\ own.position = 0 /\ own.status = "write"
          /\ \A r \in Range(records) : r.file = writing => r = own
       BY <1>1b, <1>1g, WritingRecord DEF IInv
<1>1j. Range(buffer) \subseteq Events
       BY <1>1b, RangeIn
<1>1. TypeOK'
  <2>1. buffer' \in Seq(Events) /\ stashed' \subseteq Events /\ stashed \subseteq stashed'
        BY <1>1a, <1>1j DEF IInv, TypeOK
  <2> QED BY <1>1a, <1>1d, <2>1 DEF IInv, TypeOK
<1>2. LinesInv'
      BY <1>1a, <1>1b, <1>1c, WriteLines DEF IInv, FlowInv
<1>3. FilesInv'
      BY <1>1a, <1>1e, FilesFrame DEF IInv, Opening
<1>4. FlowInv'
  <2>1. Range(buffer') = {} /\ DOMAIN buffer' = {}
        BY <1>1a DEF Range
  <2>2. Before(stashed', Range(todo))
        BY <1>1a DEF IInv, FlowInv, Before
  <2> QED BY <1>1a, <2>1, <2>2 DEF IInv, FlowInv, Before, Sorted
<1>5. ControlInv'
      BY <1>1a, <1>1b, <1>1g DEF IInv, TypeOK, ControlInv, Reading
<1>6. RecordsInv'
  <2>1. \A r \in Range(records) : r.file \in Files /\ (r.status = "done" => r.file # writing)
        BY <1>1i DEF IInv, RecordsInv, Listed, Used
  <2>2. \A r \in Range(records) : r.status = "done" => Unsent(r)' \subseteq Settled'
        BY <1>1b, <1>1f, <1>1h, <2>1 DEF IInv, RecordsInv, Listed
  <2>3. Listed(records)'
        BY <1>1a, <1>1e, <2>1, <2>2 DEF IInv, RecordsInv, Listed, Increasing
  <2> QED BY <1>1a, <1>1e, <1>1f, <2>1, <2>3 DEF IInv, RecordsInv
<1>7. WritingInv'
      BY <1>1a, <1>1b, <1>1e, <1>1g DEF IInv, WritingInv
<1>8. QueueInv'
      BY <1>1a, <1>1e DEF IInv, QueueInv
<1>9. ConsumingInv'
  <2>1. rpc \in Reading \cup {"remove"} =>
           consuming \in Files /\ disk'[consuming] = disk[consuming]
        BY <1>1b, <1>1d DEF IInv, ControlInv, QueueInv, WritingInv, Used
  <2>2. CASE rpc \in Reading
        BY <1>1a, <1>1b, <1>1f, <2>1, <2>2 DEF IInv, ConsumingInv, SpoolFile, Reading
  <2>3. CASE rpc = "remove"
        BY <1>1a, <1>1b, <1>1f, <2>1, <2>3 DEF IInv, ConsumingInv, SpoolFile, Reading
  <2>4. CASE rpc \notin Reading \cup {"remove"}
        BY <1>1a, <1>1b, <2>4 DEF ConsumingInv, Locked
  <2> QED BY <2>2, <2>3, <2>4
<1>10. FreshInv'
  <2>1. Range(buffer) \cap fresh = {}
    <3>1. fresh \subseteq stashed
          BY <1>1b DEF TypeOK
    <3>2. \A e \in Range(buffer) : e \in Nat
          BY <1>1j, SpoolAssumption DEF Events
    <3>3. \A e \in Range(buffer) : ~(e < e)
          BY <3>2
    <3> QED BY <3>1, <3>3 DEF IInv, FlowInv, Before
  <2>2. \A f \in Range(queue) \cup ({writing} \ {NoFile}) : f \in Files
        BY <1>1b, RangeIn DEF TypeOK
  <2>3. \A f \in Range(queue) \cup ({writing} \ {NoFile}) : EventsIn(disk'[f]) \cap fresh = {}
        BY <1>1d, <2>1, <2>2 DEF IInv, FreshInv, EventsOf
  <2> QED BY <1>1a, <2>3 DEF FreshInv, EventsOf
<1>11. IndexInv'
  <2>1. \A q \in Range(index) : q.file \in Files /\ (q.status = "done" => q.file # writing)
        BY <1>1a DEF IInv, IndexInv, Listed, Used
  <2>2. \A q \in Range(index) : q.status = "done" => Unsent(q)' \subseteq Settled'
        BY <1>1b, <1>1f, <1>1h, <2>1 DEF IInv, IndexInv, Listed
  <2>3. Listed(index)'
        BY <1>1a, <1>1e, <2>1, <2>2 DEF IInv, IndexInv, Listed, Increasing
  <2> QED BY <1>1a, <1>1g, <2>3 DEF IInv, IndexInv
<1>12. LossInv'
  <2> SUFFICES ASSUME NEW e \in stashed', e \notin Settled'
               PROVE  \E r \in Range(records) : e \in Unsent(r)'
      BY <1>1a DEF LossInv
  <2>1. CASE e \in Range(buffer)
    <3>1. Range(buffer) \subseteq Unsent(own)'
          BY <1>1b, <1>1c, <1>1i, WriteUnsent DEF IInv
    <3> QED BY <1>1i, <2>1, <3>1
  <2>2. CASE e \in stashed
    <3>1. PICK r \in Range(records) : e \in Unsent(r)
          BY <1>1a, <1>1f, <2>2 DEF IInv, LossInv
    <3>2. e \in Unsent(r)'
          BY <1>1b, <1>1c, <3>1, WriteUnsent DEF IInv
    <3> QED BY <3>2
  <2> QED BY <1>1a, <2>1, <2>2
<1> QED BY <1>1, <1>2, <1>3, <1>4, <1>5, <1>6, <1>7, <1>8, <1>9, <1>10, <1>11, <1>12 DEF IInv

-----------------------------------------------------------------------------
(* The steps of run.                                                       *)

LEMMA ExitKeeps ==
    ASSUME IInv, Exit
    PROVE  IInv'
<1>1. TypeOK'
      BY SpoolAssumption DEF IInv, TypeOK, Optional, Locked, Exit, Read, diskVars, memoryVars,
         writerVars, readerVars, bounds, history
<1>2. LinesInv'
      BY LinesFrame DEF IInv, Exit, Read, diskVars, memoryVars, writerVars, readerVars, bounds,
         history
<1>3. FilesInv'
      BY FilesFrame DEF IInv, Opening, Used, Exit, Read, diskVars, memoryVars, writerVars,
         readerVars, bounds, history
<1>4. FlowInv'
      BY FlowFrame DEF IInv, FlowInv, Exit, Read, diskVars, memoryVars, writerVars, readerVars,
         bounds, history
<1>5. ControlInv'
      BY DEF IInv, TypeOK, ControlInv, Rolling, Locked, Reading, Exit, Read, diskVars,
         memoryVars, writerVars, readerVars, bounds, history
<1>6. RecordsInv'
      BY RecordsFrame DEF IInv, Tracked, Settled, Exit, Read, diskVars, memoryVars, writerVars,
         readerVars, bounds, history
<1>7. WritingInv'
      BY WritingFrame DEF IInv, Rolling, Exit, Read, diskVars, memoryVars, writerVars,
         readerVars, bounds, history
<1>8. QueueInv'
      BY QueueFrame DEF IInv, Exit, Read, diskVars, memoryVars, writerVars, readerVars, bounds,
         history
<1>9. ConsumingInv'
      BY DEF ConsumingInv, Reading, Exit, Read
<1>10. FreshInv'
      BY QueueHoldsFiles, FreshFrame DEF IInv, Exit, Read, diskVars, memoryVars, history
<1>11. IndexInv'
      BY IndexFrame DEF IInv, InSave, Locked, Settled, Exit, Read, diskVars, memoryVars,
         writerVars, readerVars, bounds, history
<1>12. LossInv'
      BY LossFrame DEF IInv, Settled, Exit, Read, diskVars, memoryVars, writerVars, readerVars,
         bounds, history
<1> QED BY <1>1, <1>2, <1>3, <1>4, <1>5, <1>6, <1>7, <1>8, <1>9, <1>10, <1>11, <1>12 DEF IInv

LEMMA LeaveFileOpenKeeps ==
    ASSUME IInv, LeaveFileOpen
    PROVE  IInv'
<1>1. TypeOK'
      BY SpoolAssumption DEF IInv, TypeOK, Optional, Locked, LeaveFileOpen, Read, diskVars,
         memoryVars, writerVars, readerVars, bounds, history
<1>2. LinesInv'
      BY LinesFrame DEF IInv, LeaveFileOpen, Read, diskVars, memoryVars, writerVars, readerVars,
         bounds, history
<1>3. FilesInv'
      BY FilesFrame DEF IInv, Opening, Used, LeaveFileOpen, Read, diskVars, memoryVars,
         writerVars, readerVars, bounds, history
<1>4. FlowInv'
      BY FlowFrame DEF IInv, FlowInv, LeaveFileOpen, Read, diskVars, memoryVars, writerVars,
         readerVars, bounds, history
<1>5. ControlInv'
      BY DEF IInv, TypeOK, ControlInv, Rolling, Locked, Reading, LeaveFileOpen, Read, diskVars,
         memoryVars, writerVars, readerVars, bounds, history
<1>6. RecordsInv'
      BY RecordsFrame DEF IInv, Tracked, Settled, LeaveFileOpen, Read, diskVars, memoryVars,
         writerVars, readerVars, bounds, history
<1>7. WritingInv'
      BY WritingFrame DEF IInv, Rolling, LeaveFileOpen, Read, diskVars, memoryVars, writerVars,
         readerVars, bounds, history
<1>8. QueueInv'
      BY QueueFrame DEF IInv, LeaveFileOpen, Read, diskVars, memoryVars, writerVars, readerVars,
         bounds, history
<1>9. ConsumingInv'
      BY DEF ConsumingInv, Reading, LeaveFileOpen, Read
<1>10. FreshInv'
      BY QueueHoldsFiles, FreshFrame DEF IInv, LeaveFileOpen, Read, diskVars, memoryVars,
         history
<1>11. IndexInv'
      BY IndexFrame DEF IInv, InSave, Locked, Settled, LeaveFileOpen, Read, diskVars,
         memoryVars, writerVars, readerVars, bounds, history
<1>12. LossInv'
      BY LossFrame DEF IInv, Settled, LeaveFileOpen, Read, diskVars, memoryVars, writerVars,
         readerVars, bounds, history
<1> QED BY <1>1, <1>2, <1>3, <1>4, <1>5, <1>6, <1>7, <1>8, <1>9, <1>10, <1>11, <1>12 DEF IInv

LEMMA SendRefusedKeeps ==
    ASSUME IInv, SendRefused
    PROVE  IInv'
<1>1. TypeOK'
      BY SpoolAssumption DEF IInv, TypeOK, Optional, Locked, SendRefused, Read, Fault, diskVars,
         memoryVars, writerVars, readerVars, bounds, history
<1>2. LinesInv'
      BY LinesFrame DEF IInv, SendRefused, Read, Fault, diskVars, memoryVars, writerVars,
         readerVars, bounds, history
<1>3. FilesInv'
      BY FilesFrame DEF IInv, Opening, Used, SendRefused, Read, Fault, diskVars, memoryVars,
         writerVars, readerVars, bounds, history
<1>4. FlowInv'
      BY FlowFrame DEF IInv, FlowInv, SendRefused, Read, Fault, diskVars, memoryVars,
         writerVars, readerVars, bounds, history
<1>5. ControlInv'
      BY DEF IInv, TypeOK, ControlInv, Rolling, Locked, Reading, SendRefused, Read, Fault,
         diskVars, memoryVars, writerVars, readerVars, bounds, history
<1>6. RecordsInv'
      BY RecordsFrame DEF IInv, Tracked, Settled, SendRefused, Read, Fault, diskVars,
         memoryVars, writerVars, readerVars, bounds, history
<1>7. WritingInv'
      BY WritingFrame DEF IInv, Rolling, SendRefused, Read, Fault, diskVars, memoryVars,
         writerVars, readerVars, bounds, history
<1>8. QueueInv'
      BY QueueFrame DEF IInv, SendRefused, Read, Fault, diskVars, memoryVars, writerVars,
         readerVars, bounds, history
<1>9. ConsumingInv'
      BY DEF IInv, ConsumingInv, Reading, SpoolFile, Settled, SendRefused, Read, diskVars,
         memoryVars, writerVars, readerVars, bounds, history
<1>10. FreshInv'
      BY QueueHoldsFiles, FreshFrame DEF IInv, SendRefused, Read, diskVars, memoryVars, history
<1>11. IndexInv'
      BY IndexFrame DEF IInv, InSave, Locked, Settled, SendRefused, Read, Fault, diskVars,
         memoryVars, writerVars, readerVars, bounds, history
<1>12. LossInv'
      BY LossFrame DEF IInv, Settled, SendRefused, Read, Fault, diskVars, memoryVars,
         writerVars, readerVars, bounds, history
<1> QED BY <1>1, <1>2, <1>3, <1>4, <1>5, <1>6, <1>7, <1>8, <1>9, <1>10, <1>11, <1>12 DEF IInv

LEMMA SaveBeginKeeps ==
    ASSUME IInv, SaveBegin
    PROVE  IInv'
<1>1. TypeOK'
      BY DEF IInv, TypeOK, Optional, Locked, SaveBegin, TruncateIndex, Read, diskVars,
         memoryVars, writerVars, readerVars, bounds, history
<1>2. LinesInv'
      BY LinesFrame DEF IInv, SaveBegin, Read, TruncateIndex, diskVars, memoryVars, writerVars,
         readerVars, bounds, history
<1>3. FilesInv'
      BY FilesFrame DEF IInv, Opening, Used, SaveBegin, Read, TruncateIndex, diskVars,
         memoryVars, writerVars, readerVars, bounds, history
<1>4. FlowInv'
      BY FlowFrame DEF IInv, FlowInv, SaveBegin, Read, TruncateIndex, diskVars, memoryVars,
         writerVars, readerVars, bounds, history
<1>5. ControlInv'
      BY DEF IInv, TypeOK, ControlInv, Rolling, Locked, Reading, SaveBegin, Read, TruncateIndex,
         diskVars, memoryVars, writerVars, readerVars, bounds, history
<1>6. RecordsInv'
      BY RecordsFrame DEF IInv, Tracked, Settled, SaveBegin, Read, TruncateIndex, diskVars,
         memoryVars, writerVars, readerVars, bounds, history
<1>7. WritingInv'
      BY WritingFrame DEF IInv, Rolling, SaveBegin, Read, TruncateIndex, diskVars, memoryVars,
         writerVars, readerVars, bounds, history
<1>8. QueueInv'
      BY QueueFrame DEF IInv, SaveBegin, Read, TruncateIndex, diskVars, memoryVars, writerVars,
         readerVars, bounds, history
<1>9. ConsumingInv'
      BY DEF IInv, ConsumingInv, Reading, SpoolFile, Settled, SaveBegin, Read, diskVars,
         memoryVars, writerVars, readerVars, bounds, history
<1>10. FreshInv'
      BY QueueHoldsFiles, FreshFrame DEF IInv, SaveBegin, Read, diskVars, memoryVars, history
<1>11. IndexInv'
  <2>1. index' = <<>> /\ InSave'
        BY DEF InSave, Locked, SaveBegin, Read, TruncateIndex
  <2> QED BY <2>1, IndexCut
<1>12. LossInv'
  <2>1. \A r : Unsent(r)' = Unsent(r)
        BY DEF Unsent, SaveBegin, diskVars
  <2> QED BY <2>1 DEF IInv, LossInv, Settled, SaveBegin, Read, diskVars, memoryVars, writerVars,
             readerVars, bounds, history
<1> QED BY <1>1, <1>2, <1>3, <1>4, <1>5, <1>6, <1>7, <1>8, <1>9, <1>10, <1>11, <1>12 DEF IInv

LEMMA SaveEndKeeps ==
    ASSUME IInv, SaveEnd
    PROVE  IInv'
<1>1. TypeOK'
      BY DEF IInv, TypeOK, Optional, Locked, SaveEnd, WriteIndex, Read, diskVars, memoryVars,
         writerVars, readerVars, bounds, history
<1>2. LinesInv'
      BY LinesFrame DEF IInv, SaveEnd, Read, WriteIndex, diskVars, memoryVars, writerVars,
         readerVars, bounds, history
<1>3. FilesInv'
      BY FilesFrame DEF IInv, Opening, Used, SaveEnd, Read, WriteIndex, diskVars, memoryVars,
         writerVars, readerVars, bounds, history
<1>4. FlowInv'
      BY FlowFrame DEF IInv, FlowInv, SaveEnd, Read, WriteIndex, diskVars, memoryVars,
         writerVars, readerVars, bounds, history
<1>5. ControlInv'
      BY DEF IInv, TypeOK, ControlInv, Rolling, Locked, Reading, SaveEnd, Read, WriteIndex,
         diskVars, memoryVars, writerVars, readerVars, bounds, history
<1>6. RecordsInv'
      BY RecordsFrame DEF IInv, Tracked, Settled, SaveEnd, Read, WriteIndex, diskVars,
         memoryVars, writerVars, readerVars, bounds, history
<1>7. WritingInv'
      BY WritingFrame DEF IInv, Rolling, SaveEnd, Read, WriteIndex, diskVars, memoryVars,
         writerVars, readerVars, bounds, history
<1>8. QueueInv'
      BY QueueFrame DEF IInv, SaveEnd, Read, WriteIndex, diskVars, memoryVars, writerVars,
         readerVars, bounds, history
<1>9. ConsumingInv'
      BY DEF IInv, ConsumingInv, Reading, SpoolFile, Settled, SaveEnd, Read, diskVars,
         memoryVars, writerVars, readerVars, bounds, history
<1>10. FreshInv'
      BY QueueHoldsFiles, FreshFrame DEF IInv, SaveEnd, Read, diskVars, memoryVars, history
<1>11. IndexInv'
  <2>1. ~Rolling' /\ index' = records' /\ records' \in Seq(Records)
        BY DEF IInv, TypeOK, ControlInv, Rolling, Locked, SaveEnd, WriteIndex, Read, diskVars,
           memoryVars, writerVars, readerVars, bounds, history
  <2> QED BY <1>6, <1>7, <2>1, IndexWritten, NoFileIsNone
<1>12. LossInv'
  <2>1. \A r : Unsent(r)' = Unsent(r)
        BY DEF Unsent, SaveEnd, diskVars
  <2> QED BY <2>1 DEF IInv, LossInv, Settled, SaveEnd, Read, diskVars, memoryVars, writerVars,
             readerVars, bounds, history
<1> QED BY <1>1, <1>2, <1>3, <1>4, <1>5, <1>6, <1>7, <1>8, <1>9, <1>10, <1>11, <1>12 DEF IInv

LEMMA RemoveBeginKeeps ==
    ASSUME IInv, RemoveBegin
    PROVE  IInv'
<1>1. TypeOK'
      BY DEF IInv, TypeOK, Optional, Locked, RemoveBegin, TruncateIndex, Read, diskVars,
         memoryVars, writerVars, readerVars, bounds, history
<1>2. LinesInv'
      BY LinesFrame DEF IInv, RemoveBegin, Read, TruncateIndex, diskVars, memoryVars,
         writerVars, readerVars, bounds, history
<1>3. FilesInv'
      BY FilesFrame DEF IInv, Opening, Used, RemoveBegin, Read, TruncateIndex, diskVars,
         memoryVars, writerVars, readerVars, bounds, history
<1>4. FlowInv'
      BY FlowFrame DEF IInv, FlowInv, RemoveBegin, Read, TruncateIndex, diskVars, memoryVars,
         writerVars, readerVars, bounds, history
<1>5. ControlInv'
      BY DEF IInv, TypeOK, ControlInv, Rolling, Locked, Reading, RemoveBegin, Read,
         TruncateIndex, diskVars, memoryVars, writerVars, readerVars, bounds, history
<1>6. RecordsInv'
      BY RecordsFrame DEF IInv, Tracked, Settled, RemoveBegin, Read, TruncateIndex, diskVars,
         memoryVars, writerVars, readerVars, bounds, history
<1>7. WritingInv'
      BY WritingFrame DEF IInv, Rolling, RemoveBegin, Read, TruncateIndex, diskVars, memoryVars,
         writerVars, readerVars, bounds, history
<1>8. QueueInv'
      BY QueueFrame DEF IInv, RemoveBegin, Read, TruncateIndex, diskVars, memoryVars,
         writerVars, readerVars, bounds, history
<1>9. ConsumingInv'
      BY DEF IInv, ConsumingInv, Reading, SpoolFile, Settled, RemoveBegin, Read, diskVars,
         memoryVars, writerVars, readerVars, bounds, history
<1>10. FreshInv'
      BY QueueHoldsFiles, FreshFrame DEF IInv, RemoveBegin, Read, diskVars, memoryVars, history
<1>11. IndexInv'
  <2>1. index' = <<>> /\ InSave'
        BY DEF InSave, Locked, RemoveBegin, Read, TruncateIndex
  <2> QED BY <2>1, IndexCut
<1>12. LossInv'
  <2>1. \A r : Unsent(r)' = Unsent(r)
        BY DEF Unsent, RemoveBegin, diskVars
  <2> QED BY <2>1 DEF IInv, LossInv, Settled, RemoveBegin, Read, diskVars, memoryVars,
             writerVars, readerVars, bounds, history
<1> QED BY <1>1, <1>2, <1>3, <1>4, <1>5, <1>6, <1>7, <1>8, <1>9, <1>10, <1>11, <1>12 DEF IInv

LEMMA RemoveEndKeeps ==
    ASSUME IInv, RemoveEnd
    PROVE  IInv'
<1>1. TypeOK'
      BY DEF IInv, TypeOK, Optional, Locked, RemoveEnd, WriteIndex, StillPending, Read,
         diskVars, memoryVars, writerVars, readerVars, bounds, history
<1>2. LinesInv'
      BY LinesFrame DEF IInv, RemoveEnd, Read, WriteIndex, diskVars, memoryVars, writerVars,
         readerVars, bounds, history
<1>3. FilesInv'
      BY FilesFrame DEF IInv, Opening, Used, RemoveEnd, Read, WriteIndex, diskVars, memoryVars,
         writerVars, readerVars, bounds, history
<1>4. FlowInv'
  <2>1. buffer # <<>> => records # <<>> /\ pending /\ writing # NoFile
    <3>1. writing # NoFile => Range(records) # {}
          BY DEF IInv, WritingInv
    <3>2. records # <<>> <=> Range(records) # {}
          BY RangeIn DEF IInv, TypeOK
    <3> QED BY <3>1, <3>2 DEF IInv, FlowInv
  <2> QED BY <2>1, FlowFrame DEF IInv, RemoveEnd, StillPending, writerVars, history
<1>5. ControlInv'
      BY DEF IInv, TypeOK, ControlInv, Rolling, Locked, Reading, RemoveEnd, Read, WriteIndex,
         diskVars, memoryVars, writerVars, readerVars, bounds, history
<1>6. RecordsInv'
  <2>1. Listed(records)'
    <3>1. UNCHANGED <<disk, records>> /\ Settled' = Settled
          BY DEF RemoveEnd, Settled, history
    <3>2. \A r \in Range(records) : r.status = "done" => Unsent(r)' \subseteq Settled'
          BY <3>1, SettledGrows DEF IInv, RecordsInv, Listed
    <3>3. Used' = Used /\ \A f : SpoolFile(f)' = SpoolFile(f)
          BY <3>1 DEF Used, SpoolFile
    <3> QED BY <3>1, <3>2, <3>3 DEF IInv, RecordsInv, Listed, Increasing
  <2>2. \A r \in Range(records) : r.file # consuming
        BY DEF IInv, ConsumingInv, RemoveEnd, Read
  <2> QED BY <2>1, <2>2 DEF IInv, RecordsInv, Tracked, SpoolFile, RemoveEnd
<1>7. WritingInv'
      BY WritingFrame DEF IInv, Rolling, RemoveEnd, Read, WriteIndex, diskVars, memoryVars,
         writerVars, readerVars, bounds, history
<1>8. QueueInv'
      BY QueueFrame DEF IInv, RemoveEnd, Read, WriteIndex, diskVars, memoryVars, writerVars,
         readerVars, bounds, history
<1>9. ConsumingInv'
      BY DEF ConsumingInv, Reading, RemoveEnd, Read
<1>10. FreshInv'
      BY QueueHoldsFiles, FreshFrame DEF IInv, RemoveEnd, Read, diskVars, memoryVars, history
<1>11. IndexInv'
  <2>1. ~Rolling' /\ index' = records' /\ records' \in Seq(Records)
        BY DEF IInv, TypeOK, ControlInv, Rolling, Locked, RemoveEnd, WriteIndex, Read, diskVars,
           memoryVars, writerVars, readerVars, bounds, history
  <2> QED BY <1>6, <1>7, <2>1, IndexWritten, NoFileIsNone
<1>12. LossInv'
  <2>1. \A r : Unsent(r)' = Unsent(r)
        BY DEF Unsent, RemoveEnd, diskVars
  <2> QED BY <2>1 DEF IInv, LossInv, Settled, RemoveEnd, Read, diskVars, memoryVars, writerVars,
             readerVars, bounds, history
<1> QED BY <1>1, <1>2, <1>3, <1>4, <1>5, <1>6, <1>7, <1>8, <1>9, <1>10, <1>11, <1>12 DEF IInv

LEMMA RetryKeeps ==
    ASSUME IInv, Retry
    PROVE  IInv'
<1>r. PICK rec \in Range(records) :
         /\ consuming \in Files /\ rec.file = consuming /\ rec.status \in {"pending", "read"}
         /\ \A i \in DOMAIN disk[consuming].lines :
               rec.position < i => disk[consuming].lines[i].event \notin fresh
      BY DEF IInv, ControlInv, QueueInv, Used, ConsumingInv, Reading, Retry, Read
<1>o. /\ alive /\ alive' /\ rpc' = AfterOpen(consuming) /\ consuming' = consuming
      /\ (Rolling' <=> Rolling)
      /\ line' = (IF Record(consuming).position = 0 THEN 0 ELSE Record(consuming).position - 1)
      /\ UNCHANGED <<disk, records, writing, stashed, delivered, fresh, dropped, stranded>>
      BY DEF Retry, Read, Open, AfterOpen, Rolling, IInv, ControlInv, Locked, Read, diskVars,
         memoryVars, writerVars, readerVars, bounds, history
<1>p. /\ rec.position \in Nat /\ Record(consuming) = rec /\ rec \in Range(records)
      /\ line' \in Nat /\ rec.position <= line' + 1 /\ line' <= rec.position
  <2>1. records \in Seq(Records) /\ Increasing(records)
        BY DEF IInv, TypeOK, RecordsInv, Listed
  <2>2. Record(consuming) = rec /\ rec \in Records
        BY <1>r, <2>1, RecordIs
  <2>3. rec.position \in Nat
        BY <2>2 DEF Records
  <2> QED BY <1>r, <1>o, <2>2, <2>3
<1>n. rpc' \in {"exited", "send", "remove"} /\ (rpc' = "send" => SpoolFile(consuming))
      /\ (rpc' = "remove" => ~SpoolFile(consuming))
      BY <1>o DEF AfterOpen, SpoolFile
<1>1. TypeOK'
      BY <1>r, <1>n, <1>p DEF IInv, TypeOK, Optional, Locked, Retry, Open, Read, diskVars,
         memoryVars, writerVars, readerVars, bounds, history
<1>2. LinesInv'
      BY LinesFrame DEF IInv, Retry, Read, diskVars, memoryVars, writerVars, readerVars, bounds,
         history
<1>3. FilesInv'
      BY FilesFrame DEF IInv, Opening, Used, Retry, Read, diskVars, memoryVars, writerVars,
         readerVars, bounds, history
<1>4. FlowInv'
      BY FlowFrame DEF IInv, FlowInv, Retry, Read, diskVars, memoryVars, writerVars, readerVars,
         bounds, history
<1>5. ControlInv'
      BY <1>o, <1>n DEF IInv, TypeOK, ControlInv, Locked, Reading, Retry, Read, diskVars,
         memoryVars, writerVars, readerVars, bounds, history
<1>6. RecordsInv'
      BY <1>o, RecordsFrame DEF IInv, Tracked, Settled, Retry, memoryVars
<1>7. WritingInv'
      BY <1>o, WritingFrame DEF IInv, ControlInv, Rolling, Locked, Retry, Read, diskVars,
         memoryVars, writerVars, readerVars, bounds, history
<1>8. QueueInv'
      BY <1>o, QueueFrame DEF IInv, Retry, memoryVars
<1>9. ConsumingInv'
  <2>1. CASE rpc' = "send"
    <3>1. SpoolFile(consuming)' /\ rec \in Range(records') /\ rec.file = consuming'
          /\ rec.status \in {"pending", "read"} /\ rec.position <= line' + 1
          BY <1>r, <1>o, <1>p, <1>n, <2>1 DEF SpoolFile
    <3>2. disk'[consuming'] = disk[consuming] /\ DOMAIN disk[consuming].lines \subseteq Nat
      <4>1. disk[consuming].lines \in Seq(Lines)
            BY <1>r DEF IInv, TypeOK, LogFiles
      <4> QED BY <1>o, <4>1
    <3>3. \A i \in DOMAIN disk[consuming].lines : rec.position < i => ~(i <= line')
          BY <1>p, <3>2
    <3>4. \A i \in DOMAIN disk[consuming].lines :
             rec.position < i => disk[consuming].lines[i].event \notin fresh
          BY <1>r
    <3> QED BY <1>o, <2>1, <3>1, <3>2, <3>3, <3>4 DEF ConsumingInv, Reading
  <2>2. CASE rpc' = "remove"
        BY <1>r, <1>o, <1>p, <1>n, <2>2 DEF ConsumingInv, SpoolFile, Reading
  <2>3. CASE rpc' = "exited"
        BY <2>3 DEF ConsumingInv, Reading
  <2> QED BY <1>n, <2>1, <2>2, <2>3
<1>10. FreshInv'
      BY QueueHoldsFiles, FreshFrame DEF IInv, Retry, Read, diskVars, memoryVars, history
<1>11. IndexInv'
      BY <1>o, <1>n, IndexFrame DEF IInv, ControlInv, InSave, Locked, Settled, Retry, Read,
         diskVars, memoryVars, writerVars, readerVars, bounds, history
<1>12. LossInv'
      BY LossFrame DEF IInv, Settled, Retry, Read, diskVars, memoryVars, writerVars, readerVars,
         bounds, history
<1> QED BY <1>1, <1>2, <1>3, <1>4, <1>5, <1>6, <1>7, <1>8, <1>9, <1>10, <1>11, <1>12 DEF IInv

LEMMA PollKeeps ==
    ASSUME IInv, Poll
    PROVE  IInv'
<1>q. /\ queue # <<>> /\ queue \in Seq(Files) /\ queue' = Tail(queue) /\ consuming = NoFile
      BY DEF IInv, TypeOK, ControlInv, Poll, Read
<1>h. /\ Head(queue) \in Files /\ Tail(queue) \in Seq(Files)
      /\ Len(queue) \in Nat \ {0} /\ Len(Tail(queue)) = Len(queue) - 1 /\ Head(queue) = queue[1]
      /\ \A i \in DOMAIN Tail(queue) : i + 1 \in DOMAIN queue /\ Tail(queue)[i] = queue[i + 1]
      /\ Range(queue) = {Head(queue)} \cup Range(Tail(queue))
      BY <1>q, HeadAndTail
<1>r. PICK rec \in Range(records) :
         Head(queue) \in Files /\ rec.file = Head(queue) /\ rec.status \in {"pending", "read"}
      BY <1>h DEF IInv, QueueInv
<1>o. /\ alive /\ alive' /\ rpc' = AfterOpen(Head(queue)) /\ consuming' = Head(queue)
      /\ (Rolling' <=> Rolling)
      /\ line' = (IF Record(Head(queue)).position = 0 THEN 0 ELSE Record(Head(queue)).position - 1)
      /\ UNCHANGED <<disk, records, writing, stashed, delivered, fresh, dropped, stranded>>
      BY DEF Poll, Read, Open, AfterOpen, Rolling, IInv, ControlInv, Locked, Read, diskVars,
         memoryVars, writerVars, readerVars, bounds, history
<1>p. /\ rec.position \in Nat /\ Record(Head(queue)) = rec /\ rec \in Range(records)
      /\ line' \in Nat /\ rec.position <= line' + 1 /\ line' <= rec.position
  <2>1. records \in Seq(Records) /\ Increasing(records)
        BY DEF IInv, TypeOK, RecordsInv, Listed
  <2>2. Record(Head(queue)) = rec /\ rec \in Records
        BY <1>r, <2>1, RecordIs
  <2>3. rec.position \in Nat
        BY <2>2 DEF Records
  <2> QED BY <1>r, <1>o, <2>2, <2>3
<1>n. rpc' \in {"exited", "send", "remove"} /\ (rpc' = "send" => SpoolFile(Head(queue)))
      /\ (rpc' = "remove" => ~SpoolFile(Head(queue)))
      BY <1>o DEF AfterOpen, SpoolFile
<1>s. Head(queue) # NoFile /\ Head(queue) \in Used /\ Head(queue) # writing
      BY <1>h, <1>r, NoFileIsNone DEF IInv, RecordsInv, Listed, WritingInv
<1>1. TypeOK'
      BY <1>h, <1>q, <1>n, <1>o, <1>p DEF IInv, TypeOK, Optional, Locked, Poll, Read, diskVars,
         memoryVars, writerVars, readerVars, bounds, history
<1>2. LinesInv'
      BY LinesFrame DEF IInv, Poll, Read, diskVars, memoryVars, writerVars, readerVars, bounds,
         history
<1>3. FilesInv'
      BY FilesFrame DEF IInv, Opening, Used, Poll, Read, diskVars, memoryVars, writerVars,
         readerVars, bounds, history
<1>4. FlowInv'
      BY FlowFrame DEF IInv, FlowInv, Poll, Read, diskVars, memoryVars, writerVars, readerVars,
         bounds, history
<1>5. ControlInv'
      BY <1>o, <1>n, <1>s DEF IInv, TypeOK, ControlInv, Locked, Reading, Poll, Read, diskVars,
         memoryVars, writerVars, readerVars, bounds, history
<1>6. RecordsInv'
  <2>1. Tracked \subseteq Tracked' /\ Settled' = Settled
        BY <1>h, <1>q, <1>o, <1>s DEF Tracked, Settled
  <2> QED BY <1>o, <2>1, RecordsFrame DEF IInv
<1>7. WritingInv'
  <2>1. \A r : SpoolFile(r)' = SpoolFile(r)
        BY <1>o DEF SpoolFile
  <2> QED BY <1>h, <1>q, <1>o, <1>s, <2>1 DEF IInv, WritingInv, Used
<1>8. QueueInv'
  <2>1. DOMAIN Tail(queue) = 1 .. Len(queue) - 1 /\ DOMAIN queue = 1 .. Len(queue)
        BY <1>h, <1>q
  <2>2. Sorted(Tail(queue))
    <3> SUFFICES ASSUME NEW i \in DOMAIN Tail(queue), NEW j \in DOMAIN Tail(queue), i < j
                 PROVE  Tail(queue)[i] < Tail(queue)[j]
        BY DEF Sorted
    <3>1. i + 1 < j + 1
          BY <2>1
    <3> QED BY <1>h, <3>1 DEF IInv, QueueInv, Sorted
  <2>3. \A i \in DOMAIN Tail(queue) : Head(queue) < Tail(queue)[i]
    <3> TAKE i \in DOMAIN Tail(queue)
    <3>1. 1 < i + 1 /\ 1 \in DOMAIN queue /\ i + 1 \in DOMAIN queue
          BY <1>h, <2>1
    <3> QED BY <1>h, <3>1 DEF IInv, QueueInv, Sorted
  <2>4. Before({Head(queue)}, Range(Tail(queue)))
        BY <2>3 DEF Before, Range
  <2>5. Used' = Used
        BY <1>o DEF Used
  <2> QED BY <1>h, <1>q, <1>o, <1>s, <2>2, <2>4, <2>5 DEF IInv, QueueInv
<1>9. ConsumingInv'
  <2>1. CASE rpc' = "send"
    <3>1. SpoolFile(consuming)' /\ rec \in Range(records') /\ rec.file = consuming'
          /\ rec.status \in {"pending", "read"} /\ rec.position <= line' + 1
          BY <1>r, <1>o, <1>p, <1>n, <2>1 DEF SpoolFile
    <3>2. disk'[consuming'] = disk[Head(queue)] /\ DOMAIN disk[Head(queue)].lines \subseteq Nat
      <4>1. disk[Head(queue)].lines \in Seq(Lines)
            BY <1>r DEF IInv, TypeOK, LogFiles
      <4> QED BY <1>o, <4>1
    <3>3. \A i \in DOMAIN disk[Head(queue)].lines : rec.position < i => ~(i <= line')
          BY <1>p, <3>2
    <3>4. \A i \in DOMAIN disk[Head(queue)].lines :
             rec.position < i => disk[Head(queue)].lines[i].event \notin fresh
          BY <1>h DEF IInv, FreshInv, EventsOf, EventsIn
    <3> QED BY <1>o, <2>1, <3>1, <3>2, <3>3, <3>4 DEF ConsumingInv, Reading
  <2>2. CASE rpc' = "remove"
        BY <1>r, <1>o, <1>p, <1>n, <2>2 DEF ConsumingInv, SpoolFile, Reading
  <2>3. CASE rpc' = "exited"
        BY <2>3 DEF ConsumingInv, Reading
  <2> QED BY <1>n, <2>1, <2>2, <2>3
<1>10. FreshInv'
      BY <1>q, <1>h, <1>o, QueueHoldsFiles, FreshFrame DEF IInv
<1>11. IndexInv'
      BY <1>o, <1>n, IndexFrame DEF IInv, ControlInv, InSave, Locked, Settled, Poll, Read,
         diskVars, memoryVars, writerVars, readerVars, bounds, history
<1>12. LossInv'
      BY LossFrame DEF IInv, Settled, Poll, Read, diskVars, memoryVars, writerVars, readerVars,
         bounds, history
<1> QED BY <1>1, <1>2, <1>3, <1>4, <1>5, <1>6, <1>7, <1>8, <1>9, <1>10, <1>11, <1>12 DEF IInv

LEMMA LesserOfTwo ==
    ASSUME NEW a \in Nat, NEW b \in Nat
    PROVE  Min({a, b}) \in {a, b} /\ Min({a, b}) <= a /\ Min({a, b}) <= b
<1>1. \E x \in {a, b} : \A y \in {a, b} : x <= y
      OBVIOUS
<1> QED BY <1>1 DEF Min

(* The batch is what follows the lines read so far.                        *)
LEMMA BatchIs ==
    ASSUME TypeOK, consuming \in Files
    PROVE  /\ Batch \in Seq(Lines) /\ Len(Batch) \in Nat /\ (Batch # <<>> => Len(Batch) > 0)
           /\ \A i \in DOMAIN disk[consuming].lines :
                 line < i /\ i <= line + Len(Batch) => disk[consuming].lines[i] \in Range(Batch)
           /\ \A l \in Range(Batch) : l # Garbage =>
                 \E i \in DOMAIN disk[consuming].lines :
                    line < i /\ i <= line + Len(Batch) /\ l = disk[consuming].lines[i]
           /\ Batch = <<>> => Len(disk[consuming].lines) <= line
<1> DEFINE lines == disk[consuming].lines
           tail == IF disk[consuming].torn THEN <<Garbage>> ELSE <<>>
           file == lines \o tail
           last == Min({line + MaxBatch, Len(file)})
<1>1. lines \in Seq(Lines) /\ Garbage \in Lines /\ line \in Nat /\ MaxBatch \in Nat \ {0}
  <2>1. disk[consuming] \in LogFiles /\ line \in Nat
        BY DEF TypeOK
  <2>2. 0 \in 0 .. MaxEvents /\ MaxBatch \in Nat \ {0}
        BY SpoolAssumption
  <2> QED BY <2>1, <2>2 DEF LogFiles, Garbage, Lines
<1>2. tail \in Seq(Lines) /\ Len(tail) \in Nat /\ \A j \in DOMAIN tail : tail[j] = Garbage
      BY <1>1
<1>3. Batch = SubSeq(file, line + 1, last)
      BY DEF Batch
<1> HIDE DEF lines, tail
<1>4. /\ file \in Seq(Lines) /\ Len(file) = Len(lines) + Len(tail)
      /\ Len(file) \in Nat /\ Len(lines) \in Nat /\ DOMAIN lines = 1 .. Len(lines)
      /\ DOMAIN tail = 1 .. Len(tail)
      /\ \A i \in 1 .. Len(lines) : file[i] = lines[i]
      /\ \A j \in 1 .. Len(tail) : file[Len(lines) + j] = tail[j]
      BY <1>1, <1>2
<1>5. \A i \in 1 .. Len(lines) + Len(tail) :
         i \in 1 .. Len(lines) \/ \E j \in 1 .. Len(tail) : i = Len(lines) + j
      BY <1>2, <1>4, Shift
<1> HIDE DEF file
<1>6. last \in {line + MaxBatch, Len(file)} /\ last <= line + MaxBatch /\ last <= Len(file)
      BY <1>1, <1>4, LesserOfTwo
<1>7. last \in Nat
      BY <1>1, <1>4, <1>6
<1> HIDE DEF last
<1>8. /\ Batch \in Seq(Lines) /\ Len(Batch) = (IF line + 1 <= last THEN last - line ELSE 0)
      /\ \A k \in 1 .. Len(Batch) : Batch[k] = file[line + k]
      BY <1>1, <1>3, <1>4, <1>6, <1>7
<1>9. /\ DOMAIN Batch = 1 .. Len(Batch) /\ Len(Batch) \in Nat
      /\ (Batch = <<>> <=> Len(Batch) = 0)
      BY <1>8
<1>10. ASSUME NEW i \in DOMAIN lines, line < i, i <= line + Len(Batch)
       PROVE  lines[i] \in Range(Batch)
  <2>1. i - line \in 1 .. Len(Batch) /\ line + (i - line) = i
        BY <1>1, <1>4, <1>9, <1>10
  <2>2. Batch[i - line] = lines[i]
        BY <1>4, <1>8, <2>1
  <2> QED BY <1>9, <2>1, <2>2 DEF Range
<1>11. ASSUME NEW l \in Range(Batch), l # Garbage
       PROVE  \E i \in DOMAIN lines : line < i /\ i <= line + Len(Batch) /\ l = lines[i]
  <2>1. PICK k \in 1 .. Len(Batch) : l = Batch[k]
        BY <1>9 DEF Range
  <2>2. /\ line + k \in 1 .. Len(lines) + Len(tail) /\ l = file[line + k]
        /\ line < line + k /\ line + k <= line + Len(Batch)
        BY <1>1, <1>4, <1>6, <1>7, <1>8, <1>9, <2>1
  <2>3. CASE line + k \in 1 .. Len(lines)
        BY <1>4, <2>2, <2>3
  <2>4. CASE \E j \in 1 .. Len(tail) : line + k = Len(lines) + j
        BY <1>2, <1>4, <1>11, <2>2, <2>4
  <2> QED BY <1>5, <2>2, <2>3, <2>4
<1>12. Batch = <<>> => Len(lines) <= line
       BY <1>1, <1>2, <1>4, <1>6, <1>7, <1>8, <1>9
<1> QED BY <1>8, <1>9, <1>10, <1>11, <1>12 DEF lines

(* The events of the batch are settled, whatever becomes of them.          *)
LEMMA SentIs ==
    ASSUME TypeOK, LinesInv, consuming \in Files
    PROVE  /\ \A e \in Sent(TRUE) \cup Sent(FALSE) :
                 \E i \in DOMAIN disk[consuming].lines :
                    line < i /\ i <= line + Len(Batch) /\ e = disk[consuming].lines[i].event
           /\ \A i \in DOMAIN disk[consuming].lines :
                 line < i /\ i <= line + Len(Batch)
                    => disk[consuming].lines[i].event \in Sent(TRUE) \cup Sent(FALSE)
           /\ Sent(TRUE) \cup Sent(FALSE) \subseteq EventsOf(consuming)
           /\ EventsOf(consuming) \subseteq stashed
<1>1. EventsOf(consuming) \subseteq stashed /\ 0 \notin stashed
      BY SpoolAssumption DEF TypeOK, LinesInv, Events
<1>2. ASSUME NEW e \in Sent(TRUE) \cup Sent(FALSE)
      PROVE  \E i \in DOMAIN disk[consuming].lines :
                 line < i /\ i <= line + Len(Batch) /\ e = disk[consuming].lines[i].event
  <2>1. PICK l \in Range(Batch) : e = l.event /\ e # 0
        BY DEF Sent
  <2>2. l # Garbage
        BY <2>1 DEF Garbage
  <2> QED BY <2>1, <2>2, BatchIs
<1>3. ASSUME NEW i \in DOMAIN disk[consuming].lines, line < i, i <= line + Len(Batch)
      PROVE  disk[consuming].lines[i].event \in Sent(TRUE) \cup Sent(FALSE)
  <2>1. disk[consuming].lines[i] \in Range(Batch) /\ disk[consuming].lines[i] \in Lines
        BY <1>3, BatchIs, RangeIn
  <2>2. disk[consuming].lines[i].event # 0
        BY <1>1 DEF EventsOf, EventsIn
  <2>3. disk[consuming].lines[i].good \in BOOLEAN
        BY <2>1 DEF Lines
  <2> QED BY <2>1, <2>2, <2>3 DEF Sent
<1>4. \A e \in Sent(TRUE) \cup Sent(FALSE) : e \in EventsOf(consuming)
      BY <1>2 DEF EventsOf, EventsIn
<1> QED BY <1>1, <1>2, <1>3, <1>4

LEMMA SendThrowsKeeps ==
    ASSUME IInv, SendThrows
    PROVE  IInv'
<1>1a. /\ rpc = "send" /\ rpc' = "send" /\ line' = line + Len(Batch)
       /\ dropped' = dropped \cup Sent(TRUE) \cup Sent(FALSE)
       /\ UNCHANGED <<disk, records, consuming, fresh, delivered, stranded, stashed>>
       BY DEF SendThrows, Read, diskVars, memoryVars
<1>1b. PICK rec \in Range(records) :
          /\ rec.file = consuming /\ rec.status \in {"pending", "read"} /\ rec.position <= line + 1
          /\ \A i \in DOMAIN disk[consuming].lines :
                /\ rec.position < i /\ i <= line => disk[consuming].lines[i].event \in Settled
                /\ rec.position < i => disk[consuming].lines[i].event \notin fresh
       BY <1>1a DEF IInv, ConsumingInv, Reading
<1>1c. consuming \in Files /\ SpoolFile(consuming) /\ TypeOK /\ LinesInv
       BY <1>1a DEF IInv, ControlInv, QueueInv, ConsumingInv, Used, Reading
<1>1d. /\ line \in Nat /\ Len(Batch) \in Nat /\ DOMAIN disk[consuming].lines \subseteq Nat
  <2>1. disk[consuming].lines \in Seq(Lines)
        BY <1>1c DEF TypeOK, LogFiles
  <2> QED BY <1>1c, <2>1, BatchIs DEF TypeOK
<1>1e. rec.position \in Nat
  <2>1. rec \in Records
        BY <1>1c, RangeIn DEF TypeOK
  <2> QED BY <2>1 DEF Records
<1>1f. Settled \subseteq Settled' /\ Sent(TRUE) \cup Sent(FALSE) \subseteq Settled'
       BY <1>1a DEF Settled
<1>1. TypeOK'
  <2>1. dropped' \subseteq stashed /\ line' \in Nat
    <3>1. Sent(TRUE) \cup Sent(FALSE) \subseteq stashed
          BY <1>1c, SentIs, Zenon
    <3>2. dropped \subseteq stashed
          BY <1>1c DEF TypeOK
    <3>3. dropped' \subseteq stashed
          BY <1>1a, <3>1, <3>2, Zenon
    <3>4. line' \in Nat
          BY <1>1a, <1>1d
    <3> QED BY <3>3, <3>4
  <2>2. faults' \in Nat
        BY <1>1c DEF TypeOK, SendThrows, Fault
  <2>3. UNCHANGED <<diskVars, memoryVars, consuming, writerVars, crashes, stashed, delivered,
                    fresh, stranded>>
        BY DEF SendThrows
  <2> QED BY <1>1a, <1>1c, <2>1, <2>2, <2>3 DEF TypeOK, diskVars, memoryVars, writerVars
<1>2. LinesInv'
      BY LinesFrame DEF IInv, SendThrows, Read, Fault, diskVars, memoryVars, writerVars,
         readerVars, bounds, history
<1>3. FilesInv'
      BY FilesFrame DEF IInv, Opening, Used, SendThrows, Read, Fault, diskVars, memoryVars,
         writerVars, readerVars, bounds, history
<1>4. FlowInv'
      BY FlowFrame DEF IInv, FlowInv, SendThrows, Read, Fault, diskVars, memoryVars, writerVars,
         readerVars, bounds, history
<1>5. ControlInv'
      BY DEF IInv, TypeOK, ControlInv, Rolling, Locked, Reading, SendThrows, Read, Fault,
         diskVars, memoryVars, writerVars, readerVars, bounds, history
<1>6. RecordsInv'
      BY <1>1a, <1>1f, RecordsFrame DEF IInv, Tracked, SendThrows, memoryVars
<1>7. WritingInv'
      BY WritingFrame DEF IInv, Rolling, SendThrows, Read, Fault, diskVars, memoryVars,
         writerVars, readerVars, bounds, history
<1>8. QueueInv'
      BY QueueFrame DEF IInv, SendThrows, Read, Fault, diskVars, memoryVars, writerVars,
         readerVars, bounds, history
<1>9. ConsumingInv'
  <2>1. ASSUME NEW i \in DOMAIN disk[consuming].lines, rec.position < i, i <= line'
        PROVE  disk[consuming].lines[i].event \in Settled'
    <3>1. CASE i <= line
          BY <1>1b, <1>1f, <2>1, <3>1
    <3>2. CASE line < i
          BY <1>1a, <1>1c, <1>1f, <2>1, <3>2, SentIs
    <3> QED BY <1>1d, <3>1, <3>2
  <2>2. rec.position <= line' + 1
        BY <1>1a, <1>1b, <1>1d, <1>1e
  <2> QED BY <1>1a, <1>1b, <1>1c, <2>1, <2>2 DEF ConsumingInv, SpoolFile
<1>10. FreshInv'
      BY QueueHoldsFiles, FreshFrame DEF IInv, SendThrows, Read, diskVars, memoryVars, history
<1>11. IndexInv'
      BY <1>1f, IndexFrame DEF IInv, InSave, Locked, SendThrows, Read, diskVars, memoryVars,
         writerVars, readerVars, bounds, history
<1>12. LossInv'
      BY <1>1f, LossFrame DEF IInv, SendThrows, diskVars, memoryVars
<1> QED BY <1>1, <1>2, <1>3, <1>4, <1>5, <1>6, <1>7, <1>8, <1>9, <1>10, <1>11, <1>12 DEF IInv

LEMMA SendAcceptedKeeps ==
    ASSUME IInv, SendAccepted
    PROVE  IInv'
<1>1a. /\ alive /\ rpc = "send" /\ rpc' = "ack" /\ line' = line + Len(Batch)
       /\ delivered' = delivered \cup Sent(TRUE) /\ fresh' = fresh \cup Sent(TRUE)
       /\ dropped' = dropped \cup Sent(FALSE)
       /\ Batch # <<>>
       /\ records' = Updated(consuming,
                [Record(consuming) EXCEPT !.status = "read", !.position = line'])
       /\ UNCHANGED <<disk, index, queue, writing, buffer, pending, drain, alive, consuming,
                      wpc, todo, next, faults, crashes, stashed, stranded>>
       BY DEF SendAccepted, Read, diskVars, writerVars, bounds, history
<1>1b. /\ consuming \in Files /\ consuming \in Used /\ SpoolFile(consuming)
       /\ TypeOK /\ LinesInv /\ records \in Seq(Records) /\ Increasing(records)
       /\ Range(records) \subseteq Records
       BY <1>1a, RangeIn DEF IInv, TypeOK, ControlInv, QueueInv, ConsumingInv, Used, Reading,
             RecordsInv, Listed
<1>1c. PICK old \in Range(records) :
          /\ old.file = consuming /\ old.status \in {"pending", "read"} /\ old.position <= line + 1
          /\ \A i \in DOMAIN disk[consuming].lines :
                /\ old.position < i /\ i <= line => disk[consuming].lines[i].event \in Settled
                /\ old.position < i => disk[consuming].lines[i].event \notin fresh
       BY <1>1a DEF IInv, ConsumingInv, Reading
<1>1d. /\ old \in Records /\ old.position \in Nat /\ Record(consuming) = old
       /\ \A r \in Range(records) : r.file = consuming => r = old
  <2>1. old \in Records
        BY <1>1b
  <2>2. Record(consuming) = old
        BY <1>1b, <1>1c, RecordIs
  <2>3. \A r \in Range(records) : r.file = consuming => r = old
        BY <1>1b, <1>1c, OneRecord
  <2> QED BY <2>1, <2>2, <2>3 DEF Records
<1>1e. /\ line \in Nat /\ Len(Batch) \in Nat /\ (Batch # <<>> => Len(Batch) > 0)
       /\ disk[consuming].lines \in Seq(Lines) /\ DOMAIN disk[consuming].lines \subseteq Nat
  <2>1. disk[consuming].lines \in Seq(Lines)
        BY <1>1b DEF TypeOK, LogFiles
  <2> QED BY <1>1b, <2>1, BatchIs DEF TypeOK
<1>1f. line' \in Nat /\ old.position <= line' /\ line < line'
       BY <1>1a, <1>1c, <1>1d, <1>1e
<1>1g. PICK new \in Records :
          /\ new = [old EXCEPT !.status = "read", !.position = line']
          /\ new.file = consuming /\ new.position = line' /\ new.status = "read"
  <2> DEFINE n == [old EXCEPT !.status = "read", !.position = line']
  <2>1. n \in Records /\ n.file = old.file /\ n.position = line' /\ n.status = "read"
        BY <1>1d, <1>1f DEF Records
  <2>2. n = [old EXCEPT !.status = "read", !.position = line']
        OBVIOUS
  <2> HIDE DEF n
  <2> QED BY <1>1c, <2>1, <2>2
<1>1h. /\ records' \in Seq(Records) /\ Increasing(records')
       /\ Range(records') = (Range(records) \ {old}) \cup {new}
  <2>1. records' = Updated(old.file, new)
        BY <1>1a, <1>1c, <1>1d, <1>1g
  <2> QED BY <1>1b, <1>1c, <1>1g, <2>1, UpdatedIs
<1>1i. /\ Used' = Used /\ (\A f : SpoolFile(f)' = SpoolFile(f)) /\ (\A r : Unsent(r)' = Unsent(r))
       /\ \A f : EventsOf(f)' = EventsOf(f)
       BY <1>1a DEF Used, SpoolFile, Unsent, EventsOf
<1>1j. Tracked' = Tracked /\ (Rolling' <=> Rolling)
       BY <1>1a DEF Tracked, Rolling, IInv, ControlInv, WritingInv
<1>1k. Settled \subseteq Settled' /\ Sent(TRUE) \cup Sent(FALSE) \subseteq Settled'
       BY <1>1a DEF Settled
<1>1l. /\ \A i \in DOMAIN disk[consuming].lines :
             line < i /\ i <= line' => disk[consuming].lines[i].event \in Settled'
       /\ Sent(TRUE) \subseteq EventsOf(consuming) /\ Sent(TRUE) \cup Sent(FALSE) \subseteq stashed
       /\ \A e \in Sent(TRUE) : \E i \in DOMAIN disk[consuming].lines :
             line < i /\ i <= line' /\ e = disk[consuming].lines[i].event
  <2>1. /\ \A e \in Sent(TRUE) \cup Sent(FALSE) :
              \E i \in DOMAIN disk[consuming].lines :
                 line < i /\ i <= line + Len(Batch) /\ e = disk[consuming].lines[i].event
        /\ \A i \in DOMAIN disk[consuming].lines :
              line < i /\ i <= line + Len(Batch)
                 => disk[consuming].lines[i].event \in Sent(TRUE) \cup Sent(FALSE)
        /\ Sent(TRUE) \cup Sent(FALSE) \subseteq EventsOf(consuming)
        /\ EventsOf(consuming) \subseteq stashed
        BY <1>1b, SentIs, Zenon
  <2> QED BY <1>1a, <1>1k, <2>1, Zenon
<1>1m. /\ \A f \in Range(queue) : f \in Files /\ consuming < f
       /\ writing # NoFile => writing \in Files /\ consuming < writing
  <2>1. \A f \in Range(queue) : f \in Files /\ consuming < f
        BY <1>1b, RangeIn, NoFileIsNone DEF IInv, TypeOK, QueueInv, Before
  <2>2. ASSUME writing # NoFile
        PROVE  writing \in Files /\ consuming < writing
    <3>1. writing \in Files /\ consuming <= writing /\ consuming # writing
          BY <1>1b, <2>2 DEF TypeOK, Optional, IInv, WritingInv
    <3>2. writing \in Nat /\ consuming \in Nat
          BY <1>1b, <3>1, SpoolAssumption DEF Files
    <3> QED BY <3>1, <3>2
  <2> QED BY <2>1, <2>2
<1>1. TypeOK'
  <2>1. delivered' \subseteq stashed /\ fresh' \subseteq delivered' /\ dropped' \subseteq stashed
    <3>1. delivered \subseteq stashed /\ fresh \subseteq delivered /\ dropped \subseteq stashed
          BY <1>1b DEF TypeOK
    <3> QED BY <1>1a, <1>1l, <3>1, Zenon
  <2>2. /\ rpc' = "ack"
        /\ UNCHANGED <<disk, index, queue, writing, buffer, pending, drain, alive, consuming, wpc,
                       todo, next, faults, crashes, stashed, stranded>>
        BY <1>1a
  <2> QED BY <1>1b, <1>1f, <1>1h, <2>1, <2>2 DEF TypeOK
<1>2. LinesInv'
      BY <1>1a, <1>1b, LinesFrame
<1>3. FilesInv'
      BY <1>1a, <1>1i, FilesFrame DEF IInv, Opening
<1>4. FlowInv'
      BY <1>1a, FlowFrame DEF IInv, FlowInv
<1>5. ControlInv'
      BY <1>1a, <1>1b, <1>1j, NoFileIsNone DEF IInv, TypeOK, ControlInv, Locked, Reading
<1>6. RecordsInv'
  <2>1. \A r \in Range(records') : r = new \/ (r \in Range(records) /\ r # old)
        BY <1>1h
  <2>2. \A r \in Range(records') : r.file \in Used'
        BY <1>1b, <1>1g, <1>1i, <2>1 DEF IInv, RecordsInv, Listed
  <2>3. \A r, q \in Range(records') :
           r.status = "read" /\ q.status = "pending" /\ SpoolFile(q.file)' => r.file < q.file
    <3> SUFFICES ASSUME NEW r \in Range(records'), NEW q \in Range(records'),
                        r.status = "read", q.status = "pending", SpoolFile(q.file)
                 PROVE  r.file < q.file
        BY <1>1i
    <3>1. q \in Range(records) /\ q # old
          BY <1>1g, <2>1
    <3>2. CASE r = new
      <4>1. q.file \in Tracked /\ q.file # consuming
            BY <1>1d, <3>1 DEF IInv, RecordsInv
      <4>2. q.file \in Range(queue) \/ (q.file = writing /\ writing # NoFile)
            BY <4>1 DEF Tracked
      <4> QED BY <1>1g, <1>1m, <3>2, <4>2
    <3>3. CASE r \in Range(records)
          BY <3>1, <3>3 DEF IInv, RecordsInv, Listed
    <3> QED BY <2>1, <3>2, <3>3
  <2>4. \A r \in Range(records') : r.status = "done" => Unsent(r)' \subseteq Settled'
        BY <1>1g, <1>1i, <1>1k, <2>1 DEF IInv, RecordsInv, Listed
  <2>5. \A r \in Range(records') : r.status = "write" => r \in Range(records)
        BY <1>1g, <2>1
  <2>6. Listed(records)'
        BY <1>1h, <1>1i, <2>2, <2>3, <2>4, <2>5 DEF IInv, RecordsInv, Listed
  <2>7. \A r \in Range(records') :
           r.status \in {"pending", "read"} /\ SpoolFile(r.file)' => r.file \in Tracked'
    <3> TAKE r \in Range(records')
    <3>1. CASE r = new
      <4>1. consuming \in Tracked
            BY <1>1b, NoFileIsNone DEF Tracked
      <4> QED BY <1>1g, <1>1j, <3>1, <4>1
    <3>2. CASE r \in Range(records)
          BY <1>1i, <1>1j, <3>2 DEF IInv, RecordsInv
    <3> QED BY <2>1, <3>1, <3>2
  <2> QED BY <1>1a, <1>1i, <2>5, <2>6, <2>7 DEF IInv, RecordsInv
<1>7. WritingInv'
  <2>1. \A r \in Range(records) : r.file # consuming => r \in Range(records')
        BY <1>1c, <1>1h
  <2> QED BY <1>1a, <1>1i, <1>1j, <2>1 DEF IInv, WritingInv
<1>8. QueueInv'
  <2>1. \A f \in Range(queue) : \E r \in Range(records') :
           r.file = f /\ r.status \in {"pending", "read"}
    <3> TAKE f \in Range(queue)
    <3>1. PICK r \in Range(records) : r.file = f /\ r.status \in {"pending", "read"}
          BY DEF IInv, QueueInv
    <3>2. CASE r = old
          BY <1>1c, <1>1g, <1>1h, <3>1, <3>2
    <3>3. CASE r # old
          BY <1>1h, <3>1, <3>3
    <3> QED BY <3>2, <3>3
  <2> QED BY <1>1a, <1>1i, <2>1 DEF IInv, QueueInv
<1>9. ConsumingInv'
  <2>1. \A i \in DOMAIN disk[consuming].lines : line' < i => ~(i <= line')
        BY <1>1e, <1>1f
  <2>2. \A i \in DOMAIN disk[consuming].lines :
           line' < i => disk[consuming].lines[i].event \notin fresh'
    <3> SUFFICES ASSUME NEW i \in DOMAIN disk[consuming].lines, line' < i,
                        disk[consuming].lines[i].event \in fresh'
                 PROVE  FALSE
        OBVIOUS
    <3>1. disk[consuming].lines[i].event \notin fresh
          BY <1>1c, <1>1d, <1>1e, <1>1f
    <3>2. disk[consuming].lines[i].event \in Sent(TRUE)
          BY <1>1a, <3>1, Zenon
    <3>3. PICK j \in DOMAIN disk[consuming].lines :
             j <= line' /\ disk[consuming].lines[i].event = disk[consuming].lines[j].event
          BY <1>1l, <3>2
    <3>4. j < i /\ disk[consuming].lines[j].event < disk[consuming].lines[i].event
          BY <1>1b, <1>1e, <1>1f, <3>3 DEF LinesInv
    <3>5. disk[consuming].lines[i] \in Lines
          BY <1>1e
    <3>6. disk[consuming].lines[i].event \in Nat
          BY <3>5, SpoolAssumption DEF Lines
    <3> QED BY <3>3, <3>4, <3>6
  <2>3. new \in Range(records') /\ new.position <= line' + 1
        BY <1>1f, <1>1g, <1>1h
  <2>4. UNCHANGED <<disk, consuming>> /\ rpc' = "ack" /\ SpoolFile(consuming)'
        BY <1>1a, <1>1b DEF SpoolFile
  <2> QED BY <1>1g, <2>1, <2>2, <2>3, <2>4 DEF ConsumingInv
<1>10. FreshInv'
  <2>1. \A f \in Files : consuming < f => EventsOf(f) \cap EventsOf(consuming) = {}
    <3> SUFFICES ASSUME NEW f \in Files, consuming < f, NEW e \in EventsOf(f),
                        e \in EventsOf(consuming)
                 PROVE  FALSE
        OBVIOUS
    <3>1. e < e
          BY <1>1b DEF LinesInv, Before
    <3>2. e \in Nat
      <4>1. e \in stashed
            BY <1>1b DEF LinesInv
      <4>2. e \in Events
            BY <1>1b, <4>1 DEF TypeOK
      <4> QED BY <4>2, SpoolAssumption DEF Events
    <3> QED BY <3>1, <3>2
  <2>2. \A f \in Range(queue) \cup ({writing} \ {NoFile}) :
           f \in Files /\ consuming < f /\ EventsOf(f) \cap fresh = {}
        BY <1>1m DEF IInv, FreshInv
  <2>3. \A f \in Range(queue) \cup ({writing} \ {NoFile}) : EventsOf(f) \cap Sent(TRUE) = {}
        BY <1>1l, <2>1, <2>2, Zenon
  <2>4. \A f \in Range(queue) \cup ({writing} \ {NoFile}) :
           EventsOf(f) \cap (fresh \cup Sent(TRUE)) = {}
        BY <2>2, <2>3, Zenon
  <2>5. UNCHANGED <<queue, writing>> /\ fresh' = fresh \cup Sent(TRUE)
        BY <1>1a
  <2> QED BY <1>1i, <2>4, <2>5, Zenon DEF FreshInv
<1>11. IndexInv'
  <2>1. Listed(index)'
    <3>1. \A r \in Range(index) : r.status = "done" => Unsent(r)' \subseteq Settled'
          BY <1>1i, <1>1k DEF IInv, IndexInv, Listed
    <3> QED BY <1>1a, <1>1i, <3>1 DEF IInv, IndexInv, Listed, Increasing
  <2>2. ~InSave /\ ~InSave' => \A r \in Range(records') : r.status # "done" =>
           \E q \in Range(index) : q.file = r.file /\ q.position <= r.position /\ q.status # "done"
    <3> HAVE ~InSave /\ ~InSave'
    <3> TAKE r \in Range(records')
    <3>1. CASE r = new
      <4>1. PICK q \in Range(index) :
               q.file = old.file /\ q.position <= old.position /\ q.status # "done"
            BY <1>1a, <1>1c DEF IInv, IndexInv
      <4>2. q.position \in Nat
        <5>1. q \in Records
              BY <1>1b, RangeIn DEF TypeOK
        <5> QED BY <5>1 DEF Records
      <4>3. q.position <= new.position
            BY <1>1d, <1>1f, <1>1g, <4>1, <4>2
      <4> QED BY <1>1c, <1>1g, <3>1, <4>1, <4>3
    <3>2. CASE r \in Range(records)
          BY <1>1a, <3>2 DEF IInv, IndexInv
    <3> QED BY <1>1h, <3>1, <3>2
  <2>3. InSave' <=> InSave
        BY <1>1a DEF InSave, Locked
  <2> QED BY <1>1a, <2>1, <2>2, <2>3 DEF IInv, IndexInv
<1>12. LossInv'
  <2> SUFFICES ASSUME NEW e \in stashed, e \notin Settled'
               PROVE  \E r \in Range(records') : e \in Unsent(r)'
      BY <1>1a DEF LossInv
  <2>1. PICK r \in Range(records) : e \in Unsent(r)
        BY <1>1a, <1>1k DEF IInv, LossInv
  <2>2. CASE r # old
        BY <1>1h, <1>1i, <2>1, <2>2
  <2>3. CASE r = old
    <3>1. PICK i \in old.position + 1 .. Len(disk[consuming].lines) :
             e = disk[consuming].lines[i].event
          BY <1>1c, <2>1, <2>3 DEF Unsent
    <3>2. i \in DOMAIN disk[consuming].lines /\ i \in Nat /\ old.position < i
          BY <1>1d, <1>1e
    <3>3. ~(i <= line')
          BY <1>1c, <1>1e, <1>1f, <1>1k, <1>1l, <3>1, <3>2
    <3>4. i \in new.position + 1 .. Len(disk[consuming].lines)
          BY <1>1e, <1>1f, <1>1g, <3>1, <3>2, <3>3
    <3>5. e \in Unsent(new)
          BY <1>1b, <1>1g, <3>1, <3>4 DEF Unsent, SpoolFile
    <3> QED BY <1>1h, <1>1i, <3>5
  <2> QED BY <2>2, <2>3
<1> QED BY <1>1, <1>2, <1>3, <1>4, <1>5, <1>6, <1>7, <1>8, <1>9, <1>10, <1>11, <1>12 DEF IInv

LEMMA EndOfFileKeeps ==
    ASSUME IInv, EndOfFile
    PROVE  IInv'
<1>1a. /\ alive /\ rpc = "send" /\ rpc' = "remove" /\ Batch = <<>>
       /\ records' = Updated(consuming, [Record(consuming) EXCEPT !.status = "done"])
       /\ UNCHANGED <<disk, index, queue, writing, buffer, pending, drain, alive, consuming,
                      line, wpc, todo, next, faults, crashes, stashed, delivered, fresh, dropped, stranded>>
       BY DEF EndOfFile, Read, diskVars, writerVars, bounds, history
<1>1b. /\ consuming \in Files /\ consuming \in Used /\ SpoolFile(consuming)
       /\ TypeOK /\ LinesInv /\ records \in Seq(Records) /\ Increasing(records)
       /\ Range(records) \subseteq Records
       BY <1>1a, RangeIn DEF IInv, TypeOK, ControlInv, QueueInv, ConsumingInv, Used, Reading,
             RecordsInv, Listed
<1>1c. PICK old \in Range(records) :
          /\ old.file = consuming /\ old.status \in {"pending", "read"} /\ old.position <= line + 1
          /\ \A i \in DOMAIN disk[consuming].lines :
                /\ old.position < i /\ i <= line => disk[consuming].lines[i].event \in Settled
                /\ old.position < i => disk[consuming].lines[i].event \notin fresh
       BY <1>1a DEF IInv, ConsumingInv, Reading
<1>1d. /\ old \in Records /\ old.position \in Nat /\ Record(consuming) = old
       /\ \A r \in Range(records) : r.file = consuming => r = old
  <2>1. old \in Records
        BY <1>1b
  <2>2. Record(consuming) = old
        BY <1>1b, <1>1c, RecordIs
  <2>3. \A r \in Range(records) : r.file = consuming => r = old
        BY <1>1b, <1>1c, OneRecord
  <2> QED BY <2>1, <2>2, <2>3 DEF Records
<1>1e. /\ line \in Nat /\ Len(Batch) \in Nat /\ (Batch # <<>> => Len(Batch) > 0)
       /\ disk[consuming].lines \in Seq(Lines) /\ DOMAIN disk[consuming].lines \subseteq Nat
  <2>1. disk[consuming].lines \in Seq(Lines)
        BY <1>1b DEF TypeOK, LogFiles
  <2> QED BY <1>1b, <2>1, BatchIs DEF TypeOK
<1>1g. PICK new \in Records :
          /\ new = [old EXCEPT !.status = "done"]
          /\ new.file = consuming /\ new.position = old.position /\ new.status = "done"
  <2> DEFINE n == [old EXCEPT !.status = "done"]
  <2>1. n \in Records /\ n.file = old.file /\ n.position = old.position /\ n.status = "done"
        BY <1>1d DEF Records
  <2>2. n = [old EXCEPT !.status = "done"]
        OBVIOUS
  <2> HIDE DEF n
  <2> QED BY <1>1c, <2>1, <2>2
<1>1h. /\ records' \in Seq(Records) /\ Increasing(records')
       /\ Range(records') = (Range(records) \ {old}) \cup {new}
  <2>1. records' = Updated(old.file, new)
        BY <1>1a, <1>1c, <1>1d, <1>1g
  <2> QED BY <1>1b, <1>1c, <1>1g, <2>1, UpdatedIs
<1>1i. /\ Used' = Used /\ (\A f : SpoolFile(f)' = SpoolFile(f)) /\ (\A r : Unsent(r)' = Unsent(r))
       /\ \A f : EventsOf(f)' = EventsOf(f)
       BY <1>1a DEF Used, SpoolFile, Unsent, EventsOf
<1>1j. Tracked' = Tracked /\ (Rolling' <=> Rolling)
       BY <1>1a DEF Tracked, Rolling, IInv, ControlInv, WritingInv
<1>1k. Settled' = Settled /\ Unsent(old) \subseteq Settled /\ Unsent(new) \subseteq Settled
  <2>1. Settled' = Settled
        BY <1>1a DEF Settled
  <2>2. Len(disk[consuming].lines) <= line
        BY <1>1a, <1>1b, BatchIs
  <2>3. \A i \in old.position + 1 .. Len(disk[consuming].lines) :
           disk[consuming].lines[i].event \in Settled
    <3> TAKE i \in old.position + 1 .. Len(disk[consuming].lines)
    <3>1. i \in DOMAIN disk[consuming].lines /\ old.position < i /\ i <= line
          BY <1>1d, <1>1e, <2>2
    <3> QED BY <1>1c, <3>1
  <2>4. Unsent(old) \subseteq Settled
        BY <1>1c, <2>3 DEF Unsent
  <2>5. Unsent(new) \subseteq Settled
        BY <1>1g, <2>3 DEF Unsent
  <2> QED BY <2>1, <2>4, <2>5
<1>1. TypeOK'
  <2>1. /\ rpc' = "remove"
        /\ UNCHANGED <<disk, index, queue, writing, buffer, pending, drain, alive, consuming,
                       line, wpc, todo, next, faults, crashes, stashed, delivered, fresh,
                       dropped, stranded>>
        BY <1>1a
  <2> QED BY <1>1b, <1>1h, <2>1 DEF TypeOK
<1>2. LinesInv'
      BY <1>1a, <1>1b, LinesFrame
<1>3. FilesInv'
      BY <1>1a, <1>1i, FilesFrame DEF IInv, Opening
<1>4. FlowInv'
      BY <1>1a, FlowFrame DEF IInv, FlowInv
<1>5. ControlInv'
      BY <1>1a, <1>1b, <1>1j, NoFileIsNone DEF IInv, TypeOK, ControlInv, Locked, Reading
<1>6. RecordsInv'
  <2>1. \A r \in Range(records') : r = new \/ (r \in Range(records) /\ r # old)
        BY <1>1h
  <2>2. \A r \in Range(records') : r.file \in Used'
        BY <1>1b, <1>1g, <1>1i, <2>1 DEF IInv, RecordsInv, Listed
  <2>3. \A r, q \in Range(records') :
           r.status = "read" /\ q.status = "pending" /\ SpoolFile(q.file)' => r.file < q.file
        BY <1>1g, <1>1i, <2>1 DEF IInv, RecordsInv, Listed
  <2>4. \A r \in Range(records') : r.status = "done" => Unsent(r)' \subseteq Settled'
        BY <1>1g, <1>1i, <1>1k, <2>1 DEF IInv, RecordsInv, Listed
  <2>5. \A r \in Range(records') : r.status = "write" => r \in Range(records)
        BY <1>1g, <2>1
  <2>6. Listed(records)'
        BY <1>1h, <1>1i, <2>2, <2>3, <2>4, <2>5 DEF IInv, RecordsInv, Listed
  <2>7. \A r \in Range(records') :
           r.status \in {"pending", "read"} /\ SpoolFile(r.file)' => r.file \in Tracked'
        BY <1>1g, <1>1i, <1>1j, <2>1 DEF IInv, RecordsInv
  <2> QED BY <1>1a, <1>1i, <2>5, <2>6, <2>7 DEF IInv, RecordsInv
<1>7. WritingInv'
  <2>1. \A r \in Range(records) : r.file # consuming => r \in Range(records')
        BY <1>1c, <1>1h
  <2> QED BY <1>1a, <1>1i, <1>1j, <2>1 DEF IInv, WritingInv
<1>8. QueueInv'
  <2>1. \A f \in Range(queue) : \E r \in Range(records') :
           r.file = f /\ r.status \in {"pending", "read"}
    <3> TAKE f \in Range(queue)
    <3>1. PICK r \in Range(records) : r.file = f /\ r.status \in {"pending", "read"}
          BY DEF IInv, QueueInv
    <3>2. CASE r = old
          BY <1>1b, <1>1c, <3>1, <3>2, NoFileIsNone, SpoolAssumption DEF IInv, QueueInv, Before,
             Files
    <3>3. CASE r # old
          BY <1>1h, <3>1, <3>3
    <3> QED BY <3>2, <3>3
  <2> QED BY <1>1a, <1>1i, <2>1 DEF IInv, QueueInv
<1>9. ConsumingInv'
  <2>1. rpc' = "remove" /\ consuming' = consuming
        BY <1>1a
  <2> QED BY <1>1g, <1>1h, <2>1 DEF ConsumingInv, Reading
<1>10. FreshInv'
      BY <1>1a, <1>1b, QueueHoldsFiles, FreshFrame DEF IInv
<1>11. IndexInv'
  <2>1. Listed(index)'
        BY <1>1a, <1>1i, <1>1k DEF IInv, IndexInv, Listed, Increasing
  <2>2. \A r \in Range(records') : r.status # "done" => r \in Range(records)
        BY <1>1g, <1>1h
  <2>3. InSave' <=> InSave
        BY <1>1a DEF InSave, Locked
  <2> QED BY <1>1a, <2>1, <2>2, <2>3 DEF IInv, IndexInv
<1>12. LossInv'
  <2> SUFFICES ASSUME NEW e \in stashed, e \notin Settled
               PROVE  \E r \in Range(records') : e \in Unsent(r)'
      BY <1>1a, <1>1k DEF LossInv
  <2>1. PICK r \in Range(records) : e \in Unsent(r)
        BY <1>1a DEF IInv, LossInv
  <2>2. r # old
        BY <1>1k, <2>1
  <2> QED BY <1>1h, <1>1i, <2>1, <2>2
<1> QED BY <1>1, <1>2, <1>3, <1>4, <1>5, <1>6, <1>7, <1>8, <1>9, <1>10, <1>11, <1>12 DEF IInv

LEMMA ArchiveFileKeeps ==
    ASSUME IInv, ArchiveFile
    PROVE  IInv'
<1>1a. /\ alive /\ rpc = "remove" /\ rpc' = "archived" /\ wpc = "idle"
       /\ records' = Kept(records, {i \in DOMAIN records : records[i].file # consuming})
       /\ disk' = [disk EXCEPT ![consuming].place = "archive"]
       /\ UNCHANGED <<index, queue, writing, buffer, pending, drain, alive, consuming, line, wpc,
                      todo, next, faults, crashes, stashed, delivered, fresh,
                      dropped, stranded>>
       BY DEF ArchiveFile, Read, writerVars, bounds, history
<1>1b. /\ consuming \in Files /\ consuming \in Used /\ consuming # NoFile
       /\ TypeOK /\ LinesInv /\ records \in Seq(Records) /\ Increasing(records)
       /\ Range(records) \subseteq Records /\ Range(index) \subseteq Records
       BY <1>1a, RangeIn DEF IInv, TypeOK, ControlInv, QueueInv, Used, RecordsInv, Listed
<1>1c. /\ records' \in Seq(Records) /\ Increasing(records')
       /\ \A r : r \in Range(records') <=> r \in Range(records) /\ r.file # consuming
  <2> DEFINE I == {i \in DOMAIN records : records[i].file # consuming}
  <2>1. I \in SUBSET DOMAIN records /\ records' = Kept(records, I)
        BY <1>1a
  <2>2. \A r : r \in {records[i] : i \in I} <=> r \in Range(records) /\ r.file # consuming
        BY DEF Range
  <2> HIDE DEF I
  <2> QED BY <1>1b, <2>1, <2>2, KeptRecords
<1>1d. /\ disk' \in [Files -> LogFiles]
       /\ \A f \in Files : disk'[f].lines = disk[f].lines
       /\ \A f \in Files : f # consuming => disk'[f] = disk[f]
       /\ disk'[consuming].place = "archive" /\ disk[consuming].place # "none"
  <2>1. disk \in [Files -> LogFiles] /\ disk[consuming].place # "none"
        BY <1>1b DEF TypeOK, Used
  <2>2. disk' = [disk EXCEPT ![consuming] = [disk[consuming] EXCEPT !.place = "archive"]]
        BY <1>1a
  <2>3. PICK moved \in LogFiles : moved = [disk[consuming] EXCEPT !.place = "archive"]
           /\ moved.lines = disk[consuming].lines /\ moved.place = "archive"
    <3> DEFINE n == [disk[consuming] EXCEPT !.place = "archive"]
    <3>1. n \in LogFiles /\ n.lines = disk[consuming].lines /\ n.place = "archive"
          BY <1>1b, <2>1 DEF LogFiles
    <3>2. n = [disk[consuming] EXCEPT !.place = "archive"]
          OBVIOUS
    <3> HIDE DEF n
    <3> QED BY <3>1, <3>2
  <2> QED BY <1>1b, <2>1, <2>2, <2>3
<1>1e. /\ Used' = Used
       /\ \A f \in Files : EventsOf(f)' = EventsOf(f)
       /\ \A f \in Files : SpoolFile(f)' <=> SpoolFile(f) /\ f # consuming
       /\ \A r \in Records : r.file # consuming => Unsent(r)' = Unsent(r)
       /\ \A r \in Records : Unsent(r)' \subseteq Unsent(r)
       /\ Tracked' = Tracked /\ Settled' = Settled /\ Rolling' = Rolling
  <2>1. Used' = Used /\ \A f \in Files : SpoolFile(f)' <=> SpoolFile(f) /\ f # consuming
        BY <1>1b, <1>1d DEF Used, SpoolFile
  <2>2. \A f \in Files : EventsOf(f)' = EventsOf(f)
        BY <1>1d DEF EventsOf, EventsIn
  <2>3. \A r \in Records : r.file # consuming => Unsent(r)' = Unsent(r)
    <3> TAKE r \in Records
    <3> HAVE r.file # consuming
    <3>1. r.file \in Files
          BY DEF Records
    <3>2. disk'[r.file] = disk[r.file]
          BY <1>1d, <3>1
    <3> QED BY <3>2 DEF Unsent
  <2>4. \A r \in Records : r.file = consuming => Unsent(r)' = {}
        BY <1>1d DEF Unsent
  <2>5. Tracked' = Tracked /\ Settled' = Settled /\ Rolling' = Rolling
        BY <1>1a DEF Tracked, Settled, Rolling
  <2> QED BY <2>1, <2>2, <2>3, <2>4, <2>5
<1>1f. PICK gone \in Range(records) :
          gone.file = consuming /\ Unsent(gone) \subseteq Settled
  <2>1. PICK r \in Range(records) :
           r.file = consuming /\ (SpoolFile(consuming) => r.status = "done")
        BY <1>1a DEF IInv, ConsumingInv
  <2>2. ~SpoolFile(consuming) => Unsent(r) = {}
        BY <2>1 DEF Unsent, SpoolFile
  <2> QED BY <2>1, <2>2 DEF IInv, RecordsInv, Listed
<1>1g. /\ \A f \in Range(queue) : f \in Files /\ f # consuming
       /\ writing # NoFile => writing \in Files /\ writing # consuming
  <2>1. ASSUME NEW f \in Range(queue)
        PROVE  f \in Files /\ f # consuming
    <3>1. f \in Files
          BY <1>1b, RangeIn DEF TypeOK
    <3>2. consuming < f
          BY <1>1b DEF IInv, QueueInv, Before
    <3> QED BY <3>1, <3>2, SpoolAssumption DEF Files
  <2> QED BY <1>1b, <2>1 DEF TypeOK, Optional, IInv, WritingInv
<1>1. TypeOK'
      BY <1>1a, <1>1b, <1>1c, <1>1d, Zenon DEF TypeOK, Locked
<1>2. LinesInv'
  <2>1. stashed' = stashed
        BY <1>1a
  <2>2. \A f \in Files : \A i, j \in DOMAIN disk'[f].lines :
           i < j => disk'[f].lines[i].event < disk'[f].lines[j].event
        BY <1>1b, <1>1d DEF LinesInv
  <2>3. \A f \in Files : disk'[f].place = "none" => disk'[f].lines = <<>>
        BY <1>1b, <1>1d DEF LinesInv
  <2>4. /\ \A f \in Files : EventsOf(f)' \subseteq stashed'
        /\ \A f, g \in Files : f < g => Before(EventsOf(f)', EventsOf(g)')
        BY <1>1b, <1>1e, <2>1 DEF LinesInv
  <2> QED BY <2>2, <2>3, <2>4 DEF LinesInv
<1>3. FilesInv'
      BY <1>1a, <1>1e, FilesFrame DEF IInv, Opening
<1>4. FlowInv'
      BY <1>1a, FlowFrame DEF IInv, FlowInv
<1>5. ControlInv'
      BY <1>1a, <1>1b, <1>1e DEF IInv, TypeOK, ControlInv, Locked, Reading
<1>6. RecordsInv'
  <2>1. \A r \in Range(records') : r \in Range(records) /\ r \in Records /\ r.file \in Files
        BY <1>1b, <1>1c DEF Records
  <2>2. \A r \in Range(records') : r.file \in Used'
        BY <1>1e, <2>1 DEF IInv, RecordsInv, Listed
  <2>3. \A r, q \in Range(records') :
           r.status = "read" /\ q.status = "pending" /\ SpoolFile(q.file)' => r.file < q.file
        BY <1>1e, <2>1 DEF IInv, RecordsInv, Listed
  <2>4. \A r \in Range(records') : r.status = "done" => Unsent(r)' \subseteq Settled'
    <3>1. \A r \in Range(records') : r.status = "done" => Unsent(r) \subseteq Settled
          BY <2>1 DEF IInv, RecordsInv, Listed
    <3> QED BY <1>1e, <2>1, <3>1
  <2>5. \A r \in Range(records') : r.status = "write" =>
           r.position = 0 /\ SpoolFile(r.file)' /\ \A f \in Used' : f <= r.file
        BY <1>1c, <1>1e, <2>1 DEF IInv, RecordsInv, Listed
  <2>6. Listed(records)'
        BY <1>1c, <2>2, <2>3, <2>4, <2>5 DEF Listed
  <2>7. \A r \in Range(records') :
           r.status \in {"pending", "read"} /\ SpoolFile(r.file)' => r.file \in Tracked'
        BY <1>1e, <2>1 DEF IInv, RecordsInv
  <2> QED BY <1>1a, <2>1, <2>6, <2>7 DEF IInv, RecordsInv
<1>7. WritingInv'
  <2>1. \A r \in Range(records) : r.file # consuming => r \in Range(records')
        BY <1>1c
  <2> QED BY <1>1a, <1>1e, <1>1g, <2>1 DEF IInv, WritingInv
<1>8. QueueInv'
  <2>1. \A f \in Range(queue) : \E r \in Range(records') :
           r.file = f /\ r.status \in {"pending", "read"}
    <3> TAKE f \in Range(queue)
    <3>1. PICK r \in Range(records) : r.file = f /\ r.status \in {"pending", "read"}
          BY DEF IInv, QueueInv
    <3> QED BY <1>1c, <1>1g, <3>1
  <2> QED BY <1>1a, <1>1e, <2>1 DEF IInv, QueueInv
<1>9. ConsumingInv'
      BY <1>1a, <1>1c DEF ConsumingInv, Reading
<1>10. FreshInv'
      BY <1>1a, <1>1e, <1>1g DEF IInv, FreshInv
<1>11. IndexInv'
  <2>1. \A r \in Range(index) : r \in Records /\ r.file \in Files /\ r.file # NoFile
        BY <1>1b, NoFileIsNone DEF Records
  <2>2. \A r \in Range(index) : r.file \in Used'
        BY <1>1e, <2>1 DEF IInv, IndexInv, Listed
  <2>3. \A r, q \in Range(index) :
           r.status = "read" /\ q.status = "pending" /\ SpoolFile(q.file)' => r.file < q.file
        BY <1>1e, <2>1 DEF IInv, IndexInv, Listed
  <2>4. \A r \in Range(index) : r.status = "done" => Unsent(r)' \subseteq Settled'
    <3>1. \A r \in Range(index) : r.status = "done" => Unsent(r) \subseteq Settled
          BY DEF IInv, IndexInv, Listed
    <3> QED BY <1>1e, <2>1, <3>1
  <2>5. \A r \in Range(index) : r.status = "write" => r.file # consuming
        BY <1>1a, <1>1g, <2>1 DEF IInv, IndexInv
  <2>6. \A r \in Range(index) : r.status = "write" =>
           r.position = 0 /\ SpoolFile(r.file)' /\ \A f \in Used' : f <= r.file
        BY <1>1e, <2>1, <2>5 DEF IInv, IndexInv, Listed
  <2>7. Listed(index)'
        BY <1>1a, <2>2, <2>3, <2>4, <2>6 DEF IInv, IndexInv, Listed, Increasing
  <2>8. ~InSave
        BY <1>1a DEF InSave, Locked
  <2> QED BY <1>1a, <1>1c, <2>7, <2>8 DEF IInv, IndexInv
<1>12. LossInv'
  <2> SUFFICES ASSUME NEW e \in stashed, e \notin Settled
               PROVE  \E r \in Range(records') : e \in Unsent(r)'
      BY <1>1a, <1>1e DEF LossInv
  <2>1. PICK r \in Range(records) : e \in Unsent(r)
        BY <1>1a DEF IInv, LossInv
  <2>2. r # gone
        BY <1>1f, <2>1
  <2>3. r.file # consuming
        BY <1>1b, <1>1f, <2>2, OneRecord
  <2> QED BY <1>1b, <1>1c, <1>1e, <2>1, <2>3
<1> QED BY <1>1, <1>2, <1>3, <1>4, <1>5, <1>6, <1>7, <1>8, <1>9, <1>10, <1>11, <1>12 DEF IInv

-----------------------------------------------------------------------------
(* Death and restart.                                                      *)

LEMMA CrashKeeps ==
    ASSUME IInv, Crash
    PROVE  IInv'
<1>1a. PICK n \in 0 .. Len(buffer), cut \in BOOLEAN :
          LET written == SubSeq(buffer, 1, n)
          IN  /\ disk' = IF buffer = <<>> THEN disk
                         ELSE [disk EXCEPT ![writing] =
                                  [Printed(disk[writing], written) EXCEPT !.torn = @ \/ cut]]
              /\ stashed' = stashed \cup Range(written)
              /\ stranded' = IF InSave THEN stashed' \ (delivered \cup dropped) ELSE stranded
       BY DEF Crash
<1> DEFINE written == SubSeq(buffer, 1, n)
<1>1b. /\ alive /\ ~alive' /\ alive' \in BOOLEAN /\ crashes' = crashes + 1
       /\ records' = <<>> /\ queue' = <<>> /\ writing' = NoFile /\ buffer' = <<>>
       /\ drain' = FALSE /\ wpc' = "idle" /\ todo' = <<>>
       /\ rpc' = "poll" /\ consuming' = NoFile /\ line' = 0 /\ fresh' = {}
       /\ UNCHANGED <<index, pending, next, faults, delivered, dropped>>
       BY DEF Crash
<1>1c. TypeOK /\ buffer \in Seq(Events) /\ Sorted(buffer) /\ Len(buffer) \in Nat
       /\ (buffer # <<>> => writing # NoFile) /\ stashed \subseteq Events
       BY DEF IInv, TypeOK, FlowInv
<1>1d. /\ written \in Seq(Events) /\ Sorted(written)
       /\ Range(written) \subseteq Range(buffer) /\ Range(written) \subseteq Events
       /\ (buffer = <<>> => Range(written) = {})
  <2>1. /\ written \in Seq(Events) /\ DOMAIN written = 1 .. n
        /\ \A i \in 1 .. n : written[i] = buffer[i]
        /\ DOMAIN buffer = 1 .. Len(buffer) /\ n \in Nat /\ n <= Len(buffer)
        /\ (buffer = <<>> => n = 0)
        BY <1>1c
  <2> HIDE DEF written
  <2>2. 1 .. n \subseteq DOMAIN buffer /\ (buffer = <<>> => 1 .. n = {})
        BY <1>1c, <2>1
  <2>3. Sorted(written)
        BY <1>1c, <2>1, <2>2 DEF Sorted
  <2>4. Range(written) \subseteq Range(buffer) /\ (buffer = <<>> => Range(written) = {})
        BY <2>1, <2>2, Zenon DEF Range
  <2>5. Range(written) \subseteq Events
        BY <2>1, RangeIn
  <2> QED BY <2>1, <2>3, <2>4, <2>5
<1>1e. /\ stashed' = stashed \cup Range(written)
       /\ stranded' = IF InSave THEN stashed' \ (delivered \cup dropped) ELSE stranded
       BY <1>1a
<1>1f. buffer = <<>> => disk' = disk /\ stashed' = stashed
       BY <1>1a, <1>1d, <1>1e
<1>1g. buffer # <<>> => Writes(written)
  <2> HAVE buffer # <<>>
  <2>1. disk' = [disk EXCEPT ![writing] =
                    [Printed(disk[writing], written) EXCEPT
                        !.torn = Printed(disk[writing], written).torn \/ cut]]
        BY <1>1a
  <2>2. (Printed(disk[writing], written).torn \/ cut) \in BOOLEAN
        OBVIOUS
  <2> HIDE DEF written
  <2> QED BY <2>1, <2>2 DEF Writes
<1> HIDE DEF written
<1>1h. LinesInv'
  <2>1. CASE buffer = <<>>
        BY <1>1f, <2>1, LinesFrame DEF IInv
  <2>2. CASE buffer # <<>>
        BY <1>1c, <1>1d, <1>1e, <1>1g, <2>2, WriteLines DEF IInv
  <2> QED BY <2>1, <2>2
<1>1i. disk' \in [Files -> LogFiles] /\ \A f \in Files : disk'[f].place = disk[f].place
  <2>1. CASE buffer = <<>>
        BY <1>1c, <1>1f, <2>1 DEF TypeOK
  <2>2. CASE buffer # <<>>
        BY <1>1c, <1>1d, <1>1g, <2>2, WriteIs
  <2> QED BY <2>1, <2>2
<1>1j. Used' = Used /\ \A f \in Files : SpoolFile(f)' <=> SpoolFile(f)
       BY <1>1i DEF Used, SpoolFile
<1>1k. \A r \in Records :
          /\ Unsent(r) \subseteq Unsent(r)'
          /\ r.file # writing => Unsent(r)' = Unsent(r)
          /\ r.file = writing /\ r.position = 0 => Range(written) \subseteq Unsent(r)'
  <2>1. CASE buffer = <<>>
        BY <1>1d, <1>1f, <2>1 DEF Unsent
  <2>2. CASE buffer # <<>>
        BY <1>1c, <1>1d, <1>1g, <2>2, WriteUnsent DEF IInv
  <2> QED BY <2>1, <2>2
<1>1l. Range(records') = {} /\ Range(queue') = {} /\ Range(buffer') = {} /\ Range(todo') = {}
       /\ Sorted(queue') /\ Sorted(buffer') /\ Sorted(todo')
  <2>1. Range(<<>>) = {} /\ Sorted(<<>>)
        BY DEF Range, Sorted
  <2> QED BY <1>1b, <2>1
<1>1m. Settled \subseteq Settled' /\ (InSave => stashed' \subseteq Settled')
       /\ (~InSave => Settled' = Settled)
  <2>1. stranded \subseteq stashed
        BY <1>1c DEF TypeOK
  <2> QED BY <1>1b, <1>1e, <2>1 DEF Settled
<1>1n. Range(index) \subseteq Records /\ Range(records) \subseteq Records
       BY <1>1c, RangeIn DEF TypeOK
<1>1. TypeOK'
  <2>1. /\ stashed' \subseteq Events /\ delivered \subseteq stashed' /\ dropped \subseteq stashed'
        /\ stranded' \subseteq stashed'
    <3>1. delivered \subseteq stashed /\ dropped \subseteq stashed /\ stranded \subseteq stashed
          BY <1>1c DEF TypeOK
    <3> QED BY <1>1c, <1>1d, <1>1e, <3>1
  <2>2. <<>> \in Seq(Records) /\ <<>> \in Seq(Files) /\ <<>> \in Seq(Events) /\ 0 \in Nat
        OBVIOUS
  <2>3. crashes' \in Nat
        BY <1>1b, <1>1c DEF TypeOK
  <2> QED BY <1>1b, <1>1c, <1>1i, <2>1, <2>2, <2>3 DEF TypeOK, Optional
<1>2. LinesInv'
      BY <1>1h
<1>3. FilesInv'
  <2>1. next \in Nat /\ Len(todo) \in Nat /\ Opening \in Nat /\ Opening <= Len(todo)
    <3>1. Len(todo) \in Nat /\ (todo # <<>> => Len(todo) >= 1)
          BY <1>1c DEF TypeOK
    <3> QED BY <1>1c, <3>1 DEF IInv, TypeOK, ControlInv, Opening
  <2>2. \A f \in Used : f \in Nat /\ f <= next - 1 - Len(todo) + Opening
        BY SpoolAssumption DEF IInv, FilesInv, Used, Files
  <2>3. \A f \in Used : f <= next - 1 - 0 + 0
        BY <2>1, <2>2
  <2>4. Opening' = 0 /\ Len(todo') = 0 /\ next' = next
        BY <1>1b DEF Opening
  <2> QED BY <1>1j, <2>3, <2>4 DEF IInv, FilesInv
<1>4. FlowInv'
  <2>1. \A e \in stashed' : e < next
        BY <1>1d, <1>1e DEF IInv, FlowInv
  <2>2. next \in Nat /\ 0 < next /\ Len(todo') = 0
    <3>1. Len(todo) \in Nat /\ next \in Nat /\ Len(todo) < next
          BY <1>1c DEF TypeOK, IInv, FlowInv
    <3> QED BY <1>1b, <3>1
  <2> QED BY <1>1b, <1>1l, <2>1, <2>2 DEF IInv, FlowInv, Before
<1>5. ControlInv'
      BY <1>1b DEF ControlInv, Rolling, Locked, Reading
<1>6. RecordsInv'
  <2>1. Increasing(records')
        BY <1>1b DEF Increasing
  <2> QED BY <1>1l, <2>1 DEF RecordsInv, Listed
<1>7. WritingInv'
      BY <1>1b DEF WritingInv
<1>8. QueueInv'
      BY <1>1b, <1>1l DEF QueueInv
<1>9. ConsumingInv'
      BY <1>1b DEF ConsumingInv, Reading
<1>10. FreshInv'
      BY <1>1b DEF FreshInv
<1>11. IndexInv'
  <2>1. \A r \in Range(index) : r.file \in Files /\ r \in Records
        BY <1>1n DEF Records
  <2>2. \A r, q \in Range(index) :
           r.status = "read" /\ q.status = "pending" /\ SpoolFile(q.file)' => r.file < q.file
        BY <1>1j, <2>1 DEF IInv, IndexInv, Listed
  <2>3. \A r \in Range(index) : r.status = "done" => Unsent(r)' \subseteq Settled'
    <3> TAKE r \in Range(index)
    <3> HAVE r.status = "done"
    <3>1. Unsent(r) \subseteq Settled
          BY DEF IInv, IndexInv, Listed
    <3>2. r.file # writing
          BY <1>1b DEF IInv, IndexInv
    <3> QED BY <1>1k, <1>1m, <2>1, <3>1, <3>2
  <2>4. \A r \in Range(index) : r.status = "write" =>
           r.position = 0 /\ SpoolFile(r.file)' /\ \A f \in Used' : f <= r.file
        BY <1>1j, <2>1 DEF IInv, IndexInv, Listed
  <2>5. \A r \in Range(index) : r.file \in Used'
        BY <1>1j DEF IInv, IndexInv, Listed
  <2>6. Increasing(index)
        BY DEF IInv, IndexInv, Listed
  <2>7. Listed(index)'
        BY <1>1b, <2>2, <2>3, <2>4, <2>5, <2>6 DEF Listed, Increasing
  <2> QED BY <1>1b, <2>7 DEF IndexInv
<1>12. LossInv'
  <2> SUFFICES ASSUME NEW e \in stashed', e \notin Settled'
               PROVE  \E q \in Range(index) : q.status # "done" /\ e \in Unsent(q)'
      BY <1>1b DEF LossInv
  <2>1. ~InSave /\ Settled' = Settled
        BY <1>1m
  <2>2. \A r \in Range(records) : r.status # "done" =>
           \E q \in Range(index) : q.file = r.file /\ q.position <= r.position /\ q.status # "done"
        BY <1>1b, <2>1 DEF IInv, IndexInv
  <2>3. CASE e \in stashed
    <3>1. PICK r \in Range(records) : e \in Unsent(r)
          BY <1>1b, <2>1, <2>3 DEF IInv, LossInv
    <3>2. r.status # "done"
          BY <2>1, <3>1 DEF IInv, RecordsInv, Listed
    <3>3. PICK q \in Range(index) : q.file = r.file /\ q.position <= r.position /\ q.status # "done"
          BY <2>2, <3>2
    <3>4. /\ q \in Records /\ r \in Records
          /\ q.position \in Nat /\ r.position \in Nat /\ r.file \in Files
          BY <1>1n DEF Records
    <3>5. SpoolFile(r.file)
          BY <3>1 DEF Unsent, SpoolFile
    <3>6. PICK i \in r.position + 1 .. Len(disk[r.file].lines) : e = disk[r.file].lines[i].event
          BY <3>1, <3>5 DEF Unsent, SpoolFile
    <3>7. Len(disk[r.file].lines) \in Nat
      <4>1. disk[r.file] \in LogFiles
            BY <1>1c, <3>4 DEF TypeOK
      <4> QED BY <4>1 DEF LogFiles
    <3>8. i \in q.position + 1 .. Len(disk[q.file].lines) /\ e = disk[q.file].lines[i].event
          BY <3>3, <3>4, <3>6, <3>7
    <3>9. e \in Unsent(q)
          BY <3>3, <3>5, <3>8 DEF Unsent, SpoolFile
    <3> QED BY <1>1k, <3>3, <3>4, <3>9
  <2>4. CASE e \in Range(written)
    <3>1. writing # NoFile
          BY <1>1c, <1>1d, <2>4
    <3>2. PICK r \in Range(records) : r.file = writing /\ r.position = 0 /\ r.status # "done"
          BY <3>1 DEF IInv, WritingInv
    <3>3. PICK q \in Range(index) : q.file = writing /\ q.position <= 0 /\ q.status # "done"
          BY <2>2, <3>2
    <3>4. q \in Records /\ q.position = 0
      <4>1. q \in Records
            BY <1>1n
      <4> QED BY <3>3, <4>1 DEF Records
    <3> QED BY <1>1k, <2>4, <3>3, <3>4
  <2> QED BY <1>1e, <2>3, <2>4
<1> QED BY <1>1, <1>2, <1>3, <1>4, <1>5, <1>6, <1>7, <1>8, <1>9, <1>10, <1>11, <1>12 DEF IInv

LEMMA SortedConcat ==
    ASSUME NEW s \in Seq(Files), NEW t \in Seq(Files), Sorted(s), Sorted(t),
           Before(Range(s), Range(t))
    PROVE  Sorted(s \o t)
<1>1. /\ Len(s) \in Nat /\ DOMAIN s = 1 .. Len(s)
      /\ Len(t) \in Nat /\ DOMAIN t = 1 .. Len(t)
      /\ DOMAIN (s \o t) = 1 .. Len(s) + Len(t)
      /\ \A i \in 1 .. Len(s) : (s \o t)[i] = s[i]
      /\ \A j \in 1 .. Len(t) : (s \o t)[Len(s) + j] = t[j]
      OBVIOUS
<1>2. \A i \in 1 .. Len(s) + Len(t) :
         i \in 1 .. Len(s) \/ \E j \in 1 .. Len(t) : i = Len(s) + j
      BY <1>1, Shift
<1>3. SUFFICES ASSUME NEW i \in 1 .. Len(s) + Len(t), NEW j \in 1 .. Len(s) + Len(t), i < j
               PROVE  (s \o t)[i] < (s \o t)[j]
      BY <1>1 DEF Sorted
<1>4. CASE j \in 1 .. Len(s)
  <2>1. i \in 1 .. Len(s)
        BY <1>1, <1>3, <1>4
  <2> QED BY <1>1, <1>3, <1>4, <2>1 DEF Sorted
<1>5. CASE i \in 1 .. Len(s) /\ \E n \in 1 .. Len(t) : j = Len(s) + n
  <2>1. PICK n \in 1 .. Len(t) : j = Len(s) + n
        BY <1>5
  <2>2. s[i] \in Range(s) /\ t[n] \in Range(t)
        BY <1>1, <1>5 DEF Range
  <2> QED BY <1>1, <1>5, <2>1, <2>2 DEF Before
<1>6. CASE (\E m \in 1 .. Len(t) : i = Len(s) + m) /\ (\E n \in 1 .. Len(t) : j = Len(s) + n)
  <2>1. PICK m \in 1 .. Len(t) : i = Len(s) + m
        BY <1>6
  <2>2. PICK n \in 1 .. Len(t) : j = Len(s) + n
        BY <1>6
  <2>3. m < n
        BY <1>1, <1>3, <2>1, <2>2
  <2> QED BY <1>1, <2>1, <2>2, <2>3 DEF Sorted
<1> QED BY <1>2, <1>4, <1>5, <1>6

(* The index lists at most one file that is being written.                 *)
LEMMA FileToWrite ==
    ASSUME index \in Seq(Records), Listed(index)
    PROVE  /\ WithStatus("write") # {} =>
                \E r \in Range(index) :
                    r.status = "write" /\ r.file = index[Max(WithStatus("write"))].file
           /\ \A r, q \in Range(index) : r.status = "write" /\ q.status = "write" => r = q
<1>1. Increasing(index) /\ Range(index) \subseteq Records
      BY RangeIn DEF Listed
<1>2. \A r, q \in Range(index) : r.status = "write" /\ q.status = "write" => r = q
  <2> TAKE r, q \in Range(index)
  <2> HAVE r.status = "write" /\ q.status = "write"
  <2>1. r.file <= q.file /\ q.file <= r.file
        BY DEF Listed
  <2>2. r.file \in Nat /\ q.file \in Nat
        BY <1>1, SpoolAssumption DEF Records, Files
  <2>3. r.file = q.file
        BY <2>1, <2>2
  <2> QED BY <1>1, <2>3, OneRecord
<1>3. ASSUME WithStatus("write") # {}
      PROVE  \E r \in Range(index) :
                 r.status = "write" /\ r.file = index[Max(WithStatus("write"))].file
  <2> DEFINE W == WithStatus("write")
  <2>1. \A i \in W : i \in DOMAIN index /\ i \in Nat /\ index[i] \in Range(index)
                     /\ index[i].status = "write"
        BY DEF WithStatus, Range
  <2>2. PICK i \in W : TRUE
        BY <1>3
  <2>3. \A j \in W : ~(i < j) /\ ~(j < i)
    <3> TAKE j \in W
    <3>1. index[i] = index[j]
          BY <1>2, <2>1
    <3>2. index[i].file \in Nat
          BY <1>1, <2>1, SpoolAssumption DEF Records, Files
    <3>3. i < j => index[i].file < index[j].file
          BY <1>1, <2>1 DEF Increasing
    <3>4. j < i => index[j].file < index[i].file
          BY <1>1, <2>1 DEF Increasing
    <3> QED BY <3>1, <3>2, <3>3, <3>4
  <2>4. \A j \in W : i >= j
        BY <2>1, <2>3
  <2> HIDE DEF W
  <2>5. Max(W) \in W
        BY <2>4 DEF Max
  <2> QED BY <2>1, <2>5 DEF W
<1> QED BY <1>2, <1>3

(* What is queued again after a restart, in the order of the files.        *)
LEMMA UnreadIs ==
    ASSUME TypeOK, Listed(index)
    PROVE  /\ Unread \in Seq(Files) /\ Sorted(Unread)
           /\ \A f \in Range(Unread) : \E r \in Range(index) :
                 r.file = f /\ r.status \in {"pending", "read"}
           /\ \A r \in Range(index) :
                 r.status \in {"pending", "read"} /\ SpoolFile(r.file) => r.file \in Range(Unread)
<1> DEFINE R == WithStatus("read")
           P == InSpool(WithStatus("pending"))
           s == FilesOf(Kept(index, R))
           t == FilesOf(Kept(index, P))
<1>1. index \in Seq(Records) /\ Increasing(index)
      BY DEF TypeOK, Listed
<1>2. R \in SUBSET DOMAIN index /\ P \in SUBSET DOMAIN index
      BY DEF WithStatus, InSpool
<1>3. /\ \A i \in R : index[i] \in Range(index) /\ index[i].status = "read"
      /\ \A i \in P : index[i] \in Range(index) /\ index[i].status = "pending"
                      /\ SpoolFile(index[i].file)
      BY DEF WithStatus, InSpool, Range, SpoolFile
<1>4. \A r \in Range(index) :
         /\ r.status = "read" => \E i \in R : index[i] = r
         /\ r.status = "pending" /\ SpoolFile(r.file) => \E i \in P : index[i] = r
      BY DEF WithStatus, InSpool, Range, SpoolFile
<1>u. Unread = s \o t
      BY DEF Unread
<1> HIDE DEF R, P
<1>5. s \in Seq(Files) /\ Sorted(s) /\ Range(s) = {index[i].file : i \in R}
      BY <1>1, <1>2, KeptRecords
<1>6. t \in Seq(Files) /\ Sorted(t) /\ Range(t) = {index[i].file : i \in P}
      BY <1>1, <1>2, KeptRecords
<1> HIDE DEF s, t
<1>7. Before(Range(s), Range(t))
      BY <1>3, <1>5, <1>6 DEF Before, Listed
<1>8. Unread \in Seq(Files) /\ Range(Unread) = Range(s) \cup Range(t)
      BY <1>5, <1>6, <1>u, RangeOfConcat
<1>9. Sorted(Unread)
      BY <1>5, <1>6, <1>7, <1>u, SortedConcat
<1>10. \A f \in Range(Unread) : \E r \in Range(index) :
          r.file = f /\ r.status \in {"pending", "read"}
      BY <1>3, <1>5, <1>6, <1>8
<1>11. \A r \in Range(index) :
          r.status \in {"pending", "read"} /\ SpoolFile(r.file) => r.file \in Range(Unread)
      BY <1>4, <1>5, <1>6, <1>8
<1> QED BY <1>8, <1>9, <1>10, <1>11

LEMMA RestartKeeps ==
    ASSUME IInv, Restart
    PROVE  IInv'
<1>1a. /\ ~alive /\ alive' = TRUE /\ records' = index /\ queue' = Unread
       /\ pending' = (\E r \in Range(index) : r.status # "done")
       /\ writing' = IF WithStatus("write") = {} THEN NoFile
                     ELSE index[Max(WithStatus("write"))].file
       /\ UNCHANGED <<disk, index, buffer, drain, wpc, todo, next, rpc, consuming, line,
                      faults, crashes, stashed, delivered, fresh, dropped, stranded>>
       BY DEF Restart, diskVars, writerVars, readerVars, bounds, history
<1>1b. /\ TypeOK /\ Listed(index) /\ index \in Seq(Records) /\ Range(index) \subseteq Records
       /\ buffer = <<>> /\ wpc = "idle" /\ rpc = "poll" /\ todo = <<>> /\ fresh = {}
       /\ consuming = NoFile
       BY <1>1a, RangeIn DEF IInv, TypeOK, ControlInv, IndexInv
<1>1c. /\ writing' # NoFile =>
             \E r \in Range(index) : r.status = "write" /\ r.file = writing'
       /\ \A r \in Range(index) : r.status = "write" => r.file = writing'
  <2>1. /\ WithStatus("write") # {} =>
              \E r \in Range(index) :
                  r.status = "write" /\ r.file = index[Max(WithStatus("write"))].file
        /\ \A r, q \in Range(index) : r.status = "write" /\ q.status = "write" => r = q
        BY <1>1b, FileToWrite
  <2>2. \A r \in Range(index) : r.status = "write" => WithStatus("write") # {}
        BY DEF WithStatus, Range
  <2> QED BY <1>1a, <2>1, <2>2
<1>1d. /\ queue' \in Seq(Files) /\ Sorted(queue')
       /\ \A f \in Range(queue') : \E r \in Range(index) :
             r.file = f /\ r.status \in {"pending", "read"}
       /\ \A r \in Range(index) :
             r.status \in {"pending", "read"} /\ SpoolFile(r.file) => r.file \in Range(queue')
       BY <1>1a, <1>1b, UnreadIs
<1>1e. /\ Used' = Used /\ (\A f : SpoolFile(f)' = SpoolFile(f)) /\ (\A r : Unsent(r)' = Unsent(r))
       /\ Settled' = Settled /\ ~Rolling'
       BY <1>1a, <1>1b DEF Used, SpoolFile, Unsent, Settled, Rolling
<1>1f. Listed(records)'
       BY <1>1a, <1>1b, <1>1e DEF Listed, Increasing
<1>1g. RecordsInv'
  <2>1. \A r \in Range(records') : r.status = "write" => r.file = writing'
        BY <1>1a, <1>1c
  <2>2. \A r \in Range(records') :
           r.status \in {"pending", "read"} /\ SpoolFile(r.file)' => r.file \in Tracked'
        BY <1>1a, <1>1d, <1>1e DEF Tracked
  <2> QED BY <1>1f, <2>1, <2>2 DEF RecordsInv
<1>1h. WritingInv'
  <2> SUFFICES ASSUME writing' # NoFile
               PROVE  WritingInv'
      BY DEF WritingInv
  <2>1. PICK r \in Range(index) : r.status = "write" /\ r.file = writing'
        BY <1>1c
  <2>2. r.position = 0 /\ SpoolFile(r.file) /\ \A f \in Used : f <= r.file
        BY <1>1b, <2>1 DEF Listed
  <2>3. writing' \notin Range(queue')
    <3> SUFFICES ASSUME writing' \in Range(queue') PROVE FALSE
        OBVIOUS
    <3>1. PICK q \in Range(index) : q.file = writing' /\ q.status \in {"pending", "read"}
          BY <1>1d
    <3>2. q = r
          BY <1>1b, <2>1, <3>1, OneRecord DEF Listed
    <3> QED BY <2>1, <3>1, <3>2
  <2>4. SpoolFile(writing)' /\ \A f \in Used' : f <= writing'
    <3>1. \A f \in Used' : f <= writing'
          BY <1>1e, <2>1, <2>2
    <3>2. disk'[writing'].place = "spool"
          BY <1>1a, <2>1, <2>2 DEF SpoolFile
    <3> QED BY <3>1, <3>2 DEF SpoolFile
  <2>5. writing' # consuming'
        BY <1>1a, <1>1b
  <2> QED BY <1>1a, <1>1e, <2>1, <2>2, <2>3, <2>4, <2>5 DEF WritingInv
<1>1. TypeOK'
  <2>1. writing' \in Optional(Files)
        BY <1>1b, <1>1c DEF Optional, Records
  <2>2. pending' \in BOOLEAN /\ alive' \in BOOLEAN /\ records' \in Seq(Records)
        BY <1>1a, <1>1b
  <2> QED BY <1>1a, <1>1b, <1>1d, <2>1, <2>2 DEF TypeOK
<1>2. LinesInv'
      BY <1>1a, LinesFrame DEF IInv
<1>3. FilesInv'
      BY <1>1a, <1>1b, <1>1e, FilesFrame DEF IInv, Opening
<1>4. FlowInv'
      BY <1>1a, <1>1b, FlowFrame DEF IInv, FlowInv
<1>5. ControlInv'
      BY <1>1a, <1>1b, <1>1e DEF ControlInv, Locked, Reading
<1>6. RecordsInv'
      BY <1>1g
<1>7. WritingInv'
      BY <1>1h
<1>8. QueueInv'
      BY <1>1a, <1>1b, <1>1d DEF QueueInv
<1>9. ConsumingInv'
      BY <1>1a, <1>1b DEF ConsumingInv, Reading
<1>10. FreshInv'
      BY <1>1a, <1>1b DEF FreshInv
<1>11. IndexInv'
  <2>1. index' = records' /\ records' \in Seq(Records)
        BY <1>1a, <1>1b
  <2> QED BY <1>1e, <1>1g, <1>1h, <2>1, NoFileIsNone, IndexWritten
<1>12. LossInv'
  <2>1. \A e \in stashed : e \notin Settled => \E r \in Range(index) : e \in Unsent(r)
        BY <1>1a DEF IInv, LossInv
  <2> QED BY <1>1a, <1>1e, <2>1 DEF LossInv
<1> QED BY <1>1, <1>2, <1>3, <1>4, <1>5, <1>6, <1>7, <1>8, <1>9, <1>10, <1>11, <1>12 DEF IInv

-----------------------------------------------------------------------------
(* All behaviours.                                                         *)

LEMMA InitHolds == Init => IInv
<1> SUFFICES ASSUME Init PROVE IInv
    OBVIOUS
<1>1. /\ disk = [f \in Files |-> Absent] /\ index = <<>>
      /\ records = <<>> /\ queue = <<>> /\ writing = NoFile /\ buffer = <<>>
      /\ pending = FALSE /\ drain = FALSE /\ alive = TRUE
      /\ wpc = "idle" /\ todo = <<>> /\ next = 1
      /\ rpc = "poll" /\ consuming = NoFile /\ line = 0
      /\ faults = 0 /\ crashes = 0
      /\ stashed = {} /\ delivered = {} /\ fresh = {} /\ dropped = {} /\ stranded = {}
      BY DEF Init
<1>2. /\ Range(<<>>) = {} /\ Sorted(<<>>) /\ Increasing(<<>>) /\ Len(<<>>) = 0
      /\ <<>> \in Seq(Records) /\ <<>> \in Seq(Files) /\ <<>> \in Seq(Events)
      BY DEF Range, Sorted, Increasing
<1>3. /\ Absent \in LogFiles /\ Absent.lines = <<>>
      /\ Absent.place = "none" /\ DOMAIN Absent.lines = {}
      BY DEF Absent, LogFiles
<1>4. \A f \in Files : disk[f].lines = <<>> /\ disk[f].place = "none" /\ EventsOf(f) = {}
      BY <1>1, <1>3 DEF EventsOf, EventsIn
<1>5. Used = {} /\ Opening = 0
      BY <1>1, <1>4 DEF Used, Opening
<1>6. TypeOK
      BY <1>1, <1>2, <1>3 DEF TypeOK, Optional
<1>7. LinesInv
      BY <1>1, <1>3, <1>4 DEF LinesInv, Before
<1>8. FilesInv
      BY <1>5 DEF FilesInv
<1>9. FlowInv
      BY <1>1, <1>2, SpoolAssumption DEF FlowInv, Before
<1>10. ControlInv
      BY <1>1 DEF ControlInv, Rolling, Locked, Reading
<1>11. Listed(<<>>)
      BY <1>2 DEF Listed
<1>12. RecordsInv
      BY <1>1, <1>2, <1>11 DEF RecordsInv
<1>13. WritingInv /\ QueueInv /\ ConsumingInv /\ FreshInv
      BY <1>1, <1>2 DEF WritingInv, QueueInv, ConsumingInv, FreshInv, Reading
<1>14. IndexInv
      BY <1>1, <1>2, <1>11 DEF IndexInv
<1>15. LossInv
      BY <1>1 DEF LossInv
<1> QED BY <1>6, <1>7, <1>8, <1>9, <1>10, <1>12, <1>13, <1>14, <1>15 DEF IInv

LEMMA UnmovedKeeps ==
    ASSUME IInv, UNCHANGED vars
    PROVE  IInv'
<1>1. TypeOK'
      BY DEF IInv, TypeOK, vars, diskVars, memoryVars, writerVars, readerVars, bounds, history
<1>2. LinesInv'
      BY LinesFrame DEF IInv, vars, diskVars, memoryVars, writerVars, readerVars, bounds,
         history
<1>3. FilesInv'
      BY FilesFrame DEF IInv, Opening, Used, vars, diskVars, memoryVars, writerVars, readerVars,
         bounds, history
<1>4. FlowInv'
      BY FlowFrame DEF IInv, FlowInv, vars, diskVars, memoryVars, writerVars, readerVars,
         bounds, history
<1>5. ControlInv'
      BY DEF IInv, ControlInv, Rolling, vars, diskVars, memoryVars, writerVars, readerVars,
         bounds, history
<1>6. RecordsInv'
      BY RecordsFrame DEF IInv, Tracked, Settled, vars, diskVars, memoryVars, writerVars,
         readerVars, bounds, history
<1>7. WritingInv'
      BY WritingFrame DEF IInv, Rolling, vars, diskVars, memoryVars, writerVars, readerVars,
         bounds, history
<1>8. QueueInv'
      BY QueueFrame DEF IInv, vars, diskVars, memoryVars, writerVars, readerVars, bounds,
         history
<1>9. ConsumingInv'
      BY ConsumingFrame DEF IInv, Settled, vars, diskVars, memoryVars, writerVars, readerVars,
         bounds, history
<1>10. FreshInv'
      BY QueueHoldsFiles, FreshFrame DEF IInv, vars, diskVars, memoryVars, history
<1>11. IndexInv'
      BY IndexFrame DEF IInv, InSave, Locked, Settled, vars, diskVars, memoryVars, writerVars,
         readerVars, bounds, history
<1>12. LossInv'
      BY LossFrame DEF IInv, Settled, vars, diskVars, memoryVars, writerVars, readerVars,
         bounds, history
<1> QED BY <1>1, <1>2, <1>3, <1>4, <1>5, <1>6, <1>7, <1>8, <1>9, <1>10, <1>11, <1>12 DEF IInv

LEMMA StepHolds == IInv /\ [Next]_vars => IInv'
<1> SUFFICES ASSUME IInv, [Next]_vars PROVE IInv'
    OBVIOUS
<1>1. CASE StashBegin
      BY <1>1, StashBeginKeeps
<1>2. CASE Stop
      BY <1>2, StopKeeps
<1>3. CASE Crash
      BY <1>3, CrashKeeps
<1>4. CASE Restart
      BY <1>4, RestartKeeps
<1>5. CASE KeepFile
      BY <1>5, KeepFileKeeps
<1>6. CASE RollFile
      BY <1>6, RollFileKeeps
<1>7. CASE RolledFile
      BY <1>7, RolledFileKeeps
<1>8. CASE CreateFile
      BY <1>8, CreateFileKeeps
<1>9. CASE CreatedFile
      BY <1>9, CreatedFileKeeps
<1>10. CASE PrintEvent
      BY <1>10, PrintEventKeeps
<1>11. CASE FlushBatch
      BY <1>11, FlushBatchKeeps
<1>12. CASE Poll
      BY <1>12, PollKeeps
<1>13. CASE Retry
      BY <1>13, RetryKeeps
<1>14. CASE Exit
      BY <1>14, ExitKeeps
<1>15. CASE SendAccepted
      BY <1>15, SendAcceptedKeeps
<1>16. CASE SendRefused
      BY <1>16, SendRefusedKeeps
<1>17. CASE SendThrows
      BY <1>17, SendThrowsKeeps
<1>18. CASE SaveBegin
      BY <1>18, SaveBeginKeeps
<1>19. CASE SaveEnd
      BY <1>19, SaveEndKeeps
<1>20. CASE EndOfFile
      BY <1>20, EndOfFileKeeps
<1>21. CASE ArchiveFile
      BY <1>21, ArchiveFileKeeps
<1>22. CASE RemoveBegin
      BY <1>22, RemoveBeginKeeps
<1>23. CASE RemoveEnd
      BY <1>23, RemoveEndKeeps
<1>24. CASE CloseFile
      BY <1>24, CloseFileKeeps
<1>25. CASE ClosedFile
      BY <1>25, ClosedFileKeeps
<1>26. CASE LeaveFileOpen
      BY <1>26, LeaveFileOpenKeeps
<1>27. CASE UNCHANGED vars
      BY <1>27, UnmovedKeeps
<1> QED BY <1>1, <1>2, <1>3, <1>4, <1>5, <1>6, <1>7, <1>8, <1>9, <1>10, <1>11, <1>12, <1>13,
          <1>14, <1>15, <1>16, <1>17, <1>18, <1>19, <1>20, <1>21, <1>22, <1>23, <1>24, <1>25,
          <1>26, <1>27 DEF Next, WriterNext, ReaderNext

LEMMA InvariantHolds == Spec => []IInv
<1> QED BY InitHolds, StepHolds, PTL DEF Spec

(* Every variable keeps its type, and what is delivered, dropped or        *)
(* stranded was written to a log file before.                              *)
THEOREM TypeCorrect == Spec => []TypeOK
<1>1. IInv => TypeOK
      BY DEF IInv
<1> QED BY <1>1, InvariantHolds, PTL

LEMMA NothingSilent == IInv => NoSilentLoss
<1> SUFFICES ASSUME IInv, NEW e \in stashed, e \notin Settled
             PROVE  \E r \in (IF alive THEN {r \in Range(records) : r.file \in Tracked}
                              ELSE {r \in Range(index) : r.status # "done"}) : e \in Unsent(r)
    BY DEF NoSilentLoss
<1>1. CASE alive
  <2>1. PICK r \in Range(records) : e \in Unsent(r)
        BY <1>1 DEF IInv, LossInv
  <2>2. SpoolFile(r.file) /\ r.status # "done"
        BY <2>1 DEF IInv, RecordsInv, Listed, Unsent, SpoolFile
  <2>3. r \in Records
        BY RangeIn DEF IInv, TypeOK
  <2>4. r.status \in {"write", "pending", "read"} /\ r.file # NoFile
        BY <2>2, <2>3, NoFileIsNone DEF Records
  <2>5. r.file \in Tracked
        BY <2>2, <2>4 DEF IInv, RecordsInv, Tracked
  <2> QED BY <1>1, <2>1, <2>5
<1>2. CASE ~alive
      BY <1>2 DEF IInv, LossInv
<1> QED BY <1>1, <1>2

(* Whatever is in a log file has reached the destination, is lost for one  *)
(* of the named reasons, or is in a file that one of the two threads will  *)
(* still get to (init, run and the index file).                            *)
THEOREM NothingLostSilently == Spec => []NoSilentLoss
<1> QED BY NothingSilent, InvariantHolds, PTL

-----------------------------------------------------------------------------
(* What is sent again.                                                     *)

LEMMA ResentLine ==
    ASSUME IInv, SendAccepted, NEW l \in Range(Batch), l.event \in fresh
    PROVE  l = disk[consuming].lines[Record(consuming).position]
<1>1. /\ rpc = "send" /\ TypeOK /\ consuming \in Files /\ Increasing(records)
      /\ records \in Seq(Records) /\ line \in Nat
      BY DEF SendAccepted, Read, IInv, TypeOK, ControlInv, QueueInv, Used, Reading,
             RecordsInv, Listed
<1>2. l # Garbage
      BY <1>1, SpoolAssumption DEF TypeOK, Events, Garbage
<1>3. PICK i \in DOMAIN disk[consuming].lines : line < i /\ l = disk[consuming].lines[i]
      BY <1>1, <1>2, BatchIs
<1>4. PICK r \in Range(records) :
         /\ r.file = consuming /\ r.position <= line + 1
         /\ \A j \in DOMAIN disk[consuming].lines :
               r.position < j => disk[consuming].lines[j].event \notin fresh
      BY <1>1 DEF IInv, ConsumingInv, Reading
<1>5. Record(consuming) = r /\ r \in Records
      BY <1>1, <1>4, RecordIs
<1>6. disk[consuming].lines \in Seq(Lines) /\ r.position \in Nat
      BY <1>1, <1>5 DEF TypeOK, LogFiles, Records
<1>7. i \in Nat /\ ~(r.position < i)
      BY <1>3, <1>4, <1>6
<1>8. i = r.position
      BY <1>1, <1>3, <1>4, <1>6, <1>7
<1> QED BY <1>3, <1>5, <1>8

(* Within the life of a process a file that is opened again, after the     *)
(* destination refused a batch, is sent from its last line on that was     *)
(* taken (linePosition), and never from a line before it.                  *)
THEOREM ResendsOneLine == Spec => ResendsAtMostOneLine
<1>1. IInv /\ [Next]_vars =>
         [SendAccepted =>
             \A l \in Range(Batch) : l.event \in fresh =>
                 l = disk[consuming].lines[Record(consuming).position]]_vars
      BY ResentLine
<1> QED BY <1>1, InvariantHolds, PTL DEF Spec, ResendsAtMostOneLine

-----------------------------------------------------------------------------
(* The promise of the spool.                                               *)

Owed == stashed \ Settled

(* Events that are written join those that are owed, behind them.          *)
LEMMA WrittenIsAccepted ==
    ASSUME IInv, NEW new \in SUBSET Range(buffer), stashed' = stashed \cup new,
           Settled' = Settled, UNCHANGED pending
    PROVE  \/ UNCHANGED <<Owed, pending>>
           \/ \E S \in SUBSET Events : Promise!Accept(S)
<1>1. CASE new = {}
      BY <1>1 DEF Owed
<1>2. CASE new # {}
  <2>1. TypeOK /\ buffer \in Seq(Events) /\ Range(buffer) \subseteq Events
        BY RangeIn DEF IInv, TypeOK
  <2>2. pending = TRUE
    <3>1. buffer # <<>>
          BY <1>2, <2>1, RangeIn
    <3> QED BY <2>1, <3>1 DEF IInv, FlowInv, TypeOK
  <2>3. \A e \in stashed, n \in new : e < n
        BY DEF IInv, FlowInv, Before
  <2>4. new \subseteq Events /\ \A n \in new : ~(n < n)
        BY <2>1, SpoolAssumption DEF Events
  <2>5. Settled \subseteq stashed
        BY <2>1 DEF TypeOK, Settled
  <2>6. new \cap Settled = {}
        BY <2>3, <2>4, <2>5
  <2>7. stashed' \ Settled' = (stashed \ Settled) \cup new
        BY <2>6
  <2>8. Promise!Accept(new)
        BY <2>2, <2>3, <2>7 DEF Promise!Accept, Promise!Before
  <2> QED BY <2>4, <2>8
<1> QED BY <1>1, <1>2

(* What is still owed comes after the batch: later in the file that is     *)
(* read, in a file that is queued, or in the one that is written.          *)
LEMMA BatchIsFirst ==
    ASSUME IInv, alive, rpc = "send",
           NEW s \in Sent(TRUE) \cup Sent(FALSE),
           NEW e \in Owed, e \notin Sent(TRUE) \cup Sent(FALSE)
    PROVE  s < e
<1>1. /\ consuming \in Files /\ consuming # NoFile /\ SpoolFile(consuming)
      /\ TypeOK /\ LinesInv /\ records \in Seq(Records) /\ Increasing(records)
      /\ Range(records) \subseteq Records
      BY RangeIn DEF IInv, TypeOK, ControlInv, QueueInv, ConsumingInv, Used, Reading,
             RecordsInv, Listed
<1>2. PICK i \in DOMAIN disk[consuming].lines :
         line < i /\ i <= line + Len(Batch) /\ s = disk[consuming].lines[i].event
      BY <1>1, SentIs, Zenon
<1>3. PICK r \in Range(records) : r.file \in Tracked /\ e \in Unsent(r)
  <2>1. NoSilentLoss
        BY NothingSilent
  <2> QED BY <2>1 DEF NoSilentLoss, Owed
<1>4. r.file \in Files /\ r.position \in Nat /\ SpoolFile(r.file)
      BY <1>1, <1>3 DEF Records, Unsent, SpoolFile
<1>5. PICK j \in r.position + 1 .. Len(disk[r.file].lines) : e = disk[r.file].lines[j].event
      BY <1>3, <1>4 DEF Unsent, SpoolFile
<1>6. j \in DOMAIN disk[r.file].lines /\ r.position < j /\ j \in Nat
  <2>1. disk[r.file].lines \in Seq(Lines)
        BY <1>1, <1>4 DEF TypeOK, LogFiles
  <2> QED BY <1>4, <1>5, <2>1
<1>7. CASE r.file = consuming
  <2>1. PICK q \in Range(records) :
           /\ q.file = consuming
           /\ \A k \in DOMAIN disk[consuming].lines :
                 q.position < k /\ k <= line => disk[consuming].lines[k].event \in Settled
        BY DEF IInv, ConsumingInv, Reading
  <2>2. q = r
        BY <1>1, <1>7, <2>1, OneRecord
  <2>3. ~(j <= line)
        BY <1>5, <1>6, <1>7, <2>1, <2>2 DEF Owed
  <2>4. ~(line < j /\ j <= line + Len(Batch))
        BY <1>1, <1>5, <1>6, <1>7, SentIs, Zenon
  <2>5. line \in Nat /\ Len(Batch) \in Nat /\ i \in Nat
    <3>1. disk[consuming].lines \in Seq(Lines)
          BY <1>1 DEF TypeOK, LogFiles
    <3> QED BY <1>1, <3>1, BatchIs DEF TypeOK
  <2>6. i < j
        BY <1>2, <1>6, <2>3, <2>4, <2>5
  <2> QED BY <1>1, <1>2, <1>5, <1>6, <1>7, <2>6 DEF LinesInv
<1>8. CASE r.file # consuming
  <2>1. consuming < r.file
    <3>1. CASE r.file \in Range(queue)
          BY <1>1, <3>1 DEF IInv, QueueInv, Before
    <3>2. CASE r.file = writing
      <4>1. writing # NoFile
            BY <1>4, <3>2, NoFileIsNone
      <4>2. consuming <= writing
            BY <1>1, <4>1 DEF IInv, WritingInv, QueueInv
      <4>3. consuming \in Nat /\ writing \in Nat
            BY <1>1, <1>4, <3>2, SpoolAssumption DEF Files
      <4> QED BY <1>8, <3>2, <4>2, <4>3
    <3> QED BY <1>3, <1>8, <3>1, <3>2 DEF Tracked
  <2>2. s \in EventsOf(consuming) /\ e \in EventsOf(r.file)
        BY <1>2, <1>5, <1>6 DEF EventsOf, EventsIn
  <2> QED BY <1>1, <1>4, <2>1, <2>2 DEF LinesInv, Before
<1> QED BY <1>7, <1>8

LEMMA StepKeepsPromise ==
    ASSUME IInv, Next
    PROVE  Promise!Next \/ UNCHANGED <<Owed, pending>>
<1>0. /\ TypeOK /\ pending \in BOOLEAN /\ Owed \in SUBSET Events
      /\ buffer \in Seq(Events) /\ Range(buffer) \in SUBSET Range(buffer)
      BY DEF IInv, TypeOK, Owed
<1>a. (\E S \in SUBSET Events : Promise!Accept(S) \/ Promise!HandOver(S) \/ Promise!GiveUp(S))
         => Promise!Next
      BY DEF Promise!Next
<1>1. CASE \/ StashBegin \/ Stop \/ KeepFile \/ RolledFile \/ CreateFile \/ CreatedFile
           \/ Poll \/ Retry \/ Exit \/ SendRefused \/ SaveBegin \/ SaveEnd \/ EndOfFile
           \/ ArchiveFile \/ RemoveBegin \/ ClosedFile \/ LeaveFileOpen
  <2>1. UNCHANGED <<stashed, delivered, dropped, stranded, pending>>
        BY <1>1 DEF StashBegin, Stop, KeepFile, RolledFile, CreateFile, CreatedFile, Poll,
               Retry, Exit, SendRefused, SaveBegin, SaveEnd, EndOfFile, ArchiveFile,
               RemoveBegin, ClosedFile, LeaveFileOpen, memoryVars, history
  <2> QED BY <2>1 DEF Owed, Settled
<1>2. CASE FlushBatch \/ RollFile \/ CloseFile
  <2>1. stashed' = stashed \cup Range(buffer) /\ UNCHANGED <<delivered, dropped, stranded, pending>>
        BY <1>2 DEF FlushBatch, RollFile, CloseFile, RollBegin
  <2>2. Settled' = Settled
        BY <2>1 DEF Settled
  <2> QED BY <1>0, <1>a, <2>1, <2>2, WrittenIsAccepted
<1>3. CASE Crash
  <2>1. PICK n \in 0 .. Len(buffer) :
           /\ stashed' = stashed \cup Range(SubSeq(buffer, 1, n))
           /\ stranded' = IF InSave THEN stashed' \ (delivered \cup dropped) ELSE stranded
        BY <1>3 DEF Crash
  <2>2. UNCHANGED <<pending, delivered, dropped>>
        BY <1>3 DEF Crash
  <2>3. CASE InSave
    <3>1. Owed' = {}
          BY <2>1, <2>2, <2>3 DEF Owed, Settled
    <3>2. Promise!GiveUp(Owed)
          BY <2>2, <3>1 DEF Promise!GiveUp, Owed
    <3> QED BY <1>0, <1>a, <3>2
  <2>4. CASE ~InSave
    <3>1. Settled' = Settled
          BY <2>1, <2>2, <2>4 DEF Settled
    <3>2. Range(SubSeq(buffer, 1, n)) \in SUBSET Range(buffer)
          BY <1>0 DEF Range
    <3> QED BY <1>a, <2>1, <2>2, <3>1, <3>2, WrittenIsAccepted
  <2> QED BY <2>3, <2>4
<1>4. CASE SendAccepted \/ SendThrows
  <2> DEFINE S == Sent(TRUE) \cup Sent(FALSE)
  <2>1. /\ alive /\ rpc = "send" /\ UNCHANGED <<stashed, stranded, pending>>
        /\ delivered' \cup dropped' = delivered \cup dropped \cup S
        BY <1>4, Zenon DEF SendAccepted, SendThrows, Read, memoryVars
  <2> HIDE DEF S
  <2>2. Owed' = Owed \ S
        BY <2>1 DEF Owed, Settled
  <2>3. S \in SUBSET Events
    <3>1. consuming \in Files /\ LinesInv
          BY <2>1 DEF IInv, ControlInv, QueueInv, Used, Reading
    <3>2. S \subseteq stashed
          BY <1>0, <3>1, SentIs, Zenon DEF S
    <3> QED BY <1>0, <3>2 DEF TypeOK
  <2>4. \A s \in S, e \in Owed \ S : s < e
        BY <2>1, BatchIsFirst DEF S
  <2>5. Promise!HandOver(S)
        BY <2>1, <2>2, <2>4 DEF Promise!HandOver, Promise!Before, Owed
  <2> QED BY <1>a, <2>3, <2>5
<1>5. CASE PrintEvent
      BY <1>5 DEF PrintEvent, history, Owed, Settled, Promise!Next, Promise!Raise
<1>6. CASE Restart \/ RemoveEnd
  <2>1. UNCHANGED <<stashed, delivered, dropped, stranded>> /\ pending' \in BOOLEAN
        BY <1>0, <1>6 DEF Restart, RemoveEnd, StillPending, history
  <2>2. Owed' = Owed
        BY <2>1 DEF Owed, Settled
  <2>3. pending' = FALSE => Owed = {} \/ pending = FALSE
    <3>1. CASE Restart
      <4>1. ~alive /\ (pending' <=> \E r \in Range(index) : r.status # "done")
            BY <3>1 DEF Restart
      <4> QED BY <4>1 DEF IInv, LossInv, Owed
    <3>2. CASE RemoveEnd
      <4>1. alive /\ (pending' <=> pending /\ records # <<>>)
            BY <3>2 DEF RemoveEnd, Read, StillPending
      <4>2. records = <<>> => Range(records) = {}
            BY DEF Range
      <4> QED BY <1>0, <4>1, <4>2 DEF IInv, LossInv, Owed
    <3> QED BY <1>6, <3>1, <3>2
  <2>4. CASE pending' = TRUE
        BY <2>2, <2>4 DEF Promise!Next, Promise!Raise, Owed
  <2>5. CASE pending' = FALSE /\ Owed = {}
        BY <2>2, <2>5 DEF Promise!Next, Promise!Clear, Owed
  <2>6. CASE pending' = FALSE /\ pending = FALSE
        BY <2>2, <2>6
  <2> QED BY <2>1, <2>3, <2>4, <2>5, <2>6
<1> QED BY <1>1, <1>2, <1>3, <1>4, <1>5, <1>6 DEF Next, WriterNext, ReaderNext

(* Through crashes, restarts and retries the spool hands the events over   *)
(* in the order in which they were stashed, and isPending answers TRUE as  *)
(* long as one of them waits in a log file: what AuditSpool promises.      *)
THEOREM ImplementsSpool == Spec => ImplementsAuditSpool
<1>1. Init => Promise!Init
      BY DEF Init, Promise!Init, Settled
<1>2. IInv /\ [Next]_vars => [Promise!Next]_<<stashed \ Settled, pending>>
  <2> SUFFICES ASSUME IInv, [Next]_vars
               PROVE  Promise!Next \/ UNCHANGED <<stashed \ Settled, pending>>
      OBVIOUS
  <2>1. CASE UNCHANGED vars
        BY <2>1 DEF vars, memoryVars, history, Settled
  <2>2. CASE Next
        BY <2>2, StepKeepsPromise DEF Owed
  <2> QED BY <2>1, <2>2
<1> QED BY <1>1, <1>2, InvariantHolds, PTL DEF Spec, ImplementsAuditSpool, Promise!Spec
===============================================================================
