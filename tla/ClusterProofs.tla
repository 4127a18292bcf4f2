--------------------------- MODULE ClusterProofs ---------------------------
(***************************************************************************)
(* A reader that accepts the metadata of a peer has all of one             *)
(* publication, for any number of records and publications, as long as the *)
(* sequence number does not come round within them and stores are seen in  *)
(* the order of the code.                                                  *)
(*                                                                         *)
(* The owner's side of the argument (WInv) says what the region holds at   *)
(* each point of a publication; a header with publish_done_seq set means   *)
(* that all of the region is of its publication.  The reader's side (RInv) *)
(* says what the reader has collected is right if the header it started    *)
(* from is still there: a publication that has been cleared never comes    *)
(* back.                                                                   *)
(***************************************************************************)
EXTENDS ClusterPayload, TLAPS

\* The sequence number of publication k.
SeqAt(k) == IF FirstSeq + k < SeqModulus THEN FirstSeq + k ELSE FirstSeq + k + 1 - SeqModulus

\* The region when publication k is complete.
RecordAt(k, i) == IF i <= counts[k] THEN k ELSE 0
HeadAt(k, d) == [pub |-> k, count |-> counts[k], seq |-> SeqAt(k), done |-> d]
Region(k) == [head |-> HeadAt(k, SeqAt(k)), sum |-> k, rec |-> [i \in Records |-> RecordAt(k, i)]]

\* What the region holds before publication k begins.
Before(k) == IF k = 1 THEN Cleared ELSE Region(k - 1)

WriterAt ==
    \/ writer.pc \in {"idle", "flush"} /\ mem = IF writer.pub = 0 THEN Cleared ELSE Region(writer.pub)
    \/ writer.pc = "clear" /\ writer.left = {Header} /\ mem = Before(writer.pub)
    \/ writer.pc = "clear" /\ Header \notin writer.left /\ mem.head = NoHead
    \/ /\ writer.pc = "copy"
       /\ mem.head = IF Header \in writer.left THEN NoHead ELSE HeadAt(writer.pub, 0)
       /\ Summary \notin writer.left => mem.sum = writer.pub
       /\ \A i \in Records : i \notin writer.left => mem.rec[i] = RecordAt(writer.pub, i)
    \/ writer.pc = "done" /\ mem = [Region(writer.pub) EXCEPT !.head.done = 0]

\* The owner's invariant.
WInv ==
    /\ view = mem /\ mem \in RegionType /\ counts \in [Pubs -> 0 .. MaxRecords]
    /\ writer.pub \in Pubs /\ writer.left \in SUBSET Words
    /\ writer.pc \in {"idle", "clear", "copy", "done", "flush"}
    /\ writer.pc /= "idle" => writer.pub > 0
    /\ publishSeq = SeqAt(writer.pub)
    /\ done \in Pubs /\ done <= writer.pub /\ (writer.pc /= "idle" => done < writer.pub)
    /\ WriterAt

\* Publication k is complete in the region; it has been.
There(k) == mem.head.done /= 0 /\ mem.head.pub = k
Was(k) == k \in 1 .. writer.pub /\ (k = writer.pub => writer.pc \in {"idle", "flush"})

\* All the reader wants of publication k is in its buffer.
Collected(k) ==
    /\ reader.mode = "records" => \A j \in Records : j < reader.i => reader.data[j] = RecordAt(k, j)
    /\ reader.mode = "summary" => reader.data[Summary] = k
    /\ reader.mode = "find" => reader.data[reader.i] = k /\ KeyOf(k, reader.i) = 0

\* What the reader has so far is right.
RightSoFar(k) ==
    /\ reader.pc = "data" /\ reader.mode = "records" =>
          \A j \in Records : j < reader.i => reader.data[j] = RecordAt(k, j)
    /\ reader.pc = "copy" => RecordAt(k, reader.i) = k /\ KeyOf(k, reader.i) = 0
    /\ reader.pc \in {"confirm", "confirmSeq"} => Collected(k)
    /\ reader.pc = "confirmSeq" => reader.again.count = counts[k]

ReaderType ==
    [pc : {"idle", "start", "seq", "data", "copy", "confirm", "confirmSeq", "retry", "accepted"},
     mode : {"none", "records", "summary", "find"}, head : HeadType, again : HeadType,
     i : 1 .. MaxRecords + 1, data : [Records \cup {Summary} -> Pubs], floor : Pubs]

ReaderTyped ==
    /\ reader \in ReaderType
    /\ reader.floor <= done
    /\ reader.pc = "seq" => reader.i = 1
    /\ reader.pc = "copy" => reader.mode = "find"
    /\ reader.mode = "find" => reader.i <= MaxRecords
    /\ reader.pc = "data" => reader.i <= reader.head.count /\ reader.head.count \in Records
    /\ reader.pc \in {"confirm", "confirmSeq"} /\ reader.mode = "records" =>
          reader.i = reader.head.count + 1

\* The reader's invariant.
RInv ==
    /\ ReaderTyped
    /\ reader.pc \in {"data", "copy", "confirm", "confirmSeq"} =>
          /\ Was(Of) /\ Of >= reader.floor
          /\ reader.head.seq = SeqAt(Of) /\ reader.head.done = SeqAt(Of)
          /\ There(Of) => RightSoFar(Of)
    /\ reader.pc = "accepted" => Of \in 1 .. writer.pub /\ StableReads

IInv == WInv /\ RInv

\* No sequence number is used twice, and peers see stores as they are made.
Premise == Coherent /\ MaxPublish < SeqModulus

-----------------------------------------------------------------------------
(* Sequence numbers.                                                       *)

LEMMA SeqType == Premise => \A k \in Pubs : SeqAt(k) \in 0 .. SeqModulus - 1 /\ (k > 0 => SeqAt(k) > 0)
  BY PayloadAssumption DEF Premise, Pubs, SeqAt

LEMMA SeqStep == Premise => \A k \in Pubs : k < MaxPublish => NextSeq(SeqAt(k)) = SeqAt(k + 1)
  BY PayloadAssumption DEF Premise, Pubs, SeqAt, NextSeq

LEMMA SeqDistinct ==
    Premise => \A j, k \in Pubs : j > 0 /\ k > 0 /\ SeqAt(j) = SeqAt(k) => j = k
  BY PayloadAssumption DEF Premise, Pubs, SeqAt

\* A region that is complete, or cleared, is well formed.
LEMMA RegionTyped ==
    ASSUME Premise, counts \in [Pubs -> 0 .. MaxRecords]
    PROVE  Cleared \in RegionType /\ \A k \in Pubs : Region(k) \in RegionType
  <1>1. 0 \in Pubs /\ 0 \in 0 .. MaxRecords /\ 0 \in 0 .. SeqModulus - 1
    BY PayloadAssumption DEF Pubs
  <1>2. Cleared \in RegionType
    BY <1>1 DEF Cleared, NoHead, RegionType, HeadType
  <1>3. ASSUME NEW k \in Pubs PROVE Region(k) \in RegionType
    BY <1>1, SeqType DEF Region, HeadAt, RecordAt, RegionType, HeadType
  <1> QED
    BY <1>2, <1>3

\* A header with publish_done_seq set stands for the whole region, and its
\* publication is the current one, finished, or the one before, about to be
\* cleared.
LEMMA CompleteRegion ==
    ASSUME Premise, WInv, mem.head.done /= 0
    PROVE  /\ mem.head.pub \in Pubs \ {0} /\ mem = Region(mem.head.pub)
           /\ \/ mem.head.pub = writer.pub /\ writer.pc \in {"idle", "flush"}
              \/ mem.head.pub = writer.pub - 1 /\ writer.pc = "clear" /\ writer.left = {Header}
  <1>1. CASE writer.pc \in {"idle", "flush"}
    BY <1>1 DEF WInv, WriterAt, Cleared, NoHead, Region, HeadAt, Pubs
  <1>2. CASE writer.pc = "clear" /\ writer.left = {Header}
    <2>1. mem = Before(writer.pub) /\ writer.pub \in Pubs /\ writer.pub > 0 /\ writer.pub /= 1
      BY <1>2 DEF WInv, WriterAt, Before, Cleared, NoHead
    <2>2. mem = Region(writer.pub - 1) /\ writer.pub - 1 \in Pubs \ {0}
      BY <2>1, PayloadAssumption DEF Before, Pubs
    <2>3. mem.head.pub = writer.pub - 1
      BY <2>2 DEF Region, HeadAt
    <2> QED
      BY <1>2, <2>2, <2>3, Zenon
  <1>3. CASE writer.pc = "clear" /\ Header \notin writer.left
    BY <1>3 DEF WInv, WriterAt, NoHead
  <1>4. CASE writer.pc \in {"copy", "done"}
    BY <1>4 DEF WInv, WriterAt, NoHead, HeadAt, Region
  <1> QED
    BY <1>1, <1>2, <1>3, <1>4 DEF WInv, WriterAt

-----------------------------------------------------------------------------
(* The owner.                                                              *)

LEMMA InitInv == Premise /\ Init => IInv
  <1> SUFFICES ASSUME Premise, Init PROVE IInv
    OBVIOUS
  <1>1. 0 \in Pubs /\ 0 \in 0 .. MaxRecords /\ 0 \in 0 .. SeqModulus - 1 /\ 1 \in 1 .. MaxRecords + 1 /\ 1 <= MaxRecords
    BY PayloadAssumption DEF Pubs
  <1>2. counts \in [Pubs -> 0 .. MaxRecords]
    BY <1>1 DEF Init, Pubs
  <1>3. mem = Cleared /\ view = mem /\ mem \in RegionType
    BY <1>2, RegionTyped DEF Init
  <1>4. writer.pub = 0 /\ writer.pc = "idle" /\ writer.left = {} /\ done = 0
    BY DEF Init, IdleWriter
  <1>5. publishSeq = SeqAt(0)
    BY PayloadAssumption DEF Init, SeqAt
  <1>6. WriterAt
    BY <1>3, <1>4 DEF WriterAt
  <1>7. WInv
    BY <1>1, <1>2, <1>3, <1>4, <1>5, <1>6 DEF WInv
  <1>8. RInv
    <2>1. NoHead \in HeadType
      BY <1>1 DEF NoHead, HeadType
    <2>2. reader.pc = "idle" /\ reader.mode = "none" /\ reader.floor = 0 /\ reader.i = 1
      BY DEF Init, IdleReader
    <2>3. reader \in ReaderType
      <3>1. [w \in Records \cup {Summary} |-> 0] \in [Records \cup {Summary} -> Pubs]
        BY <1>1
      <3> QED
        BY <1>1, <2>1, <3>1 DEF Init, IdleReader, ReaderType
    <2> QED
      BY <1>1, <1>4, <2>2, <2>3 DEF RInv, ReaderTyped
  <1> QED
    BY <1>7, <1>8 DEF IInv

LEMMA PublishBeginInv ==
    ASSUME Premise, WInv, NEW n \in 0 .. MaxRecords, PublishBegin(n)
    PROVE  WInv'
  <1>1. /\ writer.pc = "idle" /\ writer.pub < MaxPublish /\ writer.pub \in Pubs
        /\ writer'.pc = "clear" /\ writer'.pub = writer.pub + 1 /\ writer'.left = {Header}
        /\ counts' = [counts EXCEPT ![writer.pub + 1] = n]
        /\ mem' = mem /\ view' = view /\ done' = done
        /\ publishSeq' = NextSeq(publishSeq)
    BY DEF PublishBegin, WInv
  <1>2. writer.pub + 1 \in Pubs /\ MaxPublish \in Nat /\ writer.pub \in Nat
    BY <1>1, PayloadAssumption DEF Pubs
  <1>3. publishSeq' = SeqAt(writer.pub + 1)
    BY <1>1, SeqStep DEF WInv
  <1>4. counts' \in [Pubs -> 0 .. MaxRecords]
    BY <1>1, <1>2 DEF WInv
  <1>5. mem' = (Before(writer.pub))'
    <2>1. CASE writer.pub = 0
      <3>1. mem = Cleared /\ writer'.pub = 1
        BY <1>1, <2>1 DEF WInv, WriterAt
      <3> QED
        BY <1>1, <3>1 DEF Before, Cleared, Records, NoHead
    <2>2. CASE writer.pub /= 0
      <3>1. mem = Region(writer.pub)
        BY <1>1, <2>2 DEF WInv, WriterAt
      <3>2. counts'[writer.pub] = counts[writer.pub]
        BY <1>1, <1>2 DEF WInv
      <3>3. Region(writer.pub) = (Region(writer.pub - 1))'
        BY <1>1, <1>2, <3>2 DEF Region, HeadAt, RecordAt
      <3> QED
        BY <1>1, <1>2, <2>2, <3>1, <3>3 DEF Before
    <2> QED
      BY <2>1, <2>2
  <1>6. WriterAt'
    BY <1>1, <1>5 DEF WriterAt
  <1>7. done' < writer'.pub /\ done' \in Pubs
    BY <1>1, <1>2 DEF WInv, Pubs
  <1> QED
    <2>1. view' = mem' /\ mem' \in RegionType /\ (RegionType)' = RegionType
      BY <1>1 DEF WInv, RegionType, HeadType, Pubs, Records
    <2>2. writer'.left \in SUBSET Words
      BY <1>1 DEF Words
    <2>3. publishSeq' = SeqAt(writer.pub)'
      BY <1>1, <1>3 DEF SeqAt
    <2>4. /\ writer'.pub \in Pubs /\ writer'.pub > 0
          /\ done' \in Pubs /\ done' <= writer'.pub /\ done' < writer'.pub
      BY <1>1, <1>2, <1>7 DEF Pubs
    <2>5. writer'.pc = "clear"
      BY <1>1
    <2> QED
      BY <1>4, <1>6, <2>1, <2>2, <2>3, <2>4, <2>5 DEF WInv

\* The stores of a publication in progress.
LEMMA StoreStep ==
    ASSUME WInv, writer.pc /= "idle", writer'.pub = writer.pub, writer'.left \in SUBSET Words,
           writer'.pc \in {"clear", "copy", "done", "flush"}, view' = mem', mem' \in RegionType,
           UNCHANGED <<publishSeq, counts, done>>, WriterAt'
    PROVE  WInv'
  BY DEF WInv, SeqAt

LEMMA ClearInv ==
    ASSUME Premise, WInv, NEW w \in Words, Clear(w)
    PROVE  WInv' /\ ~(mem'.head.done /= 0)
  <1>1. /\ writer.pc = "clear" /\ w \in writer.left /\ writer'.pub = writer.pub
        /\ view' = Zeroed(mem, w) /\ mem' = Zeroed(mem, w)
        /\ UNCHANGED <<publishSeq, counts, done>>
    BY DEF Clear, Store, WInv, Premise
  <1>2. Zeroed(mem, w) \in RegionType
    <2>1. 0 \in Pubs /\ NoHead \in HeadType /\ mem \in RegionType
      BY PayloadAssumption DEF Pubs, NoHead, HeadType, WInv
    <2> QED
      BY <2>1 DEF Zeroed, RegionType, Words
  <1>3. mem'.head = NoHead
    <2>1. CASE w = Header
      <3>1. mem' = [mem EXCEPT !.head = NoHead] /\ mem \in RegionType
        BY <1>1, <2>1 DEF Zeroed, WInv, Header, Summary
      <3> QED
        BY <3>1 DEF RegionType
    <2>2. CASE w /= Header
      <3>1. mem.head = NoHead
        BY <1>1, <2>2 DEF WInv, WriterAt
      <3> QED
        BY <1>1, <2>2, <3>1 DEF Zeroed, WInv, RegionType
    <2> QED
      BY <2>1, <2>2
  <1>4. /\ writer'.pc \in {"clear", "copy"} /\ writer'.left \in SUBSET Words
        /\ writer'.pc = "clear" => Header \notin writer'.left
        /\ writer'.pc = "copy" => writer'.left = Words
    <2>1. CASE w = Header
      BY <1>1, <2>1 DEF Clear, Words
    <2>2. CASE w /= Header
      <3>1. Header \notin writer.left /\ writer.left \in SUBSET Words
        BY <1>1, <2>2 DEF WInv, WriterAt
      <3> QED
        BY <1>1, <2>2, <3>1 DEF Clear
    <2> QED
      BY <2>1, <2>2
  <1>5. WriterAt'
    <2>1. CASE writer'.pc = "clear"
      BY <1>3, <1>4, <2>1 DEF WriterAt
    <2>2. CASE writer'.pc = "copy"
      <3>1. writer'.left = Words /\ Header \in Words /\ Summary \in Words /\ Records \subseteq Words
        BY <1>4, <2>2 DEF Words
      <3> QED
        BY <1>3, <2>2, <3>1 DEF WriterAt
    <2> QED
      BY <1>4, <2>1, <2>2
  <1>6. WInv'
    BY <1>1, <1>2, <1>4, <1>5, StoreStep
  <1> QED
    BY <1>3, <1>6 DEF NoHead

LEMMA CopyInv ==
    ASSUME Premise, WInv, NEW w \in Words, Copy(w)
    PROVE  WInv' /\ ~(mem'.head.done /= 0)
  <1> DEFINE k == writer.pub
  <1>1. /\ writer.pc = "copy" /\ w \in writer.left /\ writer'.pub = k
        /\ view' = Copied(mem, w, k) /\ mem' = Copied(mem, w, k)
        /\ UNCHANGED <<publishSeq, counts, done>>
    BY DEF Copy, Store, WInv, Premise
  <1>2. /\ k \in Pubs /\ counts[k] \in 0 .. MaxRecords /\ 0 \in Pubs /\ publishSeq = SeqAt(k)
        /\ publishSeq \in 0 .. SeqModulus - 1 /\ 0 \in 0 .. SeqModulus - 1 /\ mem \in RegionType
    BY SeqType, PayloadAssumption DEF WInv, Pubs
  <1>3. Copied(mem, w, k) \in RegionType
    BY <1>2 DEF Copied, RegionType, HeadType, Words
  <1>4. /\ mem'.head = IF w = Header \/ Header \notin writer.left THEN HeadAt(k, 0) ELSE NoHead
        /\ Summary \notin writer.left \ {w} => mem'.sum = k
        /\ \A i \in Records : i \notin writer.left \ {w} => mem'.rec[i] = RecordAt(k, i)
    <2>1. /\ mem.head = IF Header \in writer.left THEN NoHead ELSE HeadAt(k, 0)
          /\ Summary \notin writer.left => mem.sum = k
          /\ \A i \in Records : i \notin writer.left => mem.rec[i] = RecordAt(k, i)
      BY <1>1 DEF WInv, WriterAt
    <2>2. Header /= Summary /\ Header \notin Records /\ Summary \notin Records
      BY DEF Header, Summary, Records
    <2>3. CASE w = Header
      <3>1. /\ mem'.head = HeadAt(k, 0) /\ mem'.sum = mem.sum /\ mem'.rec = mem.rec
        <4>1. mem' = [mem EXCEPT !.head = HeadAt(k, 0)]
          BY <1>1, <1>2, <2>2, <2>3 DEF Copied, HeadAt
        <4> QED
          BY <1>2, <4>1 DEF RegionType
      <3> QED
        BY <2>1, <2>2, <2>3, <3>1
    <2>4. CASE w = Summary
      <3>1. /\ mem'.head = mem.head /\ mem'.sum = k /\ mem'.rec = mem.rec
        BY <1>1, <1>2, <2>2, <2>4 DEF Copied, RegionType
      <3> QED
        BY <2>1, <2>2, <2>4, <3>1
    <2>5. CASE w \in Records
      <3>1. mem'.head = mem.head /\ mem'.sum = mem.sum
        BY <1>1, <1>2, <2>2, <2>5 DEF Copied, RegionType
      <3>2. mem'.rec = [mem.rec EXCEPT ![w] = RecordAt(k, w)]
        BY <1>1, <1>2, <2>2, <2>5 DEF Copied, RegionType, RecordAt
      <3>3. \A i \in Records : mem'.rec[i] = IF i = w THEN RecordAt(k, w) ELSE mem.rec[i]
        BY <1>2, <3>2 DEF RegionType
      <3> QED
        BY <2>1, <2>2, <2>5, <3>1, <3>3
    <2> QED
      BY <2>3, <2>4, <2>5 DEF Words
  <1>5. CASE writer.left = {w}
    <2>1. writer'.pc = "done" /\ writer'.left = {}
      BY <1>1, <1>5 DEF Copy
    <2>2. mem'.head = HeadAt(k, 0) /\ mem'.sum = k /\ \A i \in Records : mem'.rec[i] = RecordAt(k, i)
      BY <1>4, <1>5
    <2>3. mem' = [Region(k) EXCEPT !.head.done = 0]
      <3>1. mem' \in RegionType
        BY <1>1, <1>3
      <3>2. mem'.rec = [i \in Records |-> RecordAt(k, i)]
        BY <2>2, <3>1 DEF RegionType
      <3> QED
        BY <2>2, <3>1, <3>2 DEF RegionType, Region, HeadAt
    <2>4. WriterAt'
      BY <1>1, <2>1, <2>3 DEF WriterAt, Region, HeadAt, RecordAt, SeqAt
    <2> QED
      BY <1>1, <1>3, <2>1, <2>2, <2>4, StoreStep DEF HeadAt
  <1>6. CASE writer.left /= {w}
    <2>1. writer'.pc = "copy" /\ writer'.left = writer.left \ {w} /\ writer'.left \in SUBSET Words
      BY <1>1, <1>6 DEF Copy, WInv
    <2>2. mem'.head = IF Header \in writer'.left THEN NoHead ELSE HeadAt(k, 0)
      BY <1>1, <1>4, <2>1
    <2>3. WriterAt'
      BY <1>1, <1>4, <2>1, <2>2 DEF WriterAt, HeadAt, RecordAt, SeqAt
    <2>4. WInv'
      BY <1>1, <1>3, <2>1, <2>3, StoreStep
    <2> QED
      BY <2>2, <2>4 DEF HeadAt, NoHead
  <1> QED
    BY <1>5, <1>6

LEMMA MarkDoneInv ==
    ASSUME Premise, WInv, MarkDone
    PROVE  WInv' /\ mem'.head.pub = writer.pub
  <1> DEFINE k == writer.pub
  <1>1. /\ writer.pc = "done" /\ writer'.pc = "flush" /\ writer'.pub = k /\ writer'.left = writer.left
        /\ view' = mem' /\ mem' = [mem EXCEPT !.head.done = publishSeq]
        /\ UNCHANGED <<publishSeq, counts, done>>
    BY DEF MarkDone, Store, WInv, Premise
  <1>2. /\ k \in Pubs /\ k > 0 /\ publishSeq = SeqAt(k) /\ writer.left \in SUBSET Words
        /\ mem = [Region(k) EXCEPT !.head.done = 0]
    BY <1>1 DEF WInv, WriterAt
  <1>3. mem' = Region(k)
    BY <1>1, <1>2 DEF Region, HeadAt
  <1>4. mem' \in RegionType
    BY <1>2, <1>3, RegionTyped DEF WInv
  <1>5. WriterAt'
    <2>1. (Region(writer.pub))' = Region(k)
      BY <1>1 DEF Region, HeadAt, RecordAt, SeqAt
    <2>2. k /= 0
      BY <1>2 DEF Pubs
    <2> QED
      BY <1>1, <1>3, <2>1, <2>2 DEF WriterAt
  <1>6. WInv'
    BY <1>1, <1>2, <1>4, <1>5, StoreStep
  <1> QED
    BY <1>3, <1>6 DEF Region, HeadAt

LEMMA FlushInv ==
    ASSUME Premise, WInv, Flushed \/ FlushFails
    PROVE  WInv'
  <1>1. /\ writer.pc = "flush" /\ writer'.pc = "idle" /\ writer'.pub = writer.pub
        /\ writer'.left = writer.left /\ done' \in {done, writer.pub}
        /\ UNCHANGED <<publishSeq, view, mem, counts>>
    <2>1. CASE Flushed
      BY <2>1 DEF Flushed
    <2>2. CASE FlushFails
      BY <2>2 DEF FlushFails
    <2> QED
      BY <2>1, <2>2
  <1>2. WriterAt'
    <2>1. (Region(writer.pub))' = Region(writer.pub)
      BY <1>1 DEF Region, HeadAt, RecordAt, SeqAt
    <2>2. mem = IF writer.pub = 0 THEN Cleared ELSE Region(writer.pub)
      BY <1>1 DEF WInv, WriterAt
    <2>3. (Cleared)' = Cleared
      BY DEF Cleared, NoHead, Records
    <2> QED
      BY <1>1, <2>1, <2>2, <2>3 DEF WriterAt
  <1>3. writer.pub \in Pubs /\ done \in Pubs /\ done <= writer.pub
    BY DEF WInv
  <1>4. done' \in Pubs /\ done' <= writer.pub
    BY <1>1, <1>3, PayloadAssumption DEF Pubs
  <1>5. /\ view = mem /\ mem \in RegionType /\ counts \in [Pubs -> 0 .. MaxRecords]
        /\ writer.left \in SUBSET Words /\ publishSeq = SeqAt(writer.pub)
    BY DEF WInv
  <1>6. publishSeq' = (SeqAt(writer.pub))'
    BY <1>1, <1>5 DEF SeqAt
  <1>7. (RegionType)' = RegionType
    BY DEF RegionType, HeadType, Pubs, Records
  <1> QED
    BY <1>1, <1>2, <1>3, <1>4, <1>5, <1>6, <1>7 DEF WInv

-----------------------------------------------------------------------------
(* The reader.                                                             *)

\* A step of the owner that brings no earlier publication back and leaves the
\* counts of the publications so far alone takes nothing from the reader.
LEMMA OwnerKeepsReader ==
    ASSUME Premise, IInv, WInv', reader' = reader, done <= done', writer.pub <= writer'.pub,
           \A k \in 1 .. writer.pub : /\ counts'[k] = counts[k]
                                      /\ Was(k) => Was(k)' /\ (There(k)' => There(k))
    PROVE  RInv'
  <1>1. writer.pub \in Nat /\ writer'.pub \in Nat /\ done \in Nat /\ done' \in Nat
    BY DEF IInv, WInv, Pubs
  <1>2. ReaderTyped'
    <2>1. reader.floor \in Nat
      BY DEF IInv, RInv, ReaderTyped, ReaderType, Pubs
    <2>2. reader'.floor <= done'
      BY <1>1, <2>1 DEF IInv, RInv, ReaderTyped
    <2> QED
      BY <2>2 DEF IInv, RInv, ReaderTyped, ReaderType, HeadType, Pubs, Records
  <1>3. ASSUME reader.pc \in {"data", "copy", "confirm", "confirmSeq"}
        PROVE  /\ (Was(Of))' /\ Of' >= reader'.floor
               /\ reader'.head.seq = SeqAt(Of) /\ reader'.head.done = SeqAt(Of)
               /\ (There(Of) => RightSoFar(Of))'
    <2>1. /\ Was(Of) /\ Of >= reader.floor
          /\ reader.head.seq = SeqAt(Of) /\ reader.head.done = SeqAt(Of)
          /\ There(Of) => RightSoFar(Of)
      BY <1>3 DEF IInv, RInv
    <2>2. Of \in 1 .. writer.pub /\ Of' = Of
      BY <2>1 DEF Was, Of
    <2>3. (Was(Of))' /\ ((There(Of))' => There(Of))
      BY <2>1, <2>2 DEF Was, There
    <2>4. counts'[Of] = counts[Of]
      BY <2>2
    <2>5. RightSoFar(Of) => (RightSoFar(Of))'
      BY <2>2, <2>4 DEF RightSoFar, Collected, RecordAt, KeyOf
    <2> QED
      BY <2>1, <2>2, <2>3, <2>5
  <1>4. ASSUME reader.pc = "accepted" PROVE (Of \in 1 .. writer.pub /\ StableReads)'
    <2>1. Of \in 1 .. writer.pub /\ Of' = Of /\ StableReads
      BY <1>4 DEF IInv, RInv, Of
    <2>2. counts'[Of] = counts[Of]
      BY <2>1
    <2> QED
      BY <1>1, <2>1, <2>2 DEF StableReads, StableRecords, StableSummary, PublishedIsVisible, KeyOf
  <1>5. (SeqAt(Of))' = SeqAt(Of)
    BY DEF SeqAt, Of
  <1> QED
    BY <1>2, <1>3, <1>4, <1>5 DEF RInv

\* Every step of the owner does.
LEMMA OwnerStep ==
    ASSUME Premise, IInv,
           \/ \E n \in 0 .. MaxRecords : PublishBegin(n)
           \/ Writer \/ FlushFails
    PROVE  IInv'
  <1> DEFINE Keeps == \A k \in 1 .. writer.pub :
                        counts'[k] = counts[k] /\ (Was(k) => Was(k)' /\ (There(k)' => There(k)))
  <1>0. WInv /\ writer.pub \in Nat /\ done \in Nat
    BY DEF IInv, WInv, Pubs
  <1>1. ASSUME NEW n \in 0 .. MaxRecords, PublishBegin(n) PROVE IInv'
    <2>1. WInv'
      BY <1>0, <1>1, PublishBeginInv
    <2>2. /\ writer.pc = "idle" /\ writer'.pub = writer.pub + 1 /\ mem' = mem /\ reader' = reader
          /\ done' = done /\ counts' = [counts EXCEPT ![writer.pub + 1] = n]
      BY <1>1 DEF PublishBegin
    <2>3. Keeps
      BY <1>0, <2>2 DEF Was, There, WInv, Pubs
    <2> QED
      BY <1>0, <2>1, <2>2, <2>3, OwnerKeepsReader DEF IInv
  <1>2. ASSUME NEW w \in Words, Clear(w) \/ Copy(w) PROVE IInv'
    <2>1. WInv' /\ ~(mem'.head.done /= 0)
      BY <1>0, <1>2, ClearInv, CopyInv
    <2>2. /\ writer.pc \in {"clear", "copy"} /\ writer'.pub = writer.pub /\ reader' = reader
          /\ done' = done /\ counts' = counts
      <3>1. CASE Clear(w)
        BY <3>1 DEF Clear
      <3>2. CASE Copy(w)
        BY <3>2 DEF Copy
      <3> QED
        BY <1>2, <3>1, <3>2
    <2>3. Keeps
      BY <1>0, <2>1, <2>2 DEF Was, There
    <2> QED
      BY <1>0, <2>1, <2>2, <2>3, OwnerKeepsReader DEF IInv
  <1>3. ASSUME MarkDone PROVE IInv'
    <2>1. WInv' /\ mem'.head.pub = writer.pub
      BY <1>0, <1>3, MarkDoneInv
    <2>2. /\ writer.pc = "done" /\ writer'.pub = writer.pub /\ reader' = reader
          /\ done' = done /\ counts' = counts
      BY <1>3 DEF MarkDone
    <2>3. Keeps
      BY <1>0, <2>1, <2>2 DEF Was, There
    <2> QED
      BY <1>0, <2>1, <2>2, <2>3, OwnerKeepsReader DEF IInv
  <1>4. ASSUME Flushed \/ FlushFails PROVE IInv'
    <2>1. WInv'
      BY <1>0, <1>4, FlushInv
    <2>2. /\ writer.pc = "flush" /\ writer'.pc = "idle" /\ writer'.pub = writer.pub
          /\ reader' = reader /\ mem' = mem /\ done' \in {done, writer.pub} /\ counts' = counts
      <3>1. CASE Flushed
        BY <3>1 DEF Flushed
      <3>2. CASE FlushFails
        BY <3>2 DEF FlushFails
      <3> QED
        BY <1>4, <3>1, <3>2
    <2>3. Keeps
      BY <1>0, <2>2 DEF Was, There
    <2>4. done <= done'
      BY <1>0, <2>2 DEF WInv
    <2> QED
      BY <1>0, <2>1, <2>2, <2>3, <2>4, OwnerKeepsReader DEF IInv
  <1> QED
    BY <1>1, <1>2, <1>3, <1>4 DEF Writer

\* A step of the reader leaves the owner's side alone.
LEMMA ReaderKeepsOwner ==
    ASSUME WInv, UNCHANGED <<writerVars, mem>>
    PROVE  WInv' /\ (\A k : (Was(k))' = Was(k)) /\ UNCHANGED <<mem, counts, done, writer>>
  <1>1. UNCHANGED <<publishSeq, view, mem, writer, counts, done>>
    BY DEF writerVars
  <1>2. (WriterAt)' = WriterAt
    BY <1>1 DEF WriterAt, Region, HeadAt, RecordAt, SeqAt, Before, Cleared, NoHead, Records
  <1>3. WInv'
    BY <1>1, <1>2 DEF WInv, SeqAt, RegionType, HeadType, Pubs, Records, Words
  <1> QED
    BY <1>1, <1>3 DEF Was

\* A reader that has nothing yet, or gives up.
LEMMA NothingCollected ==
    ASSUME IInv, UNCHANGED <<writerVars, mem>>, ReaderTyped',
           reader'.pc \in {"idle", "start", "seq", "retry"}
    PROVE  IInv'
  BY ReaderKeepsOwner DEF IInv, RInv

\* A reader that goes on from a header it has read.
LEMMA GoesOn ==
    ASSUME Premise, IInv, UNCHANGED <<writerVars, mem>>, ReaderTyped',
           reader.pc \in {"data", "copy", "confirm"}, reader'.pc \in {"data", "copy", "confirm", "confirmSeq"},
           reader'.head = reader.head, reader'.floor = reader.floor,
           There(Of) /\ mem = Region(Of) /\ RightSoFar(Of) => (RightSoFar(Of))'
    PROVE  IInv'
  <1>1. /\ Was(Of) /\ Of >= reader.floor /\ reader.head.seq = SeqAt(Of)
        /\ reader.head.done = SeqAt(Of) /\ (There(Of) => RightSoFar(Of))
    BY DEF IInv, RInv
  <1>2. Of' = Of /\ (SeqAt(Of))' = SeqAt(Of)
    BY DEF Of, SeqAt
  <1>3. /\ WInv' /\ UNCHANGED <<mem, counts, done, writer>> /\ (Was(Of))'
        /\ ((There(Of))' => There(Of))
    BY <1>1, <1>2, ReaderKeepsOwner DEF IInv, Was, There
  <1>4. There(Of) => mem = Region(Of)
    BY CompleteRegion DEF IInv, There
  <1> QED
    BY <1>1, <1>2, <1>3, <1>4 DEF IInv, RInv

LEMMA ReaderTypes ==
    ASSUME IInv
    PROVE  /\ reader \in ReaderType /\ mem \in RegionType /\ mem.head \in HeadType
           /\ MaxRecords \in Nat \ {0} /\ done \in Pubs /\ reader.floor <= done /\ 0 \in Pubs
           /\ NoHead \in HeadType
  BY PayloadAssumption DEF IInv, RInv, ReaderTyped, WInv, RegionType, Pubs, NoHead, HeadType

LEMMA ReadBeginInv ==
    ASSUME Premise, IInv, NEW m \in Modes, ReadBegin(m)
    PROVE  IInv'
  <1>1. m \in {"records", "summary", "find"}
    BY PayloadAssumption
  <1>2. /\ reader' = [IdleReader EXCEPT !.pc = "start", !.mode = m] /\ UNCHANGED <<writerVars, mem>>
        /\ done' = done
    BY DEF ReadBegin, writerVars
  <1>3. [w \in Records \cup {Summary} |-> 0] \in [Records \cup {Summary} -> Pubs]
    BY ReaderTypes
  <1>4. reader' \in ReaderType
    <2>1. reader' = [pc |-> "start", mode |-> m, head |-> NoHead, again |-> NoHead, i |-> 1,
                     data |-> [w \in Records \cup {Summary} |-> 0], floor |-> 0]
      BY <1>2, Zenon DEF IdleReader
    <2> QED
      BY <1>1, <1>3, <2>1, ReaderTypes DEF ReaderType
  <1>5. reader'.pc = "start" /\ reader'.mode = m /\ reader'.i = 1 /\ reader'.floor = 0
    BY <1>2 DEF IdleReader
  <1>6. ReaderTyped'
    <2>1. 0 <= done /\ 1 <= MaxRecords
      BY ReaderTypes DEF Pubs
    <2>2. (ReaderType)' = ReaderType
      BY DEF ReaderType, HeadType, Records, Summary, Pubs
    <2> QED
      BY <1>2, <1>4, <1>5, <2>1, <2>2 DEF ReaderTyped
  <1> QED
    BY <1>2, <1>5, <1>6, NothingCollected

LEMMA ReadHeadCountInv ==
    ASSUME Premise, IInv, ReadHeadCount
    PROVE  IInv'
  <1>2. /\ reader' = [IdleReader EXCEPT !.pc = "seq", !.mode = reader.mode, !.floor = done,
                                        !.head.count = mem.head.count]
        /\ UNCHANGED <<writerVars, mem>> /\ done' = done
    BY DEF ReadHeadCount, writerVars
  <1>3. [w \in Records \cup {Summary} |-> 0] \in [Records \cup {Summary} -> Pubs]
    BY ReaderTypes
  <1>h. [NoHead EXCEPT !.count = mem.head.count] \in HeadType
    BY ReaderTypes DEF NoHead, HeadType
  <1>4. reader' \in ReaderType
    <2>1. reader' = [pc |-> "seq", mode |-> reader.mode, head |-> [NoHead EXCEPT !.count = mem.head.count],
                     again |-> NoHead, i |-> 1, data |-> [w \in Records \cup {Summary} |-> 0], floor |-> done]
      BY <1>2, Zenon DEF IdleReader
    <2>2. reader.mode \in {"none", "records", "summary", "find"} /\ 1 \in 1 .. MaxRecords + 1
      BY ReaderTypes DEF ReaderType
    <2> QED
      BY <1>3, <1>h, <2>1, <2>2, ReaderTypes DEF ReaderType
  <1>5. reader'.pc = "seq" /\ reader'.i = 1 /\ reader'.floor = done
    BY <1>2 DEF IdleReader
  <1>6. ReaderTyped'
    <2>1. done <= done /\ 1 <= MaxRecords
      BY ReaderTypes DEF Pubs
    <2>2. (ReaderType)' = ReaderType
      BY DEF ReaderType, HeadType, Records, Summary, Pubs
    <2> QED
      BY <1>2, <1>4, <1>5, <2>1, <2>2 DEF ReaderTyped
  <1> QED
    BY <1>2, <1>5, <1>6, NothingCollected

\* A header that is complete starts a collection.
LEMMA ReadHeadSeqInv ==
    ASSUME Premise, IInv, ReadHeadSeq
    PROVE  IInv'
  <1> DEFINE h == [mem.head EXCEPT !.count = reader.head.count]
  <1>1. /\ reader.pc = "seq" /\ UNCHANGED <<writerVars, mem>> /\ done' = done
        /\ reader' = IF Complete(h) THEN [reader EXCEPT !.head = h, !.pc = "data"]
                     ELSE [reader EXCEPT !.head = h, !.pc = "retry"]
    BY DEF ReadHeadSeq, writerVars
  <1>2. /\ h \in HeadType /\ h.pub = mem.head.pub /\ h.seq = mem.head.seq /\ h.done = mem.head.done
        /\ h.count = reader.head.count
    BY ReaderTypes DEF HeadType, ReaderType
  <1> HIDE DEF h
  <1>3. /\ reader' \in ReaderType /\ reader'.head = h /\ reader'.floor = reader.floor
        /\ reader'.i = reader.i /\ reader'.mode = reader.mode
        /\ reader'.pc = IF Complete(h) THEN "data" ELSE "retry"
    BY <1>1, <1>2, ReaderTypes, Zenon DEF ReaderType
  <1>4. reader.i = 1 /\ 1 <= MaxRecords
    BY <1>1, ReaderTypes DEF IInv, RInv, ReaderTyped
  <1>5. ReaderTyped'
    <2>1. (ReaderType)' = ReaderType
      BY DEF ReaderType, HeadType, Records, Summary, Pubs
    <2>2. Complete(h) => h.count \in Records /\ 1 <= h.count
      BY DEF Complete, Records
    <2> QED
      BY <1>1, <1>3, <1>4, <2>1, <2>2, ReaderTypes DEF ReaderTyped, Records
  <1>6. CASE ~Complete(h)
    BY <1>1, <1>3, <1>5, <1>6, NothingCollected
  <1>7. CASE Complete(h)
    <2>1. mem.head.done /= 0 /\ h.seq = h.done
      BY <1>2, <1>7 DEF Complete
    <2>2. /\ mem.head.pub \in Pubs \ {0} /\ mem = Region(mem.head.pub)
          /\ \/ mem.head.pub = writer.pub /\ writer.pc \in {"idle", "flush"}
             \/ mem.head.pub = writer.pub - 1 /\ writer.pc = "clear" /\ writer.left = {Header}
      BY <2>1, CompleteRegion DEF IInv
    <2>3. h.seq = SeqAt(h.pub)
      BY <1>2, <2>2 DEF Region, HeadAt
    <2>4. Was(h.pub) /\ h.pub >= reader.floor
      <3>1. writer.pub \in Nat /\ done \in Nat /\ reader.floor \in Nat /\ reader.floor <= done
        BY ReaderTypes DEF IInv, WInv, Pubs, ReaderType
      <3>2. done <= writer.pub /\ (writer.pc /= "idle" => done < writer.pub)
        BY DEF IInv, WInv
      <3> QED
        BY <1>2, <2>2, <3>1, <3>2 DEF Was, Pubs
    <2>5. Of' = h.pub /\ (SeqAt(Of))' = SeqAt(h.pub)
      BY <1>3 DEF Of, SeqAt
    <2>6. WInv' /\ (Was(Of))'
      BY <1>1, <2>4, <2>5, ReaderKeepsOwner DEF IInv, Was
    <2>7. (RightSoFar(Of))'
      <3>1. \A j \in Records : ~(j < 1)
        BY DEF Records
      <3> QED
        BY <1>3, <1>4, <1>7, <3>1 DEF RightSoFar, Records
    <2> QED
      BY <1>3, <1>5, <1>7, <2>1, <2>3, <2>4, <2>5, <2>6, <2>7 DEF IInv, RInv
  <1> QED
    BY <1>6, <1>7

\* What a step of the collection leaves as it is.
LEMMA ReaderTypePrime == (ReaderType)' = ReaderType
  BY DEF ReaderType, HeadType, Records, Summary, Pubs

LEMMA ReadSummaryInv ==
    ASSUME Premise, IInv, ReadSummary
    PROVE  IInv'
  <1>1. /\ reader.pc = "data" /\ reader.mode = "summary" /\ UNCHANGED <<writerVars, mem>> /\ done' = done
        /\ reader' = [reader EXCEPT !.data[Summary] = mem.sum, !.pc = "confirm"]
    BY DEF ReadSummary, writerVars
  <1>2. mem.sum \in Pubs /\ Summary \in Records \cup {Summary}
    BY ReaderTypes DEF RegionType
  <1>3. /\ reader' \in ReaderType /\ reader'.head = reader.head /\ reader'.floor = reader.floor
        /\ reader'.i = reader.i /\ reader'.mode = "summary" /\ reader'.pc = "confirm"
        /\ reader'.data[Summary] = mem.sum
    BY <1>1, <1>2, ReaderTypes, Zenon DEF ReaderType
  <1>4. ReaderTyped'
    BY <1>1, <1>3, ReaderTypes, ReaderTypePrime DEF ReaderTyped
  <1>5. mem = Region(Of) => (RightSoFar(Of))'
    <2>1. Of' = Of
      BY <1>3 DEF Of
    <2>2. mem = Region(Of) => mem.sum = Of
      BY DEF Region
    <2> QED
      BY <1>3, <2>1, <2>2 DEF RightSoFar, Collected
  <1> QED
    BY <1>1, <1>3, <1>4, <1>5, GoesOn

LEMMA ReadRecordInv ==
    ASSUME Premise, IInv, ReadRecord
    PROVE  IInv'
  <1>1. /\ reader.pc = "data" /\ reader.mode = "records" /\ UNCHANGED <<writerVars, mem>> /\ done' = done
        /\ reader' = [reader EXCEPT !.data[reader.i] = mem.rec[reader.i], !.i = @ + 1,
                                    !.pc = IF reader.i = reader.head.count THEN "confirm" ELSE "data"]
    BY DEF ReadRecord, writerVars
  <1>2. /\ reader.i \in Records /\ reader.head.count \in Records /\ reader.i <= reader.head.count
        /\ reader.i \in Nat /\ reader.head.count \in Nat /\ reader.head.count <= MaxRecords
    <2>1. reader.i <= reader.head.count /\ reader.head.count \in Records
      BY <1>1 DEF IInv, RInv, ReaderTyped
    <2> QED
      BY <2>1, ReaderTypes DEF ReaderType, Records
  <1>3. mem.rec[reader.i] \in Pubs
    BY <1>2, ReaderTypes DEF RegionType
  <1>4. /\ reader' \in ReaderType /\ reader'.head = reader.head /\ reader'.floor = reader.floor
        /\ reader'.i = reader.i + 1 /\ reader'.mode = "records"
        /\ reader'.pc = IF reader.i = reader.head.count THEN "confirm" ELSE "data"
        /\ reader'.data = [reader.data EXCEPT ![reader.i] = mem.rec[reader.i]]
    <2>1. [reader.data EXCEPT ![reader.i] = mem.rec[reader.i]] \in [Records \cup {Summary} -> Pubs]
      BY <1>2, <1>3, ReaderTypes DEF ReaderType
    <2>2. reader.i + 1 \in 1 .. MaxRecords + 1
      BY <1>2, ReaderTypes
    <2>3. reader' = [reader EXCEPT !.data = [reader.data EXCEPT ![reader.i] = mem.rec[reader.i]],
                                   !.i = reader.i + 1,
                                   !.pc = IF reader.i = reader.head.count THEN "confirm" ELSE "data"]
      BY <1>1, ReaderTypes DEF ReaderType
    <2> QED
      BY <1>1, <2>1, <2>2, <2>3, ReaderTypes, Zenon DEF ReaderType
  <1>5. ReaderTyped'
    BY <1>1, <1>2, <1>4, ReaderTypes, ReaderTypePrime DEF ReaderTyped
  <1>6. mem = Region(Of) /\ RightSoFar(Of) => (RightSoFar(Of))'
    <2> SUFFICES ASSUME mem = Region(Of), RightSoFar(Of)
                 PROVE  \A j \in Records : j < reader.i + 1 => reader'.data[j] = RecordAt(Of, j)
      <3>1. Of' = Of /\ counts' = counts
        BY <1>1, <1>4 DEF Of, writerVars
      <3> QED
        BY <1>4, <3>1 DEF RightSoFar, Collected, RecordAt
    <2>1. \A j \in Records : j < reader.i => reader.data[j] = RecordAt(Of, j)
      BY <1>1 DEF RightSoFar
    <2>2. mem.rec[reader.i] = RecordAt(Of, reader.i)
      BY <1>2 DEF Region
    <2>3. \A j \in Records : reader'.data[j] = IF j = reader.i THEN mem.rec[j] ELSE reader.data[j]
      BY <1>4, ReaderTypes DEF ReaderType
    <2>4. \A j \in Records : j < reader.i + 1 => j = reader.i \/ j < reader.i
      BY <1>2 DEF Records
    <2> QED
      BY <2>1, <2>2, <2>3, <2>4
  <1> QED
    BY <1>1, <1>4, <1>5, <1>6, GoesOn

LEMMA ReadKeyInv ==
    ASSUME Premise, IInv, ReadKey
    PROVE  IInv'
  <1>1. /\ reader.pc = "data" /\ reader.mode = "find" /\ UNCHANGED <<writerVars, mem>> /\ done' = done
        /\ reader' = IF KeyOf(mem.rec[reader.i], reader.i) = 0 THEN [reader EXCEPT !.pc = "copy"]
                     ELSE IF reader.i < reader.head.count THEN [reader EXCEPT !.i = @ + 1]
                     ELSE [reader EXCEPT !.pc = "retry"]
    BY DEF ReadKey, writerVars
  <1>2. /\ reader.i \in Records /\ reader.head.count \in Records /\ reader.i <= reader.head.count
        /\ reader.i \in Nat /\ reader.head.count \in Nat /\ reader.head.count <= MaxRecords
    <2>1. reader.i <= reader.head.count /\ reader.head.count \in Records
      BY <1>1 DEF IInv, RInv, ReaderTyped
    <2> QED
      BY <2>1, ReaderTypes DEF ReaderType, Records
  <1>3. CASE KeyOf(mem.rec[reader.i], reader.i) = 0
    <2>1. /\ reader' \in ReaderType /\ reader'.head = reader.head /\ reader'.floor = reader.floor
          /\ reader'.i = reader.i /\ reader'.mode = "find" /\ reader'.pc = "copy"
      BY <1>1, <1>3, ReaderTypes DEF ReaderType
    <2>2. ReaderTyped'
      BY <1>1, <1>2, <2>1, ReaderTypes, ReaderTypePrime DEF ReaderTyped
    <2>3. mem = Region(Of) => (RightSoFar(Of))'
      <3> SUFFICES ASSUME mem = Region(Of)
                   PROVE  RecordAt(Of, reader.i) = Of /\ KeyOf(Of, reader.i) = 0
        <4>1. Of' = Of /\ counts' = counts
          BY <1>1, <2>1 DEF Of, writerVars
        <4> QED
          BY <2>1, <4>1 DEF RightSoFar, RecordAt, KeyOf
      <3>1. mem.rec[reader.i] = RecordAt(Of, reader.i)
        BY <1>2 DEF Region
      <3>2. KeyOf(RecordAt(Of, reader.i), reader.i) = 0
        BY <1>3, <3>1
      <3>3. KeyOf(0, reader.i) = -1
        BY DEF KeyOf
      <3> QED
        BY <3>2, <3>3 DEF RecordAt
    <2> QED
      BY <1>1, <2>1, <2>2, <2>3, GoesOn
  <1>4. CASE KeyOf(mem.rec[reader.i], reader.i) /= 0 /\ reader.i < reader.head.count
    <2>0. reader.i + 1 \in 1 .. MaxRecords + 1 /\ reader.i + 1 <= reader.head.count
          /\ reader.i + 1 <= MaxRecords
      BY <1>2, <1>4, ReaderTypes
    <2>1. /\ reader' \in ReaderType /\ reader'.head = reader.head /\ reader'.floor = reader.floor
          /\ reader'.i = reader.i + 1 /\ reader'.mode = "find" /\ reader'.pc = "data"
      BY <1>1, <1>4, <2>0, ReaderTypes DEF ReaderType
    <2>2. ReaderTyped'
      BY <1>1, <1>2, <2>0, <2>1, ReaderTypes, ReaderTypePrime DEF ReaderTyped
    <2>3. (RightSoFar(Of))'
      BY <2>1 DEF RightSoFar
    <2> QED
      BY <1>1, <2>1, <2>2, <2>3, GoesOn
  <1>5. CASE KeyOf(mem.rec[reader.i], reader.i) /= 0 /\ ~(reader.i < reader.head.count)
    <2>1. /\ reader' \in ReaderType /\ reader'.floor = reader.floor
          /\ reader'.i = reader.i /\ reader'.mode = "find" /\ reader'.pc = "retry"
      BY <1>1, <1>5, ReaderTypes DEF ReaderType
    <2>2. ReaderTyped'
      BY <1>1, <1>2, <2>1, ReaderTypes, ReaderTypePrime DEF ReaderTyped
    <2> QED
      BY <1>1, <2>1, <2>2, NothingCollected
  <1> QED
    BY <1>3, <1>4, <1>5

LEMMA CopyFoundInv ==
    ASSUME Premise, IInv, CopyFound
    PROVE  IInv'
  <1>1. /\ reader.pc = "copy" /\ UNCHANGED <<writerVars, mem>> /\ done' = done
        /\ reader' = [reader EXCEPT !.data[reader.i] = mem.rec[reader.i], !.pc = "confirm"]
    BY DEF CopyFound, writerVars
  <1>2. reader.mode = "find" /\ reader.i <= MaxRecords /\ reader.i \in Records
    <2>1. reader.mode = "find" /\ reader.i <= MaxRecords
      BY <1>1 DEF IInv, RInv, ReaderTyped
    <2> QED
      BY <2>1, ReaderTypes DEF ReaderType, Records
  <1>3. mem.rec[reader.i] \in Pubs
    BY <1>2, ReaderTypes DEF RegionType
  <1>4. [reader.data EXCEPT ![reader.i] = mem.rec[reader.i]] \in [Records \cup {Summary} -> Pubs]
    BY <1>2, <1>3, ReaderTypes DEF ReaderType
  <1>5. /\ reader' \in ReaderType /\ reader'.head = reader.head /\ reader'.floor = reader.floor
        /\ reader'.i = reader.i /\ reader'.mode = "find" /\ reader'.pc = "confirm"
        /\ reader'.data = [reader.data EXCEPT ![reader.i] = mem.rec[reader.i]]
    BY <1>1, <1>2, <1>4, ReaderTypes, Zenon DEF ReaderType
  <1>6. ReaderTyped'
    BY <1>1, <1>2, <1>5, ReaderTypes, ReaderTypePrime DEF ReaderTyped
  <1>7. mem = Region(Of) /\ RightSoFar(Of) => (RightSoFar(Of))'
    <2> SUFFICES ASSUME mem = Region(Of), RightSoFar(Of)
                 PROVE  reader'.data[reader.i] = Of /\ KeyOf(Of, reader.i) = 0
      <3>1. Of' = Of
        BY <1>5 DEF Of
      <3> QED
        BY <1>5, <3>1 DEF RightSoFar, Collected, KeyOf
    <2>1. RecordAt(Of, reader.i) = Of /\ KeyOf(Of, reader.i) = 0
      BY <1>1 DEF RightSoFar
    <2>2. mem.rec[reader.i] = RecordAt(Of, reader.i)
      BY <1>2 DEF Region
    <2> QED
      BY <1>2, <1>5, <2>1, <2>2, ReaderTypes DEF ReaderType
  <1> QED
    BY <1>1, <1>5, <1>6, <1>7, GoesOn

LEMMA ConfirmCountInv ==
    ASSUME Premise, IInv, ConfirmCount
    PROVE  IInv'
  <1>1. /\ reader.pc = "confirm" /\ UNCHANGED <<writerVars, mem>> /\ done' = done
        /\ reader' = [reader EXCEPT !.again.count = mem.head.count, !.pc = "confirmSeq"]
    BY DEF ConfirmCount, writerVars
  <1>2. mem.head.count \in 0 .. MaxRecords
    BY ReaderTypes DEF HeadType
  <1>3. [reader.again EXCEPT !.count = mem.head.count] \in HeadType
    BY <1>2, ReaderTypes DEF HeadType, ReaderType
  <1>4. /\ reader' \in ReaderType /\ reader'.head = reader.head /\ reader'.floor = reader.floor
        /\ reader'.i = reader.i /\ reader'.mode = reader.mode /\ reader'.pc = "confirmSeq"
        /\ reader'.data = reader.data
        /\ reader'.again = [reader.again EXCEPT !.count = mem.head.count]
    BY <1>1, <1>3, ReaderTypes, Zenon DEF ReaderType
  <1>5. ReaderTyped'
    <2>1. ReaderTyped
      BY DEF IInv, RInv
    <2> QED
      BY <1>1, <1>4, <2>1, ReaderTypes, ReaderTypePrime DEF ReaderTyped
  <1>6. mem = Region(Of) /\ RightSoFar(Of) => (RightSoFar(Of))'
    <2> SUFFICES ASSUME mem = Region(Of), RightSoFar(Of)
                 PROVE  (RightSoFar(Of))'
      OBVIOUS
    <2>1. Of' = Of /\ counts' = counts
      BY <1>1, <1>4 DEF Of, writerVars
    <2>2. mem.head.count = counts[Of]
      BY DEF Region, HeadAt
    <2>3. reader'.again.count = mem.head.count
      BY <1>4, ReaderTypes DEF ReaderType, HeadType
    <2>4. Collected(Of)
      BY <1>1 DEF RightSoFar
    <2>5. (Collected(Of))'
      BY <1>4, <2>1, <2>4 DEF Collected, RecordAt, KeyOf
    <2> QED
      BY <1>4, <2>1, <2>2, <2>3, <2>5 DEF RightSoFar
  <1> QED
    BY <1>1, <1>4, <1>5, <1>6, GoesOn

\* A header read twice has not been cleared in between, because its sequence
\* number is not used again.
LEMMA ConfirmSeqInv ==
    ASSUME Premise, IInv, ConfirmSeq
    PROVE  IInv'
  <1>1. /\ reader.pc = "confirmSeq" /\ UNCHANGED <<writerVars, mem>> /\ done' = done
        /\ reader' = [reader EXCEPT !.pc = IF Confirmed(mem.head) THEN "accepted" ELSE "retry"]
    BY DEF ConfirmSeq, writerVars
  <1>2. /\ reader' \in ReaderType /\ reader'.head = reader.head /\ reader'.floor = reader.floor
        /\ reader'.i = reader.i /\ reader'.mode = reader.mode /\ reader'.data = reader.data
        /\ reader'.pc = IF Confirmed(mem.head) THEN "accepted" ELSE "retry"
    BY <1>1, ReaderTypes DEF ReaderType
  <1>3. ReaderTyped'
    <2>1. ReaderTyped
      BY DEF IInv, RInv
    <2> QED
      BY <1>1, <1>2, <2>1, ReaderTypes, ReaderTypePrime DEF ReaderTyped
  <1>4. CASE ~Confirmed(mem.head)
    BY <1>1, <1>2, <1>3, <1>4, NothingCollected
  <1>5. CASE Confirmed(mem.head)
    <2>1. /\ Was(Of) /\ Of >= reader.floor /\ reader.head.done = SeqAt(Of)
          /\ (There(Of) => RightSoFar(Of))
      BY <1>1 DEF IInv, RInv
    <2>2. Of \in Pubs /\ Of > 0 /\ Of \in 1 .. writer.pub
      <3>1. Of \in 1 .. writer.pub /\ writer.pub \in Pubs
        BY <2>1 DEF Was, IInv, WInv
      <3> QED
        BY <3>1, PayloadAssumption DEF Pubs
    <2>3. mem.head.done = SeqAt(Of) /\ mem.head.done /= 0
      <3>1. mem.head.done = SeqAt(Of)
        BY <1>5, <2>1 DEF Confirmed
      <3>2. SeqAt(Of) \in 0 .. SeqModulus - 1 /\ SeqAt(Of) > 0
        BY <2>2, SeqType
      <3> QED
        BY <3>1, <3>2
    <2>4. mem.head.pub \in Pubs /\ mem.head.pub > 0 /\ mem = Region(mem.head.pub)
      BY <2>3, CompleteRegion DEF IInv, Pubs
    <2>5. mem.head.done = SeqAt(mem.head.pub)
      BY <2>4 DEF Region, HeadAt
    <2>6. mem.head.pub = Of
      BY <2>2, <2>3, <2>4, <2>5, SeqDistinct, Zenon
    <2>7. Collected(Of) /\ reader.again.count = counts[Of]
      BY <1>1, <2>1, <2>3, <2>6 DEF There, RightSoFar
    <2>8. reader.head.count = counts[Of]
      BY <1>5, <2>7 DEF Confirmed
    <2>9. Of' = Of /\ counts' = counts /\ writer' = writer
      BY <1>1, <1>2 DEF Of, writerVars
    <2>10. StableRecords'
      <3>1. reader.mode = "records" => \A j \in 1 .. counts[Of] : reader.data[j] = Of
        <4> SUFFICES ASSUME reader.mode = "records", NEW j \in 1 .. counts[Of]
                     PROVE  reader.data[j] = Of
          OBVIOUS
        <4>1. counts[Of] \in 0 .. MaxRecords /\ reader.i = counts[Of] + 1
          <5>1. reader.i = reader.head.count + 1
            BY <1>1 DEF IInv, RInv, ReaderTyped
          <5>2. counts \in [Pubs -> 0 .. MaxRecords]
            BY DEF IInv, WInv
          <5> QED
            BY <2>2, <2>8, <5>1, <5>2
        <4>2. j \in Records /\ j < reader.i /\ j <= counts[Of]
          BY <4>1, ReaderTypes DEF Records
        <4> QED
          BY <2>7, <4>2 DEF Collected, RecordAt
      <3>2. reader.mode = "find" => reader.data[reader.i] = Of /\ KeyOf(Of, reader.i) = 0
        BY <2>7 DEF Collected
      <3> QED
        BY <1>2, <2>8, <2>9, <3>1, <3>2 DEF StableRecords, KeyOf
    <2>11. StableSummary'
      BY <1>2, <2>7, <2>8, <2>9 DEF StableSummary, Collected
    <2>12. PublishedIsVisible'
      BY <1>2, <2>1, <2>9 DEF PublishedIsVisible
    <2>13. WInv'
      BY <1>1, ReaderKeepsOwner DEF IInv
    <2> QED
      BY <1>2, <1>3, <1>5, <2>2, <2>9, <2>10, <2>11, <2>12, <2>13 DEF IInv, RInv, StableReads
  <1> QED
    BY <1>4, <1>5

LEMMA StartAgainInv ==
    ASSUME Premise, IInv, Retry \/ GiveUp
    PROVE  IInv'
  <1>1. /\ reader.pc = "retry" /\ UNCHANGED <<writerVars, mem>> /\ done' = done
        /\ \/ reader' = [reader EXCEPT !.pc = "start"]
           \/ reader' = [reader EXCEPT !.pc = "idle"]
    BY DEF Retry, GiveUp, Restart, writerVars
  <1>2. /\ reader' \in ReaderType /\ reader'.floor = reader.floor /\ reader'.i = reader.i
        /\ reader'.mode = reader.mode /\ reader'.pc \in {"start", "idle"}
    BY <1>1, ReaderTypes DEF ReaderType
  <1>3. ReaderTyped'
    <2>1. ReaderTyped
      BY DEF IInv, RInv
    <2> QED
      BY <1>1, <1>2, <2>1, ReaderTypes, ReaderTypePrime DEF ReaderTyped
  <1> QED
    BY <1>1, <1>2, <1>3, NothingCollected

-----------------------------------------------------------------------------
(* The theorem.                                                            *)

LEMMA NextInv ==
    ASSUME Premise, IInv, [Next]_vars
    PROVE  IInv'
  <1>1. CASE (\E n \in 0 .. MaxRecords : PublishBegin(n)) \/ Writer \/ FlushFails
    BY <1>1, OwnerStep
  <1>2. ASSUME NEW l \in Lines, WriteBack(l) PROVE FALSE
    BY <1>2 DEF WriteBack, Premise
  <1>3. CASE \E m \in Modes : ReadBegin(m)
    BY <1>3, ReadBeginInv
  <1>4. CASE Reader \/ GiveUp
    BY <1>4, ReadHeadCountInv, ReadHeadSeqInv, ReadSummaryInv, ReadRecordInv, ReadKeyInv,
       CopyFoundInv, ConfirmCountInv, ConfirmSeqInv, StartAgainInv DEF Reader
  <1>5. CASE UNCHANGED vars
    <2>1. UNCHANGED <<publishSeq, view, mem, writer, reader, counts, done>>
      BY <1>5 DEF vars, writerVars
    <2>2. WInv' /\ (\A k : (Was(k))' = Was(k))
      BY <2>1, ReaderKeepsOwner DEF IInv, writerVars
    <2>3. RInv'
      <3>1. Of' = Of /\ ReaderTyped' = ReaderTyped
        BY <2>1, ReaderTypePrime DEF Of, ReaderTyped, Records
      <3>2. (SeqAt(Of))' = SeqAt(Of) /\ (There(Of))' = There(Of)
        BY <2>1, <3>1 DEF SeqAt, There
      <3>3. (RightSoFar(Of))' = RightSoFar(Of)
        BY <2>1, <3>1 DEF RightSoFar, Collected, RecordAt, KeyOf, Records
      <3>4. StableReads' = StableReads
        BY <2>1, <3>1 DEF StableReads, StableRecords, StableSummary, PublishedIsVisible, KeyOf
      <3>5. (Was(Of))' = Was(Of)
        BY <2>1, <3>1 DEF Was
      <3> QED
        BY <2>1, <3>1, <3>2, <3>3, <3>4, <3>5 DEF IInv, RInv
    <2> QED
      BY <2>2, <2>3 DEF IInv
  <1> QED
    BY <1>1, <1>2, <1>3, <1>4, <1>5 DEF Next

\* Whatever a reader accepts of a region that its owner is rewriting is all of
\* one publication, and not older than the last one that was reported as
\* published before the read began: the double read of publish_seq and
\* publish_done_seq in mem_service_try_read_stable_compact_summary_region and
\* its siblings is enough against mem_service_write_cluster_payload, with any
\* number of records, as long as stores are seen in the order they are made
\* and publish_seq does not come round within the publications considered.
THEOREM AcceptedIsOnePublication ==
    ASSUME Premise
    PROVE  Spec => []StableReads
  <1>1. Init => IInv
    BY InitInv
  <1>2. IInv /\ [Next]_vars => IInv'
    BY NextInv
  <1>3. IInv => StableReads
    BY DEF IInv, RInv, StableReads, StableRecords, StableSummary, PublishedIsVisible
  <1> QED
    BY <1>1, <1>2, <1>3, PTL DEF Spec
=============================================================================
