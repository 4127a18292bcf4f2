--------------------------- MODULE ClusterPayload ---------------------------
(***************************************************************************)
(* The metadata a node publishes in its shared region and its peers read   *)
(* (mem_service_cluster_payload.c, mem_service_cluster_read.c): a header   *)
(* with publish_seq and publish_done_seq, a compact summary, and the       *)
(* records.  The owner rewrites the region in place; a reader copies the   *)
(* header, then data, then the header again, and keeps the data if both    *)
(* headers are the same and complete.  There is no lock.                   *)
(*                                                                         *)
(* The owner writes through a cacheable mapping and its peers read the     *)
(* memory behind it uncached.  With Coherent every store is seen at once,  *)
(* in the order of the code: memset clears the header first and the rest   *)
(* in any order, memcpy fills in any order, and the barrier keeps the      *)
(* store of publish_done_seq last.  Without it a peer sees a cache line    *)
(* only when the line is written back: at any time, or by the WB_INVAL     *)
(* that ends the publication.  The header and the summary are one line of  *)
(* 64 bytes; a record here is a line of its own.                           *)
(***************************************************************************)
EXTENDS Integers, FiniteSets

CONSTANTS
    MaxRecords,    \* MEM_SERVICE_CLUSTER_MAX_RECORDS
    MaxPublish,    \* bound: publications
    SeqModulus,    \* publish_seq counts modulo this, 2^32 in the code
    FirstSeq,      \* publish_seq before the first publication
    Modes,         \* what the reader is asked for
    MinSeq,        \* the publish_done_seq a reader of the summary waits for
    Coherent,      \* whether peers see the owner's stores without a write-back
    MayTimeout     \* whether a reader may reach its deadline

\* What the constants must satisfy.
ASSUME PayloadAssumption ==
    /\ MaxRecords \in Nat \ {0} /\ MaxPublish \in Nat /\ MinSeq \in Nat
    /\ SeqModulus \in Nat \ {0, 1} /\ FirstSeq \in 0 .. SeqModulus - 1
    /\ Modes \subseteq {"records", "summary", "find"}
    /\ Coherent \in BOOLEAN /\ MayTimeout \in BOOLEAN

VARIABLES
    publishSeq,   \* rt->publish_seq
    view,         \* the region as the owner sees it
    mem,          \* the region as its peers see it
    writer,       \* the owner's mem_service_write_cluster_payload
    reader,       \* a peer's read
    counts,       \* history: publication -> the number of records it has
    done          \* history: the last publication that returned 0

vars == <<publishSeq, view, mem, writer, reader, counts, done>>
writerVars == <<publishSeq, view, writer, counts, done>>

Records == 1 .. MaxRecords
Header == 0                       \* the header as a word and, with the summary, as a line
Summary == -1
Words == Records \cup {Header, Summary}
Lines == Records \cup {Header}

\* A word carries the number of the publication that wrote it (0: cleared).
NoHead == [pub |-> 0, count |-> 0, seq |-> 0, done |-> 0]
Cleared == [head |-> NoHead, sum |-> 0, rec |-> [i \in Records |-> 0]]
IdleWriter == [pc |-> "idle", pub |-> 0, left |-> {}, rc |-> "none"]
IdleReader == [pc |-> "idle", mode |-> "none", head |-> NoHead, again |-> NoHead,
               i |-> 1, data |-> [w \in Records \cup {Summary} |-> 0], floor |-> 0]

Init ==
    /\ publishSeq = FirstSeq /\ view = Cleared /\ mem = Cleared
    /\ writer = IdleWriter /\ reader = IdleReader
    /\ counts = [k \in 0 .. MaxPublish |-> 0] /\ done = 0

-----------------------------------------------------------------------------
(* The owner.                                                              *)

Store(v) == view' = v /\ mem' = IF Coherent THEN v ELSE mem

\* ++rt->publish_seq, once more when it comes out as 0.
NextSeq(s) == IF s + 1 = SeqModulus THEN 1 ELSE s + 1

\* The payload is put together in private memory from the n records in use.
PublishBegin(n) ==
    /\ writer.pc = "idle" /\ writer.pub < MaxPublish
    /\ publishSeq' = NextSeq(publishSeq)
    /\ writer' = [pc |-> "clear", pub |-> writer.pub + 1, left |-> {Header}, rc |-> "none"]
    /\ counts' = [counts EXCEPT ![writer.pub + 1] = n]
    /\ UNCHANGED <<view, mem, reader, done>>

\* The region r with word w as the private payload of publication k has it.
\* The payload has zeroes after its last record, and publish_done_seq 0.
Copied(r, w, k) ==
    CASE w = Header -> [r EXCEPT !.head = [pub |-> k, count |-> counts[k], seq |-> publishSeq, done |-> 0]]
      [] w = Summary -> [r EXCEPT !.sum = k]
      [] OTHER      -> [r EXCEPT !.rec[w] = IF w <= counts[k] THEN k ELSE 0]

Zeroed(r, w) ==
    CASE w = Header -> [r EXCEPT !.head = NoHead]
      [] w = Summary -> [r EXCEPT !.sum = 0]
      [] OTHER      -> [r EXCEPT !.rec[w] = 0]

\* Mutant: memset and memcpy leave the header for the end, so the region is
\* rewritten behind the complete header of the previous publication.
ClearHeadLate(w) ==
    /\ writer.pc = "clear" /\ w \in writer.left
    /\ Store(view)
    /\ writer' = [writer EXCEPT !.pc = "copy", !.left = Words]
    /\ UNCHANGED <<publishSeq, reader, counts, done>>

\* memset: the header, then the rest.
Clear(w) ==
    /\ writer.pc = "clear" /\ w \in writer.left
    /\ Store(Zeroed(view, w))
    /\ writer' = IF w = Header THEN [writer EXCEPT !.left = Words \ {Header}]
                 ELSE IF writer.left = {w} THEN [writer EXCEPT !.pc = "copy", !.left = Words]
                 ELSE [writer EXCEPT !.left = @ \ {w}]
    /\ UNCHANGED <<publishSeq, reader, counts, done>>

\* memcpy.
Copy(w) ==
    /\ writer.pc = "copy" /\ w \in writer.left
    /\ Store(Copied(view, w, writer.pub))
    /\ writer' = IF writer.left = {w} THEN [writer EXCEPT !.pc = "done", !.left = {}]
                 ELSE [writer EXCEPT !.left = @ \ {w}]
    /\ UNCHANGED <<publishSeq, reader, counts, done>>

MarkDone ==
    /\ writer.pc = "done"
    /\ Store([view EXCEPT !.head.done = publishSeq])
    /\ writer' = [writer EXCEPT !.pc = "flush"]
    /\ UNCHANGED <<publishSeq, reader, counts, done>>

\* A line goes back to memory: evicted, or by the update_range ioctl.
WriteBack(l) ==
    /\ ~Coherent
    /\ mem' = IF l = Header THEN [mem EXCEPT !.head = view.head, !.sum = view.sum]
              ELSE [mem EXCEPT !.rec[l] = view.rec[l]]
    /\ mem' # mem
    /\ UNCHANGED <<writerVars, reader>>

\* mem_service_update_region_range has written every line back.
Flushed ==
    /\ writer.pc = "flush" /\ mem = view
    /\ writer' = [writer EXCEPT !.pc = "idle", !.rc = "ok"]
    /\ done' = writer.pub
    /\ UNCHANGED <<publishSeq, view, mem, reader, counts>>

\* The ioctl fails: the caller gets -1 for a payload that is complete.
FlushFails ==
    /\ writer.pc = "flush"
    /\ writer' = [writer EXCEPT !.pc = "idle", !.rc = "failed"]
    /\ UNCHANGED <<publishSeq, view, mem, reader, counts, done>>

-----------------------------------------------------------------------------
(* The reader.                                                             *)

\* The key of the record that publication k has in slot i, as a position;
\* the reader looks for the key 0.
KeyOf(k, i) == IF k = 0 THEN -1 ELSE (k + i) % MaxRecords

Restart == [reader EXCEPT !.pc = "start"]

ReadBegin(mode) ==
    /\ reader.pc \in {"idle", "accepted"}
    /\ reader' = [IdleReader EXCEPT !.pc = "start", !.mode = mode]
    /\ UNCHANGED <<writerVars, mem>>

\* The first header word: magic, version and record_count.
ReadHeadCount ==
    /\ reader.pc = "start"
    /\ reader' = [IdleReader EXCEPT !.pc = "seq", !.mode = reader.mode, !.floor = done,
                                    !.head.count = mem.head.count]
    /\ UNCHANGED <<writerVars, mem>>

Complete(h) == h.seq # 0 /\ h.seq = h.done /\ h.count \in Records

\* The second header word, and the checks on the header.
ReadHeadSeq ==
    /\ reader.pc = "seq"
    /\ LET h == [mem.head EXCEPT !.count = reader.head.count]
       IN  reader' = IF Complete(h)
                     THEN [reader EXCEPT !.head = h, !.pc = "data"]
                     ELSE [reader EXCEPT !.head = h, !.pc = "retry"]
    /\ UNCHANGED <<writerVars, mem>>

ReadSummary ==
    /\ reader.pc = "data" /\ reader.mode = "summary"
    /\ reader' = [reader EXCEPT !.data[Summary] = mem.sum, !.pc = "confirm"]
    /\ UNCHANGED <<writerVars, mem>>

ReadRecord ==
    /\ reader.pc = "data" /\ reader.mode = "records"
    /\ reader' = [reader EXCEPT !.data[reader.i] = mem.rec[reader.i], !.i = @ + 1,
                                !.pc = IF reader.i = reader.head.count THEN "confirm" ELSE "data"]
    /\ UNCHANGED <<writerVars, mem>>

\* in_use, kind and key of one record; after the last one the key is not there.
ReadKey ==
    /\ reader.pc = "data" /\ reader.mode = "find"
    /\ reader' = IF KeyOf(mem.rec[reader.i], reader.i) = 0 THEN [reader EXCEPT !.pc = "copy"]
                 ELSE IF reader.i < reader.head.count THEN [reader EXCEPT !.i = @ + 1]
                 ELSE [reader EXCEPT !.pc = "retry"]
    /\ UNCHANGED <<writerVars, mem>>

CopyFound ==
    /\ reader.pc = "copy"
    /\ reader' = [reader EXCEPT !.data[reader.i] = mem.rec[reader.i], !.pc = "confirm"]
    /\ UNCHANGED <<writerVars, mem>>

ConfirmCount ==
    /\ reader.pc = "confirm"
    /\ reader' = [reader EXCEPT !.again.count = mem.head.count, !.pc = "confirmSeq"]
    /\ UNCHANGED <<writerVars, mem>>

\* The second header is the first; a summary also has its own record_count
\* compared and must be recent enough.
Confirmed(h) ==
    /\ h.seq = reader.head.seq /\ h.done = reader.head.done
    /\ reader.again.count = reader.head.count
    /\ reader.mode = "summary" =>
          /\ counts[reader.data[Summary]] = reader.head.count
          /\ reader.head.done >= MinSeq

ConfirmSeq ==
    /\ reader.pc = "confirmSeq"
    /\ reader' = [reader EXCEPT !.pc = IF Confirmed(mem.head) THEN "accepted" ELSE "retry"]
    /\ UNCHANGED <<writerVars, mem>>

Retry ==
    /\ reader.pc = "retry"
    /\ reader' = Restart
    /\ UNCHANGED <<writerVars, mem>>

\* The attempts or the time are used up.
GiveUp ==
    /\ MayTimeout /\ reader.pc = "retry"
    /\ reader' = [reader EXCEPT !.pc = "idle"]
    /\ UNCHANGED <<writerVars, mem>>

Writer ==
    \/ \E w \in Words : Clear(w) \/ Copy(w)
    \/ MarkDone \/ Flushed

Reader ==
    \/ ReadHeadCount \/ ReadHeadSeq \/ ReadSummary \/ ReadRecord \/ ReadKey \/ CopyFound
    \/ ConfirmCount \/ ConfirmSeq \/ Retry

Next ==
    \/ \E n \in 0 .. MaxRecords : PublishBegin(n)
    \/ Writer \/ FlushFails
    \/ \E l \in Lines : WriteBack(l)
    \/ \E m \in Modes : ReadBegin(m)
    \/ Reader \/ GiveUp

Spec == Init /\ [][Next]_vars

-----------------------------------------------------------------------------
(* Properties.                                                             *)

Pubs == 0 .. MaxPublish
HeadType == [pub : Pubs, count : 0 .. MaxRecords, seq : 0 .. SeqModulus - 1, done : 0 .. SeqModulus - 1]
RegionType == [head : HeadType, sum : Pubs, rec : [Records -> Pubs]]

\* Every part of the region, of the two calls and of the history has its type,
\* and a publication never runs under sequence number 0, the "nothing
\* published" of every reader.
TypeOK ==
    /\ publishSeq \in 0 .. SeqModulus - 1
    /\ view \in RegionType /\ mem \in RegionType
    /\ writer \in [pc : {"idle", "clear", "copy", "done", "flush"}, pub : Pubs,
                   left : SUBSET Words, rc : {"none", "ok", "failed"}]
    /\ reader \in [pc : {"idle", "start", "seq", "data", "copy", "confirm", "confirmSeq",
                         "retry", "accepted"},
                   mode : Modes \cup {"none"}, head : HeadType, again : HeadType,
                   i : 1 .. MaxRecords + 1, data : [Records \cup {Summary} -> Pubs], floor : Pubs]
    /\ counts \in [Pubs -> 0 .. MaxRecords] /\ done \in Pubs
    /\ writer.pub > 0 => publishSeq # 0

\* The publication the reader took its data from, as the header names it.
Of == reader.head.pub

\* Records a reader accepts are all of the publication whose header it read,
\* and as many as that publication has; a record found by its key has the key
\* (mem_service_model_refresh_remote_metadata, mem_service_slot_find_record).
StableRecords ==
    reader.pc = "accepted" =>
        /\ reader.head.count = counts[Of]
        /\ reader.mode = "records" => \A i \in 1 .. counts[Of] : reader.data[i] = Of
        /\ reader.mode = "find" => reader.data[reader.i] = Of /\ KeyOf(Of, reader.i) = 0

\* A summary a reader accepts is the one of the publication whose header it
\* read (mem_service_try_read_stable_compact_summary_region).
StableSummary ==
    reader.pc = "accepted" /\ reader.mode = "summary" =>
        reader.data[Summary] = Of /\ reader.head.count = counts[Of]

\* A read that began after a publication returned 0 does not return an older
\* one: what mem_service_write_cluster_payload reports as published, is.
PublishedIsVisible ==
    reader.pc = "accepted" => Of >= reader.floor

\* What a reader accepts of a payload that is rewritten under it is all of one
\* publication, and no older than what was reported as published before.
StableReads == StableRecords /\ StableSummary /\ PublishedIsVisible

\* Once the owner has stopped on a publication with records and the sequence
\* number the reader waits for, a reader of the summary gets it
\* (mem_service_wait_compact_summary_region_at_least).
Settled ==
    writer.pc = "idle" /\ writer.pub = MaxPublish /\ counts[MaxPublish] > 0 /\ publishSeq >= MinSeq

ReadCompletes ==
    (Settled /\ reader.mode = "summary" /\ reader.pc # "idle") ~> (reader.pc = "accepted")
=============================================================================
