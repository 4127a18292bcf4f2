---------------------------- MODULE PayloadBlocks ----------------------------
(***************************************************************************)
(* The payload blocks of the daemon's storage root and the records that    *)
(* name them (mem_service_daemon.c).  A block is a file, or a directory of *)
(* files, named after the kind of backend and the checksum of its content; *)
(* records with the same content share it.  A put writes the block, then   *)
(* the record in memory, applies retention (which collects the blocks that *)
(* no record names any more) and saves the snapshot; a read validates the  *)
(* block and quarantines one that is damaged.                              *)
(*                                                                         *)
(* The daemon serves one request at a time.  Between two file operations   *)
(* it may crash, a file operation may fail, and a file may rot.            *)
(***************************************************************************)
EXTENDS Integers, FiniteSets, FiniteSetsExt, SequencesExt

CONSTANTS
    Keys, Sums,      \* record keys; checksums, standing for contents
    Backends,        \* the payload kinds in use, among the four below
    Chunks,          \* chunks of a chunked payload
    MaxRecords,      \* MEM_SERVICE_MAX_RECORDS
    MaxRetained,     \* record_retention=latest:<n>, 0 for none
    Destinations,    \* paths a client asks a payload to be materialized at
    RemoteDir,       \* whether storage_root/remote-blocks exists
    MetaPuts,        \* whether puts may name a block without writing it
    MayCrash, MayFail, MaxRot, MaxPuts

AllBackends == {"local", "chunked", "transport", "tcp"}

\* What the constants must satisfy.
BlocksAssumption ==
    /\ Backends \subseteq AllBackends /\ Chunks \in Nat \ {0} /\ MaxRecords \in Nat
    /\ MaxRetained \in Nat /\ MaxRot \in Nat /\ MaxPuts \in Nat
    /\ {RemoteDir, MetaPuts, MayCrash, MayFail} \subseteq BOOLEAN

VARIABLES
    recs,        \* key -> the record in memory
    saved,       \* key -> the record in the store snapshot
    blocks,      \* backend, checksum -> the files of the block
    badNames,    \* the quarantine names this process has used for directories
    dests,       \* destination -> what was materialized there
    pc, job,     \* the request in progress
    reply,       \* the last reply
    puts, rots,  \* bounds on the environment
    damaged      \* history: the blocks a file of which has rotted

vars == <<recs, saved, blocks, badNames, dests, pc, job, reply, puts, rots, damaged>>

NoRec == [time |-> 0, kind |-> "local", sum |-> 0, own |-> FALSE]
NoReply == [op |-> "none", status |-> "ok", kind |-> "local", sum |-> 0, fault |-> FALSE]
NoJob == [op |-> "none", key |-> 0, kind |-> "local", sum |-> 0, own |-> FALSE, i |-> 1,
          dest |-> 0, status |-> "ok", fault |-> FALSE, pruned |-> FALSE]

\* The files of a block in the order they are written: the payload, or its
\* chunks, and for a directory the manifest last.
PartCount(kind) == CASE kind = "local" -> 1 [] kind = "chunked" -> Chunks + 1 [] OTHER -> 2
IsDir(kind) == kind # "local"
NoBlock(kind) == [dir |-> FALSE, part |-> [i \in 1 .. PartCount(kind) |-> "none"]]

Init ==
    /\ recs = [k \in Keys |-> NoRec] /\ saved = recs
    /\ blocks = [b \in Backends \X Sums |-> NoBlock(b[1])]
    /\ badNames = {} /\ dests = [d \in Destinations |-> 0]
    /\ pc = "idle" /\ job = NoJob /\ reply = NoReply
    /\ puts = 0 /\ rots = 0 /\ damaged = {}

InUse(r) == r.time > 0
Used == {k \in Keys : InUse(recs[k])}
Block(r) == <<r.kind, r.sum>>
Intact(b) == \A i \in DOMAIN blocks[b].part : blocks[b].part[i] = "good"
Empty(b) == \A i \in DOMAIN blocks[b].part : blocks[b].part[i] = "none"

\* A put, and a request that fails, ends by saving the snapshot.
EndJob(status, fault) ==
    /\ pc' = "save" /\ job' = [job EXCEPT !.status = status, !.fault = @ \/ fault]

-----------------------------------------------------------------------------
(* Reading: validation and quarantine.                                     *)

\* A block is valid when its manifest and the content of its other files are
\* those of the record.
Good(b, i) == blocks[b].part[i] = "good"
LocalValid(b) == Good(b, 1)
ChunkedValid(b) == Good(b, Chunks + 1) /\ \A i \in 1 .. Chunks : Good(b, i)
TransportValid(b) == Good(b, 2) /\ Good(b, 1)
TcpValid(b) == Good(b, 2) /\ Good(b, 1)

Validate(b) ==
    CASE b[1] = "local" -> LocalValid(b) [] b[1] = "chunked" -> ChunkedValid(b)
      [] b[1] = "transport" -> TransportValid(b) [] OTHER -> TcpValid(b)

\* The block is renamed into the quarantine directory.  A file replaces what has
\* its name there; a directory does not, and the block then stays where it is.
Quarantine(b) ==
    IF IsDir(b[1]) /\ b \in badNames THEN UNCHANGED <<blocks, badNames>>
    ELSE /\ blocks' = [blocks EXCEPT ![b] = NoBlock(b[1])]
         /\ badNames' = IF IsDir(b[1]) /\ ~Empty(b) THEN badNames \cup {b} ELSE badNames

Refuse(op, r) ==
    /\ Quarantine(Block(r))
    /\ pc' = "save" /\ reply' = NoReply
    /\ job' = [NoJob EXCEPT !.op = op, !.status = "mismatch", !.kind = r.kind, !.sum = r.sum]

\* get_object and inspect_object.
Get(k) ==
    /\ pc = "idle" /\ k \in Used
    /\ LET r == recs[k]
       IN  IF Validate(Block(r))
           THEN /\ reply' = [op |-> "get", status |-> "ok", kind |-> r.kind, sum |-> r.sum, fault |-> FALSE]
                /\ UNCHANGED <<blocks, badNames, pc, job>>
           ELSE Refuse("get", r)
    /\ UNCHANGED <<recs, saved, dests, puts, rots, damaged>>

\* materialize_object: validate, then copy the files to a temporary path.
Materialize(k, d) ==
    /\ pc = "idle" /\ k \in Used
    /\ IF Validate(Block(recs[k]))
       THEN /\ pc' = "copy" /\ reply' = NoReply
            /\ job' = [NoJob EXCEPT !.op = "materialize", !.key = k, !.dest = d]
            /\ UNCHANGED <<blocks, badNames>>
       ELSE Refuse("materialize", recs[k])
    /\ UNCHANGED <<recs, saved, dests, puts, rots, damaged>>

\* Mutant: what was copied is not compared with the record again.
CopyUnchecked ==
    /\ pc = "copy" /\ pc' = "idle" /\ job' = NoJob
    /\ LET r == recs[job.key]
       IN  dests' = [dests EXCEPT ![job.dest] = IF Intact(Block(r)) THEN r.sum ELSE -1]
    /\ UNCHANGED <<recs, saved, blocks, badNames, reply, puts, rots, damaged>>

\* The copy is compared with the record again and linked to the destination,
\* which must not exist.
Copy ==
    /\ pc = "copy"
    /\ LET r == recs[job.key]
       IN  IF ~Intact(Block(r)) THEN Refuse("materialize", r) /\ UNCHANGED dests
           ELSE /\ IF dests[job.dest] # 0 THEN UNCHANGED dests
                   ELSE dests' = [dests EXCEPT ![job.dest] = r.sum]
                /\ pc' = "idle" /\ job' = NoJob
                /\ UNCHANGED <<blocks, badNames, reply>>
    /\ UNCHANGED <<recs, saved, puts, rots, damaged>>

-----------------------------------------------------------------------------
(* Writing.                                                                *)

\* Mutant: a directory that is there already is an error.
PutNewDirectory(k, kind, sum) ==
    /\ pc = "idle" /\ puts < MaxPuts
    /\ puts' = puts + 1 /\ reply' = NoReply
    /\ LET j == [NoJob EXCEPT !.op = "put", !.key = k, !.kind = kind, !.sum = sum, !.own = TRUE]
       IN  IF blocks[kind, sum].dir
           THEN /\ pc' = "save" /\ job' = [j EXCEPT !.status = "internal"] /\ UNCHANGED blocks
           ELSE /\ pc' = "write" /\ job' = j
                /\ blocks' = [blocks EXCEPT ![kind, sum].dir = IsDir(kind)]
    /\ UNCHANGED <<recs, saved, badNames, dests, rots, damaged>>

\* put_object and store_artifact, with an inline payload, a file or a TCP
\* source.  The directory of a block is made first; its parent is not.
Put(k, kind, sum) ==
    /\ pc = "idle" /\ puts < MaxPuts
    /\ puts' = puts + 1 /\ reply' = NoReply
    /\ LET j == [NoJob EXCEPT !.op = "put", !.key = k, !.kind = kind, !.sum = sum, !.own = TRUE]
       IN  IF kind \in {"transport", "tcp"} /\ ~RemoteDir
           THEN /\ pc' = "save" /\ job' = [j EXCEPT !.status = "internal"] /\ UNCHANGED blocks
           ELSE /\ pc' = "write" /\ job' = j
                /\ blocks' = [blocks EXCEPT ![kind, sum].dir = IsDir(kind)]
    /\ UNCHANGED <<recs, saved, badNames, dests, rots, damaged>>

\* What reading the payload of a put may end with: no such file or no peer at
\* the TCP source, a read error, a length or checksum other than the request's.
SourceErrors == {"not_found", "internal", "mismatch"}

PutRefused(k) ==
    /\ pc = "idle" /\ puts < MaxPuts
    /\ puts' = puts + 1 /\ pc' = "save" /\ reply' = NoReply
    /\ \E e \in SourceErrors :
          job' = [NoJob EXCEPT !.op = "put", !.key = k, !.status = e, !.fault = e = "internal"]
    /\ UNCHANGED <<recs, saved, blocks, badNames, dests, rots, damaged>>

\* A put that only names a block, with the length of its content.
PutMeta(k, kind, sum) ==
    /\ MetaPuts /\ pc = "idle" /\ puts < MaxPuts
    /\ puts' = puts + 1 /\ pc' = "store" /\ reply' = NoReply
    /\ job' = [NoJob EXCEPT !.op = "put", !.key = k, !.kind = kind, !.sum = sum]
    /\ UNCHANGED <<recs, saved, blocks, badNames, dests, rots, damaged>>

\* Mutant: the manifest of a directory is left to be written later.
WriteFileNoManifest ==
    /\ pc = "write"
    /\ blocks' = [blocks EXCEPT ![job.kind, job.sum].part[job.i] = "good"]
    /\ job' = [job EXCEPT !.i = @ + 1]
    /\ pc' = IF job.i + 1 >= PartCount(job.kind) THEN "store" ELSE "write"
    /\ UNCHANGED <<recs, saved, badNames, dests, reply, puts, rots, damaged>>

\* The next file of the block, written under a temporary name and renamed.
WriteFile ==
    /\ pc = "write"
    /\ blocks' = [blocks EXCEPT ![job.kind, job.sum].part[job.i] = "good"]
    /\ job' = [job EXCEPT !.i = @ + 1]
    /\ pc' = IF job.i = PartCount(job.kind) THEN "store" ELSE "write"
    /\ UNCHANGED <<recs, saved, badNames, dests, reply, puts, rots, damaged>>

\* It cannot be written or renamed; what is there already stays.
WriteFileFails ==
    /\ MayFail /\ pc = "write"
    /\ EndJob("internal", TRUE)
    /\ UNCHANGED <<recs, saved, blocks, badNames, dests, reply, puts, rots, damaged>>

\* A transport block whose manifest cannot be written is quarantined.
ManifestFails ==
    /\ MayFail /\ pc = "write"
    /\ EndJob("internal", TRUE) /\ Quarantine(<<job.kind, job.sum>>)
    /\ UNCHANGED <<recs, saved, dests, reply, puts, rots, damaged>>

WriteLocal == job.kind = "local" /\ (WriteFile \/ WriteFileFails)
WriteChunked == job.kind = "chunked" /\ (WriteFile \/ WriteFileFails)

\* Two backends with the same steps: the payload file, then the manifest.
WriteTransport ==
    /\ job.kind = "transport"
    /\ WriteFile \/ (job.i = 1 /\ WriteFileFails) \/ (job.i = 2 /\ ManifestFails)

WriteTcp ==
    /\ job.kind = "tcp"
    /\ WriteFile \/ (job.i = 1 /\ WriteFileFails) \/ (job.i = 2 /\ ManifestFails)

\* The record, in its slot or a free one.
Store ==
    /\ pc = "store"
    /\ IF job.key \notin Used /\ Cardinality(Used) >= MaxRecords
       THEN EndJob("capacity", FALSE) /\ UNCHANGED recs
       ELSE /\ recs' = [recs EXCEPT ![job.key] =
                  [time |-> puts, kind |-> job.kind, sum |-> job.sum, own |-> job.own]]
            /\ pc' = "retain" /\ UNCHANGED job
    /\ UNCHANGED <<saved, blocks, badNames, dests, reply, puts, rots, damaged>>

-----------------------------------------------------------------------------
(* Retention and collection.                                               *)

Oldest == CHOOSE k \in Used : \A m \in Used : recs[k].time <= recs[m].time
OverLimit == MaxRetained > 0 /\ Cardinality(Used) > MaxRetained

\* Mutant: a block another record names is collected too.
ReferencedNever(k) == FALSE

Referenced(k) == \E m \in Used \ {k} : Block(recs[m]) = Block(recs[k])

Drop(k) == recs' = [recs EXCEPT ![k] = NoRec]

\* The oldest record goes; its block is collected first when nobody shares it.
Retain ==
    /\ pc = "retain" /\ OverLimit
    /\ IF Referenced(Oldest)
       THEN Drop(Oldest) /\ job' = [job EXCEPT !.pruned = TRUE] /\ UNCHANGED pc
       ELSE pc' = "gc" /\ job' = [job EXCEPT !.i = 1] /\ UNCHANGED recs
    /\ UNCHANGED <<saved, blocks, badNames, dests, reply, puts, rots, damaged>>

\* Its files are unlinked one by one, and with the last one the directory.
CollectPart ==
    /\ pc = "gc"
    /\ LET b == Block(recs[Oldest])
       IN  IF job.i <= PartCount(b[1])
           THEN /\ blocks' = [blocks EXCEPT ![b].part[job.i] = "none",
                                            ![b].dir = @ /\ job.i < PartCount(b[1])]
                /\ job' = [job EXCEPT !.i = @ + 1]
                /\ UNCHANGED <<recs, pc>>
           ELSE /\ Drop(Oldest) /\ pc' = "retain" /\ job' = [job EXCEPT !.pruned = TRUE]
                /\ UNCHANGED blocks
    /\ UNCHANGED <<saved, badNames, dests, reply, puts, rots, damaged>>

\* An unlink fails: the record goes, the rest of the block stays.
CollectFails ==
    /\ MayFail /\ pc = "gc"
    /\ Drop(Oldest) /\ pc' = "retain" /\ job' = [job EXCEPT !.pruned = TRUE]
    /\ UNCHANGED <<saved, blocks, badNames, dests, reply, puts, rots, damaged>>

\* A restart saves only if it pruned something.
Retained ==
    /\ pc = "retain" /\ ~OverLimit
    /\ pc' = IF job.op = "boot" /\ ~job.pruned THEN "idle" ELSE "save"
    /\ UNCHANGED <<recs, saved, blocks, badNames, dests, job, reply, puts, rots, damaged>>

SaveOk ==
    /\ pc = "save" /\ saved' = recs /\ pc' = "idle" /\ job' = NoJob
    /\ reply' = [op |-> job.op, status |-> job.status, kind |-> job.kind, sum |-> job.sum, fault |-> job.fault]
    /\ UNCHANGED <<recs, blocks, badNames, dests, puts, rots, damaged>>

\* The save fails; a put then reports the failure and saves once more.  A
\* restart gives up.
SaveFails ==
    /\ MayFail /\ pc = "save" /\ job' = NoJob
    /\ IF job.op = "boot" THEN pc' = "down" /\ UNCHANGED <<saved, reply>>
       ELSE /\ pc' = "idle" /\ saved' \in {saved} \cup IF job.status = "ok" THEN {recs} ELSE {}
            /\ reply' = [op |-> job.op, status |-> IF job.status = "ok" THEN "internal" ELSE job.status, kind |-> job.kind, sum |-> job.sum, fault |-> TRUE]
    /\ UNCHANGED <<recs, blocks, badNames, dests, puts, rots, damaged>>

Crash ==
    /\ MayCrash /\ pc # "down"
    /\ pc' = "down" /\ job' = NoJob /\ reply' = NoReply
    /\ UNCHANGED <<recs, saved, blocks, badNames, dests, puts, rots, damaged>>

\* A new process: the snapshot is loaded and retention applied to it.
Restart ==
    /\ pc = "down"
    /\ recs' = saved /\ badNames' = {}
    /\ pc' = "retain" /\ job' = [NoJob EXCEPT !.op = "boot"]
    /\ UNCHANGED <<saved, blocks, dests, reply, puts, rots, damaged>>

\* A file of a block changes on the disk.
Rot(b, i) ==
    /\ rots < MaxRot /\ i \in DOMAIN blocks[b].part /\ blocks[b].part[i] = "good"
    /\ blocks' = [blocks EXCEPT ![b].part[i] = "bad"]
    /\ rots' = rots + 1 /\ damaged' = damaged \cup {b}
    /\ UNCHANGED <<recs, saved, badNames, dests, pc, job, reply, puts>>

Next ==
    \/ \E k \in Keys : Get(k) \/ PutRefused(k)
    \/ \E k \in Keys, d \in Destinations : Materialize(k, d)
    \/ \E k \in Keys, kind \in Backends, sum \in Sums : Put(k, kind, sum) \/ PutMeta(k, kind, sum)
    \/ Copy \/ WriteLocal \/ WriteChunked \/ WriteTransport \/ WriteTcp \/ Store
    \/ Retain \/ CollectPart \/ CollectFails \/ Retained
    \/ SaveOk \/ SaveFails \/ Crash \/ Restart
    \/ \E b \in Backends \X Sums : \E i \in 1 .. Chunks + 1 : Rot(b, i)

Spec == Init /\ [][Next]_vars

-----------------------------------------------------------------------------
(* Properties.                                                             *)

\* Records, files and the request in progress have their types; a block has
\* files only in its directory.
TypeOK ==
    /\ \A k \in Keys : recs[k].sum \in Sums \cup {0} /\ saved[k].sum \in Sums \cup {0}
    /\ \A b \in Backends \X Sums :
          /\ DOMAIN blocks[b].part = 1 .. PartCount(b[1])
          /\ \A i \in DOMAIN blocks[b].part : blocks[b].part[i] \in {"none", "good", "bad"}
          /\ IsDir(b[1]) /\ ~Empty(b) => blocks[b].dir
    /\ pc \in {"idle", "copy", "write", "store", "retain", "gc", "save", "down"}
    /\ Cardinality(Used) <= MaxRecords

\* Whatever rots between validation and copy, a materialized file holds the
\* whole payload of its record (mem_service_materialize_payload_block).
DeliveredIntact == \A d \in Destinations : dests[d] \in Sums \cup {0}

\* Every record the daemon serves whose payload it has written has its block,
\* unless a file of it rotted: neither retention nor quarantine takes a block
\* that a remaining record shares (mem_service_gc_payload_block_if_orphaned).
RetainedHaveBlocks ==
    pc \notin {"down", "gc"} => \A k \in Used :
        recs[k].own /\ Block(recs[k]) \notin damaged => Intact(Block(recs[k]))

\* The same of the records of the snapshot, whenever the daemon may crash: a
\* record reaches the snapshot only after every file of its block is in place.
SavedHaveBlocks ==
    \A k \in Keys : InUse(saved[k]) /\ saved[k].own /\ Block(saved[k]) \notin damaged
        => Intact(Block(saved[k]))

\* A read that fails validation quarantines the block: after the reply no file
\* of it is in the block directory (mem_service_quarantine_payload_block).  Not
\* so for a directory whose quarantine name this process has used before.
MismatchQuarantines ==
    reply.op = "get" /\ reply.status = "mismatch" => Empty(<<reply.kind, reply.sum>>)

\* A put answers "internal" only when a file operation of it failed: what an
\* earlier request, a crash or a quarantine left behind is never in its way.
\* Not so for the remote backends while nobody has made remote-blocks.
PutSucceeds ==
    reply.op = "put" /\ reply.status = "internal" => reply.fault
=============================================================================
