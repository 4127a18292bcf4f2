--------------------------- MODULE DurableDaemon ---------------------------
(***************************************************************************)
(* The request handler of the mem_service daemon with its durable store    *)
(* (mem_service_daemon.c): idempotency replay, quota, dispatch, retention, *)
(* audit, journal append, snapshot save and journal compaction, each a     *)
(* step that may fail or be cut short by a crash, and the start-up that    *)
(* loads snapshot and journal again.                                       *)
(*                                                                         *)
(* The daemon is one process with one select loop, so requests are served  *)
(* one at a time; what interleaves is a crash (or an I/O error) with the   *)
(* steps of the request in progress.                                       *)
(*                                                                         *)
(*   memory    records, idem, ring      the tables of struct mem_service   *)
(*   disk      snap                     <store>, replaced by rename        *)
(*             jrn                      <store>.journal, appended and      *)
(*                                      fsynced, compacted by rename       *)
(*                                                                         *)
(* Tables are partial functions: a key is in the domain when its slot is   *)
(* in_use.  A payload is a model value; the checksum of a request payload  *)
(* stands for the payload (collisions are not modelled).                   *)
(***************************************************************************)
EXTENDS AuditRing

CONSTANTS
    Keys,             \* record keys
    IdemKeys,         \* idempotency keys
    Requests,         \* the requests clients may send
    Nil,              \* no idempotency key
    MaxRecordSlots,   \* MEM_SERVICE_MAX_RECORDS
    MaxIdemSlots,     \* MEM_SERVICE_MAX_IDEMPOTENCY_RECORDS
    MaxRecords,       \* limits->max_records, 0 for none
    MaxCheckpoints,   \* limits->max_checkpoint_records, 0 for none
    MaxRetained,      \* limits->max_retained_records, 0 for none
    RetainKinds,      \* the kinds limits->max_retained_record_kind selects
    AgeLimited,       \* limits->max_retained_record_age_ms > 0
    CompactAbove,     \* frames in a journal of the compaction threshold's size
    RestoreImage,     \* the records of a committed paged-restore stage
    Cuts,             \* where a torn append may end (see Torn below)
    TornHeader,       \* a torn append may leave an empty or header-less file
    RequestBound,     \* bound: requests served
    CrashBound,       \* bound: crashes
    FaultBound        \* bound: failing file operations

Kinds == {"object", "execution", "training", "checkpoint"}
MutatingOps == {"put", "register", "restore"}
Statuses == {"ok", "not_found", "stale_ref", "version_conflict",
             "capacity_exceeded", "internal"}

\* A checkpoint is a training artifact whose artifact_kind is "checkpoint".
RecordKind(kind) == IF kind = "checkpoint" THEN "training" ELSE kind

\* A client request.  ver is the requested version of a put or register and
\* the expected version of a query, 0 when the payload has none.
RequestType ==
    [op : MutatingOps \cup {"query"}, kind : Kinds, key : Keys, ver : Nat,
     val : Nat, idem : IdemKeys \cup {Nil}]

RecordType == [kind : Kinds, ver : Nat, val : Nat]
EntryType == [req : Requests, status : Statuses]
EventType == [seq : Nat \ {0}, req : Requests, status : Statuses]

\* Partial functions, the shape of both tables.
IsTable(f, K, V) == DOMAIN f \subseteq K /\ f \in [DOMAIN f -> V]
Update(f, k, v) == [x \in DOMAIN f \cup {k} |-> IF x = k THEN v ELSE f[x]]
Without(f, S) == [x \in DOMAIN f \ S |-> f[x]]
Empty == [x \in {} |-> x]

ASSUME RequestsAssumption == Requests \subseteq RequestType /\ Requests # {}
ASSUME RestoreImageAssumption == IsTable(RestoreImage, Keys, RecordType)
ASSUME NilAssumption == Nil \notin IdemKeys
ASSUME LimitsAssumption ==
    /\ MaxRecordSlots \in Nat \ {0} /\ MaxIdemSlots \in Nat \ {0}
    /\ MaxRecords \in Nat /\ MaxCheckpoints \in Nat /\ MaxRetained \in Nat
    /\ RetainKinds \subseteq Kinds /\ AgeLimited \in BOOLEAN
    /\ CompactAbove \in Nat /\ Cuts \subseteq {"line", "field", "junk"}
    /\ TornHeader \in BOOLEAN
    /\ RequestBound \in Nat /\ CrashBound \in Nat /\ FaultBound \in Nat

VARIABLES
    records,   \* svc->records: Keys -> record
    idem,      \* svc->idempotency_records: IdemKeys -> completed request
    ring,      \* svc->audit_events, audit_next_sequence, audit_event_count
    snap,      \* the snapshot file
    jrn,       \* the journal file
    pc,        \* the step the process is at
    ctx,       \* locals of mem_service_handle_operation_with_limits
    acked,     \* history: keyed requests answered "ok" and not yet forgotten
    effects,   \* history: the keyed requests whose execution is part of the
               \* records in memory and of those in the snapshot
    spent      \* [requests, crashes, faults]: how much of each bound is used

memory == <<records, idem, ring>>
disk == <<snap, jrn>>
vars == <<records, idem, ring, snap, jrn, pc, ctx, acked, effects, spent>>

-----------------------------------------------------------------------------
(* The journal file.  What a load makes of it depends, for every key, on   *)
(* the last complete idempotency frame, on the audit frames in order, on   *)
(* whether the last append was torn (tail) and on whether a frame was ever *)
(* appended behind a tear that cannot absorb it (dead).                    *)

\* Torn tails: the file ends inside a frame of the given kind, after a whole
\* line ("line"), inside a line past its '=' ("field"), or inside a line that
\* has no '=' yet ("junk").
Clean == <<"none", "none">>
Tails == {Clean} \cup ({"idem", "audit"} \X {"line", "field", "junk"})

NoJournal ==
    [st |-> "missing", idem |-> Empty, audit |-> <<>>, frames |-> 0,
     tail |-> Clean, dead |-> FALSE]
EmptyJournal == [NoJournal EXCEPT !.st = "ok"]

\* The next frame's begin line is read on its own behind a clean tail.  Behind
\* a "field" tail it is swallowed by the open field, and the rest of a frame of
\* the same kind overwrites the open one; anything else is a parse error.
Absorbs(j, kind) == j.tail = Clean \/ j.tail = <<kind, "field">>

\* mem_service_save_idempotency_record, mem_service_save_audit_event.
WriteIdemFrame(j, k, entry) ==
    [j EXCEPT !.idem = Update(@, k, entry), !.frames = @ + 1,
              !.dead = @ \/ ~Absorbs(j, "idem"), !.tail = Clean]
WriteAuditFrame(j, e) ==
    [j EXCEPT !.audit = Append(@, e), !.frames = @ + 1,
              !.dead = @ \/ ~Absorbs(j, "audit"), !.tail = Clean]
TearFrame(j, kind) ==
    {[j EXCEPT !.dead = @ \/ ~Absorbs(j, kind), !.tail = <<kind, cut>>] :
        cut \in Cuts}

\* mem_service_append_journal, the file it leaves when it runs to the end: the
\* header if mem_service_journal_needs_header, the completed idempotency record
\* of the request in progress, its audit event.
WithHeader(j) == IF j.st \in {"missing", "empty"} THEN EmptyJournal ELSE j
AppendedIdem(j) ==
    IF ctx.pend THEN WriteIdemFrame(j, ctx.r.idem, idem[ctx.r.idem]) ELSE j
Appended == WriteAuditFrame(AppendedIdem(WithHeader(jrn)), ctx.event)

\* The files an append cut short by a crash or an error may leave behind.
PartiallyAppended ==
    LET h == WithHeader(jrn)
        i == AppendedIdem(h)
    IN  {jrn}
        \cup (IF TornHeader /\ jrn.st \in {"missing", "empty"}
              THEN {[NoJournal EXCEPT !.st = st] : st \in {"empty", "badhdr"}}
              ELSE {})
        \cup (IF Cuts = {} THEN {}
              ELSE {h, i} \cup TearFrame(i, "audit")
                   \cup (IF ctx.pend THEN TearFrame(h, "idem") ELSE {}))

\* Mutant: a load that treats an open frame at the end of the journal as an
\* error.
JournalParsesClosed == jrn.st = "missing" \/ (jrn.st = "ok" /\ jrn.tail = Clean)

\* mem_service_load_journal, together with the capacity check of
\* mem_service_store_import_idempotency.
LoadedIdem ==
    [k \in DOMAIN snap.idem \cup DOMAIN jrn.idem |->
        IF k \in DOMAIN jrn.idem THEN jrn.idem[k] ELSE snap.idem[k]]
JournalParses ==
    \/ jrn.st = "missing"
    \/ jrn.st = "ok" /\ ~jrn.dead /\ jrn.tail[2] # "junk"
Loadable == JournalParses /\ Cardinality(DOMAIN LoadedIdem) <= MaxIdemSlots

\* Mutant: the snapshot leaves the idempotency table to the journal.
SnapshotWithoutIdem == [recs |-> records, idem |-> Empty, events |-> SavedEvents(ring)]

\* mem_service_save_store, the file it writes.
Snapshot == [recs |-> records, idem |-> idem, events |-> SavedEvents(ring)]

-----------------------------------------------------------------------------
(* Serving a request in memory.                                            *)

Mutates(r) == r.op \in MutatingOps
Keyed(r) == Mutates(r) /\ r.idem # Nil

\* mem_service_try_idempotency_replay.
Replay(r) ==
    IF ~Keyed(r)
    THEN [handled |-> FALSE, pend |-> FALSE, status |-> "ok"]
    ELSE IF r.idem \in DOMAIN idem
    THEN [handled |-> TRUE, pend |-> FALSE,
          status |-> IF idem[r.idem].req = r
                     THEN idem[r.idem].status ELSE "version_conflict"]
    ELSE IF Cardinality(DOMAIN idem) >= MaxIdemSlots
    THEN [handled |-> TRUE, pend |-> FALSE, status |-> "capacity_exceeded"]
    ELSE [handled |-> FALSE, pend |-> TRUE, status |-> "ok"]

\* The max_records test of the handler, with mem_service_estimate_new_record_count:
\* a restore counts as UINT64_MAX new records.
OverQuota(r) ==
    /\ MaxRecords > 0
    /\ \/ r.op = "restore"
       \/ /\ r.op \in {"put", "register"}
          /\ r.key \notin DOMAIN records
          /\ Cardinality(DOMAIN records) >= MaxRecords

\* mem_service_put_object and mem_service_store_artifact.
NewVersion(r) ==
    IF r.ver # 0 THEN r.ver
    ELSE IF r.op = "register" /\ r.key \in DOMAIN records
         THEN records[r.key].ver + 1 ELSE 1
StoreRecord(r) ==
    IF r.key \notin DOMAIN records /\ Cardinality(DOMAIN records) >= MaxRecordSlots
    THEN [status |-> "capacity_exceeded", recs |-> records]
    ELSE [status |-> "ok",
          recs |-> Update(records, r.key,
                          [kind |-> r.kind, ver |-> NewVersion(r), val |-> r.val])]

\* mem_service_query_artifact, the version check.
Query(r) ==
    [recs |-> records,
     status |-> IF r.key \notin DOMAIN records THEN "not_found"
                ELSE IF RecordKind(records[r.key].kind) # RecordKind(r.kind)
                THEN "not_found"
                ELSE IF r.ver # 0 /\ records[r.key].ver # r.ver THEN "stale_ref"
                ELSE "ok"]

\* mem_service_dispatch_operation, after the quota test.
Dispatch(r) ==
    IF OverQuota(r) THEN [status |-> "capacity_exceeded", recs |-> records]
    ELSE CASE r.op \in {"put", "register"} -> StoreRecord(r)
           [] r.op = "restore" -> [status |-> "ok", recs |-> RestoreImage]
           [] r.op = "query" -> Query(r)

\* Mutant: one record more than the limit is kept.
OldestPlusOne(recs, S, limit) ==
    IF limit = 0 THEN {{}}
    ELSE {E \in SUBSET S :
            /\ Cardinality(S \ E) = IF Cardinality(S) > limit + 1
                                    THEN limit + 1 ELSE Cardinality(S)
            /\ \A e \in E, k \in S \ E : recs[e].ver <= recs[k].ver}

\* The records mem_service_apply_checkpoint_retention and the count loop of
\* mem_service_apply_record_retention remove: lowest version first, then the
\* oldest wall-clock stamp, which any of them may carry.
Oldest(recs, S, limit) ==
    IF limit = 0 THEN {{}}
    ELSE {E \in SUBSET S :
            /\ Cardinality(S \ E) = IF Cardinality(S) > limit
                                    THEN limit ELSE Cardinality(S)
            /\ \A e \in E, k \in S \ E : recs[e].ver <= recs[k].ver}
OfKind(recs, K) == {k \in DOMAIN recs : recs[k].kind \in K}
CheckpointVictims(recs) ==
    Oldest(recs, OfKind(recs, {"checkpoint"}), MaxCheckpoints)
CountVictims(recs) == Oldest(recs, OfKind(recs, RetainKinds), MaxRetained)

\* The age loop of mem_service_apply_record_retention: any record may be past
\* the limit, except one stored just now.
AgeVictims(recs, fresh) ==
    IF AgeLimited THEN SUBSET (OfKind(recs, RetainKinds) \ fresh) ELSE {{}}

\* mem_service_prune_idempotency_for_record_key: the entries whose recorded
\* response names the removed record.
PrunedIdem(table, E) ==
    {k \in DOMAIN table : /\ table[k].status = "ok"
                          /\ table[k].req.op \in {"put", "register"}
                          /\ table[k].req.key \in E}

\* mem_service_should_audit_operation.
Audited(r, status) == Mutates(r) \/ status \in {"stale_ref", "version_conflict"}

NoCtx == LET r == CHOOSE r \in Requests : TRUE
         IN  [r |-> r, status |-> "ok", handled |-> FALSE, pend |-> FALSE,
              event |-> [seq |-> 0, req |-> r, status |-> "ok"], pruned |-> {}]

\* Where the handler goes once journal and snapshot are dealt with.
AfterCheckpoint(c) == IF "record" \in c.pruned THEN "record_save" ELSE "reply"
AfterAudit(c) ==
    IF "checkpoint" \in c.pruned THEN "checkpoint_save" ELSE AfterCheckpoint(c)
AfterCompact(c) ==
    IF "audit" \in c.pruned THEN "audit_compact" ELSE AfterAudit(c)
AfterDurable(c) ==
    IF c.status = "ok" /\ Mutates(c.r) THEN "compact" ELSE AfterCompact(c)

\* The history after a request; a committed restore replaces all records.
Executed(done, r, stored) ==
    (IF stored /\ r.op = "restore" THEN {} ELSE done)
        \cup (IF stored /\ Keyed(r) THEN {r.idem} ELSE {})

\* The status of a request and the records after it, before retention.
Outcome(r) ==
    IF Replay(r).handled THEN [status |-> Replay(r).status, recs |-> records]
    ELSE Dispatch(r)
Stored(r) == ~Replay(r).handled /\ Outcome(r).status = "ok" /\ Mutates(r)
Clears(r) == Stored(r) /\ r.op = "restore"

\* What checkpoint retention (after a training register) and record retention
\* remove on behalf of a request.
CheckpointsPruned(r) ==
    IF Stored(r) /\ r.op = "register" /\ RecordKind(r.kind) = "training"
    THEN CheckpointVictims(Outcome(r).recs) ELSE {{}}
RecordsPruned(r, E1) ==
    IF ~Stored(r) THEN {{}}
    ELSE LET left == Without(Outcome(r).recs, E1)
             fresh == IF r.op = "restore" THEN {} ELSE {r.key}
         IN  UNION {{E \cup F : F \in AgeVictims(Without(left, E), fresh)} :
                      E \in CountVictims(left)}

\* The audit ring with the event of the request, before audit retention.
Event(r) == [seq |-> IF Clears(r) THEN EmptyRing.next ELSE ring.next,
             req |-> r, status |-> Outcome(r).status]
Logged(r) == AppendAudit(IF Clears(r) THEN EmptyRing ELSE ring, Event(r))

\* The locals of the handler once the request has been dispatched.
NewCtx(r, E1, E2) ==
    [r |-> r, status |-> Outcome(r).status, handled |-> Replay(r).handled,
     pend |-> Replay(r).pend, event |-> Event(r),
     pruned |-> {x \in {"audit", "checkpoint", "record"} :
                   \/ /\ x = "audit"
                      /\ Audited(r, Outcome(r).status)
                      /\ Logged(r).events # ApplyAuditRetention(Logged(r)).events
                   \/ x = "checkpoint" /\ E1 # {}
                   \/ x = "record" /\ E2 # {}}]

\* The idempotency table without what retention or a restore removes, and with
\* the record of the request (mem_service_complete_idempotency).
Completed(r, gone) ==
    LET left == Without(IF Clears(r) THEN Empty ELSE idem, gone)
    IN  IF Replay(r).pend
        THEN Update(left, r.idem, [req |-> r, status |-> Outcome(r).status])
        ELSE left

\* mem_service_handle_operation_with_limits up to the journal append, with
\* checkpoints E1 and records E2 removed.
Serve(r, E1, E2) ==
    LET gone == PrunedIdem(idem, E1 \cup E2)
        audited == Audited(r, Outcome(r).status)
    IN  /\ records' = Without(Outcome(r).recs, E1 \cup E2)
        /\ idem' = Completed(r, gone)
        /\ ring' = IF audited THEN ApplyAuditRetention(Logged(r)) ELSE ring
        /\ ctx' = NewCtx(r, E1, E2)
        /\ pc' = IF audited THEN "append" ELSE AfterDurable(NewCtx(r, E1, E2))
        /\ acked' = IF Clears(r) THEN Empty ELSE Without(acked, gone)
        /\ effects' = [effects EXCEPT !.mem = Executed(@, r, Stored(r))]

Receive(r) ==
    /\ pc = "idle"
    /\ spent.requests < RequestBound
    /\ spent' = [spent EXCEPT !.requests = @ + 1]
    /\ \E E1 \in CheckpointsPruned(r) : \E E2 \in RecordsPruned(r, E1) :
          Serve(r, E1, E2)
    /\ UNCHANGED disk

-----------------------------------------------------------------------------
(* The durable steps of the handler.  Each either succeeds or fails; a     *)
(* failure uses up one of FaultBound.                                      *)

Fault == /\ spent.faults < FaultBound
         /\ spent' = [spent EXCEPT !.faults = @ + 1]

\* Mutant: the failure branch keeps the status it found.
DurableFailedSilently == pc' = AfterDurable(ctx) /\ UNCHANGED <<ctx, ring, idem>>

\* The failure branch of the handler: an ok mutation becomes "internal", its
\* idempotency record and a second audit event say so, and journal and snapshot
\* are tried once more.
DurableFailed ==
    IF ctx.status = "ok" /\ Mutates(ctx.r)
    THEN LET event == [seq |-> ring.next, req |-> ctx.r, status |-> "internal"]
         IN  /\ ctx' = [ctx EXCEPT !.status = "internal", !.event = event]
             /\ ring' = AppendAudit(ring, event)
             /\ idem' = IF ctx.pend
                        THEN Update(idem, ctx.r.idem,
                                    [req |-> ctx.r, status |-> "internal"])
                        ELSE idem
             /\ pc' = "retry_append"
    ELSE /\ pc' = AfterDurable(ctx)
         /\ UNCHANGED <<ctx, ring, idem>>

AppendOk ==
    /\ pc \in {"append", "retry_append"}
    /\ jrn.st # "badhdr"
    /\ jrn' = Appended
    /\ pc' = IF pc = "append" THEN "save" ELSE "retry_save"
    /\ UNCHANGED <<memory, snap, ctx, acked, effects, spent>>

\* An error while writing, or a journal whose header is not the magic line,
\* which is refused before anything is written.
AppendFails ==
    /\ pc \in {"append", "retry_append"}
    /\ IF jrn.st = "badhdr"
       THEN UNCHANGED <<jrn, spent>>
       ELSE Fault /\ jrn' \in PartiallyAppended
    /\ IF pc = "append" THEN DurableFailed
       ELSE pc' = "retry_save" /\ UNCHANGED <<ctx, ring, idem>>
    /\ UNCHANGED <<records, snap, acked, effects>>

\* mem_service_save_store: the rename is the commit point.
SaveOk ==
    /\ pc \in {"save", "retry_save", "checkpoint_save", "record_save"}
    /\ snap' = Snapshot
    /\ effects' = [effects EXCEPT !.disk = effects.mem]
    /\ pc' = CASE pc \in {"save", "retry_save"} -> AfterDurable(ctx)
               [] pc = "checkpoint_save" -> "checkpoint_compact"
               [] pc = "record_save" -> "record_compact"
    /\ UNCHANGED <<memory, jrn, ctx, acked, spent>>

SaveFails ==
    /\ pc \in {"save", "retry_save", "checkpoint_save", "record_save"}
    /\ Fault
    /\ IF pc = "save" THEN DurableFailed
       ELSE /\ pc' = CASE pc = "retry_save" -> AfterDurable(ctx)
                       [] pc = "checkpoint_save" -> AfterCheckpoint(ctx)
                       [] pc = "record_save" -> "reply"
            /\ UNCHANGED <<ctx, ring, idem>>
    /\ UNCHANGED <<records, disk, acked, effects>>

CompactPcs == {"compact", "audit_compact", "checkpoint_compact", "record_compact"}
AfterCompaction ==
    pc' = CASE pc = "compact" -> AfterCompact(ctx)
            [] pc = "audit_compact" -> AfterAudit(ctx)
            [] pc = "checkpoint_compact" -> AfterCheckpoint(ctx)
            [] pc = "record_compact" -> "reply"

\* mem_service_compact_journal (only above the threshold) and
\* mem_service_compact_journal_now: the journal is replaced by a header.
CompactOk ==
    /\ pc \in CompactPcs
    /\ jrn' = IF pc = "compact" /\ jrn.frames <= CompactAbove
              THEN jrn ELSE EmptyJournal
    /\ AfterCompaction
    /\ UNCHANGED <<memory, snap, ctx, acked, effects, spent>>

\* A failed compaction is only logged.
CompactFails ==
    /\ pc \in CompactPcs
    /\ pc = "compact" => jrn.frames > CompactAbove
    /\ Fault
    /\ AfterCompaction
    /\ UNCHANGED <<memory, disk, ctx, acked, effects>>

\* mem_service_send_response.
Reply ==
    /\ pc = "reply"
    /\ pc' = "idle"
    /\ acked' = IF ctx.status = "ok" /\ Keyed(ctx.r)
                THEN Update(acked, ctx.r.idem, ctx.r) ELSE acked
    /\ ctx' = NoCtx
    /\ UNCHANGED <<memory, disk, effects, spent>>

-----------------------------------------------------------------------------
(* Crash and start-up.                                                     *)

\* The process dies at any step, at worst in the middle of an append.
Crash ==
    /\ pc \notin {"down", "exited"}
    /\ spent.crashes < CrashBound
    /\ spent' = [spent EXCEPT !.crashes = @ + 1]
    /\ pc' = "down"
    /\ ctx' = NoCtx
    /\ records' = Empty /\ idem' = Empty /\ ring' = EmptyRing
    /\ jrn' \in IF pc \in {"append", "retry_append"} /\ jrn.st # "badhdr"
                THEN PartiallyAppended ELSE {jrn}
    /\ UNCHANGED <<snap, acked, effects>>

\* mem_service_load_durable_store: the snapshot, then the journal over it.  The
\* daemon exits when either does not parse.
Load ==
    /\ pc = "down"
    /\ IF Loadable
       THEN /\ records' = snap.recs
            /\ idem' = LoadedIdem
            /\ ring' = ImportAuditFrames(SnapshotRing(snap.events), jrn.audit)
            /\ effects' = [effects EXCEPT !.mem = effects.disk]
            /\ pc' = "boot_audit"
       ELSE /\ pc' = "exited"
            /\ UNCHANGED <<memory, effects>>
    /\ UNCHANGED <<disk, ctx, acked, spent>>

\* The three retention passes of start-up, each followed by a save and a
\* compaction when it removed something.
NextBoot == [boot_audit |-> "boot_checkpoint", boot_checkpoint |-> "boot_record",
             boot_record |-> "idle"]

BootRetention ==
    /\ pc \in DOMAIN NextBoot
    /\ \E E \in CASE pc = "boot_audit" -> {{}}
                  [] pc = "boot_checkpoint" -> CheckpointVictims(records)
                  [] pc = "boot_record" ->
                       UNION {{E1 \cup E2 : E2 \in AgeVictims(Without(records, E1), {})} :
                                E1 \in CountVictims(records)} :
          LET log == IF pc = "boot_audit" THEN ApplyAuditRetention(ring) ELSE ring
              gone == PrunedIdem(idem, E)
              removed == E # {} \/ log.events # ring.events
          IN  /\ records' = Without(records, E)
              /\ idem' = Without(idem, gone)
              /\ acked' = Without(acked, gone)
              /\ ring' = log
              /\ ctx' = IF removed THEN [NoCtx EXCEPT !.pruned = {pc}] ELSE NoCtx
              /\ pc' = IF removed THEN "boot_save" ELSE NextBoot[pc]
    /\ UNCHANGED <<disk, effects, spent>>

BootSave ==
    /\ pc = "boot_save"
    /\ snap' = Snapshot
    /\ effects' = [effects EXCEPT !.disk = effects.mem]
    /\ pc' = "boot_compact"
    /\ UNCHANGED <<memory, jrn, ctx, acked, spent>>

BootCompact ==
    /\ pc = "boot_compact"
    /\ jrn' = EmptyJournal
    /\ \E b \in ctx.pruned : pc' = NextBoot[b]
    /\ ctx' = NoCtx
    /\ UNCHANGED <<memory, snap, acked, effects, spent>>

\* A failing save or compaction ends start-up.
BootFails ==
    /\ pc \in {"boot_save", "boot_compact"}
    /\ Fault
    /\ pc' = "exited"
    /\ ctx' = NoCtx
    /\ records' = Empty /\ idem' = Empty /\ ring' = EmptyRing
    /\ UNCHANGED <<disk, acked, effects>>

\* The service manager starts the daemon again.
Restart ==
    /\ pc = "exited"
    /\ pc' = "down"
    /\ UNCHANGED <<memory, disk, ctx, acked, effects, spent>>

-----------------------------------------------------------------------------
Init ==
    /\ records = Empty /\ idem = Empty /\ ring = EmptyRing
    /\ snap = [recs |-> Empty, idem |-> Empty, events |-> {}]
    /\ jrn = NoJournal
    /\ pc = "idle" /\ ctx = NoCtx
    /\ acked = Empty
    /\ effects = [mem |-> {}, disk |-> {}]
    /\ spent = [requests |-> 0, crashes |-> 0, faults |-> 0]

Step ==
    \/ AppendOk \/ AppendFails \/ SaveOk \/ SaveFails
    \/ CompactOk \/ CompactFails \/ Reply
    \/ Load \/ BootRetention \/ BootSave \/ BootCompact \/ BootFails
    \/ Restart

Next == (\E r \in Requests : Receive(r)) \/ Step \/ Crash

Spec == Init /\ [][Next]_vars

\* The process runs on until its next blocking accept, and the service manager
\* restarts it when it exits.  Nothing is assumed of clients or of crashes.
FairSpec == Spec /\ WF_vars(Step)

-----------------------------------------------------------------------------
(* Properties.                                                             *)

Up == pc \notin {"down", "exited"}

Pcs == {"idle", "append", "save", "retry_append", "retry_save", "reply",
        "checkpoint_save", "record_save", "down", "exited", "boot_save",
        "boot_compact"} \cup CompactPcs \cup DOMAIN NextBoot

TablesType ==
    /\ IsTable(records, Keys, RecordType)
    /\ IsTable(idem, IdemKeys, EntryType)
    /\ IsTable(snap.recs, Keys, RecordType)
    /\ IsTable(snap.idem, IdemKeys, EntryType)
    /\ IsTable(jrn.idem, IdemKeys, EntryType)
    /\ IsTable(acked, IdemKeys, Requests)
ControlType ==
    /\ pc \in Pcs
    /\ ctx.r \in Requests /\ ctx.status \in Statuses
    /\ ctx.handled \in BOOLEAN /\ ctx.pend \in BOOLEAN
    /\ jrn.st \in {"missing", "empty", "badhdr", "ok"}
    /\ jrn.frames \in Nat /\ jrn.tail \in Tails /\ jrn.dead \in BOOLEAN
    /\ effects \in [mem : SUBSET IdemKeys, disk : SUBSET IdemKeys]
AuditType ==
    /\ ring \in [events : SUBSET EventType, next : Nat \ {0}, count : Nat]
    /\ snap.events \subseteq EventType
    /\ jrn.audit \in Seq(EventType)

\* The tables, the files, the locals of the handler and the audit ring have
\* their types.
TypeOK == TablesType /\ ControlType /\ AuditType

\* When a mutating request is about to be answered "ok", the snapshot already
\* holds the records and the idempotency table of memory: whatever the handler
\* does between dispatch and mem_service_send_response (failed appends, failed
\* saves, the second attempt, retention, compaction), "ok" is never said of
\* something a restart would not bring back.
OkReplyIsDurable ==
    pc = "reply" /\ ctx.status = "ok" /\ Mutates(ctx.r)
        => snap.recs = records /\ snap.idem = idem

\* Once a keyed request has been answered "ok", its idempotency record stays: in
\* the running daemon and in what snapshot and journal would load to, at every
\* later step and through every crash, torn append, failed write and compaction,
\* until retention or a restore removes it on purpose.  A retry is therefore
\* answered from the record and never executed again.
AckedReplayable ==
    \A k \in DOMAIN acked :
        LET entry == [req |-> acked[k], status |-> "ok"]
        IN  /\ Up => k \in DOMAIN idem /\ idem[k] = entry
            /\ k \in DOMAIN LoadedIdem /\ LoadedIdem[k] = entry

\* Between requests the retained audit events are exactly the sequence numbers
\* from mem_service_audit_first_sequence to the last one given out: audit-log
\* pages by sequence number from there and would show a gap as lost events.
AuditContiguous ==
    pc = "idle" =>
        {x.seq : x \in ring.events} = AuditFirstSequence(ring) .. ring.next - 1

DiskEvents == snap.events \cup {jrn.audit[i] : i \in DOMAIN jrn.audit}

\* A step gives no sequence number that snapshot or journal already hold to
\* another event: numbers are not reused after a restart.
KeepsAuditNumbers ==
    \A e \in ring'.events, d \in DiskEvents : e.seq = d.seq => e = d

\* Between requests, also right after start-up, no table exceeds its limit: the
\* quota of max_records and the three retention limits.
WithinLimits ==
    pc = "idle" =>
        /\ Cardinality(DOMAIN idem) <= MaxIdemSlots
        /\ Cardinality(DOMAIN records) <= MaxRecordSlots
        /\ MaxRecords > 0 => Cardinality(DOMAIN records) <= MaxRecords
        /\ MaxCheckpoints > 0 =>
               Cardinality(OfKind(records, {"checkpoint"})) <= MaxCheckpoints
        /\ MaxRetained > 0 =>
               Cardinality(OfKind(records, RetainKinds)) <= MaxRetained
        /\ MaxAuditEvents > 0 /\ MaxAuditEvents < AuditSlots =>
               Cardinality(ring.events) <= MaxAuditEvents

\* After a crash the daemon is serving again: no single crash, in the middle of
\* an append included, leaves files that start-up refuses.
RestartCompletes == pc = "down" ~> pc = "idle"

-----------------------------------------------------------------------------
(* What the documentation says and the code does not do.                   *)

\* A retry answered "ok" from the idempotency table stands for an execution the
\* records reflect.
ReplayIsTruthful ==
    pc = "reply" /\ ctx.handled /\ ctx.status = "ok"
        => ctx.r.idem \in effects.mem

\* A start-up that finds a torn journal tail recovers instead of exiting.
TornTailRecovered == pc # "exited"
=============================================================================
