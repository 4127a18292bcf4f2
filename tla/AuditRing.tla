----------------------------- MODULE AuditRing -----------------------------
(***************************************************************************)
(* The retained audit ring of mem_service_daemon.c.                        *)
(*                                                                         *)
(* struct mem_service holds audit_events[MEM_SERVICE_MAX_AUDIT_EVENTS],    *)
(* audit_next_sequence and audit_event_count.  An event with sequence      *)
(* number n lives in slot (n - 1) % MEM_SERVICE_MAX_AUDIT_EVENTS.  A ring  *)
(* is a record [events, next, count]; events is the set of the in_use      *)
(* slots' contents, of which no two share a slot.                          *)
(*                                                                         *)
(* The module has no state of its own: DurableDaemon keeps one ring in     *)
(* memory, the retained events in the snapshot, and the appended ones in   *)
(* the journal.                                                            *)
(***************************************************************************)
EXTENDS Integers, Sequences, FiniteSets

CONSTANTS
    AuditSlots,      \* MEM_SERVICE_MAX_AUDIT_EVENTS (256 in the code)
    MaxAuditEvents   \* limits->max_audit_events, 0 when there is no limit

ASSUME AuditSlotsAssumption == AuditSlots \in Nat \ {0}
ASSUME MaxAuditEventsAssumption == MaxAuditEvents \in Nat

AuditSlot(n) == (n - 1) % AuditSlots

EmptyRing == [events |-> {}, next |-> 1, count |-> 0]

\* The set of events after an event is written to its slot.
OverwriteSlot(events, e) ==
    {x \in events : AuditSlot(x.seq) # AuditSlot(e.seq)} \cup {e}

CountUp(n) == IF n < AuditSlots THEN n + 1 ELSE n

\* mem_service_append_audit_event, for an operation that is audited; the
\* caller has numbered the event, e.seq = ring.next.
AppendAudit(ring, e) ==
    [events |-> OverwriteSlot(ring.events, e),
     next   |-> ring.next + 1,
     count  |-> CountUp(ring.count)]

\* Mutant: the next number is the last one imported.
ImportAuditKeepsNext(ring, e) ==
    [events |-> OverwriteSlot(ring.events, e),
     next   |-> IF e.seq >= ring.next THEN e.seq ELSE ring.next,
     count  |-> IF \E x \in ring.events : x.seq = e.seq
                THEN ring.count ELSE CountUp(ring.count)]

\* mem_service_store_import_audit: a frame overwrites its slot, and is counted
\* unless the slot already holds its own sequence number.
ImportAudit(ring, e) ==
    LET dup == \E x \in ring.events : x.seq = e.seq
    IN  [events |-> OverwriteSlot(ring.events, e),
         next   |-> IF e.seq >= ring.next THEN e.seq + 1 ELSE ring.next,
         count  |-> IF dup THEN ring.count ELSE CountUp(ring.count)]

\* The audit frames of a journal, imported in file order.
ImportAuditFrames(ring, frames) ==
    LET imported[i \in 0 .. Len(frames)] ==
            IF i = 0 THEN ring ELSE ImportAudit(imported[i - 1], frames[i])
    IN  imported[Len(frames)]

\* mem_service_apply_audit_retention: drop everything below the last
\* max_audit_events sequence numbers and recount what is left.
AuditRetentionApplies(ring) ==
    /\ MaxAuditEvents > 0
    /\ MaxAuditEvents < AuditSlots
    /\ ring.count > MaxAuditEvents

ApplyAuditRetention(ring) ==
    IF ~AuditRetentionApplies(ring)
    THEN ring
    ELSE LET first == IF ring.next > MaxAuditEvents
                      THEN ring.next - MaxAuditEvents ELSE 1
             kept  == {x \in ring.events : x.seq >= first}
         IN  [ring EXCEPT !.events = kept, !.count = Cardinality(kept)]

\* mem_service_save_store writes the events of the last AuditSlots sequence
\* numbers.
SavedEvents(ring) ==
    {x \in ring.events : x.seq >= ring.next - AuditSlots /\ x.seq < ring.next}

\* The import of a snapshot's events into an empty ring.  They come from a
\* window of AuditSlots sequence numbers, so no two of them share a slot and
\* their order does not matter.
SnapshotRing(events) ==
    [events |-> events,
     next   |-> 1 + (CHOOSE n \in {0} \cup {x.seq : x \in events} :
                        \A x \in events : x.seq <= n),
     count  |-> Cardinality(events)]

\* mem_service_audit_first_sequence, which audit-log starts its listing from.
AuditFirstSequence(ring) ==
    IF ring.count = 0 \/ ring.next <= ring.count
    THEN 1 ELSE ring.next - ring.count
=============================================================================
