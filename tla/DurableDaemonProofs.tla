------------------------ MODULE DurableDaemonProofs ------------------------
(***************************************************************************)
(* Proofs about DurableDaemon, for every set of keys and requests, every   *)
(* limit, and any number of crashes and failing file operations:           *)
(*                                                                         *)
(*   OkIsDurable        Spec => []OkReplyIsDurable                         *)
(*   AckedStaysReplayable  Spec => []AckedReplayable                       *)
(*                                                                         *)
(* Neither property is inductive.  An "ok" entry of the idempotency table  *)
(* survives a crash because snapshot and journal agree with it, and they   *)
(* do so only from certain steps of the handler on; DaemonInv states from  *)
(* which.                                                                  *)
(***************************************************************************)
EXTENDS DurableDaemon, TLAPS

\* The journal and the handler's locals are records with fixed fields.
JournalShape(j) == DOMAIN j = {"st", "idem", "audit", "frames", "tail", "dead"}
CtxShape(c) ==
    DOMAIN c = {"r", "status", "handled", "pend", "event", "pruned"}

OkEntry(r) == [req |-> r, status |-> "ok"]

\* The handler is between mem_service_try_idempotency_replay and the reply.
Serving == {"append", "save", "retry_append", "retry_save", "reply",
            "checkpoint_save", "record_save"} \cup CompactPcs

\* Past the save of an "ok" mutation.
Saved == {"reply", "checkpoint_save", "record_save"} \cup CompactPcs

\* The locals of the handler agree with the idempotency table.
CtxInv ==
    /\ ctx.pend => Keyed(ctx.r)
    /\ pc \in {"boot_save", "boot_compact"} => ctx.pruned \subseteq DOMAIN NextBoot
    /\ pc \in Serving /\ ctx.pend =>
          /\ ctx.r.idem \in DOMAIN idem
          /\ idem[ctx.r.idem] = [req |-> ctx.r, status |-> ctx.status]
    /\ pc \in Serving /\ Keyed(ctx.r) /\ ctx.status = "ok" =>
          /\ ctx.r.idem \in DOMAIN idem
          /\ idem[ctx.r.idem] = OkEntry(ctx.r)
    /\ pc \in {"retry_append", "retry_save"} => ctx.status = "internal"
    /\ pc \in {"append", "save", "retry_append"} /\ ctx.pend =>
          ctx.r.idem \notin DOMAIN acked

SavedInv ==
    pc \in Saved /\ ctx.status = "ok" /\ Mutates(ctx.r)
        => snap.recs = records /\ snap.idem = idem

\* The last journal frame of an "ok" entry is that entry, except while the
\* frame of the request in progress is still to be appended.
JournalInv ==
    Up => \A k \in DOMAIN idem :
             \/ idem[k].status # "ok"
             \/ k \notin DOMAIN jrn.idem
             \/ jrn.idem[k] = idem[k]
             \/ pc = "append" /\ ctx.pend /\ k = ctx.r.idem

\* An acknowledged request is in memory, in the snapshot, and the journal does
\* not contradict it.
AckedInv ==
    \A k \in DOMAIN acked :
        /\ Up => k \in DOMAIN idem /\ idem[k] = OkEntry(acked[k])
        /\ k \in DOMAIN snap.idem /\ snap.idem[k] = OkEntry(acked[k])
        /\ k \in DOMAIN jrn.idem => jrn.idem[k] = OkEntry(acked[k])

Shapes == JournalShape(jrn) /\ CtxShape(ctx) /\ pc \in Pcs

DaemonInv == Shapes /\ CtxInv /\ SavedInv /\ JournalInv /\ AckedInv

-----------------------------------------------------------------------------

\* AckedInv is strong enough for AckedReplayable: a load takes the journal's
\* entry where there is one and the snapshot's otherwise.
LEMMA AckedInvSuffices == AckedInv => AckedReplayable
BY DEF AckedInv, AckedReplayable, OkEntry, LoadedIdem

\* j is a journal that holds, for every key, either the frame jrn has or the
\* entry of the request in progress.
ExtendsJournal(j) ==
    /\ JournalShape(j)
    /\ \A k \in DOMAIN j.idem :
          \/ k \in DOMAIN jrn.idem /\ j.idem[k] = jrn.idem[k]
          \/ ctx.pend /\ k = ctx.r.idem /\ j.idem[k] = idem[k]

LEMMA EmptyJournalShape ==
    /\ JournalShape(NoJournal) /\ NoJournal.idem = Empty /\ DOMAIN Empty = {}
    /\ JournalShape(EmptyJournal) /\ EmptyJournal.idem = Empty
BY Zenon DEF NoJournal, EmptyJournal, JournalShape, Empty

LEMMA FrameWritten ==
    ASSUME NEW j, JournalShape(j), NEW k, NEW entry, NEW e, NEW kind
    PROVE  /\ JournalShape(WriteIdemFrame(j, k, entry))
           /\ WriteIdemFrame(j, k, entry).idem = Update(j.idem, k, entry)
           /\ JournalShape(WriteAuditFrame(j, e))
           /\ WriteAuditFrame(j, e).idem = j.idem
           /\ \A t \in TearFrame(j, kind) : JournalShape(t) /\ t.idem = j.idem
BY Zenon DEF JournalShape, WriteIdemFrame, WriteAuditFrame, TearFrame

\* Whatever an append leaves behind, torn or whole, extends the journal.
LEMMA AppendFrames ==
    ASSUME JournalShape(jrn), NEW j \in PartiallyAppended \cup {Appended}
    PROVE  ExtendsJournal(j)
<1> DEFINE h == WithHeader(jrn)
           i == AppendedIdem(h)
<1>1. ExtendsJournal(jrn)
  BY DEF ExtendsJournal
<1>2. ExtendsJournal(h)
  BY <1>1, EmptyJournalShape DEF ExtendsJournal, WithHeader
<1>3. ExtendsJournal(i)
  <2>1. CASE ctx.pend
    <3> DEFINE k0 == ctx.r.idem
    <3>1. i = WriteIdemFrame(h, k0, idem[k0])
      BY <2>1 DEF AppendedIdem
    <3>2. JournalShape(i) /\ i.idem = Update(h.idem, k0, idem[k0])
      BY <1>2, <3>1, FrameWritten DEF ExtendsJournal
    <3> QED
      BY <1>2, <2>1, <3>2 DEF ExtendsJournal, Update
  <2>2. CASE ~ctx.pend
    BY <1>2, <2>2 DEF AppendedIdem
  <2> QED
    BY <2>1, <2>2
<1>4. \A kind, t : t \in TearFrame(h, kind) \cup TearFrame(i, kind)
                      => ExtendsJournal(t)
  BY <1>2, <1>3, FrameWritten DEF ExtendsJournal
<1>5. \A st : ExtendsJournal([NoJournal EXCEPT !.st = st])
  BY EmptyJournalShape DEF ExtendsJournal, NoJournal, JournalShape, Empty
<1>6. ExtendsJournal(Appended)
  BY <1>3, FrameWritten DEF ExtendsJournal, Appended
<1>7. CASE j \in PartiallyAppended
  BY <1>1, <1>2, <1>3, <1>4, <1>5, <1>7 DEF PartiallyAppended
<1> QED
  BY <1>6, <1>7
\* A whole append holds the entry of the request in progress.
LEMMA AppendedEntry ==
    ASSUME JournalShape(jrn), ctx.pend
    PROVE  /\ ctx.r.idem \in DOMAIN Appended.idem
           /\ Appended.idem[ctx.r.idem] = idem[ctx.r.idem]
<1> DEFINE h == WithHeader(jrn)
           k == ctx.r.idem
           i == WriteIdemFrame(h, k, idem[k])
<1>1. JournalShape(h)
  BY EmptyJournalShape DEF WithHeader
<1>2. JournalShape(i) /\ i.idem = Update(h.idem, k, idem[k])
  BY <1>1, FrameWritten
<1>3. Appended = WriteAuditFrame(i, ctx.event)
  BY DEF Appended, AppendedIdem
<1>4. Appended.idem = i.idem
  BY <1>2, <1>3, FrameWritten
<1> QED
  BY <1>2, <1>4 DEF Update

-----------------------------------------------------------------------------
(* Every action preserves DaemonInv.                                       *)

USE DEF Serving, Saved, CompactPcs, Up

LEMMA NoCtxShape == CtxShape(NoCtx) /\ NoCtx.pend = FALSE
BY DEF NoCtx, CtxShape

LEMMA InitInv == Init => DaemonInv
<1> SUFFICES ASSUME Init PROVE DaemonInv
  OBVIOUS
<1>1. DOMAIN acked = {} /\ DOMAIN idem = {} /\ pc = "idle"
  BY DEF Init, Empty
<1>2. Shapes
  BY EmptyJournalShape, NoCtxShape DEF Init, Shapes, Pcs
<1>3. CtxInv /\ SavedInv
  BY <1>1, NoCtxShape DEF Init, CtxInv, SavedInv
<1> QED
  BY <1>1, <1>2, <1>3 DEF DaemonInv, JournalInv, AckedInv

\* The whole append: the frame of the request in progress is now the journal's
\* entry for its key, so JournalInv needs its exception no longer.
LEMMA AppendOkInv == DaemonInv /\ AppendOk => DaemonInv'
<1> SUFFICES ASSUME DaemonInv, AppendOk PROVE DaemonInv'
  OBVIOUS
<1> USE DEF DaemonInv
<1>1. /\ pc \in {"append", "retry_append"}
      /\ jrn' = Appended
      /\ pc' = IF pc = "append" THEN "save" ELSE "retry_save"
      /\ UNCHANGED <<records, idem, snap, ctx, acked>>
  BY DEF AppendOk, memory
<1>2. ExtendsJournal(Appended)
  BY AppendFrames DEF Shapes
<1>3. Shapes'
  BY <1>1, <1>2 DEF Shapes, ExtendsJournal, JournalShape, CtxShape, Pcs
<1>4. CtxInv'
  BY <1>1 DEF CtxInv
<1>5. SavedInv'
  BY <1>1 DEF SavedInv
<1>6. JournalInv'
  BY <1>1, <1>2, AppendedEntry DEF JournalInv, ExtendsJournal, Shapes
<1>7. AckedInv'
  BY <1>1, <1>2 DEF AckedInv, ExtendsJournal, CtxInv
<1> QED
  BY <1>3, <1>4, <1>5, <1>6, <1>7

\* What DurableFailed does to the handler's state: either nothing but going on,
\* for a request that is not an "ok" mutation, or the entry of the request in
\* progress and the status both become "internal".
LEMMA DurableFailedFacts ==
    ASSUME CtxShape(ctx), DurableFailed
    PROVE  \/ /\ ~(ctx.status = "ok" /\ Mutates(ctx.r))
              /\ UNCHANGED <<ctx, idem>>
              /\ pc' \in Saved
           \/ /\ pc' = "retry_append"
              /\ CtxShape(ctx')
              /\ ctx'.r = ctx.r /\ ctx'.pend = ctx.pend
              /\ ctx'.status = "internal"
              /\ idem' = IF ctx.pend
                         THEN Update(idem, ctx.r.idem,
                                     [req |-> ctx.r, status |-> "internal"])
                         ELSE idem
<1>1. CASE ctx.status = "ok" /\ Mutates(ctx.r)
  <2> DEFINE e == [seq |-> ring.next, req |-> ctx.r, status |-> "internal"]
  <2>1. /\ ctx' = [ctx EXCEPT !.status = "internal", !.event = e]
        /\ pc' = "retry_append"
        /\ idem' = IF ctx.pend
                   THEN Update(idem, ctx.r.idem,
                               [req |-> ctx.r, status |-> "internal"])
                   ELSE idem
    BY <1>1 DEF DurableFailed
  <2> QED
    BY <2>1 DEF CtxShape
<1>2. CASE ~(ctx.status = "ok" /\ Mutates(ctx.r))
  BY <1>2 DEF DurableFailed, AfterDurable, AfterCompact, AfterAudit,
              AfterCheckpoint
<1> QED
  BY <1>1, <1>2

\* DurableFailed preserves the invariant whatever of the append has reached the
\* journal: the entry it overwrites in memory is not "ok" any more, and its key
\* has not been acknowledged.
LEMMA DurableFailedInv ==
    ASSUME DaemonInv, pc \in {"append", "save"}, DurableFailed,
           ExtendsJournal(jrn'), pc = "save" => jrn' = jrn,
           UNCHANGED <<records, snap, acked>>
    PROVE  DaemonInv'
<1> USE DEF DaemonInv
<1>1. CASE /\ ~(ctx.status = "ok" /\ Mutates(ctx.r))
           /\ UNCHANGED <<ctx, idem>>
           /\ pc' \in Saved
  <2>1. Shapes'
    BY <1>1 DEF Shapes, ExtendsJournal, JournalShape, CtxShape, Pcs
  <2>2. CtxInv'
    BY <1>1 DEF CtxInv
  <2>3. SavedInv'
    BY <1>1 DEF SavedInv
  <2>4. ctx.pend => ctx.status # "ok" /\ idem[ctx.r.idem].status = ctx.status
    BY <1>1 DEF CtxInv, Keyed
  <2>5. JournalInv'
    BY <1>1, <2>4 DEF JournalInv, ExtendsJournal
  <2>6. AckedInv'
    BY <1>1 DEF AckedInv, ExtendsJournal, CtxInv
  <2> QED
    BY <2>1, <2>2, <2>3, <2>5, <2>6
<1>2. CASE /\ pc' = "retry_append"
           /\ CtxShape(ctx')
           /\ ctx'.r = ctx.r /\ ctx'.pend = ctx.pend
           /\ ctx'.status = "internal"
           /\ idem' = IF ctx.pend
                      THEN Update(idem, ctx.r.idem,
                                  [req |-> ctx.r, status |-> "internal"])
                      ELSE idem
  <2>1. Shapes'
    BY <1>2 DEF Shapes, ExtendsJournal, JournalShape, Pcs
  <2>2. CtxInv'
    BY <1>2 DEF CtxInv, Update
  <2>3. SavedInv'
    BY <1>2 DEF SavedInv
  <2>4. JournalInv'
    BY <1>2 DEF JournalInv, ExtendsJournal, Update
  <2>5. AckedInv'
    BY <1>2 DEF AckedInv, ExtendsJournal, CtxInv, Update
  <2> QED
    BY <2>1, <2>2, <2>3, <2>4, <2>5
<1> QED
  BY <1>1, <1>2, DurableFailedFacts DEF Shapes

LEMMA AppendFailsInv == DaemonInv /\ AppendFails => DaemonInv'
<1> SUFFICES ASSUME DaemonInv, AppendFails PROVE DaemonInv'
  OBVIOUS
<1> USE DEF DaemonInv
<1>1. ExtendsJournal(jrn)
  BY DEF ExtendsJournal, Shapes
<1>2. jrn' = jrn \/ jrn' \in PartiallyAppended
  BY DEF AppendFails
<1>3. ExtendsJournal(jrn')
  BY <1>1, <1>2, AppendFrames DEF Shapes
<1>4. UNCHANGED <<records, snap, acked>>
  BY DEF AppendFails
<1>5. CASE pc = "append"
  BY <1>3, <1>4, <1>5, DurableFailedInv DEF AppendFails
<1>6. CASE pc = "retry_append"
  <2>1. pc' = "retry_save" /\ UNCHANGED <<ctx, idem>>
    BY <1>6 DEF AppendFails
  <2>2. Shapes'
    BY <2>1, <1>3 DEF Shapes, ExtendsJournal, JournalShape, CtxShape, Pcs
  <2>3. CtxInv' /\ SavedInv'
    BY <1>4, <1>6, <2>1 DEF CtxInv, SavedInv
  <2>4. JournalInv' /\ AckedInv'
    BY <1>3, <1>4, <1>6, <2>1 DEF JournalInv, AckedInv, ExtendsJournal, CtxInv
  <2> QED
    BY <2>2, <2>3, <2>4
<1> QED
  BY <1>5, <1>6 DEF AppendFails

\* Where the handler goes after the durable steps.
LEMMA AfterPcs ==
    ASSUME NEW c
    PROVE  /\ AfterDurable(c) \in Saved /\ AfterCompact(c) \in Saved
           /\ AfterAudit(c) \in Saved /\ AfterCheckpoint(c) \in Saved
BY DEF AfterDurable, AfterCompact, AfterAudit, AfterCheckpoint

LEMMA SaveOkInv == DaemonInv /\ SaveOk => DaemonInv'
<1> SUFFICES ASSUME DaemonInv, SaveOk PROVE DaemonInv'
  OBVIOUS
<1> USE DEF DaemonInv
<1>1. /\ pc \in {"save", "retry_save", "checkpoint_save", "record_save"}
      /\ snap'.recs = records /\ snap'.idem = idem
      /\ UNCHANGED <<records, idem, jrn, ctx, acked>>
  BY DEF SaveOk, Snapshot, memory
<1>2. pc' \in Saved
  BY <1>1, AfterPcs DEF SaveOk
<1>3. Shapes'
  BY <1>1, <1>2 DEF Shapes, JournalShape, CtxShape, Pcs
<1>4. CtxInv' /\ SavedInv'
  BY <1>1, <1>2 DEF CtxInv, SavedInv
<1>5. JournalInv' /\ AckedInv'
  BY <1>1, <1>2 DEF JournalInv, AckedInv
<1> QED
  BY <1>3, <1>4, <1>5

LEMMA SaveFailsInv == DaemonInv /\ SaveFails => DaemonInv'
<1> SUFFICES ASSUME DaemonInv, SaveFails PROVE DaemonInv'
  OBVIOUS
<1> USE DEF DaemonInv
<1>1. UNCHANGED <<records, snap, jrn, acked>>
  BY DEF SaveFails, disk
<1>2. CASE pc = "save"
  <2>1. ExtendsJournal(jrn')
    BY <1>1 DEF ExtendsJournal, Shapes, JournalShape
  <2> QED
    BY <1>1, <1>2, <2>1, DurableFailedInv DEF SaveFails
<1>3. CASE pc \in {"retry_save", "checkpoint_save", "record_save"}
  <2>1. pc' \in Saved /\ UNCHANGED <<ctx, idem>>
    BY <1>3, AfterPcs DEF SaveFails
  <2>2. Shapes'
    BY <1>1, <2>1 DEF Shapes, JournalShape, CtxShape, Pcs
  <2>3. CtxInv' /\ SavedInv'
    BY <1>1, <1>3, <2>1 DEF CtxInv, SavedInv
  <2>4. JournalInv' /\ AckedInv'
    BY <1>1, <1>3, <2>1 DEF JournalInv, AckedInv
  <2> QED
    BY <2>2, <2>3, <2>4
<1> QED
  BY <1>2, <1>3 DEF SaveFails

\* A compaction, done or failed: the snapshot alone carries what is acknowledged.
LEMMA CompactInv == DaemonInv /\ (CompactOk \/ CompactFails) => DaemonInv'
<1> SUFFICES ASSUME DaemonInv, CompactOk \/ CompactFails PROVE DaemonInv'
  OBVIOUS
<1> USE DEF DaemonInv
<1>1. /\ pc \in CompactPcs
      /\ jrn' = jrn \/ jrn' = EmptyJournal
      /\ UNCHANGED <<records, idem, snap, ctx, acked>>
  BY DEF CompactOk, CompactFails, memory, disk
<1>2. pc' \in Saved
  BY AfterPcs DEF CompactOk, CompactFails, AfterCompaction
<1>3. Shapes'
  BY <1>1, <1>2, EmptyJournalShape DEF Shapes, JournalShape, CtxShape, Pcs
<1>4. CtxInv' /\ SavedInv'
  BY <1>1, <1>2 DEF CtxInv, SavedInv
<1>5. JournalInv' /\ AckedInv'
  BY <1>1, <1>2, EmptyJournalShape DEF JournalInv, AckedInv
<1> QED
  BY <1>3, <1>4, <1>5

\* The reply acknowledges an entry that memory, snapshot and journal agree on.
LEMMA ReplyInv == DaemonInv /\ Reply => DaemonInv'
<1> SUFFICES ASSUME DaemonInv, Reply PROVE DaemonInv'
  OBVIOUS
<1> USE DEF DaemonInv
<1>1. /\ pc = "reply" /\ pc' = "idle" /\ ctx' = NoCtx
      /\ UNCHANGED <<records, idem, snap, jrn>>
  BY DEF Reply, memory, disk
<1>2. Shapes' /\ CtxInv' /\ SavedInv' /\ JournalInv'
  BY <1>1, NoCtxShape
     DEF Shapes, CtxInv, SavedInv, JournalInv, JournalShape, CtxShape, Pcs
<1>3. CASE ctx.status = "ok" /\ Keyed(ctx.r)
  <2> DEFINE k0 == ctx.r.idem
  <2>1. acked' = Update(acked, k0, ctx.r)
    BY <1>3 DEF Reply
  <2>2. /\ k0 \in DOMAIN idem /\ idem[k0] = OkEntry(ctx.r)
        /\ snap.idem = idem
        /\ k0 \in DOMAIN jrn.idem => jrn.idem[k0] = idem[k0]
    BY <1>1, <1>3 DEF CtxInv, SavedInv, JournalInv, Keyed, OkEntry
  <2> QED
    BY <1>1, <1>2, <2>1, <2>2 DEF AckedInv, Update
<1>4. CASE ~(ctx.status = "ok" /\ Keyed(ctx.r))
  <2>1. acked' = acked
    BY <1>4 DEF Reply
  <2> QED
    BY <1>1, <1>2, <2>1 DEF AckedInv
<1> QED
  BY <1>3, <1>4

\* A crash: of the journal only frames of the request in progress can be new,
\* and its key has not been acknowledged.
LEMMA CrashInv == DaemonInv /\ Crash => DaemonInv'
<1> SUFFICES ASSUME DaemonInv, Crash PROVE DaemonInv'
  OBVIOUS
<1> USE DEF DaemonInv
<1>1. /\ pc' = "down" /\ ctx' = NoCtx
      /\ UNCHANGED <<snap, acked>>
  BY DEF Crash
<1>2. \/ jrn' = jrn
      \/ /\ pc \in {"append", "retry_append"}
         /\ jrn' \in PartiallyAppended
  BY DEF Crash
<1>3. Shapes' /\ AckedInv'
  <2>1. CASE jrn' = jrn
    BY <1>1, <2>1, NoCtxShape
       DEF Shapes, AckedInv, JournalShape, CtxShape, Pcs
  <2>2. CASE pc \in {"append", "retry_append"} /\ jrn' \in PartiallyAppended
    <3>1. ExtendsJournal(jrn')
      BY <2>2, AppendFrames DEF Shapes
    <3> QED
      BY <1>1, <2>2, <3>1, NoCtxShape
         DEF Shapes, AckedInv, ExtendsJournal, CtxInv, JournalShape, CtxShape, Pcs
  <2> QED
    BY <1>2, <2>1, <2>2
<1>4. CtxInv' /\ SavedInv' /\ JournalInv'
  BY <1>1, NoCtxShape DEF CtxInv, SavedInv, JournalInv
<1> QED
  BY <1>3, <1>4

\* Start-up takes the journal's entry where there is one.
LEMMA LoadInv == DaemonInv /\ (Load \/ Restart) => DaemonInv'
<1> SUFFICES ASSUME DaemonInv, Load \/ Restart PROVE DaemonInv'
  OBVIOUS
<1> USE DEF DaemonInv
<1>1. UNCHANGED <<snap, jrn, ctx, acked>> /\ pc \in {"down", "exited"}
  BY DEF Load, Restart, disk
<1>2. \/ pc' \in {"down", "exited"}
      \/ pc' = "boot_audit" /\ idem' = LoadedIdem
  BY DEF Load, Restart
<1>3. Shapes' /\ CtxInv' /\ SavedInv'
  BY <1>1, <1>2
     DEF Shapes, CtxInv, SavedInv, JournalShape, CtxShape, Pcs, NextBoot
<1>4. JournalInv' /\ AckedInv'
  BY <1>1, <1>2 DEF JournalInv, AckedInv, LoadedIdem
<1> QED
  BY <1>3, <1>4

BootPcs == {"boot_audit", "boot_checkpoint", "boot_record", "boot_save",
            "boot_compact"}

\* Every step of start-up leaves the entries it keeps as they are.
LEMMA BootInv ==
    DaemonInv /\ (BootRetention \/ BootSave \/ BootCompact \/ BootFails)
        => DaemonInv'
<1> SUFFICES ASSUME DaemonInv,
                    BootRetention \/ BootSave \/ BootCompact \/ BootFails
             PROVE  DaemonInv'
  OBVIOUS
<1> USE DEF DaemonInv
<1>1. CASE BootRetention
  <2>1. PICK gone : idem' = Without(idem, gone) /\ acked' = Without(acked, gone)
    BY <1>1 DEF BootRetention
  <2>2. /\ pc \in BootPcs /\ pc' \in BootPcs \cup {"idle"}
        /\ CtxShape(ctx') /\ ~ctx'.pend
        /\ pc' \in {"boot_save", "boot_compact"} =>
              ctx'.pruned \subseteq DOMAIN NextBoot
        /\ UNCHANGED <<snap, jrn>>
    BY <1>1, NoCtxShape
       DEF BootRetention, NextBoot, BootPcs, disk, NoCtx, CtxShape
  <2>3. Shapes' /\ CtxInv' /\ SavedInv'
    BY <2>2 DEF Shapes, CtxInv, SavedInv, JournalShape, BootPcs, Pcs, NextBoot
  <2>4. JournalInv' /\ AckedInv'
    BY <2>1, <2>2 DEF JournalInv, AckedInv, Without, BootPcs
  <2> QED
    BY <2>3, <2>4
<1>2. CASE BootSave
  <2>1. /\ pc = "boot_save" /\ pc' = "boot_compact"
        /\ snap'.idem = idem
        /\ UNCHANGED <<records, idem, jrn, ctx, acked>>
    BY <1>2 DEF BootSave, Snapshot, memory
  <2>2. Shapes' /\ CtxInv' /\ SavedInv'
    BY <2>1 DEF Shapes, CtxInv, SavedInv, JournalShape, CtxShape, Pcs
  <2>3. JournalInv' /\ AckedInv'
    BY <2>1 DEF JournalInv, AckedInv
  <2> QED
    BY <2>2, <2>3
<1>3. CASE BootCompact
  <2>1. /\ pc = "boot_compact" /\ jrn' = EmptyJournal /\ ctx' = NoCtx
        /\ UNCHANGED <<records, idem, snap, acked>>
    BY <1>3 DEF BootCompact, memory
  <2>2. pc' \in {"boot_checkpoint", "boot_record", "idle"}
    <3>1. PICK b \in ctx.pruned : pc' = NextBoot[b]
      BY <1>3 DEF BootCompact
    <3> QED
      BY <2>1, <3>1 DEF CtxInv, NextBoot
  <2>3. Shapes' /\ CtxInv' /\ SavedInv'
    BY <2>1, <2>2, EmptyJournalShape, NoCtxShape
       DEF Shapes, CtxInv, SavedInv, JournalShape, CtxShape, Pcs, NextBoot
  <2>4. JournalInv' /\ AckedInv'
    BY <2>1, <2>2, EmptyJournalShape DEF JournalInv, AckedInv
  <2> QED
    BY <2>3, <2>4
<1>4. CASE BootFails
  <2>1. pc' = "exited" /\ ctx' = NoCtx /\ UNCHANGED <<snap, jrn, acked>>
    BY <1>4 DEF BootFails, disk
  <2> QED
    BY <2>1, NoCtxShape
       DEF Shapes, CtxInv, SavedInv, JournalInv, AckedInv, JournalShape,
           CtxShape, Pcs
<1> QED
  BY <1>1, <1>2, <1>3, <1>4

\* A request that is answered from the table changes nothing; any other keyed
\* request has a key that is not in the table.
LEMMA ReplayFacts ==
    ASSUME NEW r
    PROVE  /\ Replay(r).handled \in BOOLEAN /\ Replay(r).pend \in BOOLEAN
           /\ Replay(r).pend => Keyed(r) /\ r.idem \notin DOMAIN idem
           /\ Keyed(r) => Replay(r).handled \/ Replay(r).pend
           /\ Replay(r).handled => ~Replay(r).pend
           /\ Replay(r).handled /\ Replay(r).status = "ok" =>
                 r.idem \in DOMAIN idem /\ idem[r.idem].req = r
                    /\ idem[r.idem].status = "ok"
BY DEF Replay

\* A mutating request is audited, so its journal append and save are not skipped.
LEMMA ReceiveInv ==
    ASSUME NEW r \in Requests, DaemonInv, Receive(r), IsTable(idem, IdemKeys, EntryType)
    PROVE  DaemonInv'
<1> USE DEF DaemonInv
<1>1. PICK E1, E2 :
         /\ E1 \in CheckpointsPruned(r) /\ E2 \in RecordsPruned(r, E1)
         /\ Serve(r, E1, E2)
  BY DEF Receive
<1> DEFINE gone == PrunedIdem(idem, E1 \cup E2)
           status == Outcome(r).status
<1>2. /\ pc = "idle"
      /\ UNCHANGED <<snap, jrn>>
      /\ idem' = Completed(r, gone)
      /\ acked' = IF Clears(r) THEN Empty ELSE Without(acked, gone)
      /\ ctx' = NewCtx(r, E1, E2)
      /\ pc' = IF Audited(r, status) THEN "append"
               ELSE AfterDurable(NewCtx(r, E1, E2))
  BY <1>1, SMTT(20) DEF Serve, Receive, disk
<1>3. /\ CtxShape(ctx') /\ ctx'.r = r /\ ctx'.status = status
      /\ ctx'.pend = Replay(r).pend
  BY <1>2, Zenon DEF NewCtx, CtxShape
<1>4. pc' = "append" \/ (~Mutates(r) /\ pc' \in Saved)
  BY <1>2, AfterPcs DEF Audited
<1>5. Replay(r).handled => /\ status = Replay(r).status /\ gone = {}
                           /\ ~Clears(r)
  <2>1. Replay(r).handled => ~Stored(r) /\ status = Replay(r).status
    BY DEF Outcome, Stored
  <2>2. ~Stored(r) => E1 = {} /\ E2 = {}
    BY <1>1, ZenonT(30) DEF CheckpointsPruned, RecordsPruned
  <2> QED
    BY <2>1, <2>2 DEF Clears, PrunedIdem
<1>6. Shapes'
  BY <1>2, <1>3, <1>4 DEF Shapes, JournalShape, Pcs
<1>7. SavedInv'
  BY <1>3, <1>4 DEF SavedInv
<1>8. CtxInv'
  <2>1. CASE Replay(r).pend
    <3>1. r.idem \in DOMAIN idem' /\ idem'[r.idem] = [req |-> r, status |-> status]
      BY <1>2, <2>1, SMTT(20) DEF Completed, Update
    <3>2. r.idem \notin DOMAIN acked'
      BY <1>2, <2>1, ReplayFacts DEF AckedInv, Without, Empty
    <3> QED
      BY <1>3, <1>4, <2>1, <3>1, <3>2, ReplayFacts, Zenon DEF CtxInv, OkEntry
  <2>2. CASE ~Replay(r).pend
    <3>1. Replay(r).handled => idem' = idem
      BY <1>2, <1>5, <2>2, Zenon DEF Completed, Without, IsTable
    <3> QED
      BY <1>3, <1>4, <1>5, <2>2, <3>1, ReplayFacts
         DEF CtxInv, OkEntry, Keyed, IsTable, EntryType
  <2> QED
    BY <2>1, <2>2, Zenon
<1>9. \A k \in DOMAIN idem' : \/ k \in DOMAIN idem /\ idem'[k] = idem[k]
                              \/ Replay(r).pend /\ k = r.idem
  BY <1>2, Zenon DEF Completed, Without, Update, Empty
<1>10. JournalInv'
  BY <1>2, <1>3, <1>4, <1>9, ReplayFacts, Zenon DEF JournalInv, Keyed
<1>11. AckedInv'
  <2>1. \A k \in DOMAIN acked' :
           /\ k \in DOMAIN acked /\ acked'[k] = acked[k]
           /\ k \in DOMAIN idem' /\ ~(Replay(r).pend /\ k = r.idem)
    BY <1>2, ReplayFacts, Zenon DEF AckedInv, Completed, Without, Update, Empty
  <2> QED
    BY <1>2, <1>9, <2>1, ZenonT(30) DEF AckedInv
<1> QED
  BY <1>6, <1>7, <1>8, <1>10, <1>11

-----------------------------------------------------------------------------
(* Type correctness of the tables, the files and the handler's locals.     *)

JournalType(j) ==
    /\ JournalShape(j)
    /\ IsTable(j.idem, IdemKeys, EntryType)
    /\ j.st \in {"missing", "empty", "badhdr", "ok"}
    /\ j.frames \in Nat /\ j.tail \in Tails /\ j.dead \in BOOLEAN
CtxType(c) ==
    /\ CtxShape(c)
    /\ c.r \in Requests /\ c.status \in Statuses
    /\ c.handled \in BOOLEAN /\ c.pend \in BOOLEAN
    /\ Keyed(c.r) => c.r.idem \in IdemKeys
TypeInv ==
    /\ TablesType /\ JournalType(jrn) /\ CtxType(ctx)
    /\ pc \in Pcs
    /\ effects \in [mem : SUBSET IdemKeys, disk : SUBSET IdemKeys]

LEMMA TableFacts ==
    ASSUME NEW K, NEW V, NEW f, IsTable(f, K, V)
    PROVE  /\ \A k \in K, v \in V : IsTable(Update(f, k, v), K, V)
           /\ \A S : IsTable(Without(f, S), K, V)
           /\ IsTable(Empty, K, V)
           /\ \A k \in DOMAIN f : f[k] \in V
BY DEF IsTable, Update, Without, Empty

LEMMA EmptyTable == ASSUME NEW K, NEW V PROVE IsTable(Empty, K, V)
BY DEF IsTable, Empty

LEMMA KeyedIdem == ASSUME NEW r \in Requests, Keyed(r) PROVE r.idem \in IdemKeys
BY RequestsAssumption DEF RequestType, Keyed

LEMMA NoCtxType == CtxType(NoCtx)
<1>1. (CHOOSE r \in Requests : TRUE) \in Requests
  BY RequestsAssumption
<1> QED
  BY <1>1, KeyedIdem, NoCtxShape DEF NoCtx, CtxType, Statuses

LEMMA JournalTypes ==
    /\ JournalType(EmptyJournal)
    /\ \A st \in {"missing", "empty", "badhdr", "ok"} :
          JournalType([NoJournal EXCEPT !.st = st])
    /\ JournalType(NoJournal)
BY EmptyTable DEF NoJournal, EmptyJournal, JournalType, JournalShape, Tails

LEMMA FrameTypes ==
    ASSUME NEW j, JournalType(j), NEW kind \in {"idem", "audit"}
    PROVE  /\ \A k \in IdemKeys, entry \in EntryType :
                 JournalType(WriteIdemFrame(j, k, entry))
           /\ \A e : JournalType(WriteAuditFrame(j, e))
           /\ \A t \in TearFrame(j, kind) : JournalType(t)
<1>1. \A k \in IdemKeys, entry \in EntryType :
         IsTable(Update(j.idem, k, entry), IdemKeys, EntryType)
  BY TableFacts DEF JournalType
<1>2. \A cut \in Cuts : <<kind, cut>> \in Tails
  BY LimitsAssumption DEF Tails
<1>4. \A k \in IdemKeys, entry \in EntryType :
         JournalType(WriteIdemFrame(j, k, entry))
  BY <1>1 DEF JournalType, JournalShape, WriteIdemFrame, Tails
<1>5. \A e : JournalType(WriteAuditFrame(j, e))
  BY DEF JournalType, JournalShape, WriteAuditFrame, Tails
<1>6. \A t \in TearFrame(j, kind) : JournalType(t)
  <2> SUFFICES ASSUME NEW cut \in Cuts
               PROVE  JournalType([j EXCEPT !.dead = @ \/ ~Absorbs(j, kind),
                                            !.tail = <<kind, cut>>])
    BY Zenon DEF TearFrame
  <2> QED
    BY <1>2, Zenon DEF JournalType, JournalShape
<1> QED
  BY <1>4, <1>5, <1>6

LEMMA AppendTypes ==
    ASSUME TypeInv, ctx.pend => ctx.r.idem \in DOMAIN idem,
           NEW j \in PartiallyAppended \cup {Appended}
    PROVE  JournalType(j)
<1> DEFINE h == WithHeader(jrn)
           i == AppendedIdem(h)
<1>1. JournalType(h)
  BY JournalTypes DEF TypeInv, WithHeader
<1>2. JournalType(i)
  <2>1. CASE ctx.pend
    <3>1. ctx.r.idem \in IdemKeys /\ idem[ctx.r.idem] \in EntryType
      BY <2>1 DEF TypeInv, TablesType, IsTable
    <3> QED
      BY <1>1, <2>1, <3>1, FrameTypes DEF AppendedIdem
  <2>2. CASE ~ctx.pend
    BY <1>1, <2>2 DEF AppendedIdem
  <2> QED
    BY <2>1, <2>2
<1>4. ASSUME NEW g, JournalType(g), NEW kind \in {"idem", "audit"}
      PROVE  /\ \A e : JournalType(WriteAuditFrame(g, e))
             /\ \A t \in TearFrame(g, kind) : JournalType(t)
  BY <1>4, FrameTypes
<1>5. JournalType(Appended)
  BY <1>2, <1>4 DEF Appended
<1>6. CASE j \in PartiallyAppended
  BY <1>1, <1>2, <1>4, <1>6, JournalTypes DEF PartiallyAppended, TypeInv
<1> QED
  BY <1>5, <1>6

\* Serving a request keeps the types of the tables.
LEMMA OutcomeTypes ==
    ASSUME TypeInv, NEW r \in Requests
    PROVE  /\ Outcome(r).status \in Statuses
           /\ IsTable(Outcome(r).recs, Keys, RecordType)
           /\ \A gone : IsTable(Completed(r, gone), IdemKeys, EntryType)
<1> USE DEF TypeInv, TablesType
<1>1. r \in RequestType
  BY RequestsAssumption
<1>2. Replay(r).handled => Replay(r).status \in Statuses
  BY DEF Replay, IsTable, EntryType, Statuses
<1>3. NewVersion(r) \in Nat
  <2>1. r.key \in DOMAIN records => records[r.key].ver \in Nat
    BY DEF IsTable, RecordType
  <2> QED
    BY <1>1, <2>1 DEF NewVersion, RequestType
<1>4. /\ StoreRecord(r).status \in Statuses
      /\ IsTable(StoreRecord(r).recs, Keys, RecordType)
  <2>1. [kind |-> r.kind, ver |-> NewVersion(r), val |-> r.val] \in RecordType
    BY <1>1, <1>3 DEF RequestType, RecordType
  <2>2. r.key \in Keys
    BY <1>1 DEF RequestType
  <2> QED
    BY <2>1, <2>2, TableFacts, SMTT(20) DEF StoreRecord, Statuses
<1>5. Query(r).status \in Statuses /\ Query(r).recs = records
  BY DEF Query, Statuses
<1>6. Outcome(r).status \in Statuses /\ IsTable(Outcome(r).recs, Keys, RecordType)
  <2>1. r.op \in {"put", "register", "restore", "query"}
    BY <1>1 DEF RequestType, MutatingOps
  <2>2. /\ Dispatch(r).status \in Statuses
        /\ IsTable(Dispatch(r).recs, Keys, RecordType)
    BY <1>4, <1>5, <2>1, RestoreImageAssumption DEF Dispatch, Statuses
  <2> QED
    BY <1>2, <2>2 DEF Outcome
<1>7. ASSUME NEW gone PROVE IsTable(Completed(r, gone), IdemKeys, EntryType)
  <2>1. IsTable(Without(IF Clears(r) THEN Empty ELSE idem, gone), IdemKeys, EntryType)
    BY TableFacts, EmptyTable
  <2>2. Replay(r).pend => /\ r.idem \in IdemKeys
                          /\ [req |-> r, status |-> Outcome(r).status] \in EntryType
    BY <1>6, ReplayFacts, KeyedIdem DEF EntryType
  <2> QED
    BY <2>1, <2>2, TableFacts DEF Completed
<1> QED
  BY <1>6, <1>7

LEMMA InitTypes == Init => TypeInv
<1> SUFFICES ASSUME Init PROVE TypeInv
  OBVIOUS
<1>1. TablesType
  BY EmptyTable, EmptyJournalShape DEF Init, TablesType
<1>2. effects \in [mem : SUBSET IdemKeys, disk : SUBSET IdemKeys]
  BY DEF Init
<1> QED
  BY <1>1, <1>2, JournalTypes, NoCtxType DEF Init, TypeInv, Pcs

LEMMA ReceiveTypes ==
    ASSUME TypeInv, DaemonInv', NEW r \in Requests, Receive(r)
    PROVE  TypeInv'
<1> USE DEF TypeInv
<1>1. PICK E1, E2 : Serve(r, E1, E2)
  BY DEF Receive
<1>2. snap' = snap /\ jrn' = jrn
  BY DEF Receive, disk
<1>3. IsTable(records', Keys, RecordType) /\ IsTable(idem', IdemKeys, EntryType)
  BY <1>1, OutcomeTypes, TableFacts DEF Serve
<1>4. IsTable(acked', IdemKeys, Requests)
  BY <1>1, TableFacts, EmptyTable DEF Serve, TablesType
<1>5. TablesType' /\ JournalType(jrn')
  BY <1>2, <1>3, <1>4, Zenon DEF TablesType
<1>6. CtxType(ctx')
  <2>1. ctx' = NewCtx(r, E1, E2)
    BY <1>1 DEF Serve
  <2> QED
    BY <2>1, OutcomeTypes, ReplayFacts, KeyedIdem, Zenon DEF NewCtx, CtxType, CtxShape
<1>7. effects' \in [mem : SUBSET IdemKeys, disk : SUBSET IdemKeys]
  <2>1. effects' = [effects EXCEPT !.mem = Executed(effects.mem, r, Stored(r))]
    BY <1>1 DEF Serve
  <2>2. Executed(effects.mem, r, Stored(r)) \in SUBSET IdemKeys
    BY KeyedIdem DEF Executed
  <2> QED
    BY <2>1, <2>2
<1> QED
  BY <1>5, <1>6, <1>7 DEF DaemonInv, Shapes

LEMMA DurableFailedTypes ==
    ASSUME TypeInv, CtxInv, DurableFailed
    PROVE  CtxType(ctx') /\ IsTable(idem', IdemKeys, EntryType)
<1> USE DEF TypeInv
<1>1. CASE ctx.status = "ok" /\ Mutates(ctx.r)
  <2> DEFINE e == [seq |-> ring.next, req |-> ctx.r, status |-> "internal"]
  <2>1. ctx' = [ctx EXCEPT !.status = "internal", !.event = e]
    BY <1>1 DEF DurableFailed
  <2>2. idem' = IF ctx.pend
                THEN Update(idem, ctx.r.idem, [req |-> ctx.r, status |-> "internal"])
                ELSE idem
    BY <1>1 DEF DurableFailed
  <2>3. CtxType(ctx')
    BY <2>1 DEF CtxType, CtxShape, Statuses
  <2>4. ctx.pend => /\ ctx.r.idem \in IdemKeys
                    /\ [req |-> ctx.r, status |-> "internal"] \in EntryType
    BY DEF CtxInv, CtxType, EntryType, Statuses
  <2> QED
    BY <2>2, <2>3, <2>4, TableFacts DEF TablesType
<1>2. CASE ~(ctx.status = "ok" /\ Mutates(ctx.r))
  BY <1>2 DEF DurableFailed, TablesType
<1> QED
  BY <1>1, <1>2, Zenon

\* Every other step of the process, and a crash.
LEMMA StepTypes ==
    ASSUME TypeInv, DaemonInv, DaemonInv', Step \/ Crash
    PROVE  TypeInv'
<1> USE DEF TypeInv
<1>1. pc' \in Pcs
  BY DEF DaemonInv, Shapes
<1>2. \A t \in PartiallyAppended \cup {Appended} :
         pc \in {"append", "retry_append"} => JournalType(t)
  BY AppendTypes, ZenonT(30) DEF DaemonInv, CtxInv
<1>3. CASE AppendOk
  BY <1>1, <1>2, <1>3, ZenonT(30) DEF AppendOk, memory, TablesType, JournalType
<1>4. CASE AppendFails
  <2>1. JournalType(jrn')
    BY <1>2, <1>4 DEF AppendFails
  <2>2. CtxType(ctx') /\ IsTable(idem', IdemKeys, EntryType)
    BY <1>4, DurableFailedTypes DEF AppendFails, DaemonInv, TablesType
  <2> QED
    BY <1>1, <1>4, <2>1, <2>2 DEF AppendFails, TablesType, JournalType
<1>5. CASE SaveOk
  BY <1>1, <1>5 DEF SaveOk, Snapshot, memory, TablesType
<1>6. CASE SaveFails
  <2>1. CtxType(ctx') /\ IsTable(idem', IdemKeys, EntryType)
    BY <1>6, DurableFailedTypes DEF SaveFails, DaemonInv, TablesType
  <2> QED
    BY <1>1, <1>6, <2>1 DEF SaveFails, disk, TablesType
<1>7. CASE CompactOk \/ CompactFails
  BY <1>1, <1>7, JournalTypes, ZenonT(30)
     DEF CompactOk, CompactFails, memory, disk, TablesType, JournalType
<1>8. CASE Reply
  <2>1. IsTable(acked', IdemKeys, Requests)
    BY <1>8, TableFacts DEF Reply, CtxType, TablesType
  <2> QED
    BY <1>1, <1>8, <2>1, NoCtxType, Zenon DEF Reply, memory, disk, TablesType
<1>9. CASE Load
  <2>1. IsTable(LoadedIdem, IdemKeys, EntryType)
    BY DEF LoadedIdem, TablesType, IsTable
  <2>2. /\ IsTable(records', Keys, RecordType)
        /\ IsTable(idem', IdemKeys, EntryType)
        /\ effects' \in [mem : SUBSET IdemKeys, disk : SUBSET IdemKeys]
    BY <1>9, <2>1 DEF Load, memory, TablesType
  <2> QED
    BY <1>1, <1>9, <2>2 DEF Load, disk, TablesType
<1>10. CASE BootRetention
  <2>1. PICK E, gone : /\ records' = Without(records, E)
                       /\ idem' = Without(idem, gone)
                       /\ acked' = Without(acked, gone)
    BY <1>10 DEF BootRetention
  <2>2. CtxType(ctx')
    <3>1. \E S : ctx' = [NoCtx EXCEPT !.pruned = S] \/ ctx' = NoCtx
      BY <1>10, Zenon DEF BootRetention
    <3> QED
      BY <3>1, NoCtxType DEF CtxType, CtxShape
  <2>3. TablesType'
    BY <1>10, <2>1, TableFacts DEF BootRetention, disk, TablesType
  <2> QED
    BY <1>1, <1>10, <2>2, <2>3 DEF BootRetention, disk
<1>11. CASE BootSave
  BY <1>1, <1>11 DEF BootSave, Snapshot, memory, TablesType
<1>12. CASE BootCompact
  BY <1>1, <1>12, JournalTypes, NoCtxType, Zenon
     DEF BootCompact, memory, TablesType, JournalType
<1>13. CASE BootFails
  BY <1>1, <1>13, EmptyTable, NoCtxType, Zenon DEF BootFails, disk, TablesType
<1>14. CASE Restart
  BY <1>1, <1>14 DEF Restart, memory, disk, TablesType
<1>15. CASE Crash
  <2>1. JournalType(jrn')
    BY <1>2, <1>15 DEF Crash
  <2> QED
    BY <1>1, <1>15, <2>1, EmptyTable, NoCtxType
       DEF Crash, TablesType, JournalType
<1> QED
  BY <1>3, <1>4, <1>5, <1>6, <1>7, <1>8, <1>9, <1>10, <1>11, <1>12, <1>13,
     <1>14, <1>15 DEF Step

-----------------------------------------------------------------------------
(* The theorems.                                                           *)

LEMMA NextInv == TypeInv /\ DaemonInv /\ [Next]_vars => TypeInv' /\ DaemonInv'
<1> SUFFICES ASSUME TypeInv, DaemonInv, [Next]_vars PROVE TypeInv' /\ DaemonInv'
  BY Zenon
<1>1. CASE \E r \in Requests : Receive(r)
  BY <1>1, ReceiveInv, ReceiveTypes DEF TypeInv, TablesType
<1>2. CASE Step \/ Crash
  <2>1. DaemonInv'
    BY <1>2, AppendOkInv, AppendFailsInv, SaveOkInv, SaveFailsInv, CompactInv,
       ReplyInv, LoadInv, BootInv, CrashInv DEF Step
  <2> QED
    BY <1>2, <2>1, StepTypes
<1>3. CASE UNCHANGED vars
  <2>1. DaemonInv'
    BY <1>3, ZenonT(30) DEF vars, DaemonInv, Shapes, CtxInv, SavedInv, JournalInv, AckedInv,
                JournalShape, CtxShape
  <2>2. TypeInv'
    BY <1>3 DEF vars, TypeInv, TablesType
  <2> QED
    BY <2>1, <2>2, Zenon
<1> QED
  BY <1>1, <1>2, <1>3 DEF Next

LEMMA Invariance == Spec => [](TypeInv /\ DaemonInv)
BY InitInv, InitTypes, NextInv, PTL DEF Spec

\* The tables in memory and in both files, the journal's state and the handler's
\* locals keep their types in every execution.
THEOREM TypesCorrect == Spec => [](TablesType /\ ControlType)
<1>1. TypeInv => TablesType /\ ControlType
  BY DEF TypeInv, ControlType, JournalType, CtxType
<1> QED
  BY <1>1, Invariance, PTL

\* "ok" is never said of a mutation the snapshot does not hold, for any number of
\* requests, crashes, torn appends and failing file operations.
THEOREM OkIsDurable == Spec => []OkReplyIsDurable
<1>1. DaemonInv => OkReplyIsDurable
  BY DEF DaemonInv, SavedInv, OkReplyIsDurable
<1> QED
  BY <1>1, Invariance, PTL

\* An acknowledged keyed request stays replayable from memory and from what
\* snapshot and journal load to.
THEOREM AckedStaysReplayable == Spec => []AckedReplayable
<1>1. DaemonInv => AckedReplayable
  BY AckedInvSuffices DEF DaemonInv
<1> QED
  BY <1>1, Invariance, PTL
=============================================================================
