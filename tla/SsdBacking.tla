----------------------------- MODULE SsdBacking -----------------------------
(***************************************************************************)
(* Objects of the model flows that are kept on a UB SSD as well            *)
(* (mem_service_model_range_publish_flow.c, ..._range_wait_flow.c,         *)
(* ..._range_kv_state_flow.c, mem_service_ub_ssd_gsva_io.c,                *)
(* mem_service_ub_ssd_gsva_backend.c, mem_service_gsva_access.h).          *)
(*                                                                         *)
(* A publisher copies its payload into the arena of its region, puts the   *)
(* record, has the SSD write the payload to a block and publishes its      *)
(* table.  Whoever resolves a record with a block has the SSD read it into *)
(* a buffer of its own arena; without one the published bytes themselves   *)
(* are the view.  The SSD is told a global address (GSVA), which it alone  *)
(* follows.  The device is external: it executes the commands of a node in *)
(* order, at any time after they were submitted, also after the caller has *)
(* given up waiting, and a completion nobody waited for may be handed to   *)
(* the next caller.                                                        *)
(*                                                                         *)
(* Payloads are measured in units; a value stands for the bytes of a whole *)
(* payload and for their checksum, 0 for bytes that are no such payload.   *)
(* Tables are read as a whole (see ClusterPayload).                        *)
(***************************************************************************)
EXTENDS Integers, Sequences

CONSTANTS
    NodeCount,      \* rt->node_count
    Keys,           \* keys of the objects of a node
    KvKeys,         \* those of KV states, which only their own node resolves
    Bundles,        \* sequences of one or two keys that one call publishes
    UnitsOf,        \* key -> object_backing_len, in units
    MaxValue,       \* payloads are 1 .. MaxValue (bound)
    Cna,            \* node -> local_cna
    HomeVa,         \* node -> metas[].remote_uba, 0 when its region has no address
    PayloadOffset,  \* rt->payload_offset
    RegionUnits,    \* metas[].size
    ArenaBase,      \* payload_arena_base
    MaxAddress,     \* UINT64_MAX
    HasDevice,      \* the nodes that have /dev/ub_ssd0
    Republishes,    \* whether a key may be published again
    MayFail,        \* whether device and synchronisation may fail
    MaxCalls        \* calls of all nodes (bound)

Nodes == 0 .. NodeCount - 1
Values == 1 .. MaxValue
PayloadUnits == RegionUnits - PayloadOffset
Cells == 0 .. PayloadUnits - 1
Placed == {n \in Nodes : HomeVa[n] /= 0}

\* What the constants must satisfy: regions lie apart, within the address space.
SsdConstants ==
    /\ NodeCount \in Nat \ {0} /\ MaxValue \in Nat \ {0} /\ UnitsOf \in [Keys -> Nat \ {0}]
    /\ KvKeys \subseteq Keys /\ Bundles \subseteq Seq(Keys)
    /\ \A ks \in Bundles : Len(ks) \in {1, 2} /\ \A i, j \in DOMAIN ks : ks[i] = ks[j] => i = j
    /\ Cna \in [Nodes -> Nat] /\ HomeVa \in [Nodes -> Nat]
    /\ PayloadOffset \in Nat /\ RegionUnits \in Nat /\ PayloadOffset < RegionUnits
    /\ ArenaBase \in Cells /\ MaxAddress \in Nat /\ MaxCalls \in Nat
    /\ HasDevice \subseteq Nodes /\ Republishes \in BOOLEAN /\ MayFail \in BOOLEAN
    /\ \A n \in Placed : HomeVa[n] + RegionUnits - 1 <= MaxAddress
    /\ \A n, m \in Placed : n /= m =>
         HomeVa[n] + RegionUnits <= HomeVa[m] \/ HomeVa[m] + RegionUnits <= HomeVa[n]

ASSUME SsdAssumption == SsdConstants

VARIABLES
    mem,        \* node -> the units of its payload region
    arena,      \* node -> payload_arena_next
    table,      \* node -> key -> record
    published,  \* node -> its table, as its peers see it
    ssd,        \* device -> block -> what is stored
    cmds,       \* node -> commands its device has not executed
    cpls,       \* node -> completions nobody has waited for
    call,       \* node -> the call in progress
    calls,      \* the number of calls begun
    failed,     \* history: whether a call has returned -1
    views       \* history: what has been handed out

vars == <<mem, arena, table, published, ssd, cmds, cpls, call, calls, failed, views>>

NoBack == [dev |-> 0, block |-> <<>>, bytes |-> 0, sum |-> 0]
NoRecord == [val |-> 0, off |-> 0, len |-> 0, back |-> NoBack]
NoBlock == [val |-> 0, bytes |-> 0]
Idle == [pc |-> "idle", keys |-> <<>>, rec |-> NoRecord, off |-> 0]

\* mem_service_ub_ssd_gsva_device_cna_from_primary: 0x10000000, bits 4 to 15 of
\* the node's address above bit 16, 0x2000.
DeviceCna(cna) == IF cna = 0 THEN 0 ELSE 268435456 + ((cna \div 16) % 4096) * 65536 + 8192

DeviceOf(n) == DeviceCna(Cna[n])
Devices == {DeviceOf(n) : n \in Nodes}
Blocks == Nodes \X Keys

Init ==
    /\ mem = [n \in Nodes |-> [c \in Cells |-> 0]]
    /\ arena = [n \in Nodes |-> ArenaBase]
    /\ table = [n \in Nodes |-> [k \in Keys |-> NoRecord]]
    /\ published = table
    /\ ssd = [d \in Devices |-> [b \in Blocks |-> NoBlock]]
    /\ cmds = [n \in Nodes |-> <<>>]
    /\ cpls = [n \in Nodes |-> <<>>]
    /\ call = [n \in Nodes |-> Idle]
    /\ calls = 0
    /\ failed = FALSE
    /\ views = {}

-----------------------------------------------------------------------------
(* Memory and its global addresses.                                        *)

Span(off, len) == off .. off + len - 1

\* The payload in some units: 0 unless they hold one payload.
Content(n, off, len) ==
    IF \E v \in Values : \A c \in Span(off, len) : mem[n][c] = v THEN mem[n][off] ELSE 0

Filled(m, n, off, len, v) ==
    [m EXCEPT ![n] = [c \in Cells |-> IF c \in Span(off, len) THEN v ELSE @[c]]]

\* mem_service_payload_arena_alloc: the arena only grows.
HasRoom(n, len) == arena[n] + len <= PayloadUnits

Alloc(n, len) == arena' = [arena EXCEPT ![n] = @ + len]

\* mem_service_make_gsva_buffer_desc_from_source: the address of a range of a
\* node's own region, if it has one.
Addressable(n, off, len) ==
    /\ HomeVa[n] /= 0 /\ PayloadOffset < RegionUnits
    /\ off <= PayloadUnits /\ len <= PayloadUnits - off
    /\ HomeVa[n] <= MaxAddress - PayloadOffset
    /\ HomeVa[n] + PayloadOffset <= MaxAddress - off

GsvaBase(n, off) == HomeVa[n] + PayloadOffset + off

\* Where the device finds the units of an address range.
Owner(base) == CHOOSE n \in Placed : base \in Span(HomeVa[n], RegionUnits)
Offset(base) == base - HomeVa[Owner(base)] - PayloadOffset

-----------------------------------------------------------------------------
(* Calls.                                                                  *)

Begin(n) == call[n].pc = "idle" /\ calls < MaxCalls /\ calls' = calls + 1

Return(n) == call' = [call EXCEPT ![n] = Idle] /\ UNCHANGED failed
ReturnError(n) == call' = [call EXCEPT ![n] = Idle] /\ failed' = TRUE

\* The places of the objects of one call, one after the other.
Place(n, ks, i) == arena[n] + IF i = 1 THEN 0 ELSE UnitsOf[ks[1]]
BundleUnits(ks) == UnitsOf[ks[1]] + IF Len(ks) = 1 THEN 0 ELSE UnitsOf[ks[2]]
IndexOf(ks, k) == CHOOSE i \in DOMAIN ks : ks[i] = k

\* The payloads vs are copied to their places.
Copied(n, ks, vs) ==
    [mem EXCEPT ![n] = [c \in Cells |->
        IF \E i \in DOMAIN ks : c \in Span(Place(n, ks, i), UnitsOf[ks[i]])
        THEN vs[CHOOSE i \in DOMAIN ks : c \in Span(Place(n, ks, i), UnitsOf[ks[i]])] ELSE @[c]]]

\* mem_service_put_obmm_object_record: the old record is cleared as a whole.
FreshRecord(n, ks, vs, i) ==
    [val |-> vs[i], off |-> Place(n, ks, i), len |-> UnitsOf[ks[i]], back |-> NoBack]

\* Allocate, copy, flush, put the records.
Publish(n, ks, vs) ==
    /\ Begin(n) /\ HasRoom(n, BundleUnits(ks))
    /\ Republishes \/ \A i \in DOMAIN ks : table[n][ks[i]] = NoRecord
    /\ mem' = Copied(n, ks, vs)
    /\ Alloc(n, BundleUnits(ks))
    /\ \/ /\ table' = [table EXCEPT ![n] = [k \in Keys |->
                IF \E i \in DOMAIN ks : ks[i] = k THEN FreshRecord(n, ks, vs, IndexOf(ks, k)) ELSE @[k]]]
          /\ call' = [call EXCEPT ![n] = [Idle EXCEPT !.pc = "attach", !.keys = ks]]
          /\ UNCHANGED failed
       \/ MayFail /\ ReturnError(n) /\ UNCHANGED table
    /\ UNCHANGED <<published, ssd, cmds, cpls, views>>

\* For lack of room; what was allocated for the first object is lost.
PublishNoRoom(n, ks) ==
    /\ Begin(n) /\ ~HasRoom(n, BundleUnits(ks))
    /\ IF HasRoom(n, UnitsOf[ks[1]]) THEN Alloc(n, UnitsOf[ks[1]]) ELSE UNCHANGED arena
    /\ ReturnError(n)
    /\ UNCHANGED <<mem, table, published, ssd, cmds, cpls, views>>

\* mem_service_ub_ssd_gsva_submit up to the wait: one more command.
Submit(n, op, dev, block, off, len) ==
    /\ n \in HasDevice
    /\ cmds' = [cmds EXCEPT ![n] = Append(@, [op |-> op, dev |-> dev, block |-> block, heard |-> TRUE,
                                              base |-> GsvaBase(n, off), bytes |-> len])]

\* The object whose turn it is, and the next one's.
Current(n) == Head(call[n].keys)
NextObject(n) ==
    LET rest == Tail(call[n].keys)
    IN  call' = [call EXCEPT ![n].keys = rest, ![n].pc = IF rest = <<>> THEN "announce" ELSE "attach"]

\* Without an address or a device the object stays without a block.
NotAttached(n) ==
    LET r == table[n][Current(n)]
    IN  /\ call[n].pc = "attach"
        /\ ~Addressable(n, r.off, r.len) \/ n \notin HasDevice \/ MayFail
        /\ NextObject(n)
        /\ UNCHANGED <<mem, arena, table, published, ssd, cmds, cpls, calls, failed, views>>

SubmitWrite(n) ==
    LET r == table[n][Current(n)]
    IN  /\ call[n].pc = "attach" /\ Addressable(n, r.off, r.len)
        /\ Submit(n, "write", DeviceOf(n), <<n, Current(n)>>, r.off, r.len)
        /\ call' = [call EXCEPT ![n].pc = "writing"]
        /\ UNCHANGED <<mem, arena, table, published, ssd, cpls, calls, failed, views>>

\* The write has completed: the record gets the block of the completion.
WaitWrite(n) ==
    LET c == Head(cpls[n])
    IN  /\ call[n].pc = "writing" /\ cpls[n] /= <<>>
        /\ cpls' = [cpls EXCEPT ![n] = Tail(@)]
        /\ IF c.ok /\ c.bytes /= 0
           THEN /\ table' = [table EXCEPT ![n][Current(n)].back =
                                [dev |-> DeviceOf(n), block |-> c.block, bytes |-> c.bytes, sum |-> c.sum]]
                /\ NextObject(n) /\ UNCHANGED failed
           ELSE ReturnError(n) /\ UNCHANGED table
        /\ UNCHANGED <<mem, arena, published, ssd, cmds, calls, views>>

\* mem_service_write_cluster_payload, which may fail.
Announce(n) ==
    /\ call[n].pc = "announce"
    /\ \/ published' = [published EXCEPT ![n] = table[n]] /\ Return(n)
       \/ MayFail /\ ReturnError(n) /\ UNCHANGED published
    /\ UNCHANGED <<mem, arena, table, ssd, cmds, cpls, calls, views>>

\* The record of a node's own object (a KV state), or of a peer's.
RecordOf(n, o, k) == IF o = n THEN table[n][k] ELSE published[o][k]

View(o, off, r) == [node |-> o, off |-> off, len |-> r.len, val |-> r.val]

\* Without a block the view is the published payload itself, once refreshed.
ResolveMapped(n, o, k) ==
    LET r == RecordOf(n, o, k)
    IN  /\ Begin(n) /\ r /= NoRecord /\ r.back = NoBack
        /\ \/ views' = views \cup {View(o, r.off, r)} /\ UNCHANGED <<call, failed>>
           \/ MayFail /\ ReturnError(n) /\ UNCHANGED views
        /\ UNCHANGED <<mem, arena, table, published, ssd, cmds, cpls>>

\* With one the device is to read it into a buffer of the node's own.
ResolveBacked(n, o, k) ==
    LET r == RecordOf(n, o, k)
    IN  /\ Begin(n) /\ r.back /= NoBack
        /\ r.back.bytes = r.len /\ HasRoom(n, r.len) /\ Addressable(n, arena[n], r.len)
        /\ Submit(n, "read", r.back.dev, r.back.block, arena[n], r.len)
        /\ call' = [call EXCEPT ![n] = [Idle EXCEPT !.pc = "reading", !.rec = r, !.off = arena[n]]]
        /\ Alloc(n, r.len)
        /\ UNCHANGED <<mem, table, published, ssd, cpls, failed, views>>

\* No such block, no room, or room that is lost for want of an address or a
\* device.
ResolveFails(n, o, k) ==
    LET r == RecordOf(n, o, k)
    IN  /\ Begin(n) /\ r.back /= NoBack
        /\ IF r.back.bytes /= r.len \/ ~HasRoom(n, r.len) THEN UNCHANGED arena
           ELSE /\ ~Addressable(n, arena[n], r.len) \/ n \notin HasDevice \/ MayFail
                /\ Alloc(n, r.len)
        /\ ReturnError(n)
        /\ UNCHANGED <<mem, table, published, ssd, cmds, cpls, views>>

\* Mutant: the checksum the device reports is believed.
ReadBelieved(n, c) == c.ok /\ c.bytes = call[n].rec.len /\ c.sum = call[n].rec.back.sum

\* What a completed read must satisfy.
ReadGood(n, c) ==
    LET r == call[n].rec
    IN  /\ c.ok /\ c.bytes = r.len /\ c.sum = r.back.sum
        /\ Content(n, call[n].off, r.len) = r.val

WaitRead(n) ==
    /\ call[n].pc = "reading" /\ cpls[n] /= <<>>
    /\ cpls' = [cpls EXCEPT ![n] = Tail(@)]
    /\ \/ /\ ReadGood(n, Head(cpls[n]))
          /\ views' = views \cup {View(n, call[n].off, call[n].rec)} /\ Return(n)
       \/ /\ MayFail \/ ~ReadGood(n, Head(cpls[n]))
          /\ ReturnError(n) /\ UNCHANGED views
    /\ UNCHANGED <<mem, arena, table, published, ssd, cmds, calls>>

\* A caller that stops waiting does not take its command back; closing the
\* device may or may not drop the completion.
Abandon(n) ==
    \/ UNCHANGED <<cmds, cpls>>
    \/ /\ cpls' = [cpls EXCEPT ![n] = <<>>]
       /\ cmds' = [cmds EXCEPT ![n] = [i \in DOMAIN @ |-> [@[i] EXCEPT !.heard = FALSE]]]

\* An ioctl fails: the call does.
IoctlFails(n) ==
    /\ MayFail /\ call[n].pc \in {"attach", "writing", "reading"}
    /\ LET r == table[n][Current(n)]
       IN  call[n].pc = "attach" => Addressable(n, r.off, r.len)
    /\ ReturnError(n) /\ Abandon(n)
    /\ UNCHANGED <<mem, arena, table, published, ssd, calls, views>>

\* It fails for want of the device: a publication goes on without the block.
DeviceGone(n) ==
    /\ MayFail /\ call[n].pc = "writing"
    /\ NextObject(n) /\ Abandon(n)
    /\ UNCHANGED <<mem, arena, table, published, ssd, calls, failed, views>>

-----------------------------------------------------------------------------
(* The device.                                                             *)

Completes(n, ok, b) ==
    LET cmd == Head(cmds[n])
    IN  /\ cmds' = [cmds EXCEPT ![n] = Tail(@)]
        /\ cpls' = IF cmd.heard
                   THEN [cpls EXCEPT ![n] = Append(@, [ok |-> ok, block |-> cmd.block,
                                                       bytes |-> b.bytes, sum |-> b.val])]
                   ELSE cpls

DeviceWrites(n) ==
    LET cmd == Head(cmds[n])
        b == [val |-> Content(Owner(cmd.base), Offset(cmd.base), cmd.bytes), bytes |-> cmd.bytes]
    IN  /\ cmds[n] /= <<>> /\ cmd.op = "write"
        /\ ssd' = [ssd EXCEPT ![cmd.dev][cmd.block] = b]
        /\ Completes(n, TRUE, b)
        /\ UNCHANGED <<mem, arena, table, published, call, calls, failed, views>>

\* What it reads may be damaged on the way.
DeviceReads(n) ==
    LET cmd == Head(cmds[n])
        b == ssd[cmd.dev][cmd.block]
    IN  /\ cmds[n] /= <<>> /\ cmd.op = "read" /\ b.bytes = cmd.bytes
        /\ \E v \in {b.val} \cup (IF MayFail THEN {0} ELSE {}) :
             mem' = Filled(mem, Owner(cmd.base), Offset(cmd.base), cmd.bytes, v)
        /\ Completes(n, TRUE, b)
        /\ UNCHANGED <<arena, table, published, ssd, call, calls, failed, views>>

\* A block that is not there, or any other reason.
DeviceRefuses(n) ==
    LET cmd == Head(cmds[n])
    IN  /\ cmds[n] /= <<>>
        /\ MayFail \/ (cmd.op = "read" /\ ssd[cmd.dev][cmd.block].bytes /= cmd.bytes)
        /\ Completes(n, FALSE, NoBlock)
        /\ UNCHANGED <<mem, arena, table, published, ssd, call, calls, failed, views>>

-----------------------------------------------------------------------------

Publishes(n) ==
    \/ \E ks \in Bundles : PublishNoRoom(n, ks) \/ \E vs \in [DOMAIN ks -> Values] : Publish(n, ks, vs)
    \/ NotAttached(n) \/ SubmitWrite(n) \/ WaitWrite(n) \/ Announce(n)

Resolves(n) ==
    \/ \E o \in Nodes : \E k \in IF o = n THEN KvKeys ELSE Keys \ KvKeys :
         ResolveMapped(n, o, k) \/ ResolveBacked(n, o, k) \/ ResolveFails(n, o, k)
    \/ WaitRead(n)

Device(n) == DeviceWrites(n) \/ DeviceReads(n) \/ DeviceRefuses(n)

Next == \E n \in Nodes : Publishes(n) \/ Resolves(n) \/ IoctlFails(n) \/ DeviceGone(n) \/ Device(n)

Spec == Init /\ [][Next]_vars

-----------------------------------------------------------------------------

Bytes == 0 .. MaxValue
Block == [val : Bytes, bytes : Nat]
Back == {NoBack} \cup [dev : Devices, block : Blocks, bytes : Nat, sum : Bytes]
Rec == [val : Bytes, off : Nat, len : Nat, back : Back]
Command == [op : {"write", "read"}, dev : Devices, block : Blocks, heard : BOOLEAN,
            base : Nat, bytes : Nat \ {0}]
Completion == [ok : BOOLEAN, block : Blocks, bytes : Nat, sum : Bytes]
Call == [pc : {"idle", "attach", "writing", "announce", "reading"},
         keys : Seq(Keys), rec : Rec, off : Nat]

\* Every variable has its type.
TypeOK ==
    /\ mem \in [Nodes -> [Cells -> Bytes]]
    /\ arena \in [Nodes -> ArenaBase .. PayloadUnits]
    /\ table \in [Nodes -> [Keys -> Rec]] /\ published \in [Nodes -> [Keys -> Rec]]
    /\ ssd \in [Devices -> [Blocks -> Block]]
    /\ cmds \in [Nodes -> Seq(Command)] /\ cpls \in [Nodes -> Seq(Completion)]
    /\ call \in [Nodes -> Call]
    /\ \A n \in Nodes : call[n].pc \in {"attach", "writing"} => call[n].keys /= <<>>
    /\ calls \in 0 .. MaxCalls /\ failed \in BOOLEAN
    /\ views \subseteq [node : Nodes, off : Nat, len : Nat, val : Bytes]

\* What was handed out as the payload of a record holds it, then and for as long
\* as it may be looked at: no late read of the device, no later call and no block
\* of another publication gets into it.
ViewsIntact ==
    \A w \in views : \A c \in Span(w.off, w.len) : mem[w.node][c] = w.val

\* With an address and a device on every node, every key published once and no
\* failure of a device, no call fails: what was announced can be resolved.
NoCallFails == ~failed
=============================================================================
