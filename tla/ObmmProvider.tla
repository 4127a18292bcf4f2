---------------------------- MODULE ObmmProvider -----------------------------
(***************************************************************************)
(* The OBMM peer-mapping provider, one endpoint per node                   *)
(* (providers/mem_service_provider_obmm.c, used through the channel of     *)
(* mem_service_provider.c): a node exports regions, maps its own regions   *)
(* locally and imports the regions of its peers into one of its physical   *)
(* address windows; the canary makes the endpoint ready; payloads are      *)
(* published and waited for range by range.                                *)
(*                                                                         *)
(* The kernel's export and import tables, the memory of a region and the   *)
(* caches of the nodes are external.  A region holds one value, which      *)
(* stands for its checksum.  One call of the provider is one step of its   *)
(* node; a wait for visibility is repeated until it succeeds or times out. *)
(***************************************************************************)
EXTENDS Integers, Sequences, FiniteSets, FiniteSetsExt

CONSTANTS
    Nodes,
    MaxMappings,   \* config->max_remote_mappings
    ImportBytes,   \* config->import_region_bytes, the size of an import window
    Sizes,         \* sizes of the regions applications register
    Uncached,      \* mapping slots whose window is uncached (import_osync)
    ForceOsync,    \* config->force_osync
    Required,      \* config->required_peer_mappings
    Faults,        \* system calls that may fail: "mmap", "unimport"
    CanaryAgain,   \* whether a node may prepare a second canary
    RegionBound,   \* regions registered in all
    WriteBound     \* values written in all

MapSlots == 1 .. MaxMappings
Ids == 1 .. RegionBound
NoValue == -1

\* What the constants must satisfy.
ObmmAssumption ==
    /\ MaxMappings \in Nat \ {0} /\ ImportBytes \in Nat \ {0} /\ Sizes \subseteq Nat \ {0}
    /\ Uncached \subseteq MapSlots /\ {ForceOsync, CanaryAgain} \subseteq BOOLEAN /\ Required \in 1 .. MaxMappings
    /\ Faults \subseteq {"mmap", "unimport"} /\ RegionBound \in Nat /\ WriteBound \in Nat

VARIABLES
    created,    \* id -> [owner, size, canary] of every region exported so far (export_mem_id)
    regions,    \* node -> ids in context->regions
    mappings,   \* node -> slot -> context->mappings
    imports,    \* node -> the kernel's imports: [pa, size, id], external
    verified,   \* node -> ids in context->verified_peer_descriptors
    closed,     \* node -> whether the endpoint is closed
    memory,     \* id -> the value in the region's memory, external
    cache,      \* node -> id -> [value, dirty], the node's cached copy, external
    writes,     \* values written so far
    published,  \* history: id -> the value published and not rewritten since
    visible     \* history: [node, slot, id, value] of the last wait that returned 0

vars == <<created, regions, mappings, imports, verified, closed, memory, cache, writes,
          published, visible>>
data == <<memory, cache, writes, published, visible>>

Unmapped == [active |-> FALSE, mapped |-> FALSE, imported |-> FALSE, osync |-> FALSE, id |-> 0]
Clean == [value |-> NoValue, dirty |-> FALSE]

Init ==
    /\ created = <<>>
    /\ regions = [n \in Nodes |-> {}]
    /\ mappings = [n \in Nodes |-> [s \in MapSlots |-> Unmapped]]
    /\ imports = [n \in Nodes |-> {}]
    /\ verified = [n \in Nodes |-> {}]
    /\ closed = [n \in Nodes |-> FALSE]
    /\ memory = [i \in Ids |-> 0]
    /\ cache = [n \in Nodes |-> [i \in Ids |-> Clean]]
    /\ writes = 0
    /\ published = [i \in Ids |-> NoValue]
    /\ visible = <<>>

-----------------------------------------------------------------------------
(* Readiness, regions and mappings.                                        *)

\* mem_service_obmm_provider_probe.
Ready(n) == ~closed[n] /\ Cardinality(verified[n]) >= Required

\* mem_service_obmm_provider_register_region, through the channel.
Register(n, size) ==
    LET id == Len(created) + 1
    IN  /\ Ready(n) /\ Len(created) < RegionBound
        /\ created' = Append(created, [owner |-> n, size |-> size, canary |-> FALSE])
        /\ regions' = [regions EXCEPT ![n] = @ \cup {id}]
        /\ UNCHANGED <<mappings, imports, verified, closed, data>>

\* mem_service_obmm_provider_deregister_region: refused while this endpoint maps
\* the region.
Deregister(n, id) ==
    /\ ~closed[n] /\ id \in regions[n]
    /\ \A s \in MapSlots : mappings[n][s].active => mappings[n][s].id # id
    /\ regions' = [regions EXCEPT ![n] = @ \ {id}]
    /\ UNCHANGED <<created, mappings, imports, verified, closed, data>>

FreeSlots(n) == {s \in MapSlots : ~mappings[n][s].active}
IsLocal(n, id) == id \in regions[n]
Window(n, s, id) == [pa |-> s * ImportBytes, size |-> created[id].size, id |-> id]

\* The window of the slot: import_pas[slot_index], with the size of the region.
ImportWindow(n, s, id) == Window(n, s, id)

\* mem_service_obmm_provider_map_remote_region in slot s.
MapInto(n, s, id) ==
    /\ mappings' = [mappings EXCEPT ![n][s] =
           [active |-> TRUE, mapped |-> TRUE, imported |-> ~IsLocal(n, id),
            osync |-> ForceOsync \/ (~IsLocal(n, id) /\ s \in Uncached), id |-> id]]
    /\ imports' = [imports EXCEPT ![n] =
           IF IsLocal(n, id) THEN @ ELSE @ \cup {ImportWindow(n, s, id)}]

\* A region of any node whose descriptor has been made, mapped through the
\* channel; descriptors outlive their regions, an import of one that is gone
\* is refused by the kernel.
Map(n, id) ==
    /\ Ready(n) /\ id \in 1 .. Len(created) /\ FreeSlots(n) # {}
    /\ id \in regions[created[id].owner]
    /\ MapInto(n, Min(FreeSlots(n)), id)
    /\ UNCHANGED <<created, regions, verified, closed, data>>

\* Mutant: an import whose region cannot be mapped is kept.
MapFailsImported(n, id) ==
    LET s == Min(FreeSlots(n))
    IN  /\ "mmap" \in Faults /\ Ready(n) /\ id \in 1 .. Len(created) /\ FreeSlots(n) # {}
        /\ id \in regions[created[id].owner] /\ ~IsLocal(n, id)
        /\ imports' = [imports EXCEPT ![n] = @ \cup {ImportWindow(n, s, id)}]
        /\ UNCHANGED <<created, regions, mappings, verified, closed, data>>

\* The region is imported and cannot be mapped: the import is undone, unless
\* that fails as well.
MapFails(n, id) ==
    LET s == Min(FreeSlots(n))
    IN  /\ "mmap" \in Faults /\ Ready(n) /\ id \in 1 .. Len(created) /\ FreeSlots(n) # {}
        /\ id \in regions[created[id].owner] /\ ~IsLocal(n, id)
        /\ \/ UNCHANGED imports
           \/ "unimport" \in Faults /\ imports' = [imports EXCEPT ![n] = @ \cup {ImportWindow(n, s, id)}]
        /\ UNCHANGED <<created, regions, mappings, verified, closed, data>>

Unimported(n, s) == imports[n] \ {ImportWindow(n, s, mappings[n][s].id)}

\* mem_service_obmm_provider_unmap_remote_region.
Unmap(n, s) ==
    /\ ~closed[n] /\ mappings[n][s].active
    /\ mappings' = [mappings EXCEPT ![n][s] = Unmapped]
    /\ imports' = [imports EXCEPT ![n] = IF mappings[n][s].imported THEN Unimported(n, s) ELSE @]
    /\ UNCHANGED <<created, regions, verified, closed, data>>

\* The kernel refuses to unimport: the slot stays in use, its memory unmapped.
UnmapFails(n, s) ==
    /\ "unimport" \in Faults /\ ~closed[n] /\ mappings[n][s].active /\ mappings[n][s].imported
    /\ mappings' = [mappings EXCEPT ![n][s].mapped = FALSE]
    /\ UNCHANGED <<created, regions, imports, verified, closed, data>>

-----------------------------------------------------------------------------
(* Writing, publishing and waiting.                                        *)

\* What node n reads in region id, through a cached or an uncached mapping.
Read(n, s) ==
    LET id == mappings[n][s].id
    IN  IF mappings[n][s].osync \/ cache[n][id].value = NoValue THEN memory[id] ELSE cache[n][id].value

Usable(n, s) == Ready(n) /\ mappings[n][s].active /\ mappings[n][s].mapped

\* The application of the exporting node writes the region through its mapping.
Write(n, s) ==
    LET id == mappings[n][s].id
    IN  /\ Usable(n, s) /\ IsLocal(n, id) /\ writes < WriteBound
        /\ writes' = writes + 1
        /\ published' = [published EXCEPT ![id] = NoValue]
        /\ IF mappings[n][s].osync
           THEN memory' = [memory EXCEPT ![id] = writes + 1] /\ UNCHANGED cache
           ELSE cache' = [cache EXCEPT ![n][id] = [value |-> writes + 1, dirty |-> TRUE]] /\ UNCHANGED memory
        /\ UNCHANGED <<created, regions, mappings, imports, verified, closed, visible>>

WriteBack(n, id) == [memory EXCEPT ![id] = IF cache[n][id].dirty THEN cache[n][id].value ELSE @]

\* External: a cached copy is written back and dropped at any time, or fetched.
Evict(n, id) ==
    /\ cache[n][id] # Clean
    /\ memory' = WriteBack(n, id)
    /\ cache' = [cache EXCEPT ![n][id] = Clean]
    /\ UNCHANGED <<created, regions, mappings, imports, verified, closed, writes, published, visible>>
Fetch(n, s) ==
    LET id == mappings[n][s].id
    IN  /\ Usable(n, s) /\ ~mappings[n][s].osync /\ cache[n][id] = Clean
        /\ cache' = [cache EXCEPT ![n][id] = [value |-> memory[id], dirty |-> FALSE]]
        /\ UNCHANGED <<created, regions, mappings, imports, verified, closed, memory, writes,
                       published, visible>>

\* Mutant: the range is not written back.
PublishUnflushed(n, s) ==
    LET id == mappings[n][s].id
    IN  /\ Usable(n, s) /\ IsLocal(n, id)
        /\ published' = [published EXCEPT ![id] = Read(n, s)]
        /\ UNCHANGED <<created, regions, mappings, imports, verified, closed, memory, cache, writes, visible>>

\* mem_service_obmm_provider_publish_range of what the application reads in the
\* range: a cached mapping is written back and invalidated, an uncached one
\* needs nothing.
Publish(n, s) ==
    LET id == mappings[n][s].id
    IN  /\ Usable(n, s) /\ IsLocal(n, id)
        /\ published' = [published EXCEPT ![id] = Read(n, s)]
        /\ IF mappings[n][s].osync THEN UNCHANGED <<memory, cache>>
           ELSE memory' = WriteBack(n, id) /\ cache' = [cache EXCEPT ![n][id] = Clean]
        /\ UNCHANGED <<created, regions, mappings, imports, verified, closed, writes, visible>>

Waits(n, s) ==
    Usable(n, s) /\ mappings[n][s].imported /\ published[mappings[n][s].id] # NoValue

\* mem_service_obmm_provider_invalidate_range, once or from
\* mem_service_obmm_provider_wait_range_visible: a cached copy is dropped, and
\* the call returns 0 when the range holds the value announced by its writer.
WaitVisible(n, s) ==
    LET id == mappings[n][s].id
    IN  /\ Waits(n, s)
        /\ memory[id] = published[id]
        /\ cache' = IF mappings[n][s].osync THEN cache ELSE [cache EXCEPT ![n][id] = Clean]
        /\ visible' = <<n, s, id, published[id]>>
        /\ UNCHANGED <<created, regions, mappings, imports, verified, closed, memory, writes, published>>

-----------------------------------------------------------------------------
(* The canary and the end.                                                 *)

\* mem_service_provider_obmm_endpoint_prepare_canary_region: a region is
\* registered, filled and published through a local mapping that is taken away
\* again.  Its content is a value no application writes.
PrepareCanary(n, size) ==
    LET id == Len(created) + 1
    IN  /\ ~closed[n] /\ regions[n] = {} /\ Len(created) < RegionBound /\ FreeSlots(n) # {}
        /\ CanaryAgain \/ \A i \in 1 .. Len(created) : created[i].owner # n
        /\ created' = Append(created, [owner |-> n, size |-> size, canary |-> TRUE])
        /\ regions' = [regions EXCEPT ![n] = @ \cup {id}]
        /\ memory' = [memory EXCEPT ![id] = WriteBound + id]
        /\ published' = [published EXCEPT ![id] = WriteBound + id]
        /\ UNCHANGED <<mappings, imports, verified, closed, cache, writes, visible>>

\* mem_service_obmm_provider_invalidate_range refuses a mapping that is local.
MayVerify(n, id) == ~IsLocal(n, id)

\* mem_service_provider_obmm_endpoint_verify_mapping of a region that a peer has
\* announced: it is mapped, waited for and unmapped, and its descriptor
\* remembered.
Verify(n, id) ==
    /\ ~closed[n] /\ id \in 1 .. Len(created) /\ FreeSlots(n) # {}
    /\ created[id].canary /\ id \in regions[created[id].owner] /\ MayVerify(n, id)
    /\ published[id] # NoValue /\ memory[id] = published[id]
    /\ verified' = [verified EXCEPT ![n] = @ \cup {id}]
    /\ UNCHANGED <<created, regions, mappings, imports, closed, data>>

\* The mapping cannot be taken away again: nothing is verified.
VerifyFails(n, id) ==
    LET s == Min(FreeSlots(n))
    IN  /\ "unimport" \in Faults
        /\ ~closed[n] /\ id \in 1 .. Len(created) /\ FreeSlots(n) # {}
        /\ created[id].canary /\ id \in regions[created[id].owner] /\ MayVerify(n, id)
        /\ mappings' = [mappings EXCEPT ![n][s] =
               [active |-> TRUE, mapped |-> FALSE, imported |-> TRUE,
                osync |-> ForceOsync \/ s \in Uncached, id |-> id]]
        /\ imports' = [imports EXCEPT ![n] = @ \cup {ImportWindow(n, s, id)}]
        /\ UNCHANGED <<created, regions, verified, closed, data>>

\* mem_service_provider_obmm_endpoint_close: every mapping and region is taken
\* away; an import the kernel keeps is lost.
Close(n) ==
    LET used == {s \in MapSlots : mappings[n][s].active /\ mappings[n][s].imported}
    IN  /\ ~closed[n]
        /\ closed' = [closed EXCEPT ![n] = TRUE]
        /\ \E kept \in SUBSET used :
               /\ kept # {} => "unimport" \in Faults
               /\ imports' = [imports EXCEPT ![n] = @ \ {ImportWindow(n, s, mappings[n][s].id) : s \in used \ kept}]
        /\ mappings' = [mappings EXCEPT ![n] = [s \in MapSlots |-> Unmapped]]
        /\ regions' = [regions EXCEPT ![n] = {}]
        /\ UNCHANGED <<created, verified, data>>

Step(n) ==
    \/ \E size \in Sizes : PrepareCanary(n, size) \/ Register(n, size)
    \/ \E id \in Ids : Verify(n, id) \/ VerifyFails(n, id) \/ Deregister(n, id) \/ Map(n, id)
                       \/ MapFails(n, id) \/ Evict(n, id)
    \/ \E s \in MapSlots : Unmap(n, s) \/ UnmapFails(n, s) \/ Write(n, s) \/ Fetch(n, s)
                           \/ Publish(n, s) \/ WaitVisible(n, s)
    \/ Close(n)

Next == \E n \in Nodes : Step(n)

Spec == Init /\ [][Next]_vars

-----------------------------------------------------------------------------
(* Properties.                                                             *)

\* The type invariant.
TypeOK ==
    /\ created \in Seq([owner : Nodes, size : Nat, canary : BOOLEAN])
    /\ regions \in [Nodes -> SUBSET Ids] /\ verified \in [Nodes -> SUBSET Ids]
    /\ \A n \in Nodes, s \in MapSlots :
           /\ mappings[n][s].id \in 0 .. Len(created)
           /\ mappings[n][s].mapped \/ mappings[n][s].imported => mappings[n][s].active
    /\ \A n \in Nodes, i \in Ids : i \in regions[n] => i <= Len(created) /\ created[i].owner = n
    /\ writes \in 0 .. WriteBound

Overlap(v, w) == v.pa < w.pa + w.size /\ w.pa < v.pa + v.size

\* Two imports of a node never share physical addresses
\* (mem_service_obmm_provider_map_remote_region): a store through one mapping
\* does not reach the region behind another.
WindowsDisjoint ==
    \A n \in Nodes : \A v, w \in imports[n] : v # w => ~Overlap(v, w)

\* Every import of the kernel belongs to exactly one slot in use, also after a
\* mapping or an unmapping has failed: no window is lost and none is reused
\* while the kernel still translates it.
ImportsAccounted ==
    \A n \in Nodes : ~closed[n] =>
        imports[n] = {ImportWindow(n, s, mappings[n][s].id) :
                          s \in {t \in MapSlots : mappings[n][t].active /\ mappings[n][t].imported}}

\* The memory behind a local mapping stays exported for as long as it is mapped
\* (mem_service_obmm_provider_deregister_region).
LocalMappingsLive ==
    \A n \in Nodes, s \in MapSlots :
        mappings[n][s].active /\ ~mappings[n][s].imported => mappings[n][s].id \in regions[n]

\* A published value is in the memory that peers map, whatever the caches do,
\* until its writer writes again (mem_service_obmm_provider_publish_range).
PublishedIsInMemory ==
    \A i \in Ids : published[i] # NoValue => memory[i] = published[i]

\* A node that has a region of a peer mapped, and waits for a value that is
\* published, has seen it.  It comes to this again and again: a stale cached
\* copy does not hide the value for ever
\* (mem_service_obmm_provider_wait_range_visible).
Arrived(n, s) ==
    LET id == mappings[n][s].id IN Waits(n, s) => visible = <<n, s, id, published[id]>>

\* An endpoint is ready only after as many peers as configured have shown it a
\* region (mem_service_provider_obmm_endpoint_verify_mapping): its own region
\* does not count.
ReadyHasPeers ==
    \A n \in Nodes : Ready(n) =>
        Cardinality({created[i].owner : i \in verified[n]} \ {n}) >= Required
==============================================================================
