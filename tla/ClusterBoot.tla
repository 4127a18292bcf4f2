----------------------------- MODULE ClusterBoot -----------------------------
(***************************************************************************)
(* How a cluster node comes up (mem_service_cluster_runtime.c): it exports *)
(* its pool, writes the layout, makes it visible, publishes a bootstrap    *)
(* record, waits for the records of its peers, imports their pools, and    *)
(* passes the start barrier of the pipeline.  Node 0 is the coordinator.   *)
(*                                                                         *)
(* A node may crash and start again with a new incarnation; the pool of    *)
(* the old one stays where it was for those that have it imported.  The    *)
(* kernel's bootstrap table and the write-back of caches are external.     *)
(***************************************************************************)
EXTENDS Integers, FiniteSets

CONSTANTS
    N,              \* node_count
    Incarnations,   \* how often a node can start
    Bumped,         \* whether every start has a new bootstrap generation;
                    \* otherwise SIM_MEM_SERVICE_BOOTSTRAP_GENERATION is not set
    Faults          \* "crash", "timeout"

BootNodes == 0 .. N - 1
Workers == BootNodes \ {0}
Incs == 1 .. Incarnations

\* What the constants must satisfy.
ASSUME BootAssumption ==
    /\ N \in Nat \ {0, 1} /\ Incarnations \in Nat \ {0} /\ Bumped \in BOOLEAN
    /\ Faults \subseteq {"crash", "timeout"}

VARIABLES
    inc,      \* node -> incarnation, 0 before the first start
    pc,       \* node -> how far its bootstrap has come
    table,    \* the kernel's bootstrap records: node -> incarnation published last, 0 none
    metas,    \* node -> peer -> the incarnation its record names (rt->metas)
    slots,    \* node -> peer -> the incarnation whose pool is imported, 0 none (rt->slots)
    egress,   \* node -> peers whose queue has been found (rt->egress_queues)
    pool      \* node -> incarnation -> [ready, directory, marker] as importers see it

bootVars == <<inc, pc, table, metas, slots, egress, pool>>

Nothing == [ready |-> FALSE, directory |-> FALSE, marker |-> FALSE]
NoPeers == [p \in BootNodes |-> 0]

BootInit ==
    /\ inc = [n \in BootNodes |-> 0]
    /\ pc = [n \in BootNodes |-> "down"]
    /\ table = NoPeers
    /\ metas = [n \in BootNodes |-> NoPeers]
    /\ slots = [n \in BootNodes |-> NoPeers]
    /\ egress = [n \in BootNodes |-> {}]
    /\ pool = [n \in BootNodes |-> [i \in Incs |-> Nothing]]

\* Mutant: the variable is not read.
GenerationIgnored(i) == 1

\* mem_service_bootstrap_generation.
Generation(i) == IF Bumped THEN i ELSE 1

BootPeers(n) == BootNodes \ {n}
Goto(n, s) == pc' = [pc EXCEPT ![n] = s]

-----------------------------------------------------------------------------
(* mem_service_cluster_runtime_init.                                       *)

\* The runtime is reset, the region exported and mapped, and the layout written
\* to its cached mapping (mem_service_init_export_layout).
Export(n) ==
    /\ pc[n] = "down" /\ inc[n] < Incarnations
    /\ inc' = [inc EXCEPT ![n] = @ + 1]
    /\ metas' = [metas EXCEPT ![n] = NoPeers]
    /\ slots' = [slots EXCEPT ![n] = NoPeers]
    /\ egress' = [egress EXCEPT ![n] = {}]
    /\ Goto(n, "layout")
    /\ UNCHANGED <<table, pool>>

\* External: a line of the layout leaves the cache before it is flushed.
EvictHeader(n) ==
    /\ pc[n] = "layout" /\ ~pool[n][inc[n]].ready
    /\ pool' = [pool EXCEPT ![n][inc[n]].ready = TRUE]
    /\ UNCHANGED <<inc, pc, table, metas, slots, egress>>
EvictDirectory(n) ==
    /\ pc[n] = "layout" /\ ~pool[n][inc[n]].directory
    /\ pool' = [pool EXCEPT ![n][inc[n]].directory = TRUE]
    /\ UNCHANGED <<inc, pc, table, metas, slots, egress>>

\* The layout is flushed before the bootstrap record is published.
FlushThenPublish(n) ==
    /\ pool' = [pool EXCEPT ![n][inc[n]] = [@ EXCEPT !.ready = TRUE, !.directory = TRUE]]
    /\ table' = [table EXCEPT ![n] = inc[n]]

\* mem_service_update_region_range_at of the layout, and obmm_bootstrap_publish.
Publish(n) ==
    /\ pc[n] = "layout"
    /\ FlushThenPublish(n)
    /\ Goto(n, "lookup")
    /\ UNCHANGED <<inc, metas, slots, egress>>

\* A record of the generation of node n.
Found(n, p) == table[p] # 0 /\ Generation(table[p]) = Generation(inc[n])

\* obmm_bootstrap_lookup has a record of every node.
Lookup(n) ==
    /\ pc[n] = "lookup" /\ \A p \in BootNodes : Found(n, p)
    /\ metas' = [metas EXCEPT ![n] = table]
    /\ Goto(n, "activate")
    /\ UNCHANGED <<inc, table, slots, egress, pool>>

\* mem_service_activate_remote_slot, the pool of the peer being READY: its
\* directory names the queue.
ActivateSlot(n, p) ==
    LET remote == pool[p][metas[n][p]]
    IN  /\ remote.ready
        /\ slots' = [slots EXCEPT ![n][p] = metas[n][p]]
        /\ egress' = [egress EXCEPT ![n] = IF remote.directory THEN @ \cup {p} ELSE @]

\* The peers are activated in the order of their numbers.
Activate(n, p) ==
    /\ pc[n] = "activate" /\ p \in BootPeers(n) /\ slots[n][p] = 0
    /\ \A q \in BootPeers(n) : q < p => slots[n][q] # 0
    /\ ActivateSlot(n, p)
    /\ UNCHANGED <<inc, pc, table, metas, pool>>

\* mem_service_obmm_service_v0_ensure_cluster_runtime finds every queue.
Ensure(n) ==
    /\ pc[n] = "activate" /\ \A p \in BootPeers(n) : slots[n][p] # 0
    /\ Goto(n, IF egress[n] = BootPeers(n) THEN "active" ELSE "failed")
    /\ UNCHANGED <<inc, table, metas, slots, egress, pool>>

\* mem_service_refresh_remote_slot of a node that is up: the record is looked up
\* again, the slot released and activated; when that fails it stays released.
Refresh(n, p) ==
    /\ pc[n] \in {"active", "announced", "started"} /\ p \in BootPeers(n)
    /\ \A q \in BootNodes : Found(n, q)
    /\ metas' = [metas EXCEPT ![n][p] = table[p]]
    /\ \/ /\ pool[p][table[p]].ready
          /\ slots' = [slots EXCEPT ![n][p] = table[p]]
          /\ egress' = [egress EXCEPT ![n] = IF pool[p][table[p]].directory THEN @ \cup {p} ELSE @ \ {p}]
       \/ /\ "timeout" \in Faults
          /\ slots' = [slots EXCEPT ![n][p] = 0]
          /\ egress' = [egress EXCEPT ![n] = @ \ {p}]
    /\ UNCHANGED <<inc, pc, table, pool>>

-----------------------------------------------------------------------------
(* mem_service_cluster_runtime_pipeline_start_barrier.                     *)

\* mem_service_pipeline_ready_marker_valid, in the pool that n has imported.
MarkerSeen(n, p) ==
    LET i == IF p = n THEN inc[n] ELSE slots[n][p]
    IN  i # 0 /\ pool[p][i].marker /\ Generation(i) = Generation(inc[n])

\* Workers announce readiness only after observing the coordinator.
MayAnnounce(n) == n # 0 => MarkerSeen(n, 0)

\* The marker is written and flushed; a worker is through.
AnnounceReady(n) ==
    /\ pc[n] = "active" /\ MayAnnounce(n)
    /\ pool' = [pool EXCEPT ![n][inc[n]].marker = TRUE]
    /\ Goto(n, IF n = 0 THEN "announced" ELSE "started")
    /\ UNCHANGED <<inc, table, metas, slots, egress>>

\* The coordinator is through when it sees every marker.
Start ==
    /\ pc[0] = "announced" /\ \A p \in BootNodes : MarkerSeen(0, p)
    /\ Goto(0, "started")
    /\ UNCHANGED <<inc, table, metas, slots, egress, pool>>

-----------------------------------------------------------------------------

\* A wait ends without what it waited for: the runtime is reset, or the barrier
\* returns an error.
WaitFails(n) ==
    /\ "timeout" \in Faults /\ pc[n] \in {"lookup", "activate", "active", "announced"}
    /\ Goto(n, "failed")
    /\ UNCHANGED <<inc, table, metas, slots, egress, pool>>

\* External: the process ends, and may be started again.
Crash(n) ==
    /\ "crash" \in Faults /\ pc[n] \notin {"down"}
    /\ Goto(n, "down")
    /\ UNCHANGED <<inc, table, metas, slots, egress, pool>>

BootStep(n) ==
    \/ Export(n) \/ Publish(n) \/ Lookup(n) \/ (\E p \in BootNodes : Activate(n, p))
    \/ Ensure(n) \/ AnnounceReady(n) \/ (n = 0 /\ Start)

BootNext ==
    \E n \in BootNodes :
        \/ BootStep(n) \/ EvictHeader(n) \/ EvictDirectory(n)
        \/ (\E p \in BootNodes : Refresh(n, p)) \/ WaitFails(n) \/ Crash(n)

BootSpec == BootInit /\ [][BootNext]_bootVars

-----------------------------------------------------------------------------
(* Properties.                                                             *)

\* The type invariant.
BootTypes ==
    /\ inc \in [BootNodes -> 0 .. Incarnations] /\ table \in [BootNodes -> 0 .. Incarnations]
    /\ metas \in [BootNodes -> [BootNodes -> 0 .. Incarnations]]
    /\ slots \in [BootNodes -> [BootNodes -> 0 .. Incarnations]]
    /\ egress \in [BootNodes -> SUBSET BootNodes] /\ \A n \in BootNodes : n \notin egress[n]
    /\ \A n \in BootNodes : slots[n][n] = 0

\* A pool that has been imported is laid out completely as its importer sees
\* it, so the queue of the importer is found (mem_service_activate_remote_slot),
\* whatever left the exporter's cache early.
ImportedHasQueue ==
    \A n \in BootNodes, p \in BootNodes : slots[n][p] # 0 => p \in egress[n]

\* When the coordinator is through the barrier, no worker it has counted still
\* has the pool of an earlier incarnation of the coordinator imported, unless the
\* worker has stopped meanwhile.
CountedHaveImported ==
    pc[0] = "started" =>
        \A w \in Workers :
            pc[w] # "down" /\ inc[w] = slots[0][w] => slots[w][0] \in {0, inc[0]}

\* A worker that is through the barrier has seen a coordinator whose imports
\* were all done: the coordinator it has imported, if it still runs, has been
\* past its own bootstrap.
WorkerSawCoordinator ==
    \A w \in Workers :
        pc[w] = "started" /\ slots[w][0] = inc[0]
            => pc[0] \in {"announced", "started", "failed", "down"}

\* What the start barrier promises
\* (mem_service_cluster_runtime_pipeline_start_barrier: "until every import works"):
\* every pool imported is complete and, when every start has a new generation,
\* the coordinator starts only with workers that have imported it, and a worker
\* only after the coordinator's bootstrap.
StartMeansImported ==
    ImportedHasQueue /\ (Bumped => CountedHaveImported /\ WorkerSawCoordinator)

\* All nodes are through the barrier; when none fails it comes to this, as
\* nobody waits for somebody who waits for them.
AllStarted == \A n \in BootNodes : pc[n] = "started"
==============================================================================
