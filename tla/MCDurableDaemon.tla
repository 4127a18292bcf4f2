-------------------------- MODULE MCDurableDaemon --------------------------
(* Small instances of DurableDaemon for TLC. *)
EXTENDS DurableDaemon, TLC

CONSTANTS k1, k2, i1, i2, nil,
          Scenes   \* the scenes of a run, see below

Put(k, v, i) ==
    [op |-> "put", kind |-> "object", key |-> k, ver |-> 0, val |-> v, idem |-> i]
Register(kind, k, v, i) ==
    [op |-> "register", kind |-> kind, key |-> k, ver |-> 0, val |-> v, idem |-> i]
QueryVersion(k, v) ==
    [op |-> "query", kind |-> "execution", key |-> k, ver |-> v, val |-> 0,
     idem |-> nil]
Restore(i) ==
    [op |-> "restore", kind |-> "object", key |-> k1, ver |-> 0, val |-> 0,
     idem |-> i]

MCKeys == {k1, k2}
MCIdemKeys == {i1, i2}

\* Two requests that share an idempotency key but not a payload (a conflict), a
\* keyed and an unkeyed update of one record, and a query with a stale version.
CrashRequests ==
    {Put(k1, 1, i1), Register("execution", k1, 2, i1),
     Register("execution", k1, 3, i2), Put(k2, 4, nil), QueryVersion(k1, 1)}

\* Records of two kinds under retention limits.
RetentionRequests ==
    {Register("checkpoint", k1, 1, i1), Register("checkpoint", k2, 2, i2),
     Put(k2, 3, nil)}

RestoreRequests == {Put(k1, 1, i1), Register("execution", k1, 2, i2), Restore(nil)}

AllRequests == CrashRequests \cup RetentionRequests \cup RestoreRequests

OneRecord == (k2 :> [kind |-> "object", ver |-> 7, val |-> 0])
Objects == {"object"}
AllCuts == {"line", "field", "junk"}

-----------------------------------------------------------------------------
(* Four scenes share one run.  The scene is chosen in the initial state and *)
(* never changes; it says which clients, limits and failures there are.     *)
(*   restore    every request, paged restores included, and two crashes     *)
(*   retention  every request but restores, and two crashes                 *)
(*   faults     a quota in place of retention, two failing file operations, *)
(*              a crash                                                     *)
(*   recovery   one crash, which does not tear the header of a new journal, *)
(*              and an audit ring that wraps                                *)
VARIABLE scene

FaultyQuota == 1

Retaining == INSTANCE DurableDaemon WITH
    Requests <- CrashRequests \cup RetentionRequests, RequestBound <- RequestBound + 1
Faulty == INSTANCE DurableDaemon WITH
    Requests <- CrashRequests, MaxCheckpoints <- 0, MaxRetained <- 0, RetainKinds <- {},
    AgeLimited <- FALSE, MaxRecords <- FaultyQuota, MaxAuditEvents <- 1, CrashBound <- 1, FaultBound <- 2
Recovering == INSTANCE DurableDaemon WITH
    Requests <- RetentionRequests, RetainKinds <- Kinds, MaxAuditEvents <- 0,
    RequestBound <- RequestBound + 1, CrashBound <- 1, Cuts <- {"line", "field"},
    TornHeader <- FALSE

sceneVars == <<vars, scene>>

SceneInit ==
    /\ scene \in Scenes
    /\ \/ scene = "restore" /\ Init
       \/ scene = "retention" /\ Retaining!Init
       \/ scene = "faults" /\ Faulty!Init
       \/ scene = "recovery" /\ Recovering!Init

SceneNext ==
    /\ \/ scene = "restore" /\ Next
       \/ scene = "retention" /\ Retaining!Next
       \/ scene = "faults" /\ Faulty!Next
       \/ scene = "recovery" /\ Recovering!Next
    /\ scene' = scene

\* Nothing is fair but the steps of the process itself (see FairSpec).
SceneSpec ==
    /\ SceneInit /\ [][SceneNext]_sceneVars
    /\ WF_sceneVars(scene = "recovery" /\ Recovering!Step /\ scene' = scene)

\* While no file operation fails, no table of an idle daemon exceeds its limit
\* (see WithinLimits): retention runs in every request, before the reply, and
\* three times at start-up.  The quota holds even when file operations fail.
\* The audit events of an idle daemon have no gap while no paged restore resets
\* the ring (see AuditContiguous).  With the types of TypeOK.
LimitsHold ==
    /\ TypeOK
    /\ scene \in {"retention", "recovery"} => AuditContiguous
    /\ scene = "retention" => Retaining!WithinLimits
    /\ scene = "faults" /\ pc = "idle" => Cardinality(DOMAIN records) <= FaultyQuota

\* While no paged restore resets the ring, no audit number is given twice (see
\* KeepsAuditNumbers).
NumbersNotReused == [][scene = "retention" => KeepsAuditNumbers]_sceneVars

\* After a single crash, in the middle of an append to a journal that has its
\* header included, the daemon is serving again (see RestartCompletes).
RestartsAfterCrash == scene = "recovery" => RestartCompletes
=============================================================================
