------------------------------ MODULE MCRuntime ------------------------------
(***************************************************************************)
(* What a model runtime keeps in its own memory, one part per scene; the   *)
(* scene is chosen in the initial state and never changes.                 *)
(*   daemon   KV metadata of requests that share blocks, in a small table  *)
(*   quota    the same requests under a quota on records                   *)
(*   callers  two parts of a runtime that embeds the library, on one block *)
(*   cache    every sequence of uses of the expert cache                   *)
(*   route    expert routes, and lookups in all small catalogs             *)
(***************************************************************************)
EXTENDS Integers, Sequences

VARIABLES
    scene,
    table, copy, calls, last,
    resident, stats, uses, layer, selected, decision, at, catalog, scan, found

kvVars == <<table, copy, calls, last>>
expertVars == <<resident, stats, uses, layer, selected, decision, at, catalog, scan, found>>
routeOnly == <<layer, selected, decision, at, catalog, scan, found>>
vars == <<scene, kvVars, expertVars>>

Name(r, p, g, b) == [req |-> r, prefix |-> p, group |-> g, block |-> b]

\* Two requests share a block; one of them has two prefixes in one group.
SharedBlock == {Name("r1", "p1", "g1", "b1"), Name("r1", "p2", "g1", "b2"),
                Name("r2", "p1", "g1", "b1"), Name("r1", "p3", "g1", "b3")}

Daemon == INSTANCE KvMetadata WITH
    Names <- SharedBlock, Nodes <- {0}, Views <- {1}, Results <- {1, 2}, Callers <- {},
    TableSize <- 6, GroupSize <- 2, MaxRecords <- 0, MaxCalls <- 4, Embedded <- FALSE

Quota == INSTANCE KvMetadata WITH
    Names <- SharedBlock, Nodes <- {0}, Views <- {1}, Results <- {1}, Callers <- {},
    TableSize <- 20, GroupSize <- 4, MaxRecords <- 4, MaxCalls <- 5, Embedded <- FALSE

Library == INSTANCE KvMetadata WITH
    Names <- {Name("r1", "p1", "g1", "b1")}, Nodes <- {0, 1}, Views <- {1, 2}, Results <- {1, 2},
    Callers <- {"k1", "k2"}, TableSize <- 6, GroupSize <- 2, MaxRecords <- 0, MaxCalls <- 4,
    Embedded <- TRUE

Header(whole, model, layers, experts) ==
    [type |-> "header", whole |-> whole, model |-> model, layers |-> layers, experts |-> experts]
Tile(whole, l, e, bytes) ==
    [type |-> "tile", whole |-> whole, layer |-> l, expert |-> e, bytes |-> bytes]

\* Headers that fit, that are for another model and that announce too few
\* experts; tiles that fit, that are empty and that cannot be read; a comment.
Lines ==
    {Header(TRUE, "m", 2, 3), Header(TRUE, "other", 2, 3), Header(TRUE, "m", 2, 1),
     Tile(TRUE, 0, 0, 5), Tile(TRUE, 0, 1, 5), Tile(TRUE, 0, 1, 0), Tile(FALSE, 0, 1, 5),
     [type |-> "comment"]}

SmallCatalogs == UNION {[1 .. n -> Lines] : n \in 0 .. 3}

\* In the wrong order, twice the same, too many, and an expert there is not.
SmallGiven == {<<2, 0>>, <<1, 1>>, <<0, 1, 2>>, <<3>>, <<1>>, <<>>}

\* Nothing in advance, one pair twice, and more pairs than there is room for.
SmallHotlists ==
    {<<>>, <<<<0, 1>>, <<0, 1>>, <<1, 0>>>>, <<<<1, 1>>, <<0, 0>>, <<0, 1>>, <<1, 0>>>>}

NoHotlist == {<<>>}
NoCatalog == {<<>>}

Cache == INSTANCE ExpertRoute WITH
    Layers <- 2, Experts <- 3, Slots <- 3, DefaultSlots <- 4, KeyBase <- 10, ExpertBytes <- 5,
    LoadRate <- 3, ComputeTime <- 1, Hotlists <- SmallHotlists, MaxUses <- 6,
    TopK <- 2, MaxExperts <- 3, GivenLists <- SmallGiven, Catalogs <- NoCatalog, Model <- "m"

Route == INSTANCE ExpertRoute WITH
    Layers <- 2, Experts <- 3, Slots <- 3, DefaultSlots <- 4, KeyBase <- 10, ExpertBytes <- 5,
    LoadRate <- 3, ComputeTime <- 1, Hotlists <- NoHotlist, MaxUses <- 3,
    TopK <- 2, MaxExperts <- 3, GivenLists <- SmallGiven, Catalogs <- SmallCatalogs, Model <- "m"

ASSUME /\ Daemon!MetadataAssumption /\ Quota!MetadataAssumption /\ Library!MetadataAssumption
       /\ Cache!CacheAssumption /\ Cache!RouteAssumption
       /\ Route!CacheAssumption /\ Route!RouteAssumption

ExpertsAtRest == Route!RouteInit /\ catalog = <<>>

Init ==
    \/ scene = "daemon" /\ Daemon!Init /\ ExpertsAtRest
    \/ scene = "quota" /\ Quota!Init /\ ExpertsAtRest
    \/ scene = "callers" /\ Library!Init /\ ExpertsAtRest
    \/ scene = "cache" /\ Daemon!Init /\ Cache!RouteInit
    \/ scene = "route" /\ Daemon!Init /\ Route!RouteInit

KvNext ==
    \/ scene = "daemon" /\ Daemon!Next
    \/ scene = "quota" /\ Quota!Next
    \/ scene = "callers" /\ Library!Next
ExpertNext ==
    \/ scene = "cache" /\ Cache!Next /\ UNCHANGED routeOnly
    \/ scene = "route" /\ Route!RouteNext

Next ==
    /\ \/ KvNext /\ UNCHANGED expertVars
       \/ ExpertNext /\ UNCHANGED kvVars
    /\ scene' = scene

Spec == Init /\ [][Next]_vars

-----------------------------------------------------------------------------

\* Once all copies are passed on, a prefix has the newest result of its block;
\* a block that can be resolved is in the group it was published in, whatever
\* call failed for lack of records or members (see KvMetadata!NewestResult,
\* BlockInItsGroup).
NewestResult ==
    /\ scene = "callers" => Library!NewestResult
    /\ scene = "daemon" => Daemon!TypeOK /\ Daemon!BlockInItsGroup

\* A call that fails leaves no block half written, and one that adds a block
\* exceeds the quota by two records at most (see KvMetadata!FailureKeepsBlocks,
\* NewBlockNearQuota).
FailureKeepsBlocks ==
    [][/\ scene = "daemon" => Daemon!FailureKeepsBlocks
       /\ scene = "quota" => Quota!NewBlockNearQuota]_vars

\* Only the owner's calls change a block, and its result never goes back (see
\* KvMetadata!OwnerOnly, ResultsGrow).
OwnerOnly == [][scene = "callers" => Library!OwnerOnly /\ Library!ResultsGrow]_vars

\* The expert cache is a least-recently-used cache of (layer, expert) pairs
\* (see ExpertCache!ImplementsLru), on its own and under a route.
ImplementsLru == Cache!ImplementsLru

\* A lookup finds the first tile of its pair, after a header that fits, and a
\* route is strictly ascending (see ExpertRoute!FoundIsFirst,
\* RouteIsAscending).  The slots of the cache balance, and the latency estimated
\* from its statistics is the least that suffices (see ExpertCache!SlotsBalance,
\* EstimateIsTight).
FoundIsFirst ==
    /\ scene = "route" => Route!TypeOK /\ Route!FoundIsFirst /\ Route!RouteIsAscending
    /\ scene = "cache" => Cache!SlotsBalance /\ Cache!EstimateIsTight
=============================================================================
