----------------------------- MODULE ExpertCache -----------------------------
(***************************************************************************)
(* The node-side cache of expert weight tiles                              *)
(* (mem_service_expert_cache.c): packed keys of (layer, expert) pairs,     *)
(* least recently used first, and the statistics the latency model uses.   *)
(***************************************************************************)
EXTENDS Integers, FiniteSets, FiniteSetsExt, SequencesExt

CONSTANTS
    Layers,         \* number of layers
    Experts,        \* experts per layer
    Slots,          \* the capacity asked for
    DefaultSlots,   \* MEM_SERVICE_EXPERT_CACHE_DEFAULT_SLOTS
    KeyBase,        \* 1000 in the code
    ExpertBytes,    \* cache->expert_bytes
    LoadRate,       \* MEM_SERVICE_EXPERT_CACHE_LOAD_BYTES_PER_US
    ComputeTime,    \* MEM_SERVICE_EXPERT_CACHE_COMPUTE_US_PER_TOUCH
    Hotlists,       \* lists of pairs that may be loaded in advance
    MaxUses         \* uses of the cache (bound)

\* What the constants must satisfy.
CacheAssumption ==
    /\ Layers \in Nat \ {0} /\ Experts \in Nat \ {0} /\ Slots \in Nat /\ DefaultSlots \in Nat \ {0}
    /\ KeyBase \in Nat /\ Experts <= KeyBase
    /\ ExpertBytes \in Nat /\ LoadRate \in Nat \ {0} /\ ComputeTime \in Nat /\ MaxUses \in Nat

Pairs == (0 .. Layers - 1) \X (0 .. Experts - 1)

VARIABLES
    resident,  \* cache->resident, the least recently used key first
    stats,     \* cache->stats
    uses       \* history: the pairs loaded in advance and used, in order

cacheVars == <<resident, stats, uses>>

Key(p) == p[1] * KeyBase + p[2]

\* 0 asks for the default, which is also the most there is room for.
Capacity == IF Slots > DefaultSlots \/ Slots = 0 THEN DefaultSlots ELSE Slots

\* mem_service_expert_cache_preload: pairs not yet there, while there is room.
PreloadPair(r, p) ==
    IF Len(r) >= Capacity \/ Key(p) \in ToSet(r) THEN r ELSE Append(r, Key(p))

PairOf(k) == CHOOSE p \in Pairs : Key(p) = k

Init ==
    /\ \E h \in Hotlists : resident = FoldLeft(PreloadPair, <<>>, h)
    /\ stats = [hits |-> 0, misses |-> 0, evictions |-> 0, pread_bytes |-> 0]
    /\ uses = [i \in DOMAIN resident |-> PairOf(resident[i])]

\* expert_cache_find: 0 when the key is not there.
FindKey(k) == SelectInSeq(resident, LAMBDA x : x = k)

\* Mutant: a hit does not move the key.
HitInPlace(k) ==
    /\ FindKey(k) > 0
    /\ stats' = [stats EXCEPT !.hits = @ + 1]
    /\ UNCHANGED resident

\* A hit makes the key the most recently used.
Hit(k) ==
    /\ FindKey(k) > 0
    /\ resident' = Append(RemoveAt(resident, FindKey(k)), k)
    /\ stats' = [stats EXCEPT !.hits = @ + 1]

\* A miss loads the tile and, when the cache is full, evicts the first key.
Miss(k) ==
    LET full == Len(resident) >= Capacity
    IN  /\ FindKey(k) = 0
        /\ resident' = Append(IF full THEN RemoveAt(resident, 1) ELSE resident, k)
        /\ stats' = [stats EXCEPT !.misses = @ + 1, !.pread_bytes = @ + ExpertBytes,
                                  !.evictions = IF full THEN @ + 1 ELSE @]

\* mem_service_expert_cache_touch
Touch(p) ==
    /\ Len(uses) < MaxUses
    /\ Hit(Key(p)) \/ Miss(Key(p))
    /\ uses' = Append(uses, p)

Next == \E p \in Pairs : Touch(p)

Spec == Init /\ [][Next]_cacheVars

CeilDiv(v, d) == IF v = 0 \/ d = 0 THEN 0 ELSE (v + d - 1) \div d

\* expert_cache_fill_latency: computing and loading overlap.
EstimatedLatency ==
    Max({(stats.hits + stats.misses) * ComputeTime, CeilDiv(stats.pread_bytes, LoadRate)})

-----------------------------------------------------------------------------
LastUse(p) == SelectLastInSeq(uses, LAMBDA x : x = p)

Lru == INSTANCE LruCache WITH
    Keys <- Pairs,
    held <- {p \in Pairs : Key(p) \in ToSet(resident)},
    lastUse <- [p \in Pairs |-> LastUse(p)],
    clock <- Len(uses),
    count <- [hits |-> stats.hits, misses |-> stats.misses, evictions |-> stats.evictions]

\* The cache is a least-recently-used cache of (layer, expert) pairs: two
\* pairs never share a key, a hit is a hit on the very pair, and the pair
\* evicted is the one whose last use, or load in advance, is the longest ago.
ImplementsLru == Lru!LruSpec

\* No key is there twice, the slots are never exceeded, and every key that
\* ever came in is still there or counted as evicted: what was loaded in
\* advance, plus the misses, is what is there plus the evictions.
SlotsBalance ==
    LET preloaded == Len(uses) - stats.hits - stats.misses
    IN  /\ IsInjective(resident) /\ Len(resident) <= Capacity
        /\ preloaded + stats.misses = Len(resident) + stats.evictions
        /\ stats.pread_bytes = stats.misses * ExpertBytes

\* The estimate is the least time in which all touches are computed and all
\* bytes of the misses are loaded.
EstimateIsTight ==
    LET t == EstimatedLatency
        Enough(x) == /\ x >= (stats.hits + stats.misses) * ComputeTime
                     /\ x * LoadRate >= stats.misses * ExpertBytes
    IN  Enough(t) /\ (t > 0 => ~Enough(t - 1))
=============================================================================
