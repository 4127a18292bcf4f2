------------------------------ MODULE LruCache ------------------------------
(***************************************************************************)
(* What a cache that evicts the least recently used key promises: a set of *)
(* keys and the time each was last used.                                   *)
(***************************************************************************)
EXTENDS Integers, FiniteSets

CONSTANTS Keys, Capacity

VARIABLES
    held,      \* the keys in the cache
    lastUse,   \* key -> the time of its last use, 0 when it has not been used
    clock,     \* the number of uses
    count      \* [hits, misses, evictions]

lruVars == <<held, lastUse, clock, count>>

\* Some keys may be loaded in advance, one after the other.
LruInit ==
    /\ held \in SUBSET Keys /\ Cardinality(held) <= Capacity
    /\ clock = Cardinality(held)
    /\ \A k \in Keys : IF k \in held THEN lastUse[k] \in 1 .. clock ELSE lastUse[k] = 0
    /\ \A j, k \in held : j /= k => lastUse[j] /= lastUse[k]
    /\ count = [hits |-> 0, misses |-> 0, evictions |-> 0]

Oldest == CHOOSE k \in held : \A j \in held : lastUse[k] <= lastUse[j]

Use(k) ==
    /\ clock' = clock + 1
    /\ lastUse' = [lastUse EXCEPT ![k] = clock + 1]
    /\ \/ /\ k \in held
          /\ held' = held /\ count' = [count EXCEPT !.hits = @ + 1]
       \/ /\ k \notin held /\ Cardinality(held) < Capacity
          /\ held' = held \cup {k} /\ count' = [count EXCEPT !.misses = @ + 1]
       \/ /\ k \notin held /\ Cardinality(held) = Capacity
          /\ held' = (held \ {Oldest}) \cup {k}
          /\ count' = [count EXCEPT !.misses = @ + 1, !.evictions = @ + 1]

LruSpec == LruInit /\ [][\E k \in Keys : Use(k)]_lruVars
=============================================================================
