----------------------------- MODULE ExpertRoute -----------------------------
(***************************************************************************)
(* Routing a token to experts and finding their weight tiles               *)
(* (mem_service_expert_route_flow.c), in front of the cache of             *)
(* ExpertCache.  A route is drawn from hashes, or given by the caller; the *)
(* tiles of its experts are looked for in the catalog, line by line, when  *)
(* the cache does not have them.  The application that calls these         *)
(* functions layer by layer is external.                                   *)
(*                                                                         *)
(* The hash of (step, layer, token, salt) is any number below the count of *)
(* experts.  A line of the catalog is what the parser tells apart.         *)
(***************************************************************************)
EXTENDS ExpertCache

CONSTANTS
    TopK,       \* MEM_SERVICE_EXPERT_ROUTE_TOP_K
    MaxExperts, \* MEM_SERVICE_EXPERT_MAX_EXPERTS
    GivenLists, \* lists of experts a caller may ask for
    Catalogs,   \* the catalogs there may be, as sequences of lines
    Model       \* the caller's model_key

\* What the constants must satisfy.
RouteAssumption ==
    /\ TopK \in Nat \ {0} /\ MaxExperts \in Nat /\ TopK <= Experts /\ Experts <= MaxExperts

VARIABLES
    layer,     \* the layer of the token
    selected,  \* experts drawn so far
    decision,  \* decision->active_experts (<<>>: none)
    at,        \* the next expert of the decision to run
    catalog,   \* the lines of the catalog file
    scan,      \* where the lookup is: [line, header, answer]
    found      \* history: the tiles found, as <<layer, expert, line>>

routeVars == <<layer, selected, decision, at, catalog, scan, found>>
vars == <<cacheVars, routeVars>>

Idle == [line |-> 0, header |-> FALSE, answer |-> "none"]

RouteInit ==
    /\ Init
    /\ layer = 0 /\ selected = <<>> /\ decision = <<>> /\ at = 1
    /\ catalog \in Catalogs /\ scan = Idle /\ found = {}

-----------------------------------------------------------------------------
(* The route.                                                              *)

\* mem_service_expert_seen
Seen(s, e) == e \in ToSet(s)

\* mem_service_expert_sort_u32
Sorted(s) == SortSeq(s, <)

\* mem_service_expert_route_decision_init: <<>> when the list is refused.
Decided(s) ==
    IF \/ Len(s) = 0 \/ Len(s) > TopK
       \/ \E i \in DOMAIN s : s[i] >= MaxExperts \/ Seen(SubSeq(s, 1, i - 1), s[i])
    THEN <<>> ELSE Sorted(s)

\* One salt: its hash names an expert that is new, or another salt is tried.
Draw ==
    /\ decision = <<>> /\ Len(selected) < TopK
    /\ \E e \in 0 .. Experts - 1 :
         /\ ~Seen(selected, e)
         /\ selected' = Append(selected, e)
    /\ UNCHANGED <<cacheVars, layer, decision, at, catalog, scan, found>>

Decide(s) ==
    /\ decision = <<>> /\ Decided(s) /= <<>>
    /\ decision' = Decided(s) /\ selected' = <<>> /\ at' = 1
    /\ UNCHANGED <<cacheVars, layer, catalog, scan, found>>

DecideDrawn == Len(selected) = TopK /\ Decide(selected)
DecideGiven == selected = <<>> /\ \E s \in GivenLists : Decide(s)

-----------------------------------------------------------------------------
(* The experts of the route, one after the other.                          *)

Running == decision /= <<>> /\ at <= Len(decision)
Pair == <<layer, decision[at]>>

RunExpert ==
    /\ Running /\ scan = Idle
    /\ Touch(Pair)
    /\ IF Key(Pair) \in ToSet(resident)
       THEN at' = at + 1 /\ UNCHANGED scan
       ELSE scan' = [Idle EXCEPT !.line = 1] /\ UNCHANGED at
    /\ UNCHANGED <<layer, selected, decision, catalog, found>>

NextLayer ==
    /\ decision /= <<>> /\ at > Len(decision)
    /\ layer' = (layer + 1) % Layers /\ decision' = <<>> /\ selected' = <<>> /\ at' = 1
    /\ UNCHANGED <<cacheVars, catalog, scan, found>>

-----------------------------------------------------------------------------
(* mem_service_expert_weight_tile_ref_from_catalog_file                    *)

HeaderFits(l) ==
    /\ l.whole /\ l.model = Model /\ layer < l.layers /\ decision[at] < l.experts
    /\ l.experts <= MaxExperts

\* Mutant: a tile counts although no header has been read.
TileFailsUnlessWhole(l, header) == ~l.whole

\* A tile before the header, or one that cannot be read, ends the lookup.
TileFails(l, header) == ~header \/ ~l.whole

TileFits(l) == l.layer = layer /\ l.expert = decision[at]

\* What one line does: the lookup goes on, fails or finds the tile.
Scanned(l, header) ==
    CASE l.type = "header" /\ ~header -> IF HeaderFits(l) THEN "header" ELSE "failed"
      [] l.type = "tile" -> IF TileFails(l, header) THEN "failed"
                            ELSE IF ~TileFits(l) THEN "go on"
                            ELSE IF l.bytes > 0 THEN "found" ELSE "failed"
      [] OTHER -> "go on"

ReadLine ==
    /\ scan.line > 0 /\ scan.answer = "none" /\ scan.line <= Len(catalog)
    /\ LET r == Scanned(catalog[scan.line], scan.header)
       IN  scan' = CASE r = "header" -> [scan EXCEPT !.header = TRUE, !.line = @ + 1]
                     [] r = "go on" -> [scan EXCEPT !.line = @ + 1]
                     [] r \in {"found", "failed"} -> [scan EXCEPT !.answer = r]
    /\ UNCHANGED <<cacheVars, layer, selected, decision, at, catalog, found>>

EndOfFile ==
    /\ scan.answer = "none" /\ scan.line > Len(catalog)
    /\ scan' = [scan EXCEPT !.answer = "failed"]
    /\ UNCHANGED <<cacheVars, layer, selected, decision, at, catalog, found>>

\* The caller goes on with or without the tile.
LookupReturns ==
    /\ scan.answer /= "none"
    /\ found' = IF scan.answer = "found" THEN found \cup {<<layer, decision[at], scan.line>>} ELSE found
    /\ scan' = Idle /\ at' = at + 1
    /\ UNCHANGED <<cacheVars, layer, selected, decision, catalog>>

RouteNext ==
    \/ Draw \/ DecideDrawn \/ DecideGiven \/ RunExpert \/ NextLayer
    \/ ReadLine \/ EndOfFile \/ LookupReturns

-----------------------------------------------------------------------------
\* A lookup never stands beyond the end of the file, and a route never
\* beyond its last expert.
TypeOK ==
    /\ layer \in 0 .. Layers - 1
    /\ selected \in Seq(0 .. Experts - 1) /\ decision \in Seq(0 .. MaxExperts - 1)
    /\ at \in 1 .. TopK + 1 /\ scan.line \in 0 .. Len(catalog) + 1

\* A route names distinct experts in ascending order, whether it was drawn or
\* given, so that no expert runs twice for a token.
RouteIsAscending ==
    \A i, j \in DOMAIN decision : i < j => decision[i] < decision[j]

\* A tile that was found is the first of the catalog for its layer and
\* expert, it has bytes, it lies within what the first header announces, and
\* nothing before it is unreadable.
FoundIsFirst ==
    \A f \in found :
        LET tiles == {i \in DOMAIN catalog : catalog[i].type = "tile"}
            headers == {i \in DOMAIN catalog : catalog[i].type = "header"}
            same == {i \in tiles : catalog[i].layer = f[1] /\ catalog[i].expert = f[2]}
            h == catalog[Min(headers)]
        IN  /\ same /= {} /\ f[3] = Min(same) /\ catalog[f[3]].bytes > 0
            /\ headers /= {} /\ Min(headers) < Min(tiles)
            /\ h.model = Model /\ f[1] < h.layers /\ f[2] < h.experts
            /\ \A i \in tiles : i <= f[3] => catalog[i].whole
=============================================================================
