----------------------------- MODULE KvMetadata -----------------------------
(***************************************************************************)
(* The metadata of KV cache blocks (mem_service_metadata.c,                *)
(* mem_service_records.c and mem_service_keys.c, with the daemon's         *)
(* publish_kv, register_prefix and record quota).  A block has a record of *)
(* its own; a request's prefix names the block that holds it; a prefix     *)
(* group lists the blocks of its prefixes.  One call writes up to three    *)
(* records and has no way to take one of them back.                        *)
(*                                                                         *)
(* The daemon serves one call after the other.  A runtime that embeds the  *)
(* library keeps the block record a call returned and passes it on to the  *)
(* next one, so that with several callers the copy may be out of date.     *)
(* hot_segment_id and placement_level always change together and are one   *)
(* view here.                                                              *)
(***************************************************************************)
EXTENDS Integers, FiniteSets

CONSTANTS
    Names,        \* [req, prefix, group, block] of the contexts callers use
    Nodes,        \* placement_node
    Views,        \* hot_segment_id and placement_level, some numbers
    Results,      \* result_segment_id, some numbers
    Callers,      \* parts of the runtime that embeds the library
    TableSize,    \* MEM_SERVICE_MAX_RECORDS
    GroupSize,    \* MEM_SERVICE_MAX_GROUP_MEMBERS
    MaxRecords,   \* limits->max_records, 0 for no quota
    MaxCalls,     \* calls (bound)
    Embedded      \* whether a runtime embeds the library, or a daemon serves

\* What the constants must satisfy.
MetadataAssumption ==
    /\ \A x \in Names : DOMAIN x = {"req", "prefix", "group", "block"}
    /\ Nodes \subseteq Nat /\ Views \subseteq Nat \ {0} /\ Results \subseteq Nat
    /\ TableSize \in Nat /\ GroupSize \in Nat \ {0}
    /\ MaxRecords \in Nat /\ MaxCalls \in Nat /\ Embedded \in BOOLEAN

States == {"missing", "filled", "hot", "reloaded"}
Contexts == [name : Names, node : Nodes, view : Views, result : Results]

PrefixKey(c) == <<"prefix", c.name.req, c.name.prefix>>
GroupKey(c) == <<"group", c.name.req, c.name.group>>
BlockKey(c) == <<"block", c.name.block, c.name.block>>

VARIABLES
    table,   \* key -> record, the records in use
    copy,    \* caller -> the block record it has yet to pass on, if any
    calls,   \* calls made
    last     \* history: the call just made and how it ended

vars == <<table, copy, calls, last>>

\* A record just cleared, with the key's own fields.
Blank(c, kind) ==
    [kind |-> kind, name |-> c.name, block |-> c.name.block, members |-> {},
     node |-> 0, view |-> 0, state |-> "missing", result |-> 0, version |-> 1]

Init ==
    /\ table = <<>>
    /\ copy = [k \in Callers |-> {}]
    /\ calls = 0
    /\ last = [op |-> "none", ok |-> TRUE]

-----------------------------------------------------------------------------
(* The steps of a call take a table and return one, and whether they did   *)
(* what they were asked to.                                                *)

Done(t) == [ok |-> TRUE, t |-> t]
Failed(t) == [ok |-> FALSE, t |-> t]

Has(t, key) == key \in DOMAIN t
Full(t) == Cardinality(DOMAIN t) >= TableSize
With(t, key, r) == [x \in DOMAIN t \cup {key} |-> IF x = key THEN r ELSE t[x]]

\* A record is found or a free one is taken, then it is written.
Store(t, key, r) == IF ~Has(t, key) /\ Full(t) THEN Failed(t) ELSE Done(With(t, key, r))

Placed(r, b) == [r EXCEPT !.node = b.node, !.view = b.view, !.state = b.state, !.result = b.result]

\* The group gets the block as a member and takes over its placement.
PutGroup(t, c, b) ==
    LET key == GroupKey(c)
        old == IF Has(t, key) THEN t[key] ELSE Blank(c, "group")
        new == Placed([old EXCEPT !.members = @ \cup {b.block}], b)
        changed == Placed(old, b) /= old
    IN  IF Has(t, key) /\ b.block \notin old.members /\ Cardinality(old.members) >= GroupSize
        THEN Failed(t)
        ELSE Store(t, key, [new EXCEPT !.version = IF Has(t, key) /\ changed THEN @ + 1 ELSE @])

\* Mutant: an older result is taken as well.
StaleNever(r, b) == FALSE

\* The prefix already has a later result of the same block.
Stale(r, b) == r.result /= 0 /\ r.block = b.block /\ b.result < r.result

\* What the prefix has already; node and level are compared with the caller's
\* context, not with the block.
Unchanged(r, c, b) ==
    /\ r.result = b.result /\ r.view = b.view /\ r.state = b.state /\ r.block = b.block
    /\ r.node = c.node /\ r.view = c.view

\* update_prefix_result
FollowBlock(t, c, b) ==
    LET key == PrefixKey(c)
    IN  IF ~Has(t, key) \/ Stale(t[key], b) \/ Unchanged(t[key], c, b) THEN Failed(t)
        ELSE Done(With(t, key, [Placed(t[key], b) EXCEPT !.block = b.block, !.version = @ + 1]))

Fresh(c, state, result) ==
    [Blank(c, "block") EXCEPT !.node = c.node, !.view = c.view, !.state = state, !.result = result]

\* Mutant: the block comes before the prefix.
BootstrapBlockFirst(t, c) ==
    LET filled == Fresh(c, "filled", 0)
        hot == [Fresh(c, "hot", c.result) EXCEPT !.version = 2]
        g == PutGroup(t, c, filled)
        b == Store(g.t, BlockKey(c), hot)
        p == Store(b.t, PrefixKey(c), Blank(c, "prefix"))
    IN  IF ~g.ok THEN g ELSE IF ~b.ok THEN b ELSE IF ~p.ok THEN p
        ELSE FollowBlock(PutGroup(p.t, c, hot).t, c, hot)

\* bootstrap_kvcache: group, prefix and block in this order, then the result
\* in the block, in the group and in the prefix.
Bootstrap(t, c) ==
    LET filled == Fresh(c, "filled", 0)
        hot == [Fresh(c, "hot", c.result) EXCEPT !.version = 2]
        g == PutGroup(t, c, filled)
        p == Store(g.t, PrefixKey(c), Blank(c, "prefix"))
        b == Store(p.t, BlockKey(c), hot)
    IN  IF ~g.ok THEN g ELSE IF ~p.ok THEN p ELSE IF ~b.ok THEN b
        ELSE FollowBlock(PutGroup(b.t, c, hot).t, c, hot)

-----------------------------------------------------------------------------
(* The daemon.                                                             *)

\* The records a call is expected to add: the block, and for register_prefix
\* the prefix.
Estimate(op, c) ==
    (IF Has(table, BlockKey(c)) THEN 0 ELSE 1)
        + (IF op = "register" /\ ~Has(table, PrefixKey(c)) THEN 1 ELSE 0)

Admitted(op, c) ==
    LET new == Estimate(op, c)
    IN  MaxRecords = 0 \/ new = 0 \/ Cardinality(DOMAIN table) + new <= MaxRecords

InState(r, s) == IF r.state = s THEN r ELSE [r EXCEPT !.state = s, !.version = @ + 1]

\* publish_kv: the state asked for goes to the block only.
Publish(c, s) ==
    /\ Admitted("publish", c)
    /\ LET res == Bootstrap(table, c)
       IN  /\ table' = IF res.ok THEN With(res.t, BlockKey(c), InState(res.t[BlockKey(c)], s)) ELSE res.t
           /\ last' = [op |-> "publish", ok |-> res.ok]

\* An earlier result than the prefix has, or the same for another block.
Conflicts(c) ==
    /\ Has(table, PrefixKey(c))
    /\ \/ table[PrefixKey(c)].result > c.result
       \/ table[PrefixKey(c)].result = c.result /\ table[PrefixKey(c)].block /= c.name.block

Repeated(c) ==
    /\ Has(table, PrefixKey(c))
    /\ table[PrefixKey(c)].result = c.result /\ table[PrefixKey(c)].block = c.name.block

\* register_prefix: the state goes to the prefix and the block.
Register(c, s) ==
    /\ Admitted("register", c) /\ c.result /= 0 /\ ~Conflicts(c) /\ ~Repeated(c)
    /\ LET res == Bootstrap(table, c)
           t == With(res.t, PrefixKey(c), InState(res.t[PrefixKey(c)], s))
           differs == res.t[PrefixKey(c)].state /= s
           block == res.t[BlockKey(c)]
       IN  /\ table' = IF ~res.ok THEN res.t
                       ELSE IF ~differs THEN t
                       ELSE With(t, BlockKey(c), [block EXCEPT !.state = s, !.version = @ + 1])
           /\ last' = [op |-> "register", ok |-> res.ok]

Serve ==
    /\ ~Embedded /\ calls < MaxCalls
    /\ calls' = calls + 1
    /\ \E c \in Contexts : \E s \in States : Publish(c, s) \/ Register(c, s)
    /\ UNCHANGED copy

-----------------------------------------------------------------------------
(* A runtime that embeds the library.                                      *)

\* A call of the library by a caller with no copy to pass on; on success it
\* holds the block's record, and the group has been told of it.
Call(k, c, op, res) ==
    /\ Embedded /\ calls < MaxCalls /\ copy[k] = {}
    /\ calls' = calls + 1
    /\ table' = res.t
    /\ copy' = IF res.ok THEN [copy EXCEPT ![k] = {[ctx |-> c, rec |-> res.t[BlockKey(c)]]}] ELSE copy
    /\ last' = [op |-> op, ok |-> res.ok]

\* A runtime bootstraps a block once.
Boot(k, c) == ~Has(table, BlockKey(c)) /\ Call(k, c, "boot", Bootstrap(table, c))

\* Mutant: whoever calls may change the block.
AnyNode(c) == Has(table, BlockKey(c))

\* Only the node that owns the block may change it.
Owns(c) == Has(table, BlockKey(c)) /\ table[BlockKey(c)].node = c.node

\* The block's record changes and the group follows.
Change(c, r) ==
    IF ~Owns(c) \/ r = table[BlockKey(c)] THEN Failed(table)
    ELSE LET new == [r EXCEPT !.version = @ + 1]
         IN  PutGroup(With(table, BlockKey(c), new), c, new)

Newer(r, result) == r.result = 0 \/ result > r.result

Apply(k, c, result, s) ==
    LET r == table[BlockKey(c)]
    IN  Call(k, c, "apply",
             IF Owns(c) /\ Newer(r, result) THEN Change(c, [r EXCEPT !.result = result, !.state = s])
             ELSE Failed(table))

Rebind(k, c, view) ==
    Call(k, c, "rebind", IF Owns(c) THEN Change(c, [table[BlockKey(c)] EXCEPT !.view = view]) ELSE Failed(table))

Handoff(k, c, node, view) ==
    Call(k, c, "handoff",
         IF Owns(c) THEN Change(c, [table[BlockKey(c)] EXCEPT !.node = node, !.view = view]) ELSE Failed(table))

\* update_prefix_metadata with the caller's copy of the block's record.
PassOn(k) ==
    /\ \E x \in copy[k] :
         LET p == FollowBlock(table, x.ctx, x.rec)
             g == PutGroup(p.t, x.ctx, x.rec)
         IN  /\ table' = IF p.ok THEN g.t ELSE table
             /\ last' = [op |-> "follow", ok |-> p.ok /\ g.ok]
    /\ copy' = [copy EXCEPT ![k] = {}]
    /\ UNCHANGED calls

Embed ==
    \E k \in Callers :
        \/ \E c \in Contexts :
             \/ Boot(k, c)
             \/ \E r \in Results : \E s \in {"hot", "reloaded"} : Apply(k, c, r, s)
             \/ \E v \in Views : Rebind(k, c, v) \/ \E n \in Nodes : Handoff(k, c, n, v)
        \/ PassOn(k)

Next == Serve \/ Embed

Spec == Init /\ [][Next]_vars

-----------------------------------------------------------------------------

KindOf(key) == key[1]

\* mem_service_record_has_member_block
Covers(g, b) == b.block \in g.members

\* Every record is of the kind of its key, and a group keeps to its size.
TypeOK ==
    /\ \A key \in DOMAIN table :
         LET r == table[key]
         IN  /\ r.kind = KindOf(key) /\ r.name \in Names
             /\ r.node \in Nodes \cup {0} /\ r.view \in Views \cup {0} /\ r.state \in States
             /\ r.result \in Results \cup {0} /\ r.version \in Nat \ {0}
             /\ Cardinality(r.members) <= GroupSize
    /\ Cardinality(DOMAIN table) <= TableSize
    /\ calls \in 0 .. MaxCalls

\* A block that can be resolved is a member of the group it was published in:
\* whatever fails on the way, the group is written before the block.
BlockInItsGroup ==
    \A key \in DOMAIN table : KindOf(key) = "block" =>
        LET group == <<"group", table[key].name.req, table[key].name.group>>
        IN  Has(table, group) /\ Covers(table[group], table[key])

\* A step: a publication or registration that fails for lack of records leaves every
\* block as it was: a failed call never publishes a block by halves.
FailureKeepsBlocks ==
    ~last'.ok /\ last'.op \in {"publish", "register"} =>
       \A key \in DOMAIN table' : KindOf(key) = "block" => Has(table, key) /\ table'[key] = table[key]

\* A step: a call that adds a block exceeds the quota on records by no more than the
\* group and the prefix, which the estimate leaves out.
NewBlockNearQuota ==
    (MaxRecords > 0 /\ \E key \in DOMAIN table' \ DOMAIN table : KindOf(key) = "block") =>
       Cardinality(DOMAIN table') <= MaxRecords + 2

\* A step: the result of a block never goes back, except to begin again: an answer
\* that comes late, from the owner or an earlier one, does not replace a
\* later one.
ResultsGrow ==
    last'.op \notin {"publish", "register", "boot"} =>
       \A key \in DOMAIN table : KindOf(key) = "block" => table'[key].result >= table[key].result

\* A step: when a handoff has moved a block, only the new owner's calls change it.
OwnerOnly ==
    \A key \in DOMAIN table : (KindOf(key) = "block" /\ table'[key] /= table[key]) =>
       \/ last'.op = "boot"
       \/ \E k \in Callers : copy[k] = {} /\ \E x \in copy'[k] : x.ctx.node = table[key].node

Settled == \A k \in Callers : copy[k] = {}

\* Once every caller has passed its copy on, in whatever order, a prefix has
\* the newest result of its block.
NewestResult ==
    Settled => \A key \in DOMAIN table : KindOf(key) = "prefix" =>
        LET block == <<"block", table[key].block, table[key].block>>
        IN  Has(table, block) => table[key].result = table[block].result
=============================================================================
