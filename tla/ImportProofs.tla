---------------------------- MODULE ImportProofs ----------------------------
(***************************************************************************)
(* What a node holds of the memory of another: the pools it imports when   *)
(* it comes up (ClusterBoot), and the imports and mappings a channel gives *)
(* out (ProviderChannel).                                                  *)
(***************************************************************************)
EXTENDS ClusterBoot, ProviderChannel, TLAPS

-----------------------------------------------------------------------------
(* The channel.  A provider of the application channel holds exactly what  *)
(* the application has bindings for; this needs that a handle is bound     *)
(* only once (BoundOnce).  A completion is reported as it was; this needs  *)
(* that what a provider remembers under an identifier is the transfer that *)
(* was given it (Remembered).                                              *)

Held == [h : Handles, kind : Kinds]
Bindings == [owner : Providers, h : Handles, kind : Kinds, len : Int]
Content == Sums \cup {0}
Completions == [id : Nat, len : Int, sum : Content]
Transfers == [p : Providers, id : Nat, len : Int, sum : Sums, copied : Content]

\* The types that matter here.
Typed ==
    /\ held \in [Providers -> SUBSET Held]
    /\ binding \in SUBSET Bindings
    /\ mem \in [Providers -> [src : Content, dst : Content]]
    /\ pending \in [Providers -> Completions]
    /\ sent \in SUBSET Transfers

\* A handle of a provider is bound once, and a bound region is a whole buffer.
BoundOnce ==
    /\ \A x, y \in binding : x.owner = y.owner /\ x.h = y.h => x = y
    /\ \A x \in binding : x.kind = "region" => x.len = RegionLen

\* Identifiers only grow, and the completion remembered under the identifier of
\* a transfer is of what that transfer copied.
Remembered ==
    \A t \in sent : /\ t.id <= pending[t.p].id
                    /\ t.id = pending[t.p].id => pending[t.p].sum = t.copied

\* The inductive invariant.
IInv == Typed /\ BoundOnce /\ HeldIsBound /\ Remembered /\ TransferIsExact

-----------------------------------------------------------------------------

LEMMA InitInv == Init => IInv
  <1> SUFFICES ASSUME Init PROVE IInv
    OBVIOUS
  <1>1. Typed /\ BoundOnce /\ Remembered
    BY DEF Init, Typed, BoundOnce, Remembered, Content, Completions
  <1>2. HeldIsBound /\ TransferIsExact
    BY DEF Init, HeldIsBound, TransferIsExact, Quiet
  <1> QED
    BY <1>1, <1>2 DEF IInv

\* The range of a request that passed the checks ends within the buffer.
LEMMA WithinFits ==
    ASSUME NEW r \in Ranges, NEW len \in Int, Within(r, len)
    PROVE  r.off + r.len <= len
  BY ChannelAssumption DEF Within

\* The answer of a provider, kept or given back, leaves both sides agreed.
LEMMA SettleInv ==
    ASSUME Typed, BoundOnce, HeldIsBound, NEW p \in Providers, NEW kind \in Kinds, NEW len \in Int,
           NEW h \in FreeHandles(p), NEW a, Settle(p, kind, h, len, a),
           kind = "region" => len = RegionLen
    PROVE  /\ held' \in [Providers -> SUBSET Held] /\ binding' \in SUBSET Bindings
           /\ BoundOnce' /\ HeldIsBound'
  <1> DEFINE e == [h |-> h, kind |-> kind]
             c == [owner |-> p, h |-> h, kind |-> kind, len |-> len]
  <1>1. CASE held' = held /\ binding' = binding
    BY <1>1 DEF Typed, BoundOnce, HeldIsBound
  <1>2. CASE held' = [held EXCEPT ![p] = @ \cup {e}] /\ binding' = binding \cup {c}
    <2>1. e \in Held /\ c \in Bindings
      BY DEF Held, Bindings, FreeHandles
    <2>2. held' \in [Providers -> SUBSET Held] /\ binding' \in SUBSET Bindings
      BY <1>2, <2>1 DEF Typed
    <2>3. \A x \in binding : x.owner = p => x.h /= h
      <3> SUFFICES ASSUME NEW x \in binding, x.owner = p PROVE x.h /= h
        OBVIOUS
      <3>1. [h |-> x.h, kind |-> x.kind] \in held[p]
        BY DEF HeldIsBound
      <3>2. [h |-> x.h, kind |-> x.kind].h /= h
        BY <3>1 DEF FreeHandles
      <3> QED
        BY <3>2
    <2>4. BoundOnce'
      <3>1. c.owner = p /\ c.h = h /\ (c.kind = "region" => c.len = RegionLen)
        OBVIOUS
      <3>2. binding' = binding \cup {c}
        BY <1>2
      <3> HIDE DEF c
      <3> QED
        BY <2>3, <3>1, <3>2 DEF BoundOnce
    <2>5. HeldIsBound'
      <3> SUFFICES ASSUME NEW q \in Providers
                   PROVE  held'[q] = {[h |-> x.h, kind |-> x.kind] : x \in {y \in binding' : y.owner = q}}
        BY DEF HeldIsBound
      <3>1. held[q] = {[h |-> x.h, kind |-> x.kind] : x \in {y \in binding : y.owner = q}}
        BY DEF HeldIsBound
      <3>2. CASE q = p
        <4>1. held'[q] = held[q] \cup {e}
          BY <1>2, <3>2 DEF Typed
        <4>2. {y \in binding' : y.owner = q} = {y \in binding : y.owner = q} \cup {c}
          BY <1>2, <3>2
        <4>3. e = [h |-> c.h, kind |-> c.kind]
          OBVIOUS
        <4> HIDE DEF c, e
        <4> QED
          BY <3>1, <4>1, <4>2, <4>3
      <3>3. CASE q /= p
        <4>1. held'[q] = held[q]
          BY <1>2, <3>3 DEF Typed
        <4>2. {y \in binding' : y.owner = q} = {y \in binding : y.owner = q}
          BY <1>2, <3>3
        <4> QED
          BY <3>1, <4>1, <4>2
      <3> QED
        BY <3>2, <3>3
    <2> QED
      BY <2>2, <2>4, <2>5
  <1> QED
    BY <1>1, <1>2 DEF Settle

\* Releasing a binding takes its handle, and only its handle, from its owner.
LEMMA ReleaseInv ==
    ASSUME Typed, BoundOnce, HeldIsBound, NEW p \in Providers, NEW b \in binding, Release(p, b)
    PROVE  /\ held' \in [Providers -> SUBSET Held] /\ binding' \in SUBSET Bindings
           /\ BoundOnce' /\ HeldIsBound'
  <1> DEFINE e == [h |-> b.h, kind |-> b.kind]
  <1>1. held' = [held EXCEPT ![p] = @ \ {e}] /\ binding' = binding \ {b} /\ b.owner = p
    BY DEF Release, Owned
  <1>2. held' \in [Providers -> SUBSET Held] /\ binding' \in SUBSET Bindings /\ BoundOnce'
    BY <1>1 DEF Typed, BoundOnce
  <1>3. HeldIsBound'
    <2> SUFFICES ASSUME NEW q \in Providers
                 PROVE  held'[q] = {[h |-> x.h, kind |-> x.kind] : x \in {y \in binding' : y.owner = q}}
      BY DEF HeldIsBound
    <2>1. held[q] = {[h |-> x.h, kind |-> x.kind] : x \in {y \in binding : y.owner = q}}
      BY DEF HeldIsBound
    <2>2. CASE q = p
      <3>1. held'[q] = held[q] \ {e}
        BY <1>1, <2>2 DEF Typed
      <3>2. {y \in binding' : y.owner = q} = {y \in binding : y.owner = q} \ {b}
        BY <1>1, <2>2
      <3>3. \A x \in {y \in binding : y.owner = q} : x /= b => [h |-> x.h, kind |-> x.kind] /= e
        BY <1>1, <2>2 DEF BoundOnce
      <3> QED
        BY <2>1, <3>1, <3>2, <3>3
    <2>3. CASE q /= p
      <3>1. held'[q] = held[q]
        BY <1>1, <2>3 DEF Typed
      <3>2. {y \in binding' : y.owner = q} = {y \in binding : y.owner = q}
        BY <1>1, <2>3
      <3> QED
        BY <2>1, <3>1, <3>2
    <2> QED
      BY <2>2, <2>3
  <1> QED
    BY <1>2, <1>3

\* A step that leaves bindings and transfers alone and reports nothing.
LEMMA QuietStep ==
    ASSUME IInv, UNCHANGED <<held, binding, pending, sent>>,
           mem' \in [Providers -> [src : Content, dst : Content]],
           TransferIsExact'
    PROVE  IInv'
  BY DEF IInv, Typed, BoundOnce, HeldIsBound, Remembered

LEMMA NextInv == IInv /\ [Next]_vars => IInv'
  <1> SUFFICES ASSUME IInv, [Next]_vars PROVE IInv'
    OBVIOUS
  <1>t. Typed /\ BoundOnce /\ HeldIsBound /\ Remembered /\ TransferIsExact
    BY DEF IInv
  <1>1. ASSUME NEW p \in Providers, LinkChanges(p) PROVE IInv'
    BY <1>t, <1>1, QuietStep DEF LinkChanges, TransferIsExact, Typed
  <1>2. ASSUME NEW p \in Providers, Write(p) PROVE IInv'
    <2>1. mem' \in [Providers -> [src : Content, dst : Content]]
      BY <1>t, <1>2 DEF Write, Typed, Content
    <2> QED
      BY <1>t, <1>2, <2>1, QuietStep DEF Write, TransferIsExact
  <1>3. ASSUME NEW p \in Providers, RegisterProvider(p) PROVE IInv'
    BY <1>t, <1>3, QuietStep DEF RegisterProvider, TransferIsExact, Typed, Quiet
  <1>4. ASSUME NEW p \in Providers, RegisterRegion(p) PROVE IInv'
    <2>1. PICK h \in FreeHandles(p), a \in Answers(RegionLen) : Settle(p, "region", h, RegionLen, a)
      BY <1>4 DEF RegisterRegion
    <2>2. RegionLen \in Int /\ "region" \in Kinds
      BY ChannelAssumption DEF Kinds
    <2>3. /\ held' \in [Providers -> SUBSET Held] /\ binding' \in SUBSET Bindings
          /\ BoundOnce' /\ HeldIsBound'
      BY <1>t, <2>1, <2>2, SettleInv
    <2> QED
      BY <1>t, <1>4, <2>3 DEF RegisterRegion, IInv, Typed, Remembered, TransferIsExact, Quiet
  <1>5. ASSUME NEW p \in Providers, NEW d \in remote, NEW r \in Ranges, MapRegion(p, d, r) PROVE IInv'
    <2>1. PICK h \in FreeHandles(p), a \in Answers(r.len) : Settle(p, "mapping", h, r.len, a)
      BY <1>5 DEF MapRegion
    <2>2. r.len \in Int /\ RegionLen \in Int /\ "mapping" \in Kinds
      BY ChannelAssumption DEF Kinds
    <2>3. /\ held' \in [Providers -> SUBSET Held] /\ binding' \in SUBSET Bindings
          /\ BoundOnce' /\ HeldIsBound'
      BY <1>t, <2>1, <2>2, SettleInv
    <2>4. TransferIsExact'
      <3>1. Within(r, RegionLen) /\ last' = [op |-> "request", range |-> r, len |-> RegionLen]
        BY <1>5 DEF MapRegion
      <3> QED
        BY <2>2, <3>1, WithinFits, Zenon DEF TransferIsExact
    <2> QED
      BY <1>t, <1>5, <2>3, <2>4 DEF MapRegion, IInv, Typed, Remembered
  <1>6. ASSUME NEW p \in Providers, NEW d \in remote, NEW r \in Ranges, NEW b \in binding,
               NEW s \in Sums, SubmitTransfer(p, b, d, r, s)
        PROVE  IInv'
    <2> DEFINE id == pending[p].id + 1
               t0 == [p |-> p, id |-> id, len |-> r.len, sum |-> s, copied |-> mem[p].src]
    <2>1. /\ pending' = [pending EXCEPT ![p] = [id |-> id, len |-> r.len, sum |-> mem[p].src]]
          /\ sent' = sent \cup {t0} /\ mem' = [mem EXCEPT ![p].dst = mem[p].src]
          /\ last' = [op |-> "request", range |-> r, len |-> RegionLen]
          /\ b.kind = "region" /\ Within(r, b.len)
          /\ UNCHANGED <<held, binding>>
      BY <1>6 DEF SubmitTransfer
    <2>2. r.len \in Int /\ id \in Nat /\ mem[p].src \in Content
      BY <1>t, ChannelAssumption DEF Typed, Completions
    <2>3. Typed'
      BY <1>t, <2>1, <2>2 DEF Typed, Completions, Transfers
    <2>4. Remembered'
      <3> SUFFICES ASSUME NEW t \in sent'
                   PROVE  /\ t.id <= pending'[t.p].id
                          /\ t.id = pending'[t.p].id => pending'[t.p].sum = t.copied
        BY DEF Remembered
      <3>1. CASE t = t0
        BY <1>t, <2>1, <2>2, <3>1 DEF Typed
      <3>2. CASE t \in sent /\ t.p = p
        <4>1. t.id <= pending[p].id /\ t.id \in Nat /\ pending[p].id \in Nat
          BY <1>t, <3>2 DEF Remembered, Typed, Transfers, Completions
        <4>2. pending'[p].id = pending[p].id + 1
          BY <1>t, <2>1 DEF Typed
        <4> QED
          BY <3>2, <4>1, <4>2
      <3>3. CASE t \in sent /\ t.p /= p
        <4>1. pending'[t.p] = pending[t.p]
          BY <1>t, <2>1, <3>3 DEF Typed, Transfers
        <4> QED
          BY <1>t, <3>3, <4>1 DEF Remembered
      <3> QED
        BY <2>1, <3>1, <3>2, <3>3
    <2>5. BoundOnce' /\ HeldIsBound'
      BY <1>t, <2>1 DEF BoundOnce, HeldIsBound
    <2>6. TransferIsExact'
      <3>1. b.len = RegionLen /\ RegionLen \in Int
        BY <1>t, <2>1, ChannelAssumption DEF BoundOnce
      <3> QED
        BY <2>1, <3>1, WithinFits DEF TransferIsExact
    <2> QED
      BY <2>3, <2>4, <2>5, <2>6 DEF IInv
  <1>7. ASSUME NEW p \in Providers, NEW b \in binding, Release(p, b) PROVE IInv'
    <2>1. /\ held' \in [Providers -> SUBSET Held] /\ binding' \in SUBSET Bindings
          /\ BoundOnce' /\ HeldIsBound'
      BY <1>t, <1>7, ReleaseInv
    <2> QED
      BY <1>t, <1>7, <2>1 DEF Release, IInv, Typed, Remembered, TransferIsExact, Quiet
  <1>8. ASSUME NEW p \in Providers, NEW b \in binding, NEW r \in Ranges, NEW s \in Sums,
               NEW op \in {"publish", "invalidate", "wait"}, RangeBegin(p, b, r, s, op)
        PROVE  IInv'
    <2>1. Within(r, b.len) /\ b.len \in Int /\ last' = [op |-> "request", range |-> r, len |-> b.len]
      BY <1>t, <1>8 DEF RangeBegin, Typed, Bindings
    <2>2. TransferIsExact'
      BY <2>1, WithinFits DEF TransferIsExact
    <2> QED
      BY <1>t, <1>8, <2>2, QuietStep DEF RangeBegin, Typed
  <1>9. ASSUME NEW f \in Frames, ReceiveFrame(f) PROVE IInv'
    BY <1>t, <1>9, QuietStep DEF ReceiveFrame, TransferIsExact, Typed, Quiet
  <1>10. ASSUME NEW t \in sent, PollTransfer(t) PROVE IInv'
    <2>1. sent' \subseteq sent /\ UNCHANGED <<held, binding, mem, pending>>
      BY <1>10 DEF PollTransfer
    <2>2. TransferIsExact'
      <3>1. CASE Exact(t, pending[t.p])
        <4>1. pending[t.p].sum = t.copied
          BY <1>t, <3>1 DEF Exact, Remembered
        <4> QED
          BY <1>10, <3>1, <4>1 DEF PollTransfer, Exact, TransferIsExact
      <3>2. CASE ~Exact(t, pending[t.p])
        BY <1>10, <3>2 DEF PollTransfer, TransferIsExact, Quiet
      <3> QED
        BY <3>1, <3>2
    <2> QED
      BY <1>t, <2>1, <2>2 DEF IInv, Typed, BoundOnce, HeldIsBound, Remembered
  <1>11. ASSUME NEW x \in range, RangeOperate(x) \/ RangeEnd(x) PROVE IInv'
    <2>1. TransferIsExact'
      BY <1>11 DEF RangeOperate, RangeEnd, Confirmed, TransferIsExact, Quiet
    <2> QED
      BY <1>t, <1>11, <2>1, QuietStep DEF RangeOperate, RangeEnd, Typed
  <1>12. CASE UNCHANGED vars
    BY <1>t, <1>12, QuietStep DEF vars, TransferIsExact, Typed
  <1> HIDE DEF IInv
  <1> QED
    BY <1>1, <1>2, <1>3, <1>4, <1>5, <1>6, <1>7, <1>8, <1>9, <1>10, <1>11, <1>12 DEF Next

\* For any providers, handles and lengths: after any sequence of calls the
\* provider holds exactly what the application has bindings for
\* (mem_service_provider_channel_register_region, ..._unmap_remote_region).
THEOREM ChannelHoldsWhatIsBound == Spec => []HeldIsBound
  <1>1. IInv => HeldIsBound
    BY DEF IInv
  <1> QED
    BY InitInv, NextInv, <1>1, PTL DEF Spec

\* For any ranges and contents: a reported transfer or range had the bytes the
\* caller meant, and no request leaves its buffer
\* (mem_service_provider_channel_poll_transfer, ..._mapping_range).
THEOREM ReportsAreExact == Spec => []TransferIsExact
  <1>1. IInv => TransferIsExact
    BY DEF IInv
  <1> QED
    BY InitInv, NextInv, <1>1, PTL DEF Spec

-----------------------------------------------------------------------------
(* The bootstrap.  A record in the kernel's table names a pool that has    *)
(* been laid out, and whoever looks it up has the generation of the node   *)
(* that published it; with a new generation for every start this ties an   *)
(* import to the incarnation of its importer.                              *)

BootPcs == {"down", "layout", "lookup", "activate", "active", "announced", "started", "failed"}
Pools == [ready : BOOLEAN, directory : BOOLEAN, marker : BOOLEAN]
UpTo == 0 .. Incarnations

BootTyped ==
    /\ inc \in [BootNodes -> UpTo] /\ pc \in [BootNodes -> BootPcs]
    /\ table \in [BootNodes -> UpTo]
    /\ metas \in [BootNodes -> [BootNodes -> UpTo]]
    /\ slots \in [BootNodes -> [BootNodes -> UpTo]]
    /\ egress \in [BootNodes -> SUBSET BootNodes]
    /\ pool \in [BootNodes -> [Incs -> Pools]]
    /\ \A n \in BootNodes : pc[n] # "down" => inc[n] # 0

\* The pool of an incarnation is complete as an importer sees it.
Laid(r) == r.ready = TRUE /\ r.directory = TRUE

\* An import belongs to the start of its importer.
OfStart(i, own) == Bumped => i \in {0, own}

ImportInv ==
    /\ \A p \in BootNodes : table[p] # 0 => Laid(pool[p][table[p]])
    /\ \A n \in BootNodes, p \in BootNodes :
          /\ metas[n][p] # 0 => Laid(pool[p][metas[n][p]])
          /\ OfStart(metas[n][p], inc[n]) /\ OfStart(slots[n][p], inc[n])
          /\ slots[n][p] # 0 => p \in egress[n]

\* A ready marker is only in a pool whose exporter has come as far as that.
MarkerInv ==
    \A n \in BootNodes, i \in Incs : pool[n][i].marker = TRUE =>
        \/ i < inc[n]
        \/ i = inc[n] /\ pc[n] \in {"announced", "started", "failed", "down"}

\* A worker through the barrier has found the coordinator's marker.
StartedInv ==
    \A w \in Workers : Bumped /\ pc[w] = "started" => pool[0][inc[w]].marker = TRUE

BootInv == BootTyped /\ ImportInv /\ MarkerInv /\ StartedInv

LEMMA BootFacts ==
    /\ 0 \in BootNodes /\ Workers \subseteq BootNodes /\ 0 \notin Workers
    /\ 0 \in UpTo /\ Incs \subseteq UpTo /\ \A i \in UpTo : i # 0 => i \in Incs
    /\ \A i \in UpTo : i < Incarnations => i + 1 \in Incs
BY BootAssumption DEF BootNodes, Workers, UpTo, Incs

LEMMA BootInitInv == BootInit => BootInv
<1> SUFFICES ASSUME BootInit PROVE BootInv
  OBVIOUS
<1>1. Nothing \in Pools /\ Nothing.marker = FALSE
  BY DEF Nothing, Pools
<1>2. NoPeers \in [BootNodes -> UpTo] /\ \A p \in BootNodes : NoPeers[p] = 0
  BY BootFacts DEF NoPeers
<1>3. BootTyped
  BY <1>1, <1>2, BootFacts DEF BootInit, BootTyped, BootPcs
<1>4. ImportInv
  BY <1>2 DEF BootInit, ImportInv, OfStart
<1>5. MarkerInv /\ StartedInv
  BY <1>1, BootFacts DEF BootInit, MarkerInv, StartedInv
<1> QED
  BY <1>3, <1>4, <1>5 DEF BootInv

Past == {"announced", "started", "failed", "down"}

\* Only the place of one node in the bootstrap changes.
LEMMA PlaceMoves ==
    ASSUME BootInv, NEW n \in BootNodes, NEW s \in BootPcs, pc' = [pc EXCEPT ![n] = s],
           UNCHANGED <<inc, table, metas, slots, egress, pool>>,
           s # "down" => inc[n] # 0, s \in Past \/ pc[n] \notin Past,
           n = 0 \/ s # "started"
    PROVE  BootInv'
<1> USE DEF BootInv
<1>1. /\ pc' \in [BootNodes -> BootPcs] /\ pc'[n] = s
      /\ \A p \in BootNodes : p # n => pc'[p] = pc[p]
  BY DEF BootTyped
<1>2. BootTyped'
  BY <1>1 DEF BootTyped
<1>3. ImportInv'
  BY DEF ImportInv, Laid, OfStart
<1>4. MarkerInv'
  BY <1>1 DEF MarkerInv, Past
<1>5. StartedInv'
  BY <1>1, BootFacts DEF StartedInv
<1> QED
  BY <1>2, <1>3, <1>4, <1>5

LEMMA ExportKeeps ==
    ASSUME BootInv, NEW n \in BootNodes, Export(n)
    PROVE  BootInv'
<1> USE DEF BootInv
<1>1. /\ inc[n] \in UpTo /\ inc[n] < Incarnations /\ UNCHANGED <<table, pool>>
      /\ NoPeers \in [BootNodes -> UpTo] /\ \A p \in BootNodes : NoPeers[p] = 0
  BY BootFacts DEF Export, BootTyped, NoPeers
<1>2. PICK i \in Incs : i = inc[n] + 1
  BY <1>1, BootFacts
<1>3. /\ inc' = [inc EXCEPT ![n] = i] /\ i \in UpTo /\ i # 0
      /\ metas' = [metas EXCEPT ![n] = NoPeers] /\ slots' = [slots EXCEPT ![n] = NoPeers]
      /\ egress' = [egress EXCEPT ![n] = {}] /\ pc' = [pc EXCEPT ![n] = "layout"]
  BY <1>2, BootFacts DEF Export, Goto, Incs
<1>4. /\ inc' \in [BootNodes -> UpTo] /\ inc'[n] = i
      /\ pc' \in [BootNodes -> BootPcs] /\ pc'[n] = "layout"
      /\ metas' \in [BootNodes -> [BootNodes -> UpTo]] /\ metas'[n] = NoPeers
      /\ slots' \in [BootNodes -> [BootNodes -> UpTo]] /\ slots'[n] = NoPeers
      /\ egress' \in [BootNodes -> SUBSET BootNodes]
  BY <1>1, <1>3 DEF BootTyped, BootPcs
<1>5. \A p \in BootNodes : p # n => /\ inc'[p] = inc[p] /\ pc'[p] = pc[p]
                                    /\ metas'[p] = metas[p] /\ slots'[p] = slots[p]
                                    /\ egress'[p] = egress[p]
  BY <1>3 DEF BootTyped
<1>6. BootTyped'
  BY <1>1, <1>3, <1>4, <1>5 DEF BootTyped
<1>7. ImportInv'
  <2>2. ASSUME NEW p \in BootNodes PROVE table'[p] # 0 => Laid(pool'[p][table'[p]])
    BY <1>1 DEF ImportInv
  <2>3. ASSUME NEW m \in BootNodes, NEW p \in BootNodes
        PROVE  /\ metas'[m][p] # 0 => Laid(pool'[p][metas'[m][p]])
               /\ OfStart(metas'[m][p], inc'[m]) /\ OfStart(slots'[m][p], inc'[m])
               /\ slots'[m][p] # 0 => p \in egress'[m]
    <3>1. CASE m = n
      BY <1>1, <1>4, <3>1 DEF OfStart
    <3>2. CASE m # n
      BY <1>1, <1>5, <3>2 DEF ImportInv, Laid, OfStart
    <3> QED
      BY <3>1, <3>2
  <2> QED
    BY <2>2, <2>3 DEF ImportInv
<1>8. MarkerInv'
  <2> SUFFICES ASSUME NEW m \in BootNodes, NEW j \in Incs, pool[m][j].marker = TRUE
               PROVE  \/ j < inc'[m]
                      \/ j = inc'[m] /\ pc'[m] \in {"announced", "started", "failed", "down"}
    BY <1>1, Zenon DEF MarkerInv
  <2>1. j < inc[m] \/ (j = inc[m] /\ pc[m] \in {"announced", "started", "failed", "down"})
    BY DEF MarkerInv
  <2>2. CASE m = n
    BY <1>1, <1>2, <1>4, <2>1, <2>2 DEF UpTo, Incs
  <2>3. CASE m # n
    BY <1>5, <2>1, <2>3
  <2> QED
    BY <2>2, <2>3
<1>9. StartedInv'
  <2> SUFFICES ASSUME NEW w \in Workers, Bumped, pc'[w] = "started"
               PROVE  pool[0][inc'[w]].marker = TRUE
    BY <1>1, Zenon DEF StartedInv
  <2>1. w # n
    BY <1>4
  <2> QED
    BY <1>5, <2>1, BootFacts DEF StartedInv
<1> QED
  BY <1>6, <1>7, <1>8, <1>9

\* Lines of a layout reach the memory its importers see.
LEMMA LayoutShows ==
    ASSUME BootInv, pool' \in [BootNodes -> [Incs -> Pools]],
           \A p \in BootNodes, i \in Incs :
              /\ pool'[p][i].marker = pool[p][i].marker
              /\ Laid(pool[p][i]) => Laid(pool'[p][i]),
           UNCHANGED <<inc, metas, slots, egress>>,
           table' \in [BootNodes -> UpTo],
           \A p \in BootNodes : table'[p] # 0 => Laid(pool'[p][table'[p]]),
           \/ UNCHANGED pc
           \/ \E n \in BootNodes : /\ pc[n] = "layout"
                                   /\ pc' = [pc EXCEPT ![n] = "lookup"]
    PROVE  BootInv'
<1> USE DEF BootInv
<1>1. /\ pc' \in [BootNodes -> BootPcs]
      /\ \A p \in BootNodes : /\ pc'[p] # "down" => inc[p] # 0
                              /\ pc'[p] \in Past <=> pc[p] \in Past
                              /\ pc'[p] = "started" => pc[p] = "started"
  <2>1. CASE UNCHANGED pc
    BY <2>1 DEF BootTyped
  <2>2. ASSUME NEW n \in BootNodes, pc[n] = "layout", pc' = [pc EXCEPT ![n] = "lookup"]
        PROVE  <1>1!2 /\ pc' \in [BootNodes -> BootPcs]
    BY <2>2 DEF BootTyped, BootPcs, Past
  <2> QED
    BY <2>1, <2>2
<1>2. BootTyped'
  BY <1>1 DEF BootTyped
<1>3. ImportInv'
  <2> SUFFICES ASSUME NEW m \in BootNodes, NEW p \in BootNodes
               PROVE  /\ metas[m][p] # 0 => Laid(pool'[p][metas[m][p]])
                      /\ OfStart(metas[m][p], inc[m]) /\ OfStart(slots[m][p], inc[m])
                      /\ slots[m][p] # 0 => p \in egress[m]
    BY ZenonT(30) DEF ImportInv, OfStart, Laid
  <2>1. metas[m][p] # 0 => metas[m][p] \in Incs
    BY BootFacts DEF BootTyped
  <2> QED
    BY <2>1, Zenon DEF ImportInv
<1>4. MarkerInv'
  BY <1>1 DEF MarkerInv, Past
<1>5. StartedInv'
  <2> SUFFICES ASSUME NEW w \in Workers, Bumped, pc'[w] = "started"
               PROVE  pool'[0][inc[w]].marker = TRUE
    BY Zenon DEF StartedInv
  <2>1. inc[w] \in Incs /\ pc[w] = "started"
    BY <1>1, BootFacts DEF BootTyped
  <2> QED
    BY <2>1, BootFacts DEF StartedInv
<1> QED
  BY <1>2, <1>3, <1>4, <1>5

\* What the lines of a pool become, one at a time or both.
LEMMA PoolLines ==
    ASSUME NEW r \in Pools
    PROVE  /\ \E s \in Pools : /\ s = [r EXCEPT !.ready = TRUE]
                               /\ s.marker = r.marker /\ (Laid(r) => Laid(s))
           /\ \E s \in Pools : /\ s = [r EXCEPT !.directory = TRUE]
                               /\ s.marker = r.marker /\ (Laid(r) => Laid(s))
           /\ \E s \in Pools : /\ s = [r EXCEPT !.ready = TRUE, !.directory = TRUE]
                               /\ s.marker = r.marker /\ Laid(s)
           /\ \E s \in Pools : /\ s = [r EXCEPT !.marker = TRUE]
                               /\ s.marker = TRUE /\ (Laid(r) <=> Laid(s))
<1>1. /\ [r EXCEPT !.ready = TRUE] \in Pools /\ [r EXCEPT !.directory = TRUE] \in Pools
      /\ [r EXCEPT !.ready = TRUE, !.directory = TRUE] \in Pools
      /\ [r EXCEPT !.marker = TRUE] \in Pools
  BY Zenon DEF Pools
<1> QED
  BY <1>1, Zenon DEF Pools, Laid

LEMMA LayoutStepKeeps ==
    ASSUME BootInv, NEW n \in BootNodes, EvictHeader(n) \/ EvictDirectory(n) \/ Publish(n)
    PROVE  BootInv'
<1> USE DEF BootInv
<1>1. pc[n] = "layout" /\ UNCHANGED <<inc, metas, slots, egress>>
  BY DEF EvictHeader, EvictDirectory, Publish
<1>2. PICK i \in Incs : i = inc[n]
  BY <1>1, BootFacts DEF BootTyped
<1>3. PICK r \in Pools : r = pool[n][i]
  BY DEF BootTyped
<1>4. PICK s : /\ s \in Pools /\ s.marker = r.marker /\ (Laid(r) => Laid(s))
               /\ pool' = [pool EXCEPT ![n][i] = s]
               /\ \/ UNCHANGED <<table, pc>>
                  \/ /\ Laid(s) /\ table' = [table EXCEPT ![n] = i]
                     /\ pc' = [pc EXCEPT ![n] = "lookup"]
  <2>1. CASE EvictHeader(n)
    <3>1. pool' = [pool EXCEPT ![n][i] = [r EXCEPT !.ready = TRUE]] /\ UNCHANGED <<table, pc>>
      BY <1>2, <1>3, <2>1 DEF EvictHeader, BootTyped
    <3>2. PICK s \in Pools : /\ s = [r EXCEPT !.ready = TRUE]
                             /\ s.marker = r.marker /\ (Laid(r) => Laid(s))
      BY PoolLines, Zenon
    <3> QED
      BY <3>1, <3>2, Zenon
  <2>2. CASE EvictDirectory(n)
    <3>1. pool' = [pool EXCEPT ![n][i] = [r EXCEPT !.directory = TRUE]] /\ UNCHANGED <<table, pc>>
      BY <1>2, <1>3, <2>2 DEF EvictDirectory, BootTyped
    <3>2. PICK s \in Pools : /\ s = [r EXCEPT !.directory = TRUE]
                             /\ s.marker = r.marker /\ (Laid(r) => Laid(s))
      BY PoolLines, Zenon
    <3> QED
      BY <3>1, <3>2, Zenon
  <2>3. CASE Publish(n)
    <3>1. /\ pool' = [pool EXCEPT ![n][i] = [r EXCEPT !.ready = TRUE, !.directory = TRUE]]
          /\ table' = [table EXCEPT ![n] = i] /\ pc' = [pc EXCEPT ![n] = "lookup"]
      BY <1>2, <1>3, <2>3 DEF Publish, FlushThenPublish, Goto, BootTyped
    <3>2. PICK s \in Pools : /\ s = [r EXCEPT !.ready = TRUE, !.directory = TRUE]
                             /\ s.marker = r.marker /\ Laid(s)
      BY PoolLines, Zenon
    <3> QED
      BY <3>1, <3>2, Zenon
  <2> QED
    BY <2>1, <2>2, <2>3
<1>5. /\ pool' \in [BootNodes -> [Incs -> Pools]] /\ pool'[n][i] = s
      /\ \A p \in BootNodes, j \in Incs : p # n \/ j # i => pool'[p][j] = pool[p][j]
  BY <1>4 DEF BootTyped
<1>6. \A p \in BootNodes, j \in Incs :
         /\ pool'[p][j].marker = pool[p][j].marker
         /\ Laid(pool[p][j]) => Laid(pool'[p][j])
  BY <1>3, <1>4, <1>5
<1>7. /\ table' \in [BootNodes -> UpTo]
      /\ \A p \in BootNodes : table'[p] # 0 => Laid(pool'[p][table'[p]])
  <2>1. \A p \in BootNodes : table[p] # 0 => table[p] \in Incs /\ Laid(pool'[p][table[p]])
    BY <1>6, BootFacts DEF BootTyped, ImportInv
  <2>2. CASE UNCHANGED table
    BY <2>1, <2>2 DEF BootTyped
  <2>3. CASE Laid(s) /\ table' = [table EXCEPT ![n] = i]
    BY <1>5, <2>1, <2>3, BootFacts DEF BootTyped
  <2> QED
    BY <1>4, <2>2, <2>3, ZenonT(30)
<1> QED
  BY <1>1, <1>4, <1>5, <1>6, <1>7, LayoutShows

LEMMA LookupKeeps ==
    ASSUME BootInv, NEW n \in BootNodes, Lookup(n)
    PROVE  BootInv'
<1> USE DEF BootInv
<1>1. /\ UNCHANGED <<inc, table, slots, egress, pool>> /\ pc[n] = "lookup"
      /\ metas' = [metas EXCEPT ![n] = table] /\ pc' = [pc EXCEPT ![n] = "activate"]
  BY DEF Lookup, Goto
<1>2. /\ metas' \in [BootNodes -> [BootNodes -> UpTo]] /\ pc' \in [BootNodes -> BootPcs]
      /\ metas'[n] = table /\ pc'[n] = "activate"
      /\ \A p \in BootNodes : p # n => metas'[p] = metas[p] /\ pc'[p] = pc[p]
  BY <1>1 DEF BootTyped, BootPcs
<1>3. \A p \in BootNodes : OfStart(table[p], inc[n])
  BY DEF Lookup, Found, Generation, OfStart
<1>4. BootTyped'
  BY <1>1, <1>2 DEF BootTyped
<1>5. ImportInv'
  BY <1>1, <1>2, <1>3 DEF ImportInv
<1>6. MarkerInv'
  BY <1>1, <1>2 DEF MarkerInv
<1>7. StartedInv'
  BY <1>1, <1>2, BootFacts DEF StartedInv
<1> QED
  BY <1>4, <1>5, <1>6, <1>7

\* Imports change, each to the pool a record names or to none.
LEMMA ImportsMove ==
    ASSUME BootInv, NEW n \in BootNodes, NEW p \in BootNodes, NEW i \in UpTo, NEW j \in UpTo,
           NEW E \in SUBSET BootNodes,
           UNCHANGED <<inc, pc, table, pool>>,
           metas' = [metas EXCEPT ![n][p] = i], slots' = [slots EXCEPT ![n][p] = j],
           egress' = [egress EXCEPT ![n] = E],
           i # 0 => Laid(pool[p][i]), OfStart(i, inc[n]), j \in {0, i},
           j # 0 => p \in E, \A q \in BootNodes : q \in egress[n] /\ q # p => q \in E
    PROVE  BootInv'
<1> USE DEF BootInv
<1>1. /\ metas' \in [BootNodes -> [BootNodes -> UpTo]] /\ metas'[n][p] = i
      /\ slots' \in [BootNodes -> [BootNodes -> UpTo]] /\ slots'[n][p] = j
      /\ egress' \in [BootNodes -> SUBSET BootNodes] /\ egress'[n] = E
      /\ \A m \in BootNodes : m # n => egress'[m] = egress[m]
      /\ \A m \in BootNodes, q \in BootNodes : m # n \/ q # p =>
            metas'[m][q] = metas[m][q] /\ slots'[m][q] = slots[m][q]
  BY DEF BootTyped
<1>2. BootTyped'
  BY <1>1 DEF BootTyped
<1>3. ImportInv'
  <2>1. ASSUME NEW m \in BootNodes, NEW q \in BootNodes
        PROVE  /\ metas'[m][q] # 0 => Laid(pool[q][metas'[m][q]])
               /\ OfStart(metas'[m][q], inc[m]) /\ OfStart(slots'[m][q], inc[m])
               /\ slots'[m][q] # 0 => q \in egress'[m]
    <3>1. CASE m = n /\ q = p
      BY <1>1, <3>1 DEF OfStart
    <3>2. CASE m = n /\ q # p
      BY <1>1, <3>2 DEF ImportInv
    <3>3. CASE m # n
      BY <1>1, <3>3 DEF ImportInv
    <3> QED
      BY <3>1, <3>2, <3>3
  <2> QED
    BY <2>1 DEF ImportInv
<1>4. MarkerInv'
  BY DEF MarkerInv
<1>5. StartedInv'
  BY DEF StartedInv
<1> QED
  BY <1>2, <1>3, <1>4, <1>5

LEMMA ActivateKeeps ==
    ASSUME BootInv, NEW n \in BootNodes, NEW p \in BootNodes, Activate(n, p)
    PROVE  BootInv'
<1> USE DEF BootInv
<1>1. PICK i \in UpTo : i = metas[n][p]
  BY DEF BootTyped
<1>2. PICK E \in SUBSET BootNodes :
         /\ E = IF pool[p][i].directory THEN egress[n] \cup {p} ELSE egress[n]
  BY Zenon DEF BootTyped
<1>3. /\ UNCHANGED <<inc, pc, table, pool>> /\ metas' = [metas EXCEPT ![n][p] = i]
      /\ slots' = [slots EXCEPT ![n][p] = i] /\ egress' = [egress EXCEPT ![n] = E]
  BY <1>1, <1>2 DEF Activate, ActivateSlot, BootTyped
<1>4. i # 0 => Laid(pool[p][i]) /\ p \in E
  BY <1>1, <1>2, Zenon DEF ImportInv, Laid
<1>5. OfStart(i, inc[n]) /\ egress[n] \subseteq E
  BY <1>1, <1>2 DEF ImportInv
<1> QED
  BY <1>3, <1>4, <1>5, ImportsMove, Zenon

LEMMA RefreshKeeps ==
    ASSUME BootInv, NEW n \in BootNodes, NEW p \in BootNodes, Refresh(n, p)
    PROVE  BootInv'
<1> USE DEF BootInv
<1>1. PICK i \in Incs : i = table[p]
  BY BootFacts DEF BootTyped, Refresh, Found
<1>2. i \in UpTo /\ 0 \in UpTo /\ i # 0 /\ Laid(pool[p][i]) /\ OfStart(i, inc[n])
  BY <1>1, BootFacts DEF ImportInv, Refresh, Found, Generation, OfStart, Incs
<1>3. /\ UNCHANGED <<inc, pc, table, pool>> /\ metas' = [metas EXCEPT ![n][p] = i]
  BY <1>1 DEF Refresh
<1>4. \/ slots' = [slots EXCEPT ![n][p] = i] /\ egress' = [egress EXCEPT ![n] = egress[n] \cup {p}]
      \/ slots' = [slots EXCEPT ![n][p] = 0] /\ egress' = [egress EXCEPT ![n] = egress[n] \ {p}]
  BY <1>1, <1>2 DEF Refresh, Laid
<1>5. CASE slots' = [slots EXCEPT ![n][p] = i] /\ egress' = [egress EXCEPT ![n] = egress[n] \cup {p}]
  <2>1. PICK E \in SUBSET BootNodes : E = egress[n] \cup {p}
    BY Zenon DEF BootTyped
  <2>2. p \in E /\ \A q \in BootNodes : q \in egress[n] /\ q # p => q \in E
    BY <2>1
  <2>3. slots' = [slots EXCEPT ![n][p] = i] /\ egress' = [egress EXCEPT ![n] = E]
    BY <1>5, <2>1
  <2> QED
    BY <1>2, <1>3, <2>2, <2>3, ImportsMove, Zenon
<1>6. CASE slots' = [slots EXCEPT ![n][p] = 0] /\ egress' = [egress EXCEPT ![n] = egress[n] \ {p}]
  <2>1. PICK E \in SUBSET BootNodes : E = egress[n] \ {p}
    BY Zenon DEF BootTyped
  <2>2. \A q \in BootNodes : q \in egress[n] /\ q # p => q \in E
    BY <2>1
  <2>3. slots' = [slots EXCEPT ![n][p] = 0] /\ egress' = [egress EXCEPT ![n] = E]
    BY <1>6, <2>1
  <2> QED
    BY <1>2, <1>3, <2>2, <2>3, ImportsMove, Zenon
<1> QED
  BY <1>4, <1>5, <1>6

LEMMA AnnounceReadyKeeps ==
    ASSUME BootInv, NEW n \in BootNodes, AnnounceReady(n)
    PROVE  BootInv'
<1> USE DEF BootInv
<1>1. /\ UNCHANGED <<inc, table, metas, slots, egress>> /\ pc[n] = "active" /\ MayAnnounce(n)
  BY DEF AnnounceReady
<1>2. PICK i \in Incs : i = inc[n]
  BY <1>1, BootFacts DEF BootTyped
<1>3. PICK r \in Pools : /\ r = [pool[n][i] EXCEPT !.marker = TRUE]
                         /\ r.marker = TRUE /\ (Laid(pool[n][i]) <=> Laid(r))
  <2>1. PICK s \in Pools : s = pool[n][i]
    BY DEF BootTyped
  <2> QED
    BY <2>1, PoolLines, Zenon
<1>4. PICK s \in BootPcs : s = IF n = 0 THEN "announced" ELSE "started"
  BY DEF BootPcs
<1>5. pool' = [pool EXCEPT ![n][i] = r] /\ pc' = [pc EXCEPT ![n] = s]
  BY <1>2, <1>3, <1>4 DEF AnnounceReady, Goto, BootTyped
<1>6. /\ pool' \in [BootNodes -> [Incs -> Pools]] /\ pool'[n][i] = r
      /\ \A p \in BootNodes, j \in Incs : p # n \/ j # i => pool'[p][j] = pool[p][j]
      /\ pc' \in [BootNodes -> BootPcs] /\ pc'[n] = s
      /\ \A p \in BootNodes : p # n => pc'[p] = pc[p]
  BY <1>5 DEF BootTyped
<1>8. \A p \in BootNodes, j \in Incs :
         /\ Laid(pool'[p][j]) <=> Laid(pool[p][j])
         /\ pool[p][j].marker = TRUE => pool'[p][j].marker = TRUE
  BY <1>3, <1>6, ZenonT(30)
<1>9. BootTyped'
  BY <1>1, <1>2, <1>6, BootFacts DEF BootTyped, Incs
<1>10. ImportInv'
  <2>1. \A p \in BootNodes : table[p] # 0 => Laid(pool'[p][table[p]])
    BY <1>8, BootFacts, Zenon DEF BootTyped, ImportInv
  <2>2. \A m \in BootNodes, p \in BootNodes : metas[m][p] # 0 => Laid(pool'[p][metas[m][p]])
    BY <1>8, BootFacts DEF BootTyped, ImportInv
  <2> QED
    BY <1>1, <2>1, <2>2, Zenon DEF ImportInv
<1>11. MarkerInv'
  <2> SUFFICES ASSUME NEW m \in BootNodes, NEW j \in Incs, pool'[m][j].marker = TRUE
               PROVE  \/ j < inc[m]
                      \/ j = inc[m] /\ pc'[m] \in {"announced", "started", "failed", "down"}
    BY <1>1, Zenon DEF MarkerInv
  <2>1. CASE m = n /\ j = i
    BY <1>2, <1>4, <1>6, <2>1, Zenon
  <2>2. CASE m = n /\ j # i
    BY <1>1, <1>2, <1>6, <2>2, ZenonT(30) DEF MarkerInv
  <2>3. CASE m # n
    BY <1>6, <2>3, SMTT(30) DEF MarkerInv
  <2> QED
    BY <2>1, <2>2, <2>3
<1>12. StartedInv'
  <2> SUFFICES ASSUME NEW w \in Workers, Bumped, pc'[w] = "started"
               PROVE  pool'[0][inc[w]].marker = TRUE
    BY <1>1, Zenon DEF StartedInv
  <2>1. pool[0][inc[w]].marker = TRUE
    <3>1. CASE w # n
      BY <1>6, <3>1, BootFacts DEF StartedInv
    <3>2. CASE w = n
      <4>1. slots[n][0] = inc[n] /\ pool[0][slots[n][0]].marker
        BY <1>1, <3>2, BootFacts, Zenon DEF MayAnnounce, MarkerSeen, ImportInv, OfStart
      <4>2. pool[0][i].marker
        BY <1>2, <4>1
      <4>3. pool[0][i].marker \in BOOLEAN
        BY BootFacts DEF BootTyped, Pools
      <4> QED
        BY <1>2, <3>2, <4>2, <4>3
    <3> QED
      BY <3>1, <3>2, Zenon
  <2>2. inc[w] \in Incs
    BY <1>6, <1>9, BootFacts, <1>1 DEF BootTyped
  <2> QED
    BY <1>8, <2>1, <2>2, BootFacts
<1> QED
  BY <1>9, <1>10, <1>11, <1>12

LEMMA BootStepKeeps == BootInv /\ [BootNext]_bootVars => BootInv'
<1> SUFFICES ASSUME BootInv, [BootNext]_bootVars PROVE BootInv'
  OBVIOUS
<1>1. CASE UNCHANGED bootVars
  <2>1. UNCHANGED <<inc, pc, table, metas, slots, egress, pool>>
    BY <1>1 DEF bootVars
  <2> QED
    BY <2>1 DEF BootInv, BootTyped, ImportInv, MarkerInv, StartedInv
<1>2. ASSUME NEW n \in BootNodes, Ensure(n) PROVE BootInv'
  <2>1. PICK s \in BootPcs : s = IF egress[n] = BootPeers(n) THEN "active" ELSE "failed"
    BY DEF BootPcs
  <2>2. /\ pc' = [pc EXCEPT ![n] = s] /\ pc[n] = "activate"
        /\ UNCHANGED <<inc, table, metas, slots, egress, pool>>
    BY <1>2, <2>1 DEF Ensure, Goto
  <2>3. inc[n] # 0 /\ s # "started" /\ pc[n] \notin Past
    BY <2>1, <2>2 DEF BootInv, BootTyped, Past
  <2> QED
    BY <2>2, <2>3, PlaceMoves, Zenon
<1>3. ASSUME Start PROVE BootInv'
  <2>1. /\ pc' = [pc EXCEPT ![0] = "started"] /\ pc[0] = "announced"
        /\ UNCHANGED <<inc, table, metas, slots, egress, pool>>
    BY <1>3 DEF Start, Goto
  <2>2. inc[0] # 0 /\ "started" \in Past /\ "started" \in BootPcs
    BY <2>1, BootFacts DEF BootInv, BootTyped, Past, BootPcs
  <2> QED
    BY <2>1, <2>2, BootFacts, PlaceMoves, Zenon
<1>4. ASSUME NEW n \in BootNodes, WaitFails(n) \/ Crash(n) PROVE BootInv'
  <2>1. PICK s \in {"failed", "down"} :
           /\ pc' = [pc EXCEPT ![n] = s] /\ pc[n] # "down"
           /\ UNCHANGED <<inc, table, metas, slots, egress, pool>>
    BY <1>4 DEF WaitFails, Crash, Goto
  <2>2. s \in BootPcs /\ s \in Past /\ s # "started" /\ inc[n] # 0
    BY <2>1 DEF BootInv, BootTyped, Past, BootPcs
  <2> QED
    BY <2>1, <2>2, PlaceMoves, Zenon
<1>5. CASE BootNext
  BY <1>2, <1>3, <1>4, <1>5, ExportKeeps, LayoutStepKeeps, LookupKeeps, ActivateKeeps,
     RefreshKeeps, AnnounceReadyKeeps DEF BootNext, BootStep
<1> QED
  BY <1>1, <1>5

LEMMA BootInvMeans == BootInv => StartMeansImported
<1> SUFFICES ASSUME BootInv PROVE StartMeansImported
  OBVIOUS
<1> USE DEF BootInv
<1>1. ImportedHasQueue
  BY DEF ImportInv, ImportedHasQueue
<1>2. ASSUME Bumped, NEW w \in Workers
      PROVE  /\ slots[0][w] \in {0, inc[0]} /\ slots[w][0] \in {0, inc[w]}
             /\ pc[w] # "down" => inc[w] # 0
             /\ pc[0] # "down" => inc[0] # 0
             /\ pc[w] = "started" => inc[w] \in Incs /\ pool[0][inc[w]].marker = TRUE
  BY <1>2, BootFacts DEF ImportInv, OfStart, BootTyped, StartedInv
<1>3. Bumped => CountedHaveImported
  BY <1>2, Zenon DEF CountedHaveImported
<1>4. Bumped => WorkerSawCoordinator
  <2> SUFFICES ASSUME Bumped, NEW w \in Workers, pc[w] = "started", slots[w][0] = inc[0]
               PROVE  pc[0] \in {"announced", "started", "failed", "down"}
    BY DEF WorkerSawCoordinator
  <2>1. CASE inc[0] = 0
    BY <1>2, <2>1, BootFacts, Zenon DEF BootTyped, BootPcs
  <2>2. CASE inc[0] # 0
    <3>1. inc[0] \in Incs /\ pool[0][inc[0]].marker = TRUE
      BY <1>2, <2>2, Zenon
    <3>2. inc[0] \in Int
      BY <3>1 DEF Incs
    <3> QED
      BY <3>1, <3>2, BootFacts DEF MarkerInv
  <2> QED
    BY <2>1, <2>2
<1> QED
  BY <1>1, <1>3, <1>4 DEF StartMeansImported

\* What the start barrier promises, for any number of nodes and of starts, with
\* or without new generations: a pool that has been imported is complete and,
\* when every start has a new generation, whoever is through the barrier has met
\* the present incarnation of the other side
\* (mem_service_cluster_runtime_pipeline_start_barrier).
THEOREM BarrierMeansImported == BootSpec => []StartMeansImported
<1>1. BootInit => BootInv
  BY BootInitInv
<1>2. BootInv /\ [BootNext]_bootVars => BootInv'
  BY BootStepKeeps
<1>3. BootInv => StartMeansImported
  BY BootInvMeans
<1> QED
  BY <1>1, <1>2, <1>3, PTL DEF BootSpec
=============================================================================
