--------------------------- MODULE ProviderChannel ---------------------------
(***************************************************************************)
(* The neutral channel between an application and a data-plane provider    *)
(* (mem_service_provider.c, from the registration of a provider to the     *)
(* release of its regions).  The provider behind the channel is the        *)
(* loopback provider of the contract fixtures: it copies at submission,    *)
(* keeps one pending completion and checks a mapped range when asked.  It  *)
(* may go down at any time, refuse a call, or answer a registration with   *)
(* something else than was asked for.                                      *)
(*                                                                         *)
(* Every provider has a source and a destination buffer; their contents    *)
(* are known by their checksums, which stand for the bytes.  The           *)
(* application writes the source and the peer the destination whenever     *)
(* they like.  Offsets and lengths are words of W values.                  *)
(***************************************************************************)
EXTENDS Integers, FiniteSets

CONSTANTS
    Providers,     \* candidates for registration
    Name,          \* provider -> its name
    Caps,          \* provider -> {"region", "transfer", "mapping", "fence"}
    Ops,           \* provider -> the operations it implements
    MaxProviders,  \* MEM_SERVICE_MAX_PROVIDERS
    W,             \* offsets and lengths are 0 .. W-1
    RegionLen,     \* bytes in a buffer
    Ranges,        \* [off, len] callers ask for
    Sums,          \* checksums of what the buffers may contain
    Handles,       \* handles a provider gives out
    MaxId,         \* completions (bound)
    Frames         \* region descriptors as they arrive from a peer

\* What the constants must satisfy.
ASSUME ChannelAssumption ==
    /\ DOMAIN Name = Providers /\ DOMAIN Caps = Providers /\ DOMAIN Ops = Providers
    /\ MaxProviders \in Nat /\ MaxId \in Nat
    /\ W \in Nat /\ RegionLen \in 1 .. W - 1 /\ 0 \notin Sums
    /\ \A r \in Ranges : r.off \in 0 .. W - 1 /\ r.len \in 0 .. W - 1

States == {"ready", "down"}   \* degraded, unavailable and unknown are all down
Kinds == {"region", "mapping"}

VARIABLES
    reg,       \* providers in the registry
    real,      \* provider -> what its probe would say
    held,      \* provider -> [h, kind] the provider has given out
    binding,   \* bindings of the application: [owner, h, kind, len]
    mem,       \* provider -> [src, dst], the checksum of each buffer
    pending,   \* provider -> the one completion it remembers: [id, len, sum]
    sent,      \* transfers submitted and not polled: [p, id, len, sum]
    range,     \* the mapped-range call in progress, if any
    remote,    \* region descriptors decoded
    last       \* history: what the last call returned, with what really happened

vars == <<reg, real, held, binding, mem, pending, sent, range, remote, last>>

Quiet == [op |-> "none"]

Init ==
    /\ reg = {} /\ binding = {} /\ sent = {} /\ range = {} /\ remote = {}
    /\ real = [p \in Providers |-> "down"]
    /\ held = [p \in Providers |-> {}]
    /\ mem = [p \in Providers |-> [src |-> 0, dst |-> 0]]
    /\ pending = [p \in Providers |-> [id |-> 0, len |-> 0, sum |-> 0]]
    /\ last = Quiet

-----------------------------------------------------------------------------
(* The environment.                                                        *)

\* The link of a provider comes up or goes down.
LinkChanges(p) ==
    /\ p \in reg
    /\ \E s \in States \ {real[p]} : real' = [real EXCEPT ![p] = s]
    /\ UNCHANGED <<reg, held, binding, mem, pending, sent, range, remote, last>>

\* The application fills the source buffer, the peer the destination.
Write(p) ==
    /\ p \in reg
    /\ \E b \in {"src", "dst"} : \E s \in Sums \ {mem[p][b]} : mem' = [mem EXCEPT ![p][b] = s]
    /\ UNCHANGED <<reg, real, held, binding, pending, sent, range, remote, last>>

-----------------------------------------------------------------------------

Needs(cap) ==
    CASE cap = "region" -> {"register_region", "deregister_region"}
      [] cap = "transfer" -> {"submit_transfer", "poll_completion"}
      [] cap = "fence" -> {"wait_receive"}
      [] cap = "mapping" -> {"map_remote_region", "unmap_remote_region", "publish_range",
                             "invalidate_range", "wait_range_visible"}

OpsValid(p) ==
    /\ "probe" \in Ops[p] /\ Caps[p] /= {}
    /\ \A c \in Caps[p] : Needs(c) \subseteq Ops[p]
    /\ "fence" \in Caps[p] => "region" \in Caps[p]

RegisterProvider(p) ==
    /\ OpsValid(p) /\ Cardinality(reg) < MaxProviders /\ p \notin reg
    /\ reg' = reg \cup {p}
    /\ last' = Quiet
    /\ UNCHANGED <<real, held, binding, mem, pending, sent, range, remote>>

\* A channel is bound to one provider, which is probed again on every call
\* (binding, which looks at the whole registry, is in RoceMesh).
Ready(p) == p \in reg /\ real[p] = "ready" /\ range = {}

\* The range lies in a buffer of len bytes.
Within(r, len) == r.len /= 0 /\ r.off <= len /\ r.len <= len - r.off

\* What the provider may answer: what was asked for, another length, or a
\* failure after it has given out the handle.
Answers(len) == {[rc |-> 0, len |-> len], [rc |-> 0, len |-> len - 1], [rc |-> -1, len |-> len]}

\* An answer that is not what was asked for is given back to the provider.
Settle(p, kind, h, len, a) ==
    IF a.rc = 0 /\ a.len = len
    THEN /\ held' = [held EXCEPT ![p] = @ \cup {[h |-> h, kind |-> kind]}]
         /\ binding' = binding \cup {[owner |-> p, h |-> h, kind |-> kind, len |-> len]}
    ELSE UNCHANGED <<held, binding>>

FreeHandles(p) == {h \in Handles : \A x \in held[p] : x.h /= h}

RegisterRegion(p) ==
    /\ Ready(p) /\ "region" \in Caps[p]
    /\ \E h \in FreeHandles(p) : \E a \in Answers(RegionLen) : Settle(p, "region", h, RegionLen, a)
    /\ last' = Quiet
    /\ UNCHANGED <<reg, real, mem, pending, sent, range, remote>>

-----------------------------------------------------------------------------
(* Descriptors travel between applications as frames.                      *)

Magic == "MSRP"
NameMax == 4
DescMax == 4

\* mem_service_provider_remote_region_encode: lengths, then name and bytes.
Encode(r) ==
    [magic |-> Magic, version |-> 1, nameLen |-> r.nameLen, descLen |-> r.descLen, reserved |-> 0,
     len |-> r.len, kind |-> "host", name |-> r.name, total |-> 32 + r.nameLen + r.descLen]

\* mem_service_provider_remote_region_decode
Decodable(f) ==
    /\ f.total >= 32 /\ f.magic = Magic /\ f.version = 1 /\ f.reserved = 0
    /\ f.nameLen \in 1 .. NameMax - 1 /\ f.descLen \in 1 .. DescMax
    /\ f.total = 32 + f.nameLen + f.descLen
    /\ f.len /= 0 /\ f.kind \in {"host", "accelerator", "persistent"}

\* What is missing at the end of a frame is missing in the descriptor.
Decode(f) == [name |-> f.name, nameLen |-> f.nameLen, descLen |-> f.total - 32 - f.nameLen, len |-> f.len]

ReceiveFrame(f) ==
    /\ Decodable(f) /\ Decode(f) \notin remote
    /\ remote' = remote \cup {Decode(f)}
    /\ last' = Quiet
    /\ UNCHANGED <<reg, real, held, binding, mem, pending, sent, range>>

-----------------------------------------------------------------------------
(* Transfers.                                                              *)

\* The checksum the caller expects is the one of what it put into the source
\* some time ago.  The loopback provider copies at once.
SubmitTransfer(p, b, d, r, sum) ==
    /\ Ready(p) /\ b.owner = p /\ b.kind = "region" /\ d.name = Name[p] /\ "transfer" \in Caps[p]
    /\ Within(r, b.len) /\ Within(r, d.len)
    /\ pending[p].id < MaxId
    /\ LET id == pending[p].id + 1
       IN  /\ pending' = [pending EXCEPT ![p] = [id |-> id, len |-> r.len, sum |-> mem[p].src]]
           /\ sent' = sent \cup {[p |-> p, id |-> id, len |-> r.len, sum |-> sum, copied |-> mem[p].src]}
    /\ mem' = [mem EXCEPT ![p].dst = mem[p].src]
    /\ last' = [op |-> "request", range |-> r, len |-> RegionLen]
    /\ UNCHANGED <<reg, real, held, binding, range, remote>>

\* Mutant: the caller gets the completion whatever its checksum.
ExactAnyContent(t, c) == c.id = t.id /\ c.len = t.len

\* The provider knows the completion, and it is the one of what was asked for.
Exact(t, c) == c.id = t.id /\ c.len = t.len /\ c.sum = t.sum

PollTransfer(t) ==
    /\ Ready(t.p)
    /\ sent' = IF Exact(t, pending[t.p]) THEN sent \ {t} ELSE sent
    /\ last' = IF Exact(t, pending[t.p]) THEN [op |-> "transferred", want |-> t.sum, got |-> t.copied] ELSE Quiet
    /\ UNCHANGED <<reg, real, held, binding, mem, pending, range, remote>>

-----------------------------------------------------------------------------
(* Mapped ranges: publish, invalidate and wait_visible take three steps,   *)
(* the peer writing between them.                                          *)

MapRegion(p, d, r) ==
    /\ Ready(p) /\ "mapping" \in Caps[p] /\ d.name = Name[p] /\ Within(r, d.len) /\ d.len = RegionLen
    /\ \E h \in FreeHandles(p) : \E a \in Answers(r.len) : Settle(p, "mapping", h, r.len, a)
    /\ last' = [op |-> "request", range |-> r, len |-> RegionLen]
    /\ UNCHANGED <<reg, real, mem, pending, sent, range, remote>>

RangeBegin(p, b, r, sum, op) ==
    /\ Ready(p) /\ b.owner = p /\ b.kind = "mapping" /\ Within(r, b.len)
    /\ op = "publish" => mem[p].dst = sum
    /\ range' = {[p |-> p, op |-> op, sum |-> sum, len |-> r.len, done |-> {}]}
    /\ last' = [op |-> "request", range |-> r, len |-> b.len]
    /\ UNCHANGED <<reg, real, held, binding, mem, pending, sent, remote>>

\* The provider makes the range visible, and tells the checksum it saw.
RangeOperate(x) ==
    /\ x.done = {}
    /\ range' = {[x EXCEPT !.done = {[saw |-> mem[x.p].dst]}]}
    /\ last' = Quiet
    /\ UNCHANGED <<reg, real, held, binding, mem, pending, sent, remote>>

\* Both the answer and the bytes now have the checksum.
Confirmed(x, saw) == saw = x.sum /\ mem[x.p].dst = x.sum

RangeEnd(x) ==
    /\ \E d \in x.done :
         last' = IF Confirmed(x, d.saw) THEN [op |-> "visible", want |-> x.sum, got |-> d.saw] ELSE Quiet
    /\ range' = {}
    /\ UNCHANGED <<reg, real, held, binding, mem, pending, sent, remote>>

-----------------------------------------------------------------------------

\* Mutant: any channel will do.
OwnedByAny(p, b) == TRUE

Owned(p, b) == b.owner = p

\* Unmapping and deregistering need no ready provider; a refusal leaves the
\* binding as it is.
Release(p, b) ==
    /\ p \in reg /\ range = {} /\ Owned(p, b)
    /\ [h |-> b.h, kind |-> b.kind] \in held[p]
    /\ held' = [held EXCEPT ![p] = @ \ {[h |-> b.h, kind |-> b.kind]}]
    /\ binding' = binding \ {b}
    /\ last' = Quiet
    /\ UNCHANGED <<reg, real, mem, pending, sent, range, remote>>

Next ==
    \/ \E p \in Providers :
         \/ LinkChanges(p) \/ Write(p) \/ RegisterProvider(p) \/ RegisterRegion(p)
         \/ \E d \in remote : \E r \in Ranges :
              \/ MapRegion(p, d, r)
              \/ \E b \in binding : \E s \in Sums : SubmitTransfer(p, b, d, r, s)
         \/ \E b \in binding :
              \/ Release(p, b)
              \/ \E r \in Ranges : \E s \in Sums : \E op \in {"publish", "invalidate", "wait"} :
                   RangeBegin(p, b, r, s, op)
    \/ \E f \in Frames : ReceiveFrame(f)
    \/ \E t \in sent : PollTransfer(t)
    \/ \E x \in range : RangeOperate(x) \/ RangeEnd(x)

Spec == Init /\ [][Next]_vars

-----------------------------------------------------------------------------

TypeOK ==
    /\ reg \subseteq Providers /\ Cardinality(reg) <= MaxProviders /\ real \in [Providers -> States]
    /\ \A p \in Providers : \A x \in held[p] : x.h \in Handles /\ x.kind \in Kinds
    /\ \A b \in binding : b.owner \in reg /\ b.h \in Handles /\ b.kind \in Kinds /\ b.len \in 1 .. W - 1
    /\ \A p \in Providers : mem[p].src \in Sums \cup {0} /\ mem[p].dst \in Sums \cup {0}
    /\ \A p \in Providers : pending[p].id \in 0 .. MaxId
    /\ Cardinality(range) <= 1

\* The provider holds exactly what the application has bindings for: nothing
\* leaks when an answer is refused or a link goes down, and no release of one
\* provider's handle frees another provider's.
HeldIsBound ==
    \A p \in Providers : held[p] = {[h |-> b.h, kind |-> b.kind] : b \in {c \in binding : c.owner = p}}

\* What a call reports or asks for is exact.  A transfer is reported complete
\* only if the bytes that were copied are the ones the caller meant: not what
\* the source held by then, and not the copy of a later transfer.  A range is
\* reported published or visible only if the provider saw the bytes expected.
\* No provider is asked for bytes outside the buffer, whatever offset and
\* length the caller gives, words that wrap around included.
TransferIsExact ==
    /\ last.op \in {"transferred", "visible"} => last.got = last.want
    /\ last.op = "request" => last.range.off + last.range.len <= last.len

\* A descriptor the application holds is one a peer exported, whole.
DecodedIsWhole ==
    \A d \in remote : \E f \in Frames : f = Encode(d) /\ d.descLen = f.descLen

=============================================================================
