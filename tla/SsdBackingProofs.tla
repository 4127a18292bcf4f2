-------------------------- MODULE SsdBackingProofs --------------------------
(***************************************************************************)
(* Views stay intact (SsdBacking!ViewsIntact), for any number of nodes,    *)
(* keys and calls, any sizes and any failures of the devices.              *)
(*                                                                         *)
(* The argument.  A payload in use, be it of a record or of a view, lies   *)
(* below the mark of its arena, and its bytes are those of a payload.  A   *)
(* read the device has still to execute, however late, goes into bytes of  *)
(* its own node that nothing has been written to; what is above the mark   *)
(* has not been written to either.  So whatever a step writes, it writes   *)
(* where no payload in use lies.  That a read goes where it was sent is    *)
(* because regions lie apart in the address space.                         *)
(***************************************************************************)
EXTENDS SsdBacking, SequenceTheorems, TLAPS

\* A payload in use: below the mark, and there.
Safe(n, off, len, v) ==
    /\ off + len <= arena[n]
    /\ len = 0 \/ v /= 0
    /\ \A c \in Span(off, len) : mem[n][c] = v

SafeRecord(n, r) ==
    /\ Safe(n, r.off, r.len, r.val)
    /\ r.back = NoBack \/ r.back.bytes /= 0

RecordsSafe ==
    \A n \in Nodes : \A k \in Keys : SafeRecord(n, table[n][k]) /\ SafeRecord(n, published[n][k])

ViewsSafe == \A w \in views : Safe(w.node, w.off, w.len, w.val)

\* A call that reads knows what to expect; one that publishes has put records.
CallsSafe ==
    \A n \in Nodes :
      /\ call[n].pc = "reading" =>
           /\ call[n].rec.len /= 0 /\ call[n].rec.val /= 0
           /\ call[n].off + call[n].rec.len <= arena[n]
      /\ \A i \in 1 .. Len(call[n].keys) : table[n][call[n].keys[i]].len /= 0

\* What lies above the mark has not been written to.
Untouched == \A n \in Nodes : \A c \in Cells : c >= arena[n] => mem[n][c] = 0

\* Node n has bytes m, of which those from a on are free.  A command is about
\* bytes of the node below a, and a read goes into bytes that have not been
\* written to and that no later read goes into.
Sent(a, n, d) ==
    /\ n \in Placed
    /\ d.base >= GsvaBase(n, 0) /\ d.base + d.bytes <= GsvaBase(n, a)

Blank(m, n, d) == \A c \in Span(d.base - GsvaBase(n, 0), d.bytes) : m[c] = 0

QueueSafe(m, a, n, q) ==
    \A i \in 1 .. Len(q) :
      /\ Sent(a, n, q[i])
      /\ q[i].op = "read" =>
           /\ Blank(m, n, q[i])
           /\ \A j \in i + 1 .. Len(q) : q[j].op = "read" => q[i].base + q[i].bytes <= q[j].base

CommandsSafe == \A n \in Nodes : QueueSafe(mem[n], arena[n], n, cmds[n])

\* The inductive invariant.
IInv ==
    TypeOK /\ RecordsSafe /\ ViewsSafe /\ CallsSafe /\ Untouched /\ CommandsSafe

-----------------------------------------------------------------------------
(* Constants and types.                                                    *)

LEMMA Sizes ==
    /\ PayloadUnits \in Nat /\ ArenaBase \in Nat /\ ArenaBase < PayloadUnits
    /\ PayloadOffset \in Nat /\ RegionUnits = PayloadOffset + PayloadUnits
    /\ \A n \in Nodes : HomeVa[n] \in Nat
  BY SsdAssumption DEF SsdConstants, PayloadUnits, Cells

LEMMA BaseTypes ==
    /\ NoRecord \in Rec /\ NoBlock \in Block /\ Idle \in Call /\ NoBack \in Back
  <1>1. 0 \in Bytes
    BY SsdAssumption DEF SsdConstants, Bytes
  <1>2. NoRecord \in Rec
    BY <1>1 DEF NoRecord, Rec, Back
  <1>3. Idle \in Call
    BY <1>2 DEF Idle, Call
  <1>4. NoBlock \in Block /\ NoBack \in Back
    BY <1>1 DEF NoBlock, Block, Back
  <1> QED
    BY <1>2, <1>3, <1>4

LEMMA BlockTypes ==
    ASSUME NEW n \in Nodes, NEW k \in Keys
    PROVE  DeviceOf(n) \in Devices /\ <<n, k>> \in Blocks
  BY DEF Devices, Blocks

\* What the bundles of a publication are.
LEMMA BundleTypes ==
    ASSUME NEW ks \in Bundles
    PROVE  /\ ks \in Seq(Keys) /\ Len(ks) \in {1, 2} /\ ks[1] \in Keys
           /\ \A i \in DOMAIN ks : ks[i] \in Keys /\ UnitsOf[ks[i]] \in Nat \ {0}
           /\ BundleUnits(ks) \in Nat \ {0}
           /\ \A i, j \in DOMAIN ks : ks[i] = ks[j] => i = j
  <1>1. ks \in Seq(Keys)
    BY SsdAssumption DEF SsdConstants
  <1>2. Len(ks) \in {1, 2} /\ ks[1] \in Keys
    <2>1. Len(ks) \in {1, 2}
      BY SsdAssumption DEF SsdConstants
    <2> QED
      BY <1>1, <2>1, ElementOfSeq
  <1>3. \A i \in DOMAIN ks : ks[i] \in Keys /\ UnitsOf[ks[i]] \in Nat \ {0}
    BY <1>1, SsdAssumption DEF SsdConstants
  <1>4. BundleUnits(ks) \in Nat \ {0}
    <2>1. UnitsOf[ks[1]] \in Nat \ {0} /\ (Len(ks) = 2 => UnitsOf[ks[2]] \in Nat \ {0})
      BY <1>1, <1>2, <1>3, LenProperties
    <2> QED
      BY <1>2, <2>1 DEF BundleUnits
  <1>5. \A i, j \in DOMAIN ks : ks[i] = ks[j] => i = j
    BY SsdAssumption DEF SsdConstants
  <1> QED
    BY <1>1, <1>2, <1>3, <1>4, <1>5

\* The content of some bytes is a payload or none.
LEMMA ContentType ==
    ASSUME NEW n, NEW off \in Int, NEW len \in Nat \ {0}
    PROVE  Content(n, off, len) \in Bytes
  <1>1. off \in Span(off, len)
    BY DEF Span
  <1>2. ASSUME NEW v \in Values, \A c \in Span(off, len) : mem[n][c] = v
        PROVE  mem[n][off] \in Bytes
    BY <1>1, <1>2, SsdAssumption DEF SsdConstants, Values, Bytes
  <1> QED
    BY <1>2, SsdAssumption DEF SsdConstants, Content, Bytes

-----------------------------------------------------------------------------
(* Addresses.                                                              *)

\* An address of a region belongs to no other.
LEMMA OwnerIs ==
    ASSUME NEW n \in Placed, NEW base \in Nat,
           base >= HomeVa[n], base < HomeVa[n] + RegionUnits
    PROVE  Owner(base) = n
  <1>1. base \in Span(HomeVa[n], RegionUnits)
    BY Sizes DEF Span, Placed
  <1>2. ASSUME NEW m \in Placed, base \in Span(HomeVa[m], RegionUnits) PROVE m = n
    <2>1. HomeVa[m] \in Nat /\ HomeVa[n] \in Nat /\ RegionUnits \in Nat
      BY Sizes DEF Placed
    <2>2. base >= HomeVa[m] /\ base < HomeVa[m] + RegionUnits
      BY <1>2, <2>1 DEF Span
    <2>3. m /= n =>
            HomeVa[n] + RegionUnits <= HomeVa[m] \/ HomeVa[m] + RegionUnits <= HomeVa[n]
      BY SsdAssumption DEF SsdConstants
    <2> QED
      BY <2>1, <2>2, <2>3
  <1> QED
    BY <1>1, <1>2 DEF Owner

\* The device finds the bytes the node meant.
LEMMA SentThere ==
    ASSUME TypeOK, NEW n \in Nodes, NEW d \in Command, Sent(arena[n], n, d)
    PROVE  /\ Owner(d.base) = n
           /\ Offset(d.base) = d.base - GsvaBase(n, 0)
           /\ Offset(d.base) \in Nat /\ Offset(d.base) + d.bytes <= arena[n]
  <1>1. /\ d.base \in Nat /\ d.bytes \in Nat \ {0} /\ arena[n] \in Nat /\ arena[n] <= PayloadUnits
        /\ HomeVa[n] \in Nat
    BY Sizes DEF Command, TypeOK
  <1>2. d.base >= HomeVa[n] + PayloadOffset /\ d.base + d.bytes <= HomeVa[n] + PayloadOffset + arena[n]
    BY <1>1, Sizes DEF Sent, GsvaBase
  <1>3. d.base >= HomeVa[n] /\ d.base < HomeVa[n] + RegionUnits
    BY <1>1, <1>2, Sizes
  <1>4. Owner(d.base) = n
    BY <1>1, <1>3, OwnerIs DEF Sent
  <1>5. Offset(d.base) = d.base - HomeVa[n] - PayloadOffset
    BY <1>4 DEF Offset
  <1>6. Offset(d.base) = d.base - GsvaBase(n, 0)
    BY <1>1, <1>5, Sizes DEF GsvaBase
  <1> QED
    BY <1>1, <1>2, <1>4, <1>5, <1>6, Sizes

-----------------------------------------------------------------------------
(* A step writes where no payload in use lies.                             *)

Preserves ==
    \A m \in Nodes :
      /\ arena[m] <= arena'[m]
      /\ \A c \in Cells : c < arena[m] /\ mem[m][c] /= 0 => mem'[m][c] = mem[m][c]

LEMMA SafeStays ==
    ASSUME TypeOK, TypeOK', Preserves,
           NEW n \in Nodes, NEW off \in Nat, NEW len \in Nat, NEW v \in Nat, Safe(n, off, len, v)
    PROVE  Safe(n, off, len, v)'
  <1>1. arena[n] \in Nat /\ arena'[n] \in Nat /\ arena[n] <= PayloadUnits /\ arena[n] <= arena'[n]
    BY Sizes DEF TypeOK, Preserves
  <1>2. ASSUME NEW c \in Span(off, len) PROVE mem'[n][c] = v
    <2>1. c \in Nat /\ c < off + len /\ len /= 0
      BY <1>2 DEF Span
    <2>2. c \in Cells /\ c < arena[n]
      BY <1>1, <2>1, Sizes DEF Safe, Cells
    <2>3. mem[n][c] = v /\ v /= 0
      BY <1>2, <2>1 DEF Safe
    <2> QED
      BY <2>2, <2>3 DEF Preserves
  <1> QED
    BY <1>1, <1>2 DEF Safe

-----------------------------------------------------------------------------
(* Types.                                                                  *)

CallTypes ==
    /\ call \in [Nodes -> Call]
    /\ \A n \in Nodes : call[n].pc \in {"attach", "writing"} => call[n].keys /= <<>>

LEMMA ReturnTypes ==
    ASSUME TypeOK, NEW n \in Nodes, call' = [call EXCEPT ![n] = Idle]
    PROVE  CallTypes'
  BY BaseTypes DEF TypeOK, CallTypes, Idle

\* The next object of a publication, or none.
LEMMA NextObjectTypes ==
    ASSUME TypeOK, NEW n \in Nodes, call[n].pc \in {"attach", "writing"}, NextObject(n)
    PROVE  CallTypes' /\ Current(n) \in Keys
  <1>1. call[n] \in Call /\ call[n].keys \in Seq(Keys) /\ call[n].keys /= <<>>
    BY DEF TypeOK, Call
  <1> DEFINE rest == Tail(call[n].keys)
             p == IF rest = <<>> THEN "announce" ELSE "attach"
  <1>2. Head(call[n].keys) \in Keys /\ rest \in Seq(Keys)
    BY <1>1, HeadTailProperties
  <1>3. p \in {"announce", "attach"} /\ (p = "attach" => rest /= <<>>)
    OBVIOUS
  <1>4. call' = [call EXCEPT ![n].keys = rest, ![n].pc = p]
    BY DEF NextObject
  <1> HIDE DEF rest, p
  <1>5. call'[n] \in Call /\ call'[n].pc = p /\ call'[n].keys = rest
    BY <1>1, <1>2, <1>3, <1>4, Zenon DEF TypeOK, Call
  <1>6. \A m \in Nodes : m /= n => call'[m] = call[m]
    BY <1>4 DEF TypeOK
  <1>7. call' \in [Nodes -> Call]
    BY <1>4, <1>5, <1>6 DEF TypeOK
  <1> QED
    BY <1>2, <1>3, <1>5, <1>6, <1>7, Zenon DEF CallTypes, TypeOK, Current

LEMMA BeginTypes ==
    ASSUME TypeOK, NEW n \in Nodes, Begin(n)
    PROVE  calls' \in 0 .. MaxCalls
  BY SsdAssumption DEF TypeOK, Begin, SsdConstants

LEMMA AllocTypes ==
    ASSUME TypeOK, NEW n \in Nodes, NEW len \in Nat, HasRoom(n, len), Alloc(n, len)
    PROVE  /\ arena' \in [Nodes -> ArenaBase .. PayloadUnits]
           /\ \A m \in Nodes : arena[m] <= arena'[m]
           /\ arena'[n] = arena[n] + len
  BY Sizes DEF TypeOK, HasRoom, Alloc

\* What a block of the device holds is a byte, as are zeros.
LEMMA BlockByte ==
    ASSUME NEW b \in Block
    PROVE  b.val \in Bytes /\ 0 \in Bytes
  BY SsdAssumption DEF Block, Bytes, SsdConstants

\* The command that is next.
LEMMA FirstCommand ==
    ASSUME TypeOK, NEW n \in Nodes, cmds[n] /= <<>>
    PROVE  /\ Head(cmds[n]) \in Command /\ Head(cmds[n]) = cmds[n][1]
           /\ 1 \in 1 .. Len(cmds[n])
  <1>1. cmds[n] \in Seq(Command)
    BY DEF TypeOK
  <1>2. Head(cmds[n]) \in Command
    BY <1>1, HeadTailProperties
  <1>3. 1 \in 1 .. Len(cmds[n])
    BY <1>1, EmptySeq
  <1> QED
    BY <1>1, <1>2, <1>3

\* The command is taken off the queue, and answered.
LEMMA CompletesTypes ==
    ASSUME TypeOK, NEW n \in Nodes, cmds[n] /= <<>>, NEW ok \in BOOLEAN, NEW b \in Block,
           Completes(n, ok, b)
    PROVE  cmds' \in [Nodes -> Seq(Command)] /\ cpls' \in [Nodes -> Seq(Completion)]
  <1> DEFINE cmd == Head(cmds[n])
             cpl == [ok |-> ok, block |-> cmd.block, bytes |-> b.bytes, sum |-> b.val]
  <1>1. cmd \in Command /\ Tail(cmds[n]) \in Seq(Command)
    BY HeadTailProperties DEF TypeOK
  <1>2. cpl \in Completion
    BY <1>1 DEF Command, Completion, Block
  <1>3. Append(cpls[n], cpl) \in Seq(Completion)
    BY <1>2, AppendProperties DEF TypeOK
  <1>4. cmds' = [cmds EXCEPT ![n] = Tail(@)]
    BY DEF Completes
  <1>5. cpls' = cpls \/ cpls' = [cpls EXCEPT ![n] = Append(@, cpl)]
    BY DEF Completes
  <1> HIDE DEF cmd, cpl
  <1>6. cmds' \in [Nodes -> Seq(Command)]
    BY <1>1, <1>4 DEF TypeOK
  <1>7. cpls' \in [Nodes -> Seq(Completion)]
    BY <1>3, <1>5, Zenon DEF TypeOK
  <1> QED
    BY <1>6, <1>7

\* Commands nobody listens to any more remain the commands they were.
LEMMA AbandonTypes ==
    ASSUME TypeOK, NEW n \in Nodes, Abandon(n)
    PROVE  /\ cmds' \in [Nodes -> Seq(Command)] /\ cpls' \in [Nodes -> Seq(Completion)]
           /\ \A m \in Nodes :
                /\ Len(cmds'[m]) = Len(cmds[m])
                /\ \A i \in 1 .. Len(cmds[m]) :
                     /\ cmds'[m][i].op = cmds[m][i].op
                     /\ cmds'[m][i].base = cmds[m][i].base /\ cmds'[m][i].bytes = cmds[m][i].bytes
  <1> DEFINE mute == [i \in DOMAIN cmds[n] |-> [cmds[n][i] EXCEPT !.heard = FALSE]]
  <1>1. cmds[n] \in Seq(Command) /\ DOMAIN cmds[n] = 1 .. Len(cmds[n]) /\ Len(cmds[n]) \in Nat
    BY LenProperties DEF TypeOK
  <1>2. ASSUME NEW i \in 1 .. Len(cmds[n])
        PROVE  /\ mute[i] \in Command /\ mute[i].op = cmds[n][i].op
               /\ mute[i].base = cmds[n][i].base /\ mute[i].bytes = cmds[n][i].bytes
    <2>1. cmds[n][i] \in Command
      BY <1>1, ElementOfSeq
    <2>2. mute[i] = [cmds[n][i] EXCEPT !.heard = FALSE]
      BY <1>1
    <2> HIDE DEF mute
    <2> QED
      BY <2>1, <2>2, Zenon DEF Command
  <1>3. mute \in Seq(Command) /\ Len(mute) = Len(cmds[n])
    <2>1. mute \in [1 .. Len(cmds[n]) -> Command]
      BY <1>1, <1>2, Zenon
    <2> HIDE DEF mute
    <2> QED
      BY <1>1, <2>1
  <1>4. CASE UNCHANGED <<cmds, cpls>>
    BY <1>4 DEF TypeOK
  <1>5. CASE cpls' = [cpls EXCEPT ![n] = <<>>] /\ cmds' = [cmds EXCEPT ![n] = mute]
    <2> HIDE DEF mute
    <2>1. cmds'[n] = mute /\ \A m \in Nodes : m /= n => cmds'[m] = cmds[m]
      BY <1>5 DEF TypeOK
    <2>2. cmds' \in [Nodes -> Seq(Command)]
      BY <1>3, <1>5 DEF TypeOK
    <2>3. cpls' \in [Nodes -> Seq(Completion)]
      BY <1>5 DEF TypeOK
    <2> QED
      BY <1>2, <1>3, <2>1, <2>2, <2>3, Zenon
  <1> QED
    BY <1>4, <1>5 DEF Abandon

\* What a publication puts into memory and table.
LEMMA PublishTypes ==
    ASSUME TypeOK, NEW n \in Nodes, NEW ks \in Bundles, NEW vs \in [DOMAIN ks -> Values],
           HasRoom(n, BundleUnits(ks))
    PROVE  /\ Copied(n, ks, vs) \in [Nodes -> [Cells -> Bytes]]
           /\ \A i \in DOMAIN ks : FreshRecord(n, ks, vs, i) \in Rec
           /\ \A i \in DOMAIN ks :
                /\ Place(n, ks, i) \in Nat /\ Place(n, ks, i) >= arena[n]
                /\ Place(n, ks, i) + UnitsOf[ks[i]] <= arena[n] + BundleUnits(ks)
           /\ \A i, j \in DOMAIN ks : i /= j =>
                Span(Place(n, ks, i), UnitsOf[ks[i]]) \cap Span(Place(n, ks, j), UnitsOf[ks[j]]) = {}
  <1>1. arena[n] \in Nat
    BY Sizes DEF TypeOK
  <1>2. DOMAIN ks \in {{1}, {1, 2}} /\ (DOMAIN ks = {1} <=> Len(ks) = 1)
    <2>1. DOMAIN ks = 1 .. Len(ks) /\ Len(ks) \in {1, 2}
      BY BundleTypes, LenProperties
    <2> QED
      BY <2>1
  <1>3. \A i \in DOMAIN ks : vs[i] \in Bytes /\ UnitsOf[ks[i]] \in Nat \ {0}
    BY BundleTypes, SsdAssumption DEF SsdConstants, Values, Bytes
  <1>4. ASSUME NEW i \in DOMAIN ks
        PROVE  /\ Place(n, ks, i) \in Nat /\ Place(n, ks, i) >= arena[n]
               /\ Place(n, ks, i) + UnitsOf[ks[i]] <= arena[n] + BundleUnits(ks)
    BY <1>1, <1>2, <1>3 DEF Place, BundleUnits
  <1>5. \A i \in DOMAIN ks : FreshRecord(n, ks, vs, i) \in Rec
    BY <1>3, <1>4, BaseTypes DEF FreshRecord, Rec
  <1>6. Copied(n, ks, vs) \in [Nodes -> [Cells -> Bytes]]
    BY <1>3 DEF Copied, TypeOK
  <1>7. ASSUME NEW i \in DOMAIN ks, NEW j \in DOMAIN ks, i /= j
        PROVE  Span(Place(n, ks, i), UnitsOf[ks[i]]) \cap Span(Place(n, ks, j), UnitsOf[ks[j]]) = {}
    BY <1>1, <1>2, <1>3, <1>7 DEF Place, Span
  <1> QED
    BY <1>4, <1>5, <1>6, <1>7, Zenon

\* The record a resolution looks at.
LEMMA RecordTypes ==
    ASSUME IInv, NEW n \in Nodes, NEW o \in Nodes, NEW k \in Keys
    PROVE  RecordOf(n, o, k) \in Rec /\ SafeRecord(o, RecordOf(n, o, k))
  BY DEF IInv, TypeOK, RecordsSafe, RecordOf

\* A record with a block is not empty.
LEMMA BackedTypes ==
    ASSUME NEW o \in Nodes, NEW r \in Rec, SafeRecord(o, r), r.back /= NoBack
    PROVE  /\ r.back.dev \in Devices /\ r.back.block \in Blocks
           /\ r.back.bytes = r.len => r.len \in Nat \ {0} /\ r.val /= 0
  <1>1. r.back \in [dev : Devices, block : Blocks, bytes : Nat, sum : Bytes] /\ r.len \in Nat
    BY DEF Rec, Back
  <1> QED
    BY <1>1 DEF SafeRecord, Safe

LEMMA SubmitTypes ==
    ASSUME TypeOK, NEW n \in Nodes, NEW op \in {"write", "read"}, NEW dev \in Devices,
           NEW block \in Blocks, NEW off \in Nat, NEW len \in Nat \ {0},
           Submit(n, op, dev, block, off, len)
    PROVE  cmds' \in [Nodes -> Seq(Command)]
  <1> DEFINE cmd == [op |-> op, dev |-> dev, block |-> block, heard |-> TRUE,
                     base |-> GsvaBase(n, off), bytes |-> len]
  <1>1. GsvaBase(n, off) \in Nat
    BY Sizes DEF GsvaBase
  <1>2. cmd \in Command
    BY <1>1 DEF Command
  <1>3. cmds' = [cmds EXCEPT ![n] = Append(@, cmd)]
    BY DEF Submit
  <1> HIDE DEF cmd
  <1> QED
    BY <1>2, <1>3, AppendProperties DEF TypeOK

\* The steps of a node and of its device.
LEMMA Actions ==
    ASSUME Next
    PROVE  \E n \in Nodes :
             \/ \E ks \in Bundles : PublishNoRoom(n, ks)
             \/ \E ks \in Bundles : \E vs \in [DOMAIN ks -> Values] : Publish(n, ks, vs)
             \/ NotAttached(n) \/ SubmitWrite(n) \/ WaitWrite(n) \/ Announce(n)
             \/ \E o \in Nodes : \E k \in Keys :
                  ResolveMapped(n, o, k) \/ ResolveBacked(n, o, k) \/ ResolveFails(n, o, k)
             \/ WaitRead(n) \/ IoctlFails(n) \/ DeviceGone(n)
             \/ DeviceWrites(n) \/ DeviceReads(n) \/ DeviceRefuses(n)
  <1>1. KvKeys \subseteq Keys
    BY SsdAssumption DEF SsdConstants
  <1> QED
    BY <1>1, Zenon DEF Next, Publishes, Resolves, Device

LEMMA TypesStep == IInv /\ [Next]_vars => TypeOK'
  <1> SUFFICES ASSUME IInv, [Next]_vars PROVE TypeOK'
    OBVIOUS
  <1>t. TypeOK
    BY DEF IInv
  <1>1. ASSUME NEW n \in Nodes, NEW ks \in Bundles, NEW vs \in [DOMAIN ks -> Values], Publish(n, ks, vs)
        PROVE  TypeOK'
    <2>1. calls' \in 0 .. MaxCalls
      BY <1>t, <1>1, BeginTypes DEF Publish
    <2>2. arena' \in [Nodes -> ArenaBase .. PayloadUnits]
      BY <1>t, <1>1, AllocTypes, BundleTypes DEF Publish
    <2>3. mem' \in [Nodes -> [Cells -> Bytes]]
      BY <1>t, <1>1, PublishTypes DEF Publish
    <2>4. CASE ReturnError(n) /\ UNCHANGED table
      <3>1. CallTypes' /\ failed' \in BOOLEAN
        BY <1>t, <2>4, ReturnTypes, Zenon DEF ReturnError
      <3> QED
        BY <1>t, <1>1, <2>1, <2>2, <2>3, <2>4, <3>1 DEF Publish, TypeOK, CallTypes
    <2>5. CASE /\ table' = [table EXCEPT ![n] = [k \in Keys |->
                    IF \E i \in DOMAIN ks : ks[i] = k THEN FreshRecord(n, ks, vs, IndexOf(ks, k)) ELSE @[k]]]
               /\ call' = [call EXCEPT ![n] = [Idle EXCEPT !.pc = "attach", !.keys = ks]]
               /\ UNCHANGED failed
      <3>1. \A k \in Keys : (\E i \in DOMAIN ks : ks[i] = k) => IndexOf(ks, k) \in DOMAIN ks
        BY DEF IndexOf
      <3>2. \A i \in DOMAIN ks : FreshRecord(n, ks, vs, i) \in Rec
        BY <1>t, <1>1, PublishTypes DEF Publish
      <3>3. table' \in [Nodes -> [Keys -> Rec]]
        BY <1>t, <2>5, <3>1, <3>2 DEF TypeOK
      <3>4. [Idle EXCEPT !.pc = "attach", !.keys = ks] \in Call
        BY BaseTypes, BundleTypes, Zenon DEF Call
      <3>5. ks /= <<>>
        BY BundleTypes
      <3>6. CallTypes'
        BY <1>t, <2>5, <3>4, <3>5 DEF TypeOK, CallTypes, Idle
      <3> QED
        BY <1>t, <1>1, <2>1, <2>2, <2>3, <2>5, <3>3, <3>6 DEF Publish, TypeOK, CallTypes
    <2> QED
      BY <1>1, <2>4, <2>5 DEF Publish
  <1>2. ASSUME NEW n \in Nodes, NEW ks \in Bundles, PublishNoRoom(n, ks) PROVE TypeOK'
    <2>1. UnitsOf[ks[1]] \in Nat
      BY BundleTypes, SsdAssumption, Zenon DEF SsdConstants
    <2>2. arena' \in [Nodes -> ArenaBase .. PayloadUnits]
      BY <1>t, <1>2, <2>1, AllocTypes, Zenon DEF PublishNoRoom, TypeOK
    <2>3. CallTypes' /\ failed' \in BOOLEAN
      BY <1>t, <1>2, ReturnTypes, Zenon DEF PublishNoRoom, ReturnError
    <2>4. calls' \in 0 .. MaxCalls
      BY <1>t, <1>2, BeginTypes DEF PublishNoRoom
    <2> QED
      BY <1>t, <1>2, <2>2, <2>3, <2>4, Zenon DEF PublishNoRoom, TypeOK, CallTypes
  <1>3. ASSUME NEW n \in Nodes, NotAttached(n) PROVE TypeOK'
    <2>1. CallTypes'
      BY <1>t, <1>3, NextObjectTypes DEF NotAttached
    <2> QED
      BY <1>t, <1>3, <2>1 DEF NotAttached, TypeOK, CallTypes
  <1>4. ASSUME NEW n \in Nodes, SubmitWrite(n) PROVE TypeOK'
    <2>1. call[n] \in Call /\ call[n].keys \in Seq(Keys) /\ call[n].keys /= <<>>
      BY <1>t, <1>4 DEF SubmitWrite, TypeOK, Call
    <2>2. Current(n) \in Keys /\ Current(n) = call[n].keys[1] /\ 1 \in 1 .. Len(call[n].keys)
      BY <2>1, HeadTailProperties, EmptySeq DEF Current
    <2>3. table[n][Current(n)] \in Rec
      BY <1>t, <2>2, SMTT(30) DEF TypeOK
    <2>4. table[n][Current(n)].off \in Nat /\ table[n][Current(n)].len \in Nat \ {0}
      BY <2>2, <2>3 DEF IInv, CallsSafe, Rec
    <2>5. cmds' \in [Nodes -> Seq(Command)]
      BY <1>t, <1>4, <2>2, <2>4, SubmitTypes, BlockTypes, Zenon DEF SubmitWrite
    <2>6. CallTypes'
      <3>1. call' = [call EXCEPT ![n].pc = "writing"]
        BY <1>4 DEF SubmitWrite
      <3>2. call'[n] \in Call /\ call'[n].keys = call[n].keys
        BY <1>t, <2>1, <3>1, Zenon DEF TypeOK, Call
      <3>3. \A m \in Nodes : m /= n => call'[m] = call[m]
        BY <1>t, <3>1 DEF TypeOK
      <3>4. call' \in [Nodes -> Call]
        BY <1>t, <3>1, <3>2, <3>3 DEF TypeOK
      <3> QED
        BY <1>t, <2>1, <3>2, <3>3, <3>4, Zenon DEF TypeOK, CallTypes
    <2> QED
      BY <1>t, <1>4, <2>5, <2>6, Zenon DEF SubmitWrite, TypeOK, CallTypes
  <1>5. ASSUME NEW n \in Nodes, WaitWrite(n) PROVE TypeOK'
    <2> DEFINE c == Head(cpls[n])
               back == [dev |-> DeviceOf(n), block |-> c.block, bytes |-> c.bytes, sum |-> c.sum]
    <2>1. c \in Completion /\ Tail(cpls[n]) \in Seq(Completion)
      BY <1>t, <1>5, HeadTailProperties DEF WaitWrite, TypeOK
    <2>2. cpls' \in [Nodes -> Seq(Completion)]
      BY <1>t, <1>5, <2>1 DEF WaitWrite, TypeOK
    <2>3. back \in Back
      <3>1. DeviceOf(n) \in Devices
        BY DEF Devices
      <3> QED
        BY <2>1, <3>1 DEF Completion, Back
    <2>4. CASE table' = [table EXCEPT ![n][Current(n)].back = back] /\ NextObject(n) /\ UNCHANGED failed
      <3> HIDE DEF c, back
      <3>1. CallTypes' /\ Current(n) \in Keys
        BY <1>t, <1>5, <2>4, NextObjectTypes DEF WaitWrite
      <3>2. table' \in [Nodes -> [Keys -> Rec]]
        <4>1. table[n][Current(n)] \in Rec
          BY <1>t, <3>1 DEF TypeOK
        <4>2. [table[n][Current(n)] EXCEPT !.back = back] \in Rec
          BY <2>3, <4>1 DEF Rec
        <4> QED
          BY <1>t, <2>4, <3>1, <4>2 DEF TypeOK
      <3> QED
        BY <1>t, <1>5, <2>2, <2>4, <3>1, <3>2 DEF WaitWrite, TypeOK, CallTypes
    <2>5. CASE ReturnError(n) /\ UNCHANGED table
      <3>1. CallTypes' /\ failed' \in BOOLEAN
        BY <1>t, <2>5, ReturnTypes, Zenon DEF ReturnError
      <3> QED
        BY <1>t, <1>5, <2>2, <2>5, <3>1, Zenon DEF WaitWrite, TypeOK, CallTypes
    <2> QED
      BY <1>5, <2>4, <2>5 DEF WaitWrite
  <1>6. ASSUME NEW n \in Nodes, Announce(n) PROVE TypeOK'
    <2>1. CallTypes' /\ failed' \in BOOLEAN
      BY <1>t, <1>6, ReturnTypes, Zenon DEF Announce, ReturnError, Return, TypeOK
    <2>2. published' \in [Nodes -> [Keys -> Rec]]
      BY <1>t, <1>6, Zenon DEF Announce, TypeOK
    <2> QED
      BY <1>t, <1>6, <2>1, <2>2 DEF Announce, TypeOK, CallTypes
  <1>7. ASSUME NEW n \in Nodes, NEW o \in Nodes, NEW k \in Keys, ResolveMapped(n, o, k) PROVE TypeOK'
    <2> DEFINE r == RecordOf(n, o, k)
    <2>1. r \in Rec
      BY RecordTypes
    <2>2. View(o, r.off, r) \in [node : Nodes, off : Nat, len : Nat, val : Bytes]
      BY <2>1 DEF View, Rec
    <2>3. calls' \in 0 .. MaxCalls
      BY <1>t, <1>7, BeginTypes DEF ResolveMapped
    <2>4. CASE views' = views \cup {View(o, r.off, r)} /\ UNCHANGED <<call, failed>>
      BY <1>t, <1>7, <2>2, <2>3, <2>4, Zenon DEF ResolveMapped, TypeOK
    <2>5. CASE ReturnError(n) /\ UNCHANGED views
      <3>1. CallTypes' /\ failed' \in BOOLEAN
        BY <1>t, <2>5, ReturnTypes, Zenon DEF ReturnError
      <3> QED
        BY <1>t, <1>7, <2>3, <2>5, <3>1, Zenon DEF ResolveMapped, TypeOK, CallTypes
    <2> QED
      BY <1>7, <2>4, <2>5 DEF ResolveMapped
  <1>8. ASSUME NEW n \in Nodes, NEW o \in Nodes, NEW k \in Keys, ResolveBacked(n, o, k) PROVE TypeOK'
    <2> DEFINE r == RecordOf(n, o, k)
    <2>1. r \in Rec /\ SafeRecord(o, r)
      BY RecordTypes
    <2>2. /\ r.back.dev \in Devices /\ r.back.block \in Blocks /\ r.len \in Nat \ {0}
          /\ arena[n] \in Nat
      BY <1>t, <1>8, <2>1, BackedTypes, Sizes DEF ResolveBacked, TypeOK
    <2>3. /\ Begin(n) /\ HasRoom(n, r.len) /\ Alloc(n, r.len)
          /\ Submit(n, "read", r.back.dev, r.back.block, arena[n], r.len)
          /\ call' = [call EXCEPT ![n] = [Idle EXCEPT !.pc = "reading", !.rec = r, !.off = arena[n]]]
      BY <1>8 DEF ResolveBacked
    <2> HIDE DEF r
    <2>4. calls' \in 0 .. MaxCalls
      BY <1>t, <2>3, BeginTypes
    <2>5. arena' \in [Nodes -> ArenaBase .. PayloadUnits]
      BY <1>t, <2>2, <2>3, AllocTypes
    <2>6. cmds' \in [Nodes -> Seq(Command)]
      BY <1>t, <2>2, <2>3, SubmitTypes
    <2>7. [Idle EXCEPT !.pc = "reading", !.rec = r, !.off = arena[n]] \in Call
      BY <2>1, <2>2, BaseTypes, Zenon DEF Call
    <2>8. CallTypes'
      BY <1>t, <2>3, <2>7 DEF TypeOK, CallTypes, Idle
    <2> QED
      BY <1>t, <1>8, <2>4, <2>5, <2>6, <2>8, Zenon DEF ResolveBacked, TypeOK, CallTypes
  <1>9. ASSUME NEW n \in Nodes, NEW o \in Nodes, NEW k \in Keys, ResolveFails(n, o, k) PROVE TypeOK'
    <2>1. RecordOf(n, o, k) \in Rec /\ RecordOf(n, o, k).len \in Nat
      BY RecordTypes DEF Rec
    <2>2. calls' \in 0 .. MaxCalls
      BY <1>t, <1>9, BeginTypes, Zenon DEF ResolveFails
    <2>3. arena' \in [Nodes -> ArenaBase .. PayloadUnits]
      <3>1. \/ UNCHANGED arena
            \/ HasRoom(n, RecordOf(n, o, k).len) /\ Alloc(n, RecordOf(n, o, k).len)
        BY <1>9, Zenon DEF ResolveFails
      <3> QED
        BY <1>t, <2>1, <3>1, AllocTypes, Zenon DEF TypeOK
    <2>4. CallTypes' /\ failed' \in BOOLEAN
      BY <1>t, <1>9, ReturnTypes, Zenon DEF ResolveFails, ReturnError
    <2> QED
      BY <1>t, <1>9, <2>2, <2>3, <2>4, Zenon DEF ResolveFails, TypeOK, CallTypes
  <1>10. ASSUME NEW n \in Nodes, WaitRead(n) PROVE TypeOK'
    <2>1. cpls' \in [Nodes -> Seq(Completion)]
      <3>1. Tail(cpls[n]) \in Seq(Completion)
        BY <1>t, <1>10, HeadTailProperties DEF WaitRead, TypeOK
      <3> QED
        BY <1>t, <1>10, <3>1, Zenon DEF WaitRead, TypeOK
    <2>2. CallTypes' /\ failed' \in BOOLEAN
      BY <1>t, <1>10, ReturnTypes, Zenon DEF WaitRead, ReturnError, Return, TypeOK
    <2>3. View(n, call[n].off, call[n].rec) \in [node : Nodes, off : Nat, len : Nat, val : Bytes]
      <3>1. call[n] \in Call /\ call[n].rec \in Rec /\ call[n].off \in Nat
        BY <1>t DEF TypeOK, Call
      <3> QED
        BY <3>1 DEF View, Rec
    <2>4. views' = views \/ views' = views \cup {View(n, call[n].off, call[n].rec)}
      BY <1>10, Zenon DEF WaitRead
    <2> QED
      BY <1>t, <1>10, <2>1, <2>2, <2>3, <2>4, Zenon DEF WaitRead, TypeOK, CallTypes
  <1>11. ASSUME NEW n \in Nodes, IoctlFails(n) PROVE TypeOK'
    <2>1. CallTypes' /\ failed' \in BOOLEAN
      BY <1>t, <1>11, ReturnTypes, Zenon DEF IoctlFails, ReturnError
    <2>2. cmds' \in [Nodes -> Seq(Command)] /\ cpls' \in [Nodes -> Seq(Completion)]
      BY <1>t, <1>11, AbandonTypes DEF IoctlFails
    <2> QED
      BY <1>t, <1>11, <2>1, <2>2, Zenon DEF IoctlFails, TypeOK, CallTypes
  <1>12. ASSUME NEW n \in Nodes, DeviceGone(n) PROVE TypeOK'
    <2>1. CallTypes'
      BY <1>t, <1>12, NextObjectTypes DEF DeviceGone
    <2>2. cmds' \in [Nodes -> Seq(Command)] /\ cpls' \in [Nodes -> Seq(Completion)]
      BY <1>t, <1>12, AbandonTypes, Zenon DEF DeviceGone
    <2> QED
      BY <1>t, <1>12, <2>1, <2>2, Zenon DEF DeviceGone, TypeOK, CallTypes
  <1>13. ASSUME NEW n \in Nodes, DeviceWrites(n) PROVE TypeOK'
    <2> DEFINE cmd == Head(cmds[n])
               b == [val |-> Content(Owner(cmd.base), Offset(cmd.base), cmd.bytes), bytes |-> cmd.bytes]
    <2>1. cmd \in Command
      BY <1>t, <1>13, FirstCommand DEF DeviceWrites
    <2>2. b \in Block
      <3>1. cmd = cmds[n][1] /\ 1 \in 1 .. Len(cmds[n])
        BY <1>t, <1>13, FirstCommand DEF DeviceWrites
      <3>2. Sent(arena[n], n, cmd)
        BY <3>1 DEF IInv, CommandsSafe, QueueSafe
      <3>3. Offset(cmd.base) \in Nat /\ cmd.bytes \in Nat \ {0}
        BY <1>t, <2>1, <3>2, SentThere DEF Command
      <3>4. Content(Owner(cmd.base), Offset(cmd.base), cmd.bytes) \in Bytes
        BY <3>3, ContentType
      <3> QED
        BY <3>3, <3>4 DEF Block
    <2>3. cmds[n] /= <<>> /\ ssd' = [ssd EXCEPT ![cmd.dev][cmd.block] = b] /\ Completes(n, TRUE, b)
      BY <1>13, Zenon DEF DeviceWrites
    <2> HIDE DEF cmd, b
    <2>4. cmds' \in [Nodes -> Seq(Command)] /\ cpls' \in [Nodes -> Seq(Completion)]
      BY <1>t, <2>2, <2>3, CompletesTypes, Zenon
    <2>5. ssd' \in [Devices -> [Blocks -> Block]]
      BY <1>t, <2>1, <2>2, <2>3 DEF TypeOK, Command
    <2> QED
      BY <1>t, <1>13, <2>4, <2>5, Zenon DEF DeviceWrites, TypeOK
  <1>14. ASSUME NEW n \in Nodes, DeviceReads(n) PROVE TypeOK'
    <2> DEFINE cmd == Head(cmds[n])
               b == ssd[cmd.dev][cmd.block]
    <2>1. cmd \in Command /\ cmds[n] /= <<>>
      BY <1>t, <1>14, FirstCommand, Zenon DEF DeviceReads
    <2>2. b \in Block
      BY <1>t, <2>1 DEF TypeOK, Command
    <2>3. Completes(n, TRUE, b)
      BY <1>14, Zenon DEF DeviceReads
    <2>4. PICK v \in Bytes : mem' = Filled(mem, Owner(cmd.base), Offset(cmd.base), cmd.bytes, v)
      <3>1. b.val \in Bytes /\ 0 \in Bytes
        BY <2>2, BlockByte, Zenon
      <3> QED
        BY <1>14, <3>1, Zenon DEF DeviceReads
    <2> HIDE DEF cmd, b
    <2>5. cmds' \in [Nodes -> Seq(Command)] /\ cpls' \in [Nodes -> Seq(Completion)]
      BY <1>t, <2>1, <2>2, <2>3, CompletesTypes, Zenon
    <2>6. mem' \in [Nodes -> [Cells -> Bytes]]
      BY <1>t, <2>4, Zenon DEF TypeOK, Filled
    <2> QED
      BY <1>t, <1>14, <2>5, <2>6, Zenon DEF DeviceReads, TypeOK
  <1>15. ASSUME NEW n \in Nodes, DeviceRefuses(n) PROVE TypeOK'
    <2>1. cmds' \in [Nodes -> Seq(Command)] /\ cpls' \in [Nodes -> Seq(Completion)]
      BY <1>t, <1>15, CompletesTypes, BaseTypes, Zenon DEF DeviceRefuses
    <2> QED
      BY <1>t, <1>15, <2>1, Zenon DEF DeviceRefuses, TypeOK
  <1>16. CASE UNCHANGED vars
    BY <1>t, <1>16 DEF vars, TypeOK
  <1> QED
    BY <1>1, <1>2, <1>3, <1>4, <1>5, <1>6, <1>7, <1>8, <1>9, <1>10, <1>11, <1>12, <1>13, <1>14, <1>15, <1>16, Actions

-----------------------------------------------------------------------------
(* No step writes to a payload in use.                                     *)

LEMMA PreservesStep == IInv /\ [Next]_vars => Preserves
  <1> SUFFICES ASSUME IInv, [Next]_vars PROVE Preserves
    OBVIOUS
  <1>t. TypeOK
    BY DEF IInv
  <1>a. \A m \in Nodes : arena[m] \in Nat
    BY <1>t, Sizes DEF TypeOK
  <1>1. ASSUME UNCHANGED <<mem, arena>> PROVE Preserves
    BY <1>a, <1>1 DEF Preserves
  <1>2. ASSUME UNCHANGED mem, NEW n \in Nodes, NEW len \in Nat, HasRoom(n, len), Alloc(n, len)
        PROVE  Preserves
    BY <1>t, <1>2, AllocTypes DEF Preserves
  <1>3. ASSUME NEW n \in Nodes, NEW ks \in Bundles, NEW vs \in [DOMAIN ks -> Values], Publish(n, ks, vs)
        PROVE  Preserves
    <2>1. \A m \in Nodes : arena[m] <= arena'[m]
      BY <1>t, <1>3, AllocTypes, BundleTypes, Zenon DEF Publish
    <2>2. ASSUME NEW m \in Nodes, NEW c \in Cells, c < arena[m] PROVE mem'[m][c] = mem[m][c]
      <3>1. \A i \in DOMAIN ks : Place(n, ks, i) \in Nat /\ Place(n, ks, i) >= arena[n]
        BY <1>t, <1>3, PublishTypes DEF Publish
      <3>2. \A i \in DOMAIN ks : UnitsOf[ks[i]] \in Nat
        BY BundleTypes
      <3>3. m = n => ~ \E i \in DOMAIN ks : c \in Span(Place(n, ks, i), UnitsOf[ks[i]])
        BY <1>a, <2>2, <3>1, <3>2 DEF Span, Cells
      <3>4. mem' = Copied(n, ks, vs)
        BY <1>3, Zenon DEF Publish
      <3> QED
        BY <1>t, <3>3, <3>4 DEF Copied, TypeOK
    <2> QED
      BY <2>1, <2>2 DEF Preserves
  <1>4. ASSUME NEW n \in Nodes, NEW ks \in Bundles, PublishNoRoom(n, ks) PROVE Preserves
    <2>1. UnitsOf[ks[1]] \in Nat
      BY BundleTypes, SsdAssumption DEF SsdConstants
    <2> QED
      BY <1>1, <1>2, <1>4, <2>1 DEF PublishNoRoom
  <1>5. ASSUME NEW n \in Nodes, NEW o \in Nodes, NEW k \in Keys,
               ResolveBacked(n, o, k) \/ ResolveFails(n, o, k)
        PROVE  Preserves
    <2>1. RecordOf(n, o, k) \in Rec /\ RecordOf(n, o, k).len \in Nat
      BY RecordTypes DEF Rec
    <2> QED
      BY <1>1, <1>2, <1>5, <2>1 DEF ResolveBacked, ResolveFails
  <1>6. ASSUME NEW n \in Nodes, DeviceReads(n) PROVE Preserves
    <2> DEFINE cmd == Head(cmds[n])
    <2>1. cmd \in Command /\ cmd = cmds[n][1] /\ 1 \in 1 .. Len(cmds[n])
      <3>1. cmds[n] /= <<>>
        BY <1>6, Zenon DEF DeviceReads
      <3> QED
        BY <1>t, <3>1, FirstCommand, Zenon
    <2>2. cmd.op = "read" /\ UNCHANGED arena
      BY <1>6, Zenon DEF DeviceReads
    <2>3. Sent(arena[n], n, cmd) /\ Blank(mem[n], n, cmd)
      BY <2>1, <2>2 DEF IInv, CommandsSafe, QueueSafe
    <2>4. PICK v : mem' = Filled(mem, Owner(cmd.base), Offset(cmd.base), cmd.bytes, v)
      BY <1>6, Zenon DEF DeviceReads
    <2> HIDE DEF cmd
    <2>5. Owner(cmd.base) = n /\ Offset(cmd.base) = cmd.base - GsvaBase(n, 0)
      BY <1>t, <2>1, <2>3, SentThere, Zenon
    <2>6. ASSUME NEW m \in Nodes, NEW c \in Cells, mem[m][c] /= 0 PROVE mem'[m][c] = mem[m][c]
      <3>1. m = n => c \notin Span(Offset(cmd.base), cmd.bytes)
        BY <2>3, <2>5, <2>6 DEF Blank
      <3> QED
        BY <1>t, <2>4, <2>5, <3>1 DEF Filled, TypeOK
    <2> QED
      BY <1>a, <2>2, <2>6, SMTT(20) DEF Preserves
  <1>7. ASSUME NEW n \in Nodes,
               \/ NotAttached(n) \/ SubmitWrite(n) \/ WaitWrite(n) \/ Announce(n) \/ WaitRead(n)
               \/ IoctlFails(n) \/ DeviceGone(n) \/ DeviceWrites(n) \/ DeviceRefuses(n)
               \/ \E o \in Nodes : \E k \in Keys : ResolveMapped(n, o, k)
        PROVE  UNCHANGED <<mem, arena>>
    BY <1>7, Zenon DEF NotAttached, SubmitWrite, WaitWrite, Announce, WaitRead, IoctlFails, DeviceGone,
                DeviceWrites, DeviceRefuses, ResolveMapped
  <1>8. CASE UNCHANGED vars
    BY <1>1, <1>8 DEF vars
  <1> QED
    BY <1>1, <1>3, <1>4, <1>5, <1>6, <1>7, <1>8, Actions

\* The mark of an arena, before and after a step.
LEMMA Marks ==
    ASSUME IInv, [Next]_vars, NEW n \in Nodes
    PROVE  /\ arena[n] \in 0 .. PayloadUnits /\ arena'[n] \in 0 .. PayloadUnits
           /\ arena[n] \in Nat /\ arena'[n] \in Nat /\ arena[n] <= arena'[n]
  <1>t. TypeOK /\ TypeOK' /\ Preserves
    BY TypesStep, PreservesStep, Zenon DEF IInv
  <1>1. arena[n] \in ArenaBase .. PayloadUnits
    BY <1>t, Zenon DEF TypeOK
  <1>2. arena'[n] \in ArenaBase .. PayloadUnits
    BY <1>t, Zenon DEF TypeOK
  <1>3. arena[n] <= arena'[n]
    BY <1>t, Zenon DEF Preserves
  <1> QED
    BY <1>1, <1>2, <1>3, Sizes

-----------------------------------------------------------------------------
(* Queues of commands.                                                     *)

\* The bytes a command is about.
LEMMA SentCells ==
    ASSUME NEW n \in Nodes, NEW d \in Command, NEW a \in 0 .. PayloadUnits, Sent(a, n, d),
           NEW c \in Span(d.base - GsvaBase(n, 0), d.bytes)
    PROVE  c \in Cells /\ c < a
  <1>1. /\ d.base \in Nat /\ d.bytes \in Nat \ {0} /\ HomeVa[n] \in Nat
        /\ a \in Nat /\ a <= PayloadUnits /\ PayloadUnits \in Nat
    BY Sizes DEF Command
  <1>2. d.base >= HomeVa[n] + PayloadOffset /\ d.base + d.bytes <= HomeVa[n] + PayloadOffset + a
    BY <1>1, Sizes DEF Sent, GsvaBase
  <1>3. PICK o \in Int : o = d.base - GsvaBase(n, 0)
    BY <1>1, Sizes DEF GsvaBase
  <1>4. o \in Nat /\ o + d.bytes <= a
    BY <1>1, <1>2, <1>3, Sizes DEF GsvaBase
  <1>5. c \in Span(o, d.bytes)
    BY <1>3
  <1> QED
    BY <1>1, <1>4, <1>5 DEF Span, Cells

\* A queue stays safe while the mark rises and nothing below it is written to.
LEMMA QueueStays ==
    ASSUME NEW n \in Nodes, NEW q \in Seq(Command), NEW m, NEW m2,
           NEW a \in 0 .. PayloadUnits, NEW a2 \in Nat, a <= a2, QueueSafe(m, a, n, q),
           \A c \in Cells : c < a => m2[c] = m[c]
    PROVE  QueueSafe(m2, a2, n, q)
  <1> SUFFICES ASSUME NEW i \in 1 .. Len(q)
               PROVE  Sent(a2, n, q[i]) /\ (q[i].op = "read" => Blank(m2, n, q[i]))
    BY DEF QueueSafe
  <1>1. q[i] \in Command
    BY ElementOfSeq
  <1>2. q[i].base \in Nat /\ q[i].bytes \in Nat \ {0} /\ HomeVa[n] \in Nat
    BY <1>1, Sizes, Zenon DEF Command
  <1>3. Sent(a, n, q[i]) /\ (q[i].op = "read" => Blank(m, n, q[i]))
    BY DEF QueueSafe
  <1>4. Sent(a2, n, q[i])
    BY <1>2, <1>3, Sizes, SMTT(20) DEF Sent, GsvaBase
  <1>5. ASSUME q[i].op = "read", NEW c \in Span(q[i].base - GsvaBase(n, 0), q[i].bytes) PROVE m2[c] = 0
    <2>1. c \in Cells /\ c < a
      BY <1>1, <1>3, <1>5, SentCells
    <2>2. m[c] = 0
      BY <1>3, <1>5 DEF Blank
    <2> QED
      BY <2>1, <2>2
  <1> QED
    BY <1>4, <1>5 DEF Blank

LEMMA QueueTail ==
    ASSUME NEW n \in Nodes, NEW q \in Seq(Command), q /= <<>>, NEW m, NEW a, QueueSafe(m, a, n, q)
    PROVE  QueueSafe(m, a, n, Tail(q))
  <1> DEFINE t == Tail(q)
  <1>1. /\ Len(q) \in Nat /\ Len(t) = Len(q) - 1
        /\ \A i \in 1 .. Len(t) : t[i] = q[i + 1]
    BY HeadTailProperties, LenProperties
  <1> HIDE DEF t
  <1>2. ASSUME NEW i \in 1 .. Len(t)
        PROVE  i + 1 \in 1 .. Len(q) /\ \A j \in i + 1 .. Len(t) : j \in 1 .. Len(t) /\ j + 1 \in (i + 1) + 1 .. Len(q)
    BY <1>1
  <1>3. QueueSafe(m, a, n, t)
    BY <1>1, <1>2, Zenon DEF QueueSafe
  <1> QED
    BY <1>3 DEF t

LEMMA QueueAppend ==
    ASSUME NEW n \in Nodes, NEW q \in Seq(Command), NEW d \in Command, NEW m, NEW a,
           QueueSafe(m, a, n, q), Sent(a, n, d),
           d.op = "read" =>
             Blank(m, n, d) /\ \A i \in 1 .. Len(q) : q[i].base + q[i].bytes <= d.base
    PROVE  QueueSafe(m, a, n, Append(q, d))
  <1> DEFINE t == Append(q, d)
  <1>1. /\ Len(q) \in Nat /\ Len(t) = Len(q) + 1
        /\ \A i \in 1 .. Len(q) : t[i] = q[i]
        /\ t[Len(q) + 1] = d
    BY AppendProperties, LenProperties
  <1> HIDE DEF t
  <1>2. ASSUME NEW i \in 1 .. Len(t)
        PROVE  \/ i \in 1 .. Len(q) /\ \A j \in i + 1 .. Len(t) : j \in i + 1 .. Len(q) \/ j = Len(q) + 1
               \/ i = Len(q) + 1 /\ \A j \in i + 1 .. Len(t) : FALSE
    BY <1>1
  <1>3. ASSUME NEW i \in 1 .. Len(q)
        PROVE  /\ Sent(a, n, t[i])
               /\ t[i].op = "read" =>
                    /\ Blank(m, n, t[i])
                    /\ \A j \in i + 1 .. Len(t) : t[j].op = "read" => t[i].base + t[i].bytes <= t[j].base
    <2>1. t[i] = q[i] /\ i \in 1 .. Len(t)
      BY <1>1, SMTT(30)
    <2>2. ASSUME t[i].op = "read", NEW j \in i + 1 .. Len(t), t[j].op = "read"
          PROVE  t[i].base + t[i].bytes <= t[j].base
      <3>1. CASE j \in i + 1 .. Len(q)
        <4>1. t[j] = q[j]
          BY <1>1, <3>1
        <4> QED
          BY <2>1, <2>2, <3>1, <4>1 DEF QueueSafe
      <3>2. CASE j = Len(q) + 1
        BY <1>1, <2>1, <2>2, <3>2
      <3> QED
        BY <1>2, <2>1, <3>1, <3>2, <1>1, ZenonT(30)
    <2> QED
      BY <2>1, <2>2 DEF QueueSafe
  <1>4. QueueSafe(m, a, n, t)
    BY <1>1, <1>2, <1>3 DEF QueueSafe
  <1> QED
    BY <1>4 DEF t

-----------------------------------------------------------------------------
(* The step of each part of the invariant.                                 *)

LEMMA SafeRecordStays ==
    ASSUME TypeOK, TypeOK', Preserves, NEW n \in Nodes, NEW r \in Rec, SafeRecord(n, r)
    PROVE  SafeRecord(n, r)'
  <1>1. r.off \in Nat /\ r.len \in Nat /\ r.val \in Nat
    BY SsdAssumption, SMTT(30) DEF Rec, Bytes, SsdConstants
  <1> QED
    BY <1>1, SafeStays DEF SafeRecord

\* What has been published lies where it was put.
LEMMA FreshSafe ==
    ASSUME IInv, NEW n \in Nodes, NEW ks \in Bundles, NEW vs \in [DOMAIN ks -> Values],
           Publish(n, ks, vs), NEW i \in DOMAIN ks, NEW r \in Rec, r = FreshRecord(n, ks, vs, i)
    PROVE  SafeRecord(n, r)' /\ r.len /= 0
  <1>t. TypeOK /\ HasRoom(n, BundleUnits(ks)) /\ mem' = Copied(n, ks, vs)
    BY DEF IInv, Publish
  <1>1. r.val = vs[i] /\ r.off = Place(n, ks, i) /\ r.len = UnitsOf[ks[i]] /\ r.back = NoBack
    BY DEF FreshRecord
  <1>2. r.len /= 0 /\ r.len \in Nat /\ BundleUnits(ks) \in Nat
    BY <1>1, BundleTypes
  <1>3. r.val /= 0
    BY <1>1, SsdAssumption, SMTT(30) DEF Values, SsdConstants
  <1>4. arena'[n] = arena[n] + BundleUnits(ks) /\ arena[n] \in Nat
    <2>1. arena[n] \in ArenaBase .. PayloadUnits
      BY <1>t, Zenon DEF TypeOK
    <2>2. HasRoom(n, BundleUnits(ks)) /\ Alloc(n, BundleUnits(ks))
      BY Zenon DEF Publish
    <2>3. arena'[n] = arena[n] + BundleUnits(ks)
      BY <1>t, <1>2, <2>2, AllocTypes, ZenonT(30)
    <2> QED
      BY <2>1, <2>3, Sizes
  <1>5. r.off \in Nat /\ r.off + r.len <= arena'[n] /\ r.off + r.len <= PayloadUnits
    BY <1>t, <1>1, <1>2, <1>4, PublishTypes, Sizes DEF HasRoom
  <1>6. ASSUME NEW c \in Span(r.off, r.len) PROVE mem'[n][c] = r.val
    <2>1. c \in Cells
      BY <1>2, <1>5, Sizes, SMTT(30) DEF Span, Cells
    <2>2. c \in Span(Place(n, ks, i), UnitsOf[ks[i]])
      BY <1>1, <1>6
    <2>3. ASSUME NEW j \in DOMAIN ks, c \in Span(Place(n, ks, j), UnitsOf[ks[j]]) PROVE j = i
      BY <1>t, <2>2, <2>3, PublishTypes, Zenon
    <2>4. (CHOOSE j \in DOMAIN ks : c \in Span(Place(n, ks, j), UnitsOf[ks[j]])) = i
      BY <2>2, <2>3
    <2> QED
      BY <1>t, <1>1, <2>1, <2>2, <2>4, Zenon DEF Copied, TypeOK
  <1> QED
    BY <1>1, <1>2, <1>3, <1>5, <1>6 DEF SafeRecord, Safe

\* How a step changes a record.
Attached(r, r2) == \E b : b.bytes /= 0 /\ r2 = [r EXCEPT !.back = b]

FreshAt(n, r2) ==
    \E ks \in Bundles : \E vs \in [DOMAIN ks -> Values] : \E i \in DOMAIN ks :
      Publish(n, ks, vs) /\ r2 = FreshRecord(n, ks, vs, i)

LEMMA TableChanges ==
    ASSUME IInv, [Next]_vars, NEW n \in Nodes, NEW k \in Keys
    PROVE  table'[n][k] = table[n][k] \/ Attached(table[n][k], table'[n][k]) \/ FreshAt(n, table'[n][k])
  <1>t. TypeOK
    BY DEF IInv
  <1>1. ASSUME NEW m \in Nodes, NEW ks \in Bundles, NEW vs \in [DOMAIN ks -> Values], Publish(m, ks, vs)
        PROVE  table'[n][k] = table[n][k] \/ FreshAt(n, table'[n][k])
    <2>1. CASE table' = [table EXCEPT ![m] = [x \in Keys |->
                 IF \E i \in DOMAIN ks : ks[i] = x THEN FreshRecord(m, ks, vs, IndexOf(ks, x)) ELSE @[x]]]
      <3>1. CASE m = n /\ \E i \in DOMAIN ks : ks[i] = k
        <4>1. IndexOf(ks, k) \in DOMAIN ks
          BY <3>1, Zenon DEF IndexOf
        <4>2. table'[n][k] = FreshRecord(n, ks, vs, IndexOf(ks, k))
          BY <1>t, <2>1, <3>1, SMTT(30) DEF TypeOK
        <4> QED
          BY <1>1, <3>1, <4>1, <4>2 DEF FreshAt
      <3>2. CASE ~(m = n /\ \E i \in DOMAIN ks : ks[i] = k)
        BY <1>t, <2>1, <3>2 DEF TypeOK
      <3> QED
        BY <3>1, <3>2
    <2> QED
      BY <1>1, <2>1, SMTT(30) DEF Publish
  <1>2. ASSUME NEW m \in Nodes, WaitWrite(m)
        PROVE  table'[n][k] = table[n][k] \/ Attached(table[n][k], table'[n][k])
    <2> DEFINE c == Head(cpls[m])
               back == [dev |-> DeviceOf(m), block |-> c.block, bytes |-> c.bytes, sum |-> c.sum]
    <2>1. CASE UNCHANGED table
      BY <2>1
    <2>2. CASE table' = [table EXCEPT ![m][Current(m)].back = back] /\ back.bytes /= 0
      <3> HIDE DEF back
      <3>1. CASE m = n /\ Current(m) = k
        <4>1. table'[n][k] = [table[n][k] EXCEPT !.back = back]
          BY <1>t, <2>2, <3>1, Zenon DEF TypeOK
        <4> QED
          BY <2>2, <4>1, Zenon DEF Attached
      <3>2. CASE ~(m = n /\ Current(m) = k)
        BY <1>t, <2>2, <3>2 DEF TypeOK
      <3> QED
        BY <3>1, <3>2
    <2> QED
      BY <1>2, <2>1, <2>2 DEF WaitWrite
  <1>3. ASSUME NEW m \in Nodes,
               \/ \E ks \in Bundles : PublishNoRoom(m, ks)
               \/ NotAttached(m) \/ SubmitWrite(m) \/ Announce(m) \/ WaitRead(m)
               \/ IoctlFails(m) \/ DeviceGone(m) \/ DeviceWrites(m) \/ DeviceReads(m) \/ DeviceRefuses(m)
               \/ \E o \in Nodes : \E x \in Keys :
                    ResolveMapped(m, o, x) \/ ResolveBacked(m, o, x) \/ ResolveFails(m, o, x)
        PROVE  UNCHANGED table
    BY <1>3, Zenon DEF PublishNoRoom, NotAttached, SubmitWrite, Announce, WaitRead, IoctlFails, DeviceGone,
                DeviceWrites, DeviceReads, DeviceRefuses, ResolveMapped, ResolveBacked, ResolveFails
  <1>4. CASE UNCHANGED vars
    BY <1>4 DEF vars
  <1> QED
    BY <1>1, <1>2, <1>3, <1>4, Actions

LEMMA PublishedChanges ==
    ASSUME IInv, [Next]_vars, NEW n \in Nodes, NEW k \in Keys
    PROVE  published'[n][k] \in {published[n][k], table[n][k]}
  <1>t. TypeOK
    BY DEF IInv
  <1>1. ASSUME NEW m \in Nodes, Announce(m) PROVE published'[n][k] \in {published[n][k], table[n][k]}
    BY <1>t, <1>1, Zenon DEF Announce, TypeOK
  <1>2. ASSUME NEW m \in Nodes,
               \/ \E ks \in Bundles : PublishNoRoom(m, ks)
               \/ \E ks \in Bundles : \E vs \in [DOMAIN ks -> Values] : Publish(m, ks, vs)
               \/ NotAttached(m) \/ SubmitWrite(m) \/ WaitWrite(m) \/ WaitRead(m)
               \/ IoctlFails(m) \/ DeviceGone(m) \/ DeviceWrites(m) \/ DeviceReads(m) \/ DeviceRefuses(m)
               \/ \E o \in Nodes : \E x \in Keys :
                    ResolveMapped(m, o, x) \/ ResolveBacked(m, o, x) \/ ResolveFails(m, o, x)
        PROVE  UNCHANGED published
    BY <1>2, Zenon DEF PublishNoRoom, Publish, NotAttached, SubmitWrite, WaitWrite, WaitRead, IoctlFails,
                DeviceGone, DeviceWrites, DeviceReads, DeviceRefuses, ResolveMapped, ResolveBacked,
                ResolveFails
  <1>3. CASE UNCHANGED vars
    BY <1>3 DEF vars
  <1> QED
    BY <1>1, <1>2, <1>3, Actions, Zenon

LEMMA RecordsStep == IInv /\ [Next]_vars => RecordsSafe'
  <1> SUFFICES ASSUME IInv, [Next]_vars, NEW n \in Nodes, NEW k \in Keys
               PROVE  (SafeRecord(n, table[n][k]) /\ SafeRecord(n, published[n][k]))'
    BY DEF RecordsSafe
  <1>t. TypeOK /\ TypeOK' /\ Preserves
    BY TypesStep, PreservesStep, ZenonT(30) DEF IInv
  <1>1. PICK r \in Rec : r = table[n][k] /\ SafeRecord(n, r)
    BY <1>t DEF TypeOK, IInv, RecordsSafe
  <1>2. PICK p \in Rec : p = published[n][k] /\ SafeRecord(n, p)
    BY <1>t, Zenon DEF TypeOK, IInv, RecordsSafe
  <1>3. SafeRecord(n, r)' /\ SafeRecord(n, p)'
    BY <1>t, <1>1, <1>2, SafeRecordStays, Zenon
  <1>4. PICK r2 \in Rec : r2 = table'[n][k]
    BY <1>t, Zenon DEF TypeOK
  <1>5. SafeRecord(n, r2)'
    <2>1. CASE r2 = r
      BY <1>3, <2>1
    <2>2. CASE Attached(r, r2)
      <3>1. PICK b : b.bytes /= 0 /\ r2 = [r EXCEPT !.back = b]
        BY <2>2 DEF Attached
      <3>2. r2.off = r.off /\ r2.len = r.len /\ r2.val = r.val /\ r2.back = b
        BY <3>1 DEF Rec
      <3> QED
        BY <1>3, <3>1, <3>2 DEF SafeRecord, Safe
    <2>3. CASE FreshAt(n, r2)
      BY <2>3, FreshSafe DEF FreshAt
    <2> QED
      BY <1>1, <1>4, <2>1, <2>2, <2>3, TableChanges
  <1>6. SafeRecord(n, table[n][k])'
    BY <1>4, <1>5 DEF SafeRecord, Safe
  <1>7. published'[n][k] \in {p, r}
    BY <1>1, <1>2, PublishedChanges
  <1>8. SafeRecord(n, published[n][k])'
    BY <1>3, <1>7 DEF SafeRecord, Safe
  <1> QED
    BY <1>6, <1>8

\* A view that is new holds a payload already.
LEMMA NewView ==
    ASSUME IInv, [Next]_vars, NEW w \in views'
    PROVE  Safe(w.node, w.off, w.len, w.val)
  <1>t. TypeOK
    BY DEF IInv
  <1>1. CASE w \in views
    BY <1>1, Zenon DEF IInv, ViewsSafe
  <1>2. ASSUME NEW n \in Nodes, NEW o \in Nodes, NEW k \in Keys, ResolveMapped(n, o, k), w \notin views
        PROVE  Safe(w.node, w.off, w.len, w.val)
    <2>1. SafeRecord(o, RecordOf(n, o, k))
      BY RecordTypes
    <2>2. w = View(o, RecordOf(n, o, k).off, RecordOf(n, o, k))
      BY <1>2, Zenon DEF ResolveMapped
    <2> QED
      BY <2>1, <2>2 DEF View, SafeRecord
  <1>3. ASSUME NEW n \in Nodes, WaitRead(n), w \notin views PROVE Safe(w.node, w.off, w.len, w.val)
    <2> DEFINE r == call[n].rec
               off == call[n].off
    <2>1. w = View(n, off, r) /\ ReadGood(n, Head(cpls[n]))
      BY <1>3 DEF WaitRead
    <2>2. r \in Rec /\ off \in Nat /\ r.len \in Nat
      BY <1>t, Zenon DEF TypeOK, Call, Rec
    <2>3. r.len /= 0 /\ r.val /= 0 /\ off + r.len <= arena[n]
      BY <1>3 DEF IInv, CallsSafe, WaitRead
    <2>4. Content(n, off, r.len) = r.val
      BY <2>1 DEF ReadGood
    <2> HIDE DEF r, off
    <2>5. off \in Span(off, r.len)
      BY <2>2, <2>3 DEF Span
    <2>6. \A c \in Span(off, r.len) : mem[n][c] = r.val
      BY <2>3, <2>4, <2>5 DEF Content
    <2> QED
      BY <2>1, <2>3, <2>6, Zenon DEF View, Safe
  <1>4. ASSUME NEW m \in Nodes,
               \/ \E ks \in Bundles : PublishNoRoom(m, ks)
               \/ \E ks \in Bundles : \E vs \in [DOMAIN ks -> Values] : Publish(m, ks, vs)
               \/ NotAttached(m) \/ SubmitWrite(m) \/ WaitWrite(m) \/ Announce(m)
               \/ IoctlFails(m) \/ DeviceGone(m) \/ DeviceWrites(m) \/ DeviceReads(m) \/ DeviceRefuses(m)
               \/ \E o \in Nodes : \E x \in Keys : ResolveBacked(m, o, x) \/ ResolveFails(m, o, x)
        PROVE  UNCHANGED views
    BY <1>4, Zenon DEF PublishNoRoom, Publish, NotAttached, SubmitWrite, WaitWrite, Announce, IoctlFails,
                DeviceGone, DeviceWrites, DeviceReads, DeviceRefuses, ResolveBacked, ResolveFails
  <1>5. CASE UNCHANGED vars
    BY <1>1, <1>5 DEF vars
  <1> QED
    BY <1>1, <1>2, <1>3, <1>4, <1>5, Actions

LEMMA ViewsStep == IInv /\ [Next]_vars => ViewsSafe'
  <1> SUFFICES ASSUME IInv, [Next]_vars, NEW w \in views'
               PROVE  Safe(w.node, w.off, w.len, w.val)'
    BY DEF ViewsSafe
  <1>t. TypeOK /\ TypeOK' /\ Preserves
    BY TypesStep, PreservesStep, Zenon DEF IInv
  <1>1. w.node \in Nodes /\ w.off \in Nat /\ w.len \in Nat /\ w.val \in Nat
    <2>1. w \in [node : Nodes, off : Nat, len : Nat, val : Bytes]
      BY <1>t DEF TypeOK
    <2> QED
      BY <2>1, SsdAssumption, SMTT(30) DEF Bytes, SsdConstants
  <1> QED
    BY <1>t, <1>1, NewView, SafeStays

LEMMA UntouchedStep == IInv /\ [Next]_vars => Untouched'
  <1> SUFFICES ASSUME IInv, [Next]_vars, NEW n \in Nodes, NEW c \in Cells, c >= arena'[n]
               PROVE  mem'[n][c] = 0
    BY DEF Untouched
  <1>t. TypeOK /\ TypeOK' /\ Preserves
    BY TypesStep, PreservesStep, Zenon DEF IInv
  <1>1. arena[n] \in Nat /\ arena'[n] \in Nat /\ arena[n] <= arena'[n] /\ c \in Nat
    BY Marks DEF Cells
  <1>2. mem[n][c] = 0
    BY <1>1 DEF IInv, Untouched
  <1>3. ASSUME NEW m \in Nodes, NEW ks \in Bundles, NEW vs \in [DOMAIN ks -> Values], Publish(m, ks, vs)
        PROVE  mem'[n][c] = mem[n][c]
    <2>1. BundleUnits(ks) \in Nat /\ HasRoom(m, BundleUnits(ks)) /\ mem' = Copied(m, ks, vs)
      BY <1>3, BundleTypes DEF Publish
    <2>2. arena'[m] = arena[m] + BundleUnits(ks)
      BY <1>t, <1>3, <2>1, AllocTypes DEF Publish
    <2>3. \A i \in DOMAIN ks : /\ Place(m, ks, i) \in Nat /\ UnitsOf[ks[i]] \in Nat
                               /\ Place(m, ks, i) + UnitsOf[ks[i]] <= arena'[m]
      <3>1. \A i \in DOMAIN ks : /\ Place(m, ks, i) \in Nat
                                 /\ Place(m, ks, i) + UnitsOf[ks[i]] <= arena[m] + BundleUnits(ks)
        BY <1>t, <2>1, PublishTypes, Zenon
      <3>2. \A i \in DOMAIN ks : UnitsOf[ks[i]] \in Nat
        BY BundleTypes
      <3> QED
        BY <2>2, <3>1, <3>2
    <2>4. m = n => ~ \E i \in DOMAIN ks : c \in Span(Place(m, ks, i), UnitsOf[ks[i]])
      BY <1>1, <2>3 DEF Span
    <2> QED
      BY <1>t, <2>1, <2>4, Zenon DEF Copied, TypeOK
  <1>4. ASSUME NEW m \in Nodes, DeviceReads(m) PROVE mem'[n][c] = mem[n][c]
    <2> DEFINE cmd == Head(cmds[m])
    <2>1. cmd \in Command /\ cmd = cmds[m][1] /\ 1 \in 1 .. Len(cmds[m])
      BY <1>t, <1>4, FirstCommand, Zenon DEF DeviceReads
    <2>2. UNCHANGED arena
      BY <1>4, Zenon DEF DeviceReads
    <2>3. Sent(arena[m], m, cmd)
      BY <2>1 DEF IInv, CommandsSafe, QueueSafe
    <2>4. PICK v : mem' = Filled(mem, Owner(cmd.base), Offset(cmd.base), cmd.bytes, v)
      BY <1>4, Zenon DEF DeviceReads
    <2> HIDE DEF cmd
    <2>5. /\ Owner(cmd.base) = m /\ Offset(cmd.base) \in Nat /\ cmd.bytes \in Nat
          /\ Offset(cmd.base) + cmd.bytes <= arena[m]
      BY <1>t, <2>1, <2>3, SentThere DEF Command
    <2>6. m = n => c \notin Span(Offset(cmd.base), cmd.bytes)
      BY <1>1, <2>2, <2>5 DEF Span
    <2> QED
      BY <1>t, <2>4, <2>5, <2>6, Zenon DEF Filled, TypeOK
  <1>5. ASSUME NEW m \in Nodes,
               \/ \E ks \in Bundles : PublishNoRoom(m, ks)
               \/ NotAttached(m) \/ SubmitWrite(m) \/ WaitWrite(m) \/ Announce(m) \/ WaitRead(m)
               \/ IoctlFails(m) \/ DeviceGone(m) \/ DeviceWrites(m) \/ DeviceRefuses(m)
               \/ \E o \in Nodes : \E x \in Keys :
                    ResolveMapped(m, o, x) \/ ResolveBacked(m, o, x) \/ ResolveFails(m, o, x)
        PROVE  UNCHANGED mem
    BY <1>5, ZenonT(30) DEF PublishNoRoom, NotAttached, SubmitWrite, WaitWrite, Announce, WaitRead, IoctlFails,
                DeviceGone, DeviceWrites, DeviceRefuses, ResolveMapped, ResolveBacked, ResolveFails
  <1>6. CASE UNCHANGED vars
    BY <1>2, <1>6 DEF vars
  <1> QED
    BY <1>2, <1>3, <1>4, <1>5, <1>6, Actions, Zenon

\* A record does not become empty.
LEMMA LenStays ==
    ASSUME IInv, [Next]_vars, NEW n \in Nodes, NEW k \in Keys, table[n][k].len /= 0
    PROVE  table'[n][k].len /= 0
  <1>t. TypeOK /\ TypeOK'
    BY TypesStep DEF IInv
  <1>1. PICK r \in Rec : r = table[n][k]
    BY <1>t, Zenon DEF TypeOK
  <1>2. PICK r2 \in Rec : r2 = table'[n][k]
    BY <1>t, Zenon DEF TypeOK
  <1>3. CASE Attached(r, r2)
    <2>1. PICK b : r2 = [r EXCEPT !.back = b]
      BY <1>3, Zenon DEF Attached
    <2>2. r2.len = r.len
      BY <2>1 DEF Rec
    <2> QED
      BY <1>1, <1>2, <2>2
  <1>4. CASE FreshAt(n, r2)
    <2>1. r2.len /= 0
      BY <1>4, FreshSafe DEF FreshAt
    <2> QED
      BY <1>2, <2>1
  <1> QED
    BY <1>1, <1>2, <1>3, <1>4, TableChanges

LEMMA CallsStep == IInv /\ [Next]_vars => CallsSafe'
  <1> DEFINE Reading(n) ==
               call[n].pc = "reading" =>
                 /\ call[n].rec.len /= 0 /\ call[n].rec.val /= 0
                 /\ call[n].off + call[n].rec.len <= arena[n]
             Publishing(n) ==
               \A i \in 1 .. Len(call[n].keys) : table[n][call[n].keys[i]].len /= 0
  <1> SUFFICES ASSUME IInv, [Next]_vars, NEW n \in Nodes PROVE Reading(n)' /\ Publishing(n)'
    BY DEF CallsSafe
  <1>t. TypeOK /\ TypeOK' /\ Preserves
    BY TypesStep, PreservesStep, Zenon DEF IInv
  <1>h. Reading(n) /\ Publishing(n)
    BY DEF IInv, CallsSafe
  <1>c. /\ call[n] \in Call /\ call[n].keys \in Seq(Keys) /\ call[n].off \in Nat
        /\ call[n].rec.len \in Nat /\ arena[n] \in Nat /\ arena'[n] \in Nat /\ arena[n] <= arena'[n]
    <2>1. call[n] \in Call
      BY <1>t, Zenon DEF TypeOK
    <2> QED
      BY <2>1, Marks DEF Call, Rec
  <1>k. \A i \in 1 .. Len(call[n].keys) :
          call[n].keys[i] \in Keys /\ table'[n][call[n].keys[i]].len /= 0
    <2> SUFFICES ASSUME NEW i \in 1 .. Len(call[n].keys)
                 PROVE  call[n].keys[i] \in Keys /\ table'[n][call[n].keys[i]].len /= 0
      OBVIOUS
    <2>1. call[n].keys[i] \in Keys
      BY <1>c, ElementOfSeq
    <2> QED
      BY <1>h, <2>1, LenStays
  <1>1. ASSUME call'[n] = call[n] PROVE Reading(n)' /\ Publishing(n)'
    BY <1>1, <1>h, <1>c, <1>k
  <1>2. ASSUME call'[n] = Idle PROVE Reading(n)' /\ Publishing(n)'
    <2>1. call'[n].pc = "idle" /\ call'[n].keys = <<>>
      BY <1>2 DEF Idle
    <2>2. 1 .. Len(call'[n].keys) = {}
      BY <2>1
    <2> QED
      BY <2>1, <2>2
  <1>3. ASSUME NextObject(n), call[n].pc \in {"attach", "writing"} PROVE Reading(n)' /\ Publishing(n)'
    <2> DEFINE t == Tail(call[n].keys)
    <2>1. call[n].keys /= <<>>
      BY <1>t, <1>3, Zenon DEF TypeOK
    <2>2. Len(call[n].keys) \in Nat /\ Len(t) = Len(call[n].keys) - 1
      BY <1>c, <2>1, HeadTailProperties, LenProperties
    <2>3. \A i \in 1 .. Len(t) : t[i] = call[n].keys[i + 1]
      BY <1>c, <2>1, HeadTailProperties, SMTT(20)
    <2>4. call'[n].keys = t /\ call'[n].pc \in {"announce", "attach"}
      BY <1>t, <1>c, <1>3 DEF NextObject, TypeOK, Call
    <2> HIDE DEF t
    <2>5. \A i \in 1 .. Len(t) : i + 1 \in 1 .. Len(call[n].keys)
      BY <2>2
    <2>6. Publishing(n)'
      BY <1>k, <2>3, <2>4, <2>5, Zenon
    <2> QED
      BY <2>4, <2>6
  <1>4. ASSUME NEW ks \in Bundles, NEW vs \in [DOMAIN ks -> Values], Publish(n, ks, vs)
        PROVE  Reading(n)' /\ Publishing(n)'
    <2>1. CASE ReturnError(n)
      <3>1. call'[n] = Idle
        BY <1>t, <2>1, Zenon DEF ReturnError, TypeOK
      <3> QED
        BY <1>2, <3>1
    <2>2. CASE /\ table' = [table EXCEPT ![n] = [k \in Keys |->
                    IF \E i \in DOMAIN ks : ks[i] = k THEN FreshRecord(n, ks, vs, IndexOf(ks, k)) ELSE @[k]]]
               /\ call' = [call EXCEPT ![n] = [Idle EXCEPT !.pc = "attach", !.keys = ks]]
      <3>1. call'[n].pc = "attach" /\ call'[n].keys = ks
        BY <1>t, <2>2 DEF TypeOK, Idle
      <3>2. ks \in Seq(Keys) /\ DOMAIN ks = 1 .. Len(ks)
        BY BundleTypes, LenProperties
      <3>3. ASSUME NEW i \in 1 .. Len(ks) PROVE table'[n][ks[i]].len /= 0
        <4>1. IndexOf(ks, ks[i]) \in DOMAIN ks
          BY <3>2 DEF IndexOf
        <4>2. ks[i] \in Keys
          BY <3>2, ElementOfSeq
        <4>3. table'[n][ks[i]] = FreshRecord(n, ks, vs, IndexOf(ks, ks[i]))
          BY <1>t, <2>2, <3>2, <4>2 DEF TypeOK
        <4>4. UnitsOf[ks[IndexOf(ks, ks[i])]] /= 0
          BY <4>1, BundleTypes, Zenon
        <4>5. table'[n][ks[i]].len = UnitsOf[ks[IndexOf(ks, ks[i])]]
          BY <4>3, SMTT(30) DEF FreshRecord
        <4> QED
          BY <4>4, <4>5
      <3> QED
        BY <3>1, <3>3
    <2> QED
      BY <1>4, <2>1, <2>2 DEF Publish
  <1>5. ASSUME SubmitWrite(n) PROVE Reading(n)' /\ Publishing(n)'
    <2>1. call'[n].pc = "writing" /\ call'[n].keys = call[n].keys
      BY <1>t, <1>c, <1>5 DEF SubmitWrite, TypeOK, Call
    <2> QED
      BY <1>k, <2>1
  <1>6. ASSUME NEW o \in Nodes, NEW k \in Keys, ResolveBacked(n, o, k)
        PROVE  Reading(n)' /\ Publishing(n)'
    <2> DEFINE r == RecordOf(n, o, k)
    <2>1. r \in Rec /\ SafeRecord(o, r)
      BY RecordTypes
    <2>2. r.len \in Nat \ {0} /\ r.val /= 0
      BY <1>6, <2>1, BackedTypes DEF ResolveBacked
    <2>3. call' = [call EXCEPT ![n] = [Idle EXCEPT !.pc = "reading", !.rec = r, !.off = arena[n]]]
      BY <1>6 DEF ResolveBacked
    <2>4. HasRoom(n, r.len) /\ Alloc(n, r.len)
      BY <1>6 DEF ResolveBacked
    <2> HIDE DEF r
    <2>5. arena'[n] = arena[n] + r.len
      BY <1>t, <2>2, <2>4, AllocTypes
    <2>6. call'[n].rec = r /\ call'[n].off = arena[n] /\ call'[n].keys = <<>>
      BY <1>t, <2>3 DEF TypeOK, Idle
    <2>7. 1 .. Len(call'[n].keys) = {}
      BY <2>6
    <2>8. Reading(n)'
      BY <1>c, <2>2, <2>5, <2>6
    <2> QED
      BY <2>7, <2>8
  <1>7. ASSUME NEW m \in Nodes,
               \/ \E ks \in Bundles : PublishNoRoom(m, ks)
               \/ \E ks \in Bundles : \E vs \in [DOMAIN ks -> Values] : Publish(m, ks, vs)
               \/ NotAttached(m) \/ SubmitWrite(m) \/ WaitWrite(m) \/ Announce(m) \/ WaitRead(m)
               \/ IoctlFails(m) \/ DeviceGone(m)
               \/ \E o \in Nodes : \E x \in Keys :
                    ResolveMapped(m, o, x) \/ ResolveBacked(m, o, x) \/ ResolveFails(m, o, x)
        PROVE  /\ m /= n => call'[n] = call[n]
               /\ m = n =>
                    \/ call'[n] = call[n] \/ call'[n] = Idle
                    \/ NextObject(n) /\ call[n].pc \in {"attach", "writing"}
                    \/ \E ks \in Bundles : \E vs \in [DOMAIN ks -> Values] : Publish(n, ks, vs)
                    \/ SubmitWrite(n)
                    \/ \E o \in Nodes : \E x \in Keys : ResolveBacked(n, o, x)
    <2>1. ASSUME NextObject(m) PROVE m /= n => call'[n] = call[n]
      BY <1>t, <2>1 DEF NextObject, TypeOK
    <2>2. ASSUME Return(m) \/ ReturnError(m)
          PROVE  (m /= n => call'[n] = call[n]) /\ (m = n => call'[n] = Idle)
      BY <1>t, <2>2, Zenon DEF Return, ReturnError, TypeOK
    <2>3. ASSUME \/ SubmitWrite(m)
                 \/ \E ks \in Bundles : \E vs \in [DOMAIN ks -> Values] : Publish(m, ks, vs)
                 \/ \E o \in Nodes : \E x \in Keys : ResolveBacked(m, o, x)
          PROVE  m /= n => call'[n] = call[n]
      BY <1>t, <2>3, ZenonT(30) DEF SubmitWrite, Publish, ReturnError, ResolveBacked, TypeOK
    <2>4. ASSUME NotAttached(m) \/ DeviceGone(m)
          PROVE  NextObject(m) /\ call[m].pc \in {"attach", "writing"}
      BY <2>4 DEF NotAttached, DeviceGone
    <2>5. ASSUME WaitWrite(m)
          PROVE  (NextObject(m) /\ call[m].pc \in {"attach", "writing"}) \/ ReturnError(m)
      BY <2>5 DEF WaitWrite
    <2>6. ASSUME \/ \E ks \in Bundles : PublishNoRoom(m, ks)
                 \/ Announce(m) \/ WaitRead(m) \/ IoctlFails(m)
                 \/ \E o \in Nodes : \E x \in Keys : ResolveFails(m, o, x)
          PROVE  Return(m) \/ ReturnError(m)
      BY <2>6, Zenon DEF PublishNoRoom, Announce, WaitRead, IoctlFails, ResolveFails
    <2>7. ASSUME NEW o \in Nodes, NEW x \in Keys, ResolveMapped(m, o, x)
          PROVE  UNCHANGED call \/ ReturnError(m)
      BY <2>7 DEF ResolveMapped
    <2> QED
      BY <1>7, <2>1, <2>2, <2>3, <2>4, <2>5, <2>6, <2>7, Zenon
  <1>8. ASSUME NEW m \in Nodes, DeviceWrites(m) \/ DeviceReads(m) \/ DeviceRefuses(m)
        PROVE  call'[n] = call[n]
    BY <1>8, ZenonT(30) DEF DeviceWrites, DeviceReads, DeviceRefuses
  <1>9. CASE UNCHANGED vars
    BY <1>1, <1>9 DEF vars
  <1> HIDE DEF Reading, Publishing
  <1> QED
    BY <1>1, <1>2, <1>3, <1>4, <1>5, <1>6, <1>7, <1>8, <1>9, Actions, Zenon

\* A read that is executed writes to bytes no later one goes into.
LEMMA ReadLands ==
    ASSUME NEW n \in Nodes, NEW q \in Seq(Command), q /= <<>>, NEW m, NEW m2,
           NEW a \in 0 .. PayloadUnits, QueueSafe(m, a, n, q), q[1].op = "read",
           \A c \in Cells : c \notin Span(q[1].base - GsvaBase(n, 0), q[1].bytes) => m2[c] = m[c]
    PROVE  QueueSafe(m2, a, n, Tail(q))
  <1> DEFINE t == Tail(q)
  <1>1. Len(q) \in Nat /\ Len(t) = Len(q) - 1 /\ t \in Seq(Command)
    BY HeadTailProperties, LenProperties
  <1>2. \A i \in 1 .. Len(t) : t[i] = q[i + 1]
    BY HeadTailProperties
  <1>3. QueueSafe(m, a, n, t)
    BY QueueTail
  <1> HIDE DEF t
  <1>4. 1 \in 1 .. Len(q) /\ q[1] \in Command
    BY EmptySeq, ElementOfSeq
  <1>5. ASSUME NEW i \in 1 .. Len(t), t[i].op = "read" PROVE Blank(m2, n, t[i])
    <2>1. t[i] \in Command /\ Sent(a, n, t[i]) /\ Blank(m, n, t[i])
      BY <1>1, <1>3, <1>5, ElementOfSeq DEF QueueSafe
    <2>2. i + 1 \in 1 + 1 .. Len(q)
      BY <1>1
    <2>3. q[1].base + q[1].bytes <= t[i].base
      BY <1>2, <1>4, <1>5, <2>2 DEF QueueSafe
    <2>4. PICK g \in Nat : g = GsvaBase(n, 0)
      BY Sizes DEF GsvaBase
    <2>5. ASSUME NEW c \in Span(t[i].base - g, t[i].bytes) PROVE m2[c] = 0
      <3>1. c \in Cells
        BY <2>1, <2>4, <2>5, SentCells
      <3>2. c \notin Span(q[1].base - g, q[1].bytes)
        <4>1. /\ t[i].base \in Nat /\ t[i].bytes \in Nat
              /\ q[1].base \in Nat /\ q[1].bytes \in Nat
          BY <1>4, <2>1 DEF Command
        <4>2. PICK x \in Nat, y \in Nat, w \in Nat :
                x = q[1].base /\ y = q[1].bytes /\ w = t[i].base
          BY <4>1, Zenon
        <4>3. c \in Int /\ c >= w - g /\ w >= x + y
          BY <2>3, <2>5, <4>1, <4>2 DEF Span
        <4>4. c \notin Span(x - g, y)
          BY <4>3, SMTT(30) DEF Span
        <4> QED
          BY <4>2, <4>4, Zenon
      <3>3. m[c] = 0
        BY <2>1, <2>4, <2>5, Zenon DEF Blank
      <3> QED
        BY <2>4, <3>1, <3>2, <3>3
    <2> QED
      BY <2>4, <2>5, Zenon DEF Blank
  <1>6. QueueSafe(m2, a, n, t)
    BY <1>3, <1>5 DEF QueueSafe
  <1> QED
    BY <1>6 DEF t

\* Only what a command is about matters.
LEMMA QueueLike ==
    ASSUME NEW n \in Nodes, NEW q, NEW q2, NEW m, NEW a, QueueSafe(m, a, n, q),
           Len(q) \in Nat, Len(q2) = Len(q),
           \A i \in 1 .. Len(q) :
             q2[i].op = q[i].op /\ q2[i].base = q[i].base /\ q2[i].bytes = q[i].bytes
    PROVE  QueueSafe(m, a, n, q2)
  <1>1. ASSUME NEW i \in 1 .. Len(q)
        PROVE  Sent(a, n, q2[i]) /\ (q2[i].op = "read" => Blank(m, n, q2[i]))
    BY DEF QueueSafe, Sent, Blank
  <1>2. ASSUME NEW i \in 1 .. Len(q), q2[i].op = "read", NEW j \in i + 1 .. Len(q), q2[j].op = "read"
        PROVE  q2[i].base + q2[i].bytes <= q2[j].base
    <2>1. j \in 1 .. Len(q)
      OBVIOUS
    <2> QED
      BY <1>2, <2>1, Zenon DEF QueueSafe
  <1> QED
    BY <1>1, <1>2, ZenonT(30) DEF QueueSafe

LEMMA CommandsStep == IInv /\ [Next]_vars => CommandsSafe'
  <1> SUFFICES ASSUME IInv, [Next]_vars, NEW n \in Nodes
               PROVE  QueueSafe(mem'[n], arena'[n], n, cmds'[n])
    BY Zenon DEF CommandsSafe
  <1>t. TypeOK /\ TypeOK' /\ Preserves
    BY TypesStep, PreservesStep, Zenon DEF IInv
  <1>a. /\ arena[n] \in 0 .. PayloadUnits /\ arena'[n] \in 0 .. PayloadUnits
        /\ arena[n] <= arena'[n] /\ arena[n] \in Nat /\ arena'[n] \in Nat
    BY Marks
  <1>q. cmds[n] \in Seq(Command) /\ QueueSafe(mem[n], arena[n], n, cmds[n])
    BY <1>t, Zenon DEF TypeOK, IInv, CommandsSafe
  <1>g. GsvaBase(n, 0) \in Nat /\ \A x \in Int : GsvaBase(n, x) = GsvaBase(n, 0) + x
    BY Sizes, SMTT(30) DEF GsvaBase
  <1>k. ASSUME \A c \in Cells : c < arena[n] => mem'[n][c] = mem[n][c]
        PROVE  QueueSafe(mem'[n], arena'[n], n, cmds[n])
    BY <1>a, <1>q, <1>k, QueueStays, Zenon
  <1>1. ASSUME NEW m \in Nodes, NEW ks \in Bundles, NEW vs \in [DOMAIN ks -> Values], Publish(m, ks, vs)
        PROVE  QueueSafe(mem'[n], arena'[n], n, cmds'[n])
    <2>1. ASSUME NEW c \in Cells, c < arena[n] PROVE mem'[n][c] = mem[n][c]
      <3>1. \A i \in DOMAIN ks : /\ Place(m, ks, i) \in Nat /\ Place(m, ks, i) >= arena[m]
                                 /\ UnitsOf[ks[i]] \in Nat
        BY <1>t, <1>1, PublishTypes, BundleTypes DEF Publish
      <3>2. m = n => ~ \E i \in DOMAIN ks : c \in Span(Place(m, ks, i), UnitsOf[ks[i]])
        BY <1>a, <2>1, <3>1 DEF Span, Cells
      <3>3. mem' = Copied(m, ks, vs)
        BY <1>1 DEF Publish
      <3> QED
        BY <1>t, <3>2, <3>3, Zenon DEF Copied, TypeOK
    <2>2. UNCHANGED cmds
      BY <1>1 DEF Publish
    <2> QED
      BY <1>k, <2>1, <2>2
  <1>2. ASSUME UNCHANGED mem, cmds'[n] = cmds[n] PROVE QueueSafe(mem'[n], arena'[n], n, cmds'[n])
    BY <1>k, <1>2
  <1>3. ASSUME NEW m \in Nodes, SubmitWrite(m) PROVE QueueSafe(mem'[n], arena'[n], n, cmds'[n])
    <2>1. CASE m /= n
      <3>1. UNCHANGED mem /\ cmds'[n] = cmds[n]
        BY <1>t, <1>3, <2>1 DEF SubmitWrite, Submit, TypeOK
      <3> QED
        BY <1>2, <3>1
    <2>2. CASE m = n
      <3>1. call[n].keys \in Seq(Keys) /\ call[n].keys /= <<>>
        BY <1>t, <1>3, <2>2 DEF SubmitWrite, TypeOK, Call
      <3>2. Current(n) \in Keys /\ Current(n) = call[n].keys[1] /\ 1 \in 1 .. Len(call[n].keys)
        BY <3>1, HeadTailProperties, EmptySeq DEF Current
      <3>3. PICK r \in Rec : r = table[n][Current(n)]
        BY <1>t, <3>2, Zenon DEF TypeOK
      <3>4. r.off \in Nat /\ r.len \in Nat \ {0} /\ r.off + r.len <= arena[n]
        <4>1. r.len /= 0
          BY <3>2, <3>3, Zenon DEF IInv, CallsSafe
        <4>2. SafeRecord(n, r)
          BY <3>2, <3>3 DEF IInv, RecordsSafe
        <4> QED
          BY <4>1, <4>2 DEF SafeRecord, Safe, Rec
      <3> DEFINE d == [op |-> "write", dev |-> DeviceOf(n), block |-> <<n, Current(n)>>, heard |-> TRUE,
                       base |-> GsvaBase(n, r.off), bytes |-> r.len]
      <3>5. cmds' = [cmds EXCEPT ![n] = Append(@, d)]
        BY <1>3, <2>2, <3>3 DEF SubmitWrite, Submit
      <3>6. GsvaBase(n, r.off) = GsvaBase(n, 0) + r.off /\ GsvaBase(n, r.off) \in Nat
        BY <1>g, <3>4, SMTT(30)
      <3>7. d \in Command
        BY <3>2, <3>4, <3>6, BlockTypes DEF Command
      <3>8. n \in Placed
        BY <1>3, <2>2 DEF SubmitWrite, Addressable, Placed
      <3>9. Sent(arena[n], n, d)
        <4>1. d.base = GsvaBase(n, 0) + r.off /\ d.bytes = r.len
          BY <3>6
        <4>2. GsvaBase(n, arena[n]) = GsvaBase(n, 0) + arena[n]
          BY <1>a, <1>g, SMTT(30)
        <4> HIDE DEF d
        <4>3. d.base >= GsvaBase(n, 0) /\ d.base + d.bytes <= GsvaBase(n, arena[n])
          BY <1>a, <1>g, <3>4, <4>1, <4>2, SMTT(30)
        <4> QED
          BY <3>8, <4>3 DEF Sent
      <3>10. d.op /= "read"
        OBVIOUS
      <3> HIDE DEF d
      <3>11. QueueSafe(mem[n], arena[n], n, Append(cmds[n], d))
        BY <1>q, <3>7, <3>9, <3>10, QueueAppend, Zenon
      <3>12. UNCHANGED <<mem, arena>> /\ cmds'[n] = Append(cmds[n], d)
        BY <1>t, <1>3, <3>5, Zenon DEF SubmitWrite, TypeOK
      <3> QED
        BY <3>11, <3>12
    <2> QED
      BY <2>1, <2>2
  <1>4. ASSUME NEW m \in Nodes, NEW o \in Nodes, NEW k \in Keys, ResolveBacked(m, o, k)
        PROVE  QueueSafe(mem'[n], arena'[n], n, cmds'[n])
    <2>1. CASE m /= n
      <3>1. UNCHANGED mem /\ cmds'[n] = cmds[n]
        BY <1>t, <1>4, <2>1 DEF ResolveBacked, Submit, TypeOK
      <3> QED
        BY <1>2, <3>1
    <2>2. CASE m = n
      <3>1. PICK r \in Rec : r = RecordOf(n, o, k)
        BY RecordTypes
      <3>2. /\ r.back.dev \in Devices /\ r.back.block \in Blocks /\ r.len \in Nat \ {0}
        BY <1>4, <2>2, <3>1, RecordTypes, BackedTypes DEF ResolveBacked
      <3> DEFINE d == [op |-> "read", dev |-> r.back.dev, block |-> r.back.block, heard |-> TRUE,
                       base |-> GsvaBase(n, arena[n]), bytes |-> r.len]
      <3>3. cmds' = [cmds EXCEPT ![n] = Append(@, d)]
        BY <1>4, <2>2, <3>1 DEF ResolveBacked, Submit
      <3>4. GsvaBase(n, arena[n]) = GsvaBase(n, 0) + arena[n] /\ GsvaBase(n, arena[n]) \in Nat
        BY <1>a, <1>g, SMTT(30)
      <3>5. d \in Command
        BY <3>2, <3>4 DEF Command
      <3>6. HasRoom(n, r.len) /\ Alloc(n, r.len) /\ UNCHANGED mem /\ n \in Placed
        BY <1>4, <2>2, <3>1 DEF ResolveBacked, Addressable, Placed
      <3>7. arena'[n] = arena[n] + r.len /\ arena[n] + r.len <= PayloadUnits
        BY <1>t, <3>2, <3>6, AllocTypes DEF HasRoom
      <3>8. Sent(arena'[n], n, d)
        <4>1. GsvaBase(n, arena'[n]) = GsvaBase(n, 0) + arena'[n]
          BY <1>a, <1>g, SMTT(30)
        <4>2. d.base = GsvaBase(n, 0) + arena[n] /\ d.bytes = r.len
          BY <3>4, Zenon
        <4> HIDE DEF d
        <4>3. d.base >= GsvaBase(n, 0) /\ d.base + d.bytes <= GsvaBase(n, arena'[n])
          BY <1>a, <1>g, <3>2, <3>7, <4>1, <4>2, SMTT(30)
        <4> QED
          BY <3>6, <4>3, Zenon DEF Sent
      <3>9. Blank(mem'[n], n, d)
        <4>1. d.base - GsvaBase(n, 0) = arena[n] /\ d.bytes = r.len
          BY <1>a, <1>g, <3>4
        <4>2. ASSUME NEW c \in Span(arena[n], r.len) PROVE mem'[n][c] = 0
          <5>1. c \in Cells /\ c >= arena[n]
            BY <1>a, <3>2, <3>7, <4>2, Sizes DEF Span, Cells
          <5> QED
            BY <3>6, <5>1, Zenon DEF IInv, Untouched
        <4> HIDE DEF d
        <4> QED
          BY <4>1, <4>2, ZenonT(30) DEF Blank
      <3>10. ASSUME NEW i \in 1 .. Len(cmds[n]) PROVE cmds[n][i].base + cmds[n][i].bytes <= d.base
        BY <1>q, Zenon DEF QueueSafe, Sent
      <3> HIDE DEF d
      <3>11. QueueSafe(mem'[n], arena'[n], n, cmds[n])
        BY <1>k, <3>6
      <3>12. QueueSafe(mem'[n], arena'[n], n, Append(cmds[n], d))
        BY <1>q, <3>5, <3>8, <3>9, <3>10, <3>11, QueueAppend, Zenon
      <3>13. cmds'[n] = Append(cmds[n], d)
        BY <1>t, <3>3, Zenon DEF TypeOK
      <3> QED
        BY <3>12, <3>13
    <2> QED
      BY <2>1, <2>2
  <1>5. ASSUME NEW m \in Nodes, Abandon(m), UNCHANGED <<mem, arena>>
        PROVE  QueueSafe(mem'[n], arena'[n], n, cmds'[n])
    <2>1. Len(cmds[n]) \in Nat
      BY <1>q, LenProperties
    <2>2. /\ Len(cmds'[n]) = Len(cmds[n])
          /\ \A i \in 1 .. Len(cmds[n]) :
               /\ cmds'[n][i].op = cmds[n][i].op
               /\ cmds'[n][i].base = cmds[n][i].base /\ cmds'[n][i].bytes = cmds[n][i].bytes
      BY <1>t, <1>5, AbandonTypes, Zenon
    <2>3. QueueSafe(mem[n], arena[n], n, cmds'[n])
      BY <1>q, <2>1, <2>2, QueueLike
    <2> QED
      BY <1>5, <2>3
  <1>6. ASSUME NEW m \in Nodes, cmds' = [cmds EXCEPT ![m] = Tail(@)], cmds[m] /= <<>>,
               UNCHANGED <<mem, arena>>
        PROVE  QueueSafe(mem'[n], arena'[n], n, cmds'[n])
    <2>1. CASE m /= n
      <3>1. cmds'[n] = cmds[n]
        BY <1>t, <1>6, <2>1, Zenon DEF TypeOK
      <3> QED
        BY <1>2, <1>6, <3>1, SMTT(20)
    <2>2. CASE m = n
      <3>1. cmds'[n] = Tail(cmds[n])
        BY <1>t, <1>6, <2>2, Zenon DEF TypeOK
      <3>2. QueueSafe(mem[n], arena[n], n, Tail(cmds[n]))
        BY <1>q, <1>6, <2>2, QueueTail
      <3> QED
        BY <1>6, <3>1, <3>2
    <2> QED
      BY <2>1, <2>2
  <1>7. ASSUME NEW m \in Nodes, DeviceReads(m) PROVE QueueSafe(mem'[n], arena'[n], n, cmds'[n])
    <2> DEFINE cmd == Head(cmds[m])
    <2>1. cmd \in Command /\ cmd = cmds[m][1] /\ 1 \in 1 .. Len(cmds[m]) /\ cmds[m] /= <<>>
      BY <1>t, <1>7, FirstCommand, Zenon DEF DeviceReads
    <2>2. UNCHANGED arena /\ cmds' = [cmds EXCEPT ![m] = Tail(@)] /\ cmd.op = "read"
      BY <1>7, Zenon DEF DeviceReads, Completes
    <2>3. Sent(arena[m], m, cmd)
      BY <2>1 DEF IInv, CommandsSafe, QueueSafe
    <2>4. PICK v : mem' = Filled(mem, Owner(cmd.base), Offset(cmd.base), cmd.bytes, v)
      BY <1>7, Zenon DEF DeviceReads
    <2> HIDE DEF cmd
    <2>5. Owner(cmd.base) = m /\ Offset(cmd.base) = cmd.base - GsvaBase(m, 0)
      BY <1>t, <2>1, <2>3, SentThere, ZenonT(30)
    <2>6. CASE m /= n
      <3>1. \A c \in Cells : mem'[n][c] = mem[n][c]
        BY <1>t, <2>4, <2>5, <2>6, Zenon DEF Filled, TypeOK
      <3>2. cmds'[n] = cmds[n]
        BY <1>t, <2>2, <2>6, Zenon DEF TypeOK
      <3> QED
        BY <1>k, <3>1, <3>2
    <2>7. CASE m = n
      <3>1. \A c \in Cells : c \notin Span(cmd.base - GsvaBase(n, 0), cmd.bytes) => mem'[n][c] = mem[n][c]
        BY <1>t, <2>4, <2>5, <2>7, Zenon DEF Filled, TypeOK
      <3>2. QueueSafe(mem'[n], arena[n], n, Tail(cmds[n]))
        BY <1>a, <1>q, <2>1, <2>2, <2>7, <3>1, ReadLands
      <3>3. cmds'[n] = Tail(cmds[n])
        BY <1>t, <2>2, <2>7, Zenon DEF TypeOK
      <3> QED
        BY <2>2, <3>2, <3>3
    <2> QED
      BY <2>6, <2>7
  <1>8. ASSUME NEW m \in Nodes, DeviceWrites(m) \/ DeviceRefuses(m)
        PROVE  QueueSafe(mem'[n], arena'[n], n, cmds'[n])
    BY <1>6, <1>8, Zenon DEF DeviceWrites, DeviceRefuses, Completes
  <1>9. ASSUME NEW m \in Nodes, IoctlFails(m) \/ DeviceGone(m)
        PROVE  QueueSafe(mem'[n], arena'[n], n, cmds'[n])
    BY <1>5, <1>9, Zenon DEF IoctlFails, DeviceGone
  <1>10. ASSUME NEW m \in Nodes,
               \/ \E ks \in Bundles : PublishNoRoom(m, ks)
               \/ NotAttached(m) \/ WaitWrite(m) \/ Announce(m) \/ WaitRead(m)
               \/ \E o \in Nodes : \E x \in Keys : ResolveMapped(m, o, x) \/ ResolveFails(m, o, x)
        PROVE  UNCHANGED <<mem, cmds>>
    BY <1>10, SMTT(30) DEF PublishNoRoom, NotAttached, WaitWrite, Announce, WaitRead, ResolveMapped, ResolveFails
  <1>11. CASE UNCHANGED vars
    BY <1>2, <1>11 DEF vars
  <1> QED
    BY <1>1, <1>2, <1>3, <1>4, <1>7, <1>8, <1>9, <1>10, <1>11, Actions, Zenon

-----------------------------------------------------------------------------

LEMMA InitInv == Init => IInv
  <1> SUFFICES ASSUME Init PROVE IInv
    OBVIOUS
  <1>1. TypeOK
    <2>1. 0 \in Bytes /\ ArenaBase \in ArenaBase .. PayloadUnits /\ MaxCalls \in Nat
      BY Sizes, SsdAssumption DEF SsdConstants, Bytes
    <2>2. call \in [Nodes -> Call] /\ \A n \in Nodes : call[n].pc = "idle"
      BY BaseTypes DEF Init, Idle
    <2>3. cmds \in [Nodes -> Seq(Command)] /\ cpls \in [Nodes -> Seq(Completion)]
      BY DEF Init
    <2>4. /\ mem \in [Nodes -> [Cells -> Bytes]] /\ arena \in [Nodes -> ArenaBase .. PayloadUnits]
          /\ table \in [Nodes -> [Keys -> Rec]] /\ published \in [Nodes -> [Keys -> Rec]]
          /\ ssd \in [Devices -> [Blocks -> Block]]
      BY <2>1, BaseTypes, Zenon DEF Init
    <2>5. failed \in BOOLEAN /\ views = {}
      BY Zenon DEF Init
    <2>6. calls \in 0 .. MaxCalls
      BY <2>1 DEF Init
    <2>7. \A n \in Nodes : call[n].pc \in {"attach", "writing"} => call[n].keys /= <<>>
      BY <2>2
    <2>8. views \subseteq [node : Nodes, off : Nat, len : Nat, val : Bytes]
      BY <2>5
    <2> QED
      BY <2>2, <2>3, <2>4, <2>5, <2>6, <2>7, <2>8, Zenon DEF TypeOK
  <1>2. \A n \in Nodes : SafeRecord(n, NoRecord)
    BY Sizes DEF Init, SafeRecord, Safe, NoRecord, Span
  <1>3. RecordsSafe
    BY <1>2 DEF Init, RecordsSafe
  <1>4. CallsSafe
    <2>1. \A n \in Nodes : call[n].pc = "idle" /\ call[n].keys = <<>>
      BY DEF Init, Idle
    <2>2. \A n \in Nodes : 1 .. Len(call[n].keys) = {}
      BY <2>1
    <2> QED
      BY <2>1, <2>2 DEF CallsSafe
  <1>5. ViewsSafe /\ Untouched
    BY SMTT(20) DEF Init, ViewsSafe, Untouched
  <1>6. CommandsSafe
    <2>1. \A n \in Nodes : 1 .. Len(cmds[n]) = {}
      BY DEF Init
    <2> QED
      BY <2>1 DEF CommandsSafe, QueueSafe
  <1> QED
    BY <1>1, <1>3, <1>4, <1>5, <1>6 DEF IInv

LEMMA NextInv == IInv /\ [Next]_vars => IInv'
  BY TypesStep, RecordsStep, ViewsStep, CallsStep, UntouchedStep, CommandsStep DEF IInv

\* What a resolution hands out (..._try_resolve_range_kv_state_view,
\* ..._read_runtime_input_from_ub_ssd_gsva_backend) holds the payload it is
\* said to hold and keeps it, for any number of nodes, keys and calls and
\* whatever the devices do late, twice in one block, damaged or not at all.
THEOREM ViewsStayIntact == Spec => []ViewsIntact
  <1>1. IInv => ViewsIntact
    BY DEF IInv, ViewsSafe, Safe, ViewsIntact
  <1> QED
    BY <1>1, InitInv, NextInv, PTL DEF Spec

=============================================================================
