---------------------------- MODULE QueueProofs ----------------------------
(***************************************************************************)
(* Proofs about the queues of libs/obmm_queue.  The ring of SpscQueue      *)
(* implements BoundedFifo, for every ring size, every set of descriptors   *)
(* and every counter width that is a multiple of the ring size.  No        *)
(* consumer of the stream of SpmcStream is overrun, for every depth and    *)
(* every set of consumers.                                                 *)
(***************************************************************************)
EXTENDS SpscQueue, SpmcStream, TLAPS

-----------------------------------------------------------------------------
(* Remainders: counters that wrap, and slots chosen by a counter modulo the *)
(* ring size.                                                               *)

LEMMA MultipleAtLeast ==
    ASSUME NEW m \in Nat \ {0}, NEW d \in Int, d >= 1
    PROVE  m * d >= m
OBVIOUS

\* A number has one remainder.
LEMMA UniqueRemainder ==
    ASSUME NEW m \in Nat \ {0}, NEW a \in Int, NEW b \in Int,
           NEW r \in 0 .. m - 1, NEW s \in 0 .. m - 1, m * a + r = m * b + s
    PROVE  r = s
<1>1. CASE a - b >= 1
  <2>1. m * (a - b) >= m
    BY <1>1, MultipleAtLeast
  <2>2. m * (a - b) = m * a - m * b
    OBVIOUS
  <2> QED
    BY <2>1, <2>2
<1>2. CASE b - a >= 1
  <2>1. m * (b - a) >= m
    BY <1>2, MultipleAtLeast
  <2>2. m * (b - a) = m * b - m * a
    OBVIOUS
  <2> QED
    BY <2>1, <2>2
<1>3. CASE a = b
  BY <1>3
<1> QED
  BY <1>1, <1>2, <1>3

LEMMA DivMod ==
    ASSUME NEW m \in Nat \ {0}, NEW x \in Int
    PROVE  /\ x % m \in 0 .. m - 1
           /\ x \div m \in Int
           /\ x = m * (x \div m) + (x % m)
OBVIOUS

\* Numbers a multiple of m apart have the same remainder.
LEMMA ModShift ==
    ASSUME NEW m \in Nat \ {0}, NEW x \in Int, NEW y \in Int, NEW k \in Int,
           y = x + k * m
    PROVE  y % m = x % m
<1> DEFINE a == x \div m
           b == y \div m
           r == x % m
           t == y % m
<1>1. x = m * a + r /\ r \in 0 .. m - 1 /\ a \in Int
  BY DivMod
<1>2. y = m * b + t /\ t \in 0 .. m - 1 /\ b \in Int
  BY DivMod, SMTT(20)
<1>3. y = m * (a + k) + r /\ a + k \in Int
  <2>1. m * (a + k) = m * a + k * m
    BY <1>1
  <2> QED
    BY <1>1, <2>1
<1>4. m * b + t = m * (a + k) + r
  BY <1>2, <1>3
<1> HIDE DEF a, b, r, t
<1>5. t = r
  BY <1>1, <1>2, <1>3, <1>4, UniqueRemainder, Zenon
<1> QED
  BY <1>5 DEF r, t

\* Different numbers less than m apart have different remainders.
LEMMA ModDistinct ==
    ASSUME NEW m \in Nat \ {0}, NEW x \in Int, NEW y \in Int, x < y, y < x + m
    PROVE  x % m # y % m
<1> SUFFICES ASSUME x % m = y % m PROVE FALSE
  OBVIOUS
<1> DEFINE d == (y \div m) - (x \div m)
<1>1. m * d = y - x /\ d \in Int
  <2>1. /\ x = m * (x \div m) + (x % m) /\ x \div m \in Int
        /\ y = m * (y \div m) + (y % m) /\ y \div m \in Int
    BY DivMod
  <2> QED
    BY <2>1
<1> HIDE DEF d
<1>2. d >= 1
  <2> SUFFICES ASSUME d <= 0 PROVE FALSE
    BY <1>1
  <2>1. m * d <= 0
    BY <1>1
  <2> QED
    BY <1>1, <2>1
<1> QED
  BY <1>1, <1>2, MultipleAtLeast

LEMMA SmallMod ==
    ASSUME NEW m \in Nat \ {0}, NEW x \in 0 .. m - 1
    PROVE  x % m = x
<1> DEFINE q == x \div m
           r == x % m
<1>1. m * 0 + x = m * q + r /\ r \in 0 .. m - 1 /\ q \in Int
  BY DivMod
<1> HIDE DEF q, r
<1>2. r = x
  BY <1>1, UniqueRemainder
<1> QED
  BY <1>2 DEF r

-----------------------------------------------------------------------------
(* The ring.                                                               *)

LEMMA ModulusFacts == /\ Size \in Nat \ {0}
                      /\ Modulus \in Nat \ {0}
                      /\ Modulus > Size
<1>1. Size * (Rounds - 1) >= Size
  BY SizeAssumption, MultipleAtLeast
<1>2. Rounds * Size = Size * (Rounds - 1) + Size
  BY SizeAssumption
<1> QED
  BY <1>1, <1>2, SizeAssumption DEF Modulus

\* Distances and successors of wrapping counters, without remainders.
LEMMA CounterFacts ==
    ASSUME NEW h \in Counter, NEW t \in Counter
    PROVE  /\ Dist(h, t) = IF t >= h THEN t - h ELSE t - h + Modulus
           /\ Plus1(h) = IF h + 1 = Modulus THEN 0 ELSE h + 1
           /\ Plus1(h) \in Counter
<1> USE ModulusFacts DEF Counter
<1>1. ASSUME t >= h PROVE Dist(h, t) = t - h
  <2>1. t - h \in 0 .. Modulus - 1
    BY <1>1
  <2>2. (t - h) % Modulus = t - h
    BY <2>1, SmallMod
  <2> QED
    BY <1>1, <2>2 DEF Dist
<1>2. ASSUME t < h PROVE Dist(h, t) = t - h + Modulus
  <2>1. t - h + Modulus \in 0 .. Modulus - 1
    BY <1>2
  <2>2. (t - h + Modulus) % Modulus = t - h + Modulus
    BY <2>1, SmallMod
  <2>3. /\ t - h \in Int /\ t - h + Modulus \in Int /\ 1 \in Int
        /\ t - h + Modulus = (t - h) + 1 * Modulus
    OBVIOUS
  <2>4. (t - h + Modulus) % Modulus = (t - h) % Modulus
    BY <2>3, ModShift, Zenon
  <2> QED
    BY <1>2, <2>2, <2>4 DEF Dist
<1>3. Plus1(h) = IF h + 1 = Modulus THEN 0 ELSE h + 1
  <2>1. CASE h + 1 = Modulus
    <3>1. Modulus % Modulus = 0 % Modulus
      BY ModShift, Modulus = 0 + 1 * Modulus
    <3>2. 0 % Modulus = 0
      BY SmallMod
    <3> QED
      BY <2>1, <3>1, <3>2 DEF Plus1
  <2>2. CASE h + 1 # Modulus
    BY <2>2, SmallMod DEF Plus1
  <2> QED
    BY <2>1, <2>2
<1> QED
  BY <1>1, <1>2, <1>3

\* The slot of a wrapped counter is the slot of the unwrapped one.
LEMMA SlotFacts ==
    ASSUME NEW h \in Counter, NEW t \in Counter, NEW i \in Nat
    PROVE  /\ Slot(h + i) \in 0 .. Size - 1
           /\ Slot(t) = Slot(h + Dist(h, t))
           /\ Slot(Plus1(h) + i) = Slot(h + (i + 1))
<1> USE ModulusFacts DEF Counter
<1>1. Slot(h + i) \in 0 .. Size - 1
  <2>1. h + i \in Int
    OBVIOUS
  <2> QED
    BY <2>1, DivMod DEF Slot
<1>2. ASSUME NEW x \in Int, NEW y \in Int, y = x + Modulus PROVE Slot(y) = Slot(x)
  <2>1. y = x + Rounds * Size /\ Rounds \in Int
    BY <1>2, SizeAssumption DEF Modulus
  <2> QED
    BY <2>1, ModShift, Zenon DEF Slot
<1>3. Slot(t) = Slot(h + Dist(h, t))
  <2>1. CASE t >= h
    BY <2>1, CounterFacts, h + (t - h) = t
  <2>2. CASE t < h
    <3>1. h + Dist(h, t) = t + Modulus
      BY <2>2, CounterFacts
    <3> QED
      BY <1>2, <3>1
  <2> QED
    BY <2>1, <2>2
<1>4. Slot(Plus1(h) + i) = Slot(h + (i + 1))
  <2>1. CASE h + 1 = Modulus
    <3>1. Slot(0 + i) = Slot(h + (i + 1))
      BY <1>2, <2>1
    <3> QED
      BY <2>1, <3>1, CounterFacts
  <2>2. CASE h + 1 # Modulus
    BY <2>2, CounterFacts
  <2> QED
    BY <2>1, <2>2
<1> QED
  BY <1>1, <1>3, <1>4

LEMMA SlotsApart ==
    ASSUME NEW h \in Counter, NEW i \in Nat, NEW j \in Nat, i < j, j < Size
    PROVE  Slot(h + i) # Slot(h + j)
<1>1. /\ h + i \in Int /\ h + j \in Int
      /\ h + i < h + j /\ h + j < (h + i) + Size
  BY ModulusFacts DEF Counter
<1> QED
  BY <1>1, ModulusFacts, ModDistinct DEF Slot

-----------------------------------------------------------------------------
(* The inductive invariant.                                                *)

Used == Dist(head, tail)

\* The producer owns the slot of tail while it writes it: the ring is not full,
\* because since the producer looked only the consumer has moved.
ProdInv ==
    prod.pc # "idle" =>
        /\ prod.tail = tail /\ prod.val \in Values
        /\ Used < Size
        /\ prod.pc \in {"hi", "publish"} => slots[Slot(tail)].lo = prod.val
        /\ prod.pc = "publish" => slots[Slot(tail)].hi = prod.val

\* The consumer owns the slot of head while it reads it: the ring is not empty.
ConsInv ==
    cons.pc # "idle" =>
        /\ cons.head = head
        /\ Used > 0
        /\ cons.pc \in {"hi", "publish"} => cons.lo = slots[Slot(head)].lo
        /\ cons.pc = "publish" => cons.hi = slots[Slot(head)].hi

\* Every descriptor between head and tail is whole.
RingInv ==
    /\ Used <= Size
    /\ \A i \in 0 .. Used - 1 :
          /\ slots[Slot(head + i)].lo = slots[Slot(head + i)].hi
          /\ slots[Slot(head + i)].lo \in Values

IInv == TypeOK /\ ProdInv /\ ConsInv /\ RingInv

LEMMA UsedFacts ==
    ASSUME TypeOK
    PROVE  /\ Used \in Nat
           /\ Used = 0 <=> head = tail
           /\ Slot(tail) = Slot(head + Used) /\ Slot(tail) \in 0 .. Size - 1
           /\ \A i \in Nat : Slot(head + i) \in 0 .. Size - 1
           /\ Slot(head + 0) = Slot(head)
           /\ Used <= Size => Dist(head, Plus1(tail)) = Used + 1 \/ Used = Size
           /\ Used > 0 => Dist(Plus1(head), tail) = Used - 1
<1>0. head \in Counter /\ tail \in Counter
  BY DEF TypeOK
<1> USE ModulusFacts DEF Counter
<1>1. Used = IF tail >= head THEN tail - head ELSE tail - head + Modulus
  BY <1>0, CounterFacts DEF Used
<1>2. Slot(tail) = Slot(head + Used) /\ \A i \in Nat : Slot(head + i) \in 0 .. Size - 1
  BY <1>0, SlotFacts, Zenon DEF Used
<1>3. Used \in Nat /\ (Used = 0 <=> head = tail)
  BY <1>0, <1>1
<1>4. Slot(tail) \in 0 .. Size - 1 /\ Slot(head + 0) = Slot(head)
  BY <1>0, <1>2, <1>3, head + 0 = head
<1>5. Used <= Size => Dist(head, Plus1(tail)) = Used + 1 \/ Used = Size
  <2> DEFINE t == Plus1(tail)
  <2>1. t \in Counter /\ t = IF tail + 1 = Modulus THEN 0 ELSE tail + 1
    BY <1>0, CounterFacts
  <2>2. Dist(head, t) = IF t >= head THEN t - head ELSE t - head + Modulus
    BY <1>0, <2>1, CounterFacts, Zenon
  <2> HIDE DEF t
  <2> QED
    BY <1>0, <1>1, <2>1, <2>2 DEF t
<1>6. Used > 0 => Dist(Plus1(head), tail) = Used - 1
  <2> DEFINE h == Plus1(head)
  <2>1. h \in Counter /\ h = IF head + 1 = Modulus THEN 0 ELSE head + 1
    BY <1>0, CounterFacts
  <2>2. Dist(h, tail) = IF tail >= h THEN tail - h ELSE tail - h + Modulus
    BY <1>0, <2>1, CounterFacts, Zenon
  <2> HIDE DEF h
  <2> QED
    BY <1>0, <1>1, <2>1, <2>2 DEF h
<1> QED
  BY <1>2, <1>3, <1>4, <1>5, <1>6

LEMMA InitIInv == Init => IInv
<1> SUFFICES ASSUME Init PROVE IInv
  OBVIOUS
<1>1. TypeOK
  BY ModulusFacts DEF Init, TypeOK, Counter, Halves
<1>2. Used = 0
  BY <1>1, UsedFacts DEF Init
<1> QED
  BY <1>1, <1>2, ModulusFacts DEF Init, IInv, ProdInv, ConsInv, RingInv

\* A slot in use is not the slot the producer writes.
LEMMA WriteApart ==
    ASSUME TypeOK, Used < Size, NEW i \in 0 .. Used - 1
    PROVE  Slot(head + i) # Slot(tail)
<1>1. head \in Counter /\ Used \in Nat
  BY UsedFacts, Zenon DEF TypeOK
<1>2. i \in Nat /\ i < Used
  BY <1>1
<1> QED
  BY <1>1, <1>2, SlotsApart, UsedFacts

LEMMA SeqEqual ==
    ASSUME NEW s \in Seq(Values), NEW t \in Seq(Values), Len(s) = Len(t),
           \A i \in 1 .. Len(s) : s[i] = t[i]
    PROVE  s = t
OBVIOUS

\* The sequence that u whole descriptors of a ring s make, starting at counter h.
Ring(h, u, s) == [i \in 1 .. u |-> Delivered(s[Slot(h + i - 1)])]

LEMMA RingSeq ==
    ASSUME NEW h \in Int, NEW u \in Nat, NEW s,
           \A i \in 0 .. u - 1 : /\ s[Slot(h + i)].lo = s[Slot(h + i)].hi
                                 /\ s[Slot(h + i)].lo \in Values
    PROVE  /\ Ring(h, u, s) \in Seq(Values) /\ Len(Ring(h, u, s)) = u
           /\ \A i \in 1 .. u : Ring(h, u, s)[i] = s[Slot(h + (i - 1))].lo
<1>1. ASSUME NEW i \in 1 .. u
      PROVE  /\ Delivered(s[Slot(h + i - 1)]) = s[Slot(h + (i - 1))].lo
             /\ s[Slot(h + (i - 1))].lo \in Values
  <2>1. i - 1 \in 0 .. u - 1 /\ h + i - 1 = h + (i - 1)
    OBVIOUS
  <2> QED
    BY <2>1 DEF Delivered
<1>2. \A i \in 1 .. u : Ring(h, u, s)[i] = s[Slot(h + (i - 1))].lo
  BY <1>1, Zenon DEF Ring
<1>3. Ring(h, u, s) \in [1 .. u -> Values]
  BY <1>1, Zenon DEF Ring
<1>4. Ring(h, u, s) \in Seq(Values) /\ Len(Ring(h, u, s)) = u
  BY <1>3
<1> QED
  BY <1>2, <1>4

\* Rings with the same descriptors hold the same sequence.
LEMMA RingSame ==
    ASSUME NEW h \in Int, NEW u \in Nat, NEW s, NEW t,
           \A i \in 0 .. u - 1 : s[Slot(h + i)] = t[Slot(h + i)]
    PROVE  Ring(h, u, s) = Ring(h, u, t)
<1>1. \A i \in 1 .. u : i - 1 \in 0 .. u - 1 /\ h + i - 1 = h + (i - 1)
  OBVIOUS
<1> QED
  BY <1>1 DEF Ring

LEMMA ContentsSeq ==
    ASSUME IInv
    PROVE  /\ Contents \in Seq(Values) /\ Len(Contents) = Used
           /\ \A i \in 1 .. Used : Contents[i] = slots[Slot(head + (i - 1))].lo
<1>1. head \in Int /\ Used \in Nat
  BY UsedFacts, ModulusFacts DEF IInv, TypeOK, Counter
<1>2. Contents = Ring(head, Used, slots)
  BY DEF Contents, Ring, Used
<1> QED
  BY <1>1, <1>2, RingSeq, Zenon DEF IInv, RingInv

FifoVars == <<Contents, prod.rc, cons.rc, Delivered(cons.out)>>

\* The two halves of a push's copy: neither the ring's contents nor the slot the
\* consumer reads is touched.
LEMMA PushCopy ==
    ASSUME IInv, PushLo \/ PushHi
    PROVE  IInv' /\ UNCHANGED FifoVars
<1> USE DEF IInv
<1>1. /\ prod.tail = tail /\ prod.val \in Values /\ Used < Size
      /\ UNCHANGED <<head, tail, cons>>
  BY DEF PushLo, PushHi, ProdInv
<1>2. Used' = Used
  BY <1>1 DEF Used, Dist
<1>3. \A k \in 0 .. Size - 1 : k # Slot(tail) => slots'[k] = slots[k]
  BY <1>1, Zenon DEF PushLo, PushHi, TypeOK
<1>4. \A i \in 0 .. Used - 1 : slots'[Slot(head + i)] = slots[Slot(head + i)]
  BY <1>1, <1>3, WriteApart, UsedFacts
<1>5. TypeOK'
  BY <1>1, UsedFacts DEF TypeOK, PushLo, PushHi, Halves
<1>6. ProdInv'
  <2>1. CASE PushLo
    <3>1. slots'[Slot(tail)].lo = prod.val
      BY <1>1, <2>1, UsedFacts DEF PushLo, TypeOK
    <3>2. prod'.pc = "hi" /\ prod'.tail = prod.tail /\ prod'.val = prod.val
      BY <2>1 DEF PushLo, TypeOK
    <3> QED
      BY <1>1, <1>2, <3>1, <3>2 DEF ProdInv
  <2>2. CASE PushHi
    <3>1. slots'[Slot(tail)].lo = slots[Slot(tail)].lo /\ slots'[Slot(tail)].hi = prod.val
      BY <1>1, <2>2, UsedFacts DEF PushHi, TypeOK
    <3>2. prod'.pc = "publish" /\ prod'.tail = prod.tail /\ prod'.val = prod.val
      BY <2>2 DEF PushHi, TypeOK
    <3>3. slots[Slot(tail)].lo = prod.val
      BY <2>2 DEF PushHi, ProdInv
    <3> QED
      BY <1>1, <1>2, <3>1, <3>2, <3>3 DEF ProdInv
  <2> QED
    BY <2>1, <2>2
<1>7. RingInv'
  BY <1>1, <1>2, <1>4 DEF RingInv
<1>8. cons.pc # "idle" => slots'[Slot(head)] = slots[Slot(head)]
  <2> SUFFICES ASSUME Used > 0 PROVE slots'[Slot(head)] = slots[Slot(head)]
    BY DEF ConsInv
  <2>1. 0 \in 0 .. Used - 1
    BY UsedFacts
  <2> QED
    BY <1>4, <2>1, UsedFacts
<1>9. ConsInv'
  BY <1>1, <1>2, <1>8 DEF ConsInv
<1>11. Contents' = Contents
  <2>1. Contents = Ring(head, Used, slots) /\ Contents' = Ring(head', Used', slots')
    BY DEF Contents, Ring, Used
  <2>2. head \in Int /\ Used \in Nat
    BY UsedFacts, ModulusFacts DEF TypeOK, Counter
  <2>3. Ring(head, Used, slots') = Ring(head, Used, slots)
    BY <1>4, <2>2, RingSame, Zenon
  <2> QED
    BY <1>1, <1>2, <2>1, <2>3
<1>12. prod'.rc = prod.rc /\ cons'.rc = cons.rc /\ cons'.out = cons.out
  BY <1>1 DEF PushLo, PushHi, TypeOK
<1> QED
  BY <1>5, <1>6, <1>7, <1>9, <1>11, <1>12 DEF FifoVars, Delivered

\* The loads of a push: -EAGAIN exactly when the ring is full.
LEMMA PushLoads ==
    ASSUME IInv, NEW v \in Values, PushLoad(v)
    PROVE  /\ IInv'
           /\ UNCHANGED FifoVars \/ Fifo!PushAgain
<1> USE DEF IInv
<1>1. UNCHANGED <<head, tail, slots, cons>> /\ prod.pc = "idle"
  BY DEF PushLoad
<1>2. Used' = Used /\ Contents' = Contents /\ RingInv' /\ ConsInv'
  BY <1>1 DEF Used, Dist, Contents, RingInv, ConsInv
<1>3. Used = Size <=> Full(head, tail)
  BY DEF Used, Full
<1>4. TypeOK'
  BY <1>1, Zenon DEF PushLoad, TypeOK, Halves
<1>5. CASE Full(head, tail)
  <2>1. prod' = [prod EXCEPT !.rc = "again"]
    BY <1>5 DEF PushLoad
  <2>2. prod'.pc = "idle" /\ prod'.rc = "again"
    BY <1>1, <2>1 DEF TypeOK
  <2>3. Len(Contents) = Size
    BY <1>3, <1>5, ContentsSeq
  <2>4. Fifo!PushAgain
    BY <1>1, <1>2, <2>2, <2>3 DEF Fifo!PushAgain, Delivered
  <2> QED
    BY <1>2, <1>4, <2>2, <2>4 DEF ProdInv
<1>6. CASE ~Full(head, tail)
  <2>1. prod' = [prod EXCEPT !.pc = "lo", !.tail = tail, !.head = head, !.val = v]
    BY <1>6 DEF PushLoad
  <2>2. prod'.pc = "lo" /\ prod'.rc = prod.rc /\ prod'.tail = tail /\ prod'.val = v
    BY <2>1 DEF TypeOK
  <2>3. Used < Size
    BY <1>3, <1>6, UsedFacts, ModulusFacts DEF RingInv
  <2> QED
    BY <1>1, <1>2, <1>4, <2>2, <2>3 DEF ProdInv, FifoVars, Delivered
<1> QED
  BY <1>5, <1>6

\* The store of tail: the push takes effect.
LEMMA PushTakesEffect ==
    ASSUME IInv, PushPublish
    PROVE  IInv' /\ (\E v \in Values : Fifo!PushOk(v))
<1> USE DEF IInv
<1>1. /\ prod.tail = tail /\ prod.val \in Values /\ Used < Size
      /\ slots[Slot(tail)].lo = prod.val /\ slots[Slot(tail)].hi = prod.val
      /\ tail' = Plus1(tail) /\ UNCHANGED <<head, slots, cons>>
  BY DEF PushPublish, ProdInv
<1>2. prod'.pc = "idle" /\ prod'.rc = "ok"
  BY DEF PushPublish, TypeOK
<1>3. Used' = Used + 1 /\ Used \in Nat /\ Size \in Nat
  BY <1>1, UsedFacts, ModulusFacts DEF Used
<1>4. TypeOK'
  BY <1>1, CounterFacts, Zenon DEF PushPublish, TypeOK
<1>5. ASSUME NEW i \in 0 .. Used' - 1
      PROVE  /\ slots[Slot(head + i)].lo = slots[Slot(head + i)].hi
             /\ slots[Slot(head + i)].lo \in Values
  <2>1. CASE i = Used
    BY <1>1, <2>1, UsedFacts
  <2>2. CASE i # Used
    BY <1>3, <2>2 DEF RingInv
  <2> QED
    BY <2>1, <2>2
<1>6. RingInv'
  BY <1>1, <1>3, <1>5 DEF RingInv
<1>7. ConsInv' /\ ProdInv'
  BY <1>1, <1>2, <1>3 DEF ConsInv, ProdInv
<1>8. Contents' = Append(Contents, prod.val)
  <2>1. Contents = Ring(head, Used, slots) /\ Contents' = Ring(head, Used + 1, slots)
    BY <1>1, <1>3 DEF Contents, Ring, Used
  <2>2. head \in Int
    BY ModulusFacts DEF TypeOK, Counter
  <2>3. /\ Contents \in Seq(Values) /\ Len(Contents) = Used
        /\ \A i \in 1 .. Used : Contents[i] = slots[Slot(head + (i - 1))].lo
    BY <1>3, <2>1, <2>2, RingSeq, Zenon DEF RingInv
  <2>4. /\ Contents' \in Seq(Values) /\ Len(Contents') = Used + 1
        /\ \A i \in 1 .. Used + 1 : Contents'[i] = slots[Slot(head + (i - 1))].lo
    BY <1>3, <1>5, <2>1, <2>2, RingSeq, Used + 1 \in Nat, Zenon
  <2>5. Contents'[Used + 1] = prod.val
    <3>1. Used + 1 \in 1 .. Used + 1 /\ (Used + 1) - 1 = Used
      BY <1>3
    <3>2. slots[Slot(head + Used)].lo = prod.val
      BY <1>1, UsedFacts
    <3>3. Contents'[Used + 1] = slots[Slot(head + ((Used + 1) - 1))].lo
      BY <2>4, <3>1
    <3> QED
      BY <3>1, <3>2, <3>3
  <2>6. ASSUME NEW i \in 1 .. Used PROVE Contents'[i] = Contents[i]
    <3> HIDE DEF IInv
    <3>1. i \in 1 .. Used + 1
      BY <1>3
    <3> QED
      BY <2>3, <2>4, <3>1, Zenon
  <2>7. /\ Append(Contents, prod.val) \in Seq(Values)
        /\ Len(Append(Contents, prod.val)) = Used + 1
        /\ \A i \in 1 .. Used : Append(Contents, prod.val)[i] = Contents[i]
        /\ Append(Contents, prod.val)[Used + 1] = prod.val
    BY <1>1, <1>3, <2>3
  <2>8. \A i \in 1 .. Used + 1 : i = Used + 1 \/ i \in 1 .. Used
    BY <1>3
  <2>9. \A i \in 1 .. Used + 1 : Contents'[i] = Append(Contents, prod.val)[i]
    BY <2>5, <2>6, <2>7, <2>8
  <2> QED
    BY <1>3, <2>4, <2>7, <2>9, SeqEqual
<1>9. Len(Contents) < Size
  BY <1>1, ContentsSeq
<1>10. Fifo!PushOk(prod.val)
  BY <1>1, <1>2, <1>8, <1>9 DEF Fifo!PushOk, Delivered
<1> QED
  BY <1>1, <1>4, <1>6, <1>7, <1>10

\* The loads of a pop: -EAGAIN exactly when the ring is empty.
LEMMA PopLoads ==
    ASSUME IInv, PopLoad
    PROVE  IInv' /\ (UNCHANGED FifoVars \/ Fifo!PopAgain)
<1> USE DEF IInv
<1>1. UNCHANGED <<head, tail, slots, prod>> /\ cons.pc = "idle"
  BY DEF PopLoad
<1>2. Used' = Used /\ Contents' = Contents /\ RingInv' /\ ProdInv'
  BY <1>1 DEF Used, Dist, Contents, RingInv, ProdInv
<1>3. TypeOK'
  BY <1>1, Zenon DEF PopLoad, TypeOK
<1>4. Used \in Nat /\ (Used = 0 <=> head = tail)
  BY UsedFacts
<1>5. CASE head = tail
  <2>1. cons' = [cons EXCEPT !.rc = "again"]
    BY <1>5 DEF PopLoad
  <2>2. cons'.pc = "idle" /\ cons'.rc = "again" /\ cons'.out = cons.out
    BY <1>1, <2>1 DEF TypeOK
  <2>3. Contents = <<>>
    BY <1>4, <1>5, ContentsSeq
  <2>4. Fifo!PopAgain
    BY <1>1, <1>2, <2>2, <2>3 DEF Fifo!PopAgain, Delivered
  <2> QED
    BY <1>2, <1>3, <2>2, <2>4 DEF ConsInv
<1>6. CASE head # tail
  <2>1. cons' = [cons EXCEPT !.pc = "lo", !.head = head, !.tail = tail]
    BY <1>6 DEF PopLoad
  <2>2. cons'.pc = "lo" /\ cons'.rc = cons.rc /\ cons'.head = head /\ cons'.out = cons.out
    BY <2>1 DEF TypeOK
  <2>3. Used > 0
    BY <1>4, <1>6
  <2> QED
    BY <1>1, <1>2, <1>3, <2>2, <2>3 DEF ConsInv, FifoVars, Delivered
<1> QED
  BY <1>5, <1>6

\* The two halves of a pop's copy.
LEMMA PopCopy ==
    ASSUME IInv, PopLo \/ PopHi
    PROVE  IInv' /\ UNCHANGED FifoVars
<1> USE DEF IInv
<1>1. UNCHANGED <<head, tail, slots, prod>> /\ cons.head = head /\ Used > 0
  BY DEF PopLo, PopHi, ConsInv
<1>2. Used' = Used /\ Contents' = Contents /\ RingInv' /\ ProdInv'
  BY <1>1 DEF Used, Dist, Contents, RingInv, ProdInv
<1>3. Slot(head) \in 0 .. Size - 1
  BY UsedFacts
<1>4. slots[Slot(head)].lo \in Halves /\ slots[Slot(head)].hi \in Halves
  BY <1>3 DEF TypeOK
<1>5. CASE PopLo
  <2>1. cons' = [cons EXCEPT !.pc = "hi", !.lo = slots[Slot(head)].lo]
    BY <1>1, <1>5 DEF PopLo
  <2>2. /\ cons'.pc = "hi" /\ cons'.head = head /\ cons'.lo = slots[Slot(head)].lo
        /\ cons'.rc = cons.rc /\ cons'.out = cons.out
    BY <1>1, <2>1 DEF TypeOK
  <2>3. TypeOK'
    BY <1>1, <1>4, <2>1, Zenon DEF TypeOK
  <2> QED
    BY <1>1, <1>2, <2>2, <2>3 DEF ConsInv, FifoVars, Delivered
<1>6. CASE PopHi
  <2>1. cons' = [cons EXCEPT !.pc = "publish", !.hi = slots[Slot(head)].hi]
    BY <1>1, <1>6 DEF PopHi
  <2>2. /\ cons'.pc = "publish" /\ cons'.head = head
        /\ cons'.lo = cons.lo /\ cons'.hi = slots[Slot(head)].hi
        /\ cons'.rc = cons.rc /\ cons'.out = cons.out
    BY <1>1, <2>1 DEF TypeOK
  <2>3. cons.lo = slots[Slot(head)].lo
    BY <1>6 DEF PopHi, ConsInv
  <2>4. TypeOK'
    BY <1>1, <1>4, <2>1, Zenon DEF TypeOK
  <2> QED
    BY <1>1, <1>2, <2>2, <2>3, <2>4 DEF ConsInv, FifoVars, Delivered
<1> QED
  BY <1>5, <1>6

\* The store of head: the pop takes effect.
LEMMA PopTakesEffect ==
    ASSUME IInv, PopPublish
    PROVE  IInv' /\ Fifo!PopOk
<1> USE DEF IInv
<1>1. /\ cons.head = head /\ Used > 0
      /\ cons.lo = slots[Slot(head)].lo /\ cons.hi = slots[Slot(head)].hi
      /\ head' = Plus1(head) /\ UNCHANGED <<tail, slots, prod>>
  BY DEF PopPublish, ConsInv
<1>2. /\ cons'.pc = "idle" /\ cons'.rc = "ok"
      /\ cons'.out = [lo |-> cons.lo, hi |-> cons.hi]
  BY DEF PopPublish, TypeOK
<1>3. Used' = Used - 1 /\ Used \in Nat /\ Size \in Nat /\ Used <= Size
  BY <1>1, UsedFacts, ModulusFacts DEF Used, RingInv
<1>4. TypeOK'
  BY <1>1, CounterFacts, Zenon DEF PopPublish, TypeOK
<1>5. \A i \in Nat : Slot(head' + i) = Slot(head + (i + 1))
  BY <1>1, SlotFacts DEF TypeOK
<1>6. ASSUME NEW i \in 0 .. Used' - 1
      PROVE  /\ slots[Slot(head' + i)].lo = slots[Slot(head' + i)].hi
             /\ slots[Slot(head' + i)].lo \in Values
  BY <1>3, <1>5, i + 1 \in 0 .. Used - 1 DEF RingInv
<1>7. RingInv'
  BY <1>1, <1>3, <1>6 DEF RingInv
<1>8. ConsInv' /\ ProdInv'
  BY <1>1, <1>2, <1>3 DEF ConsInv, ProdInv
<1>9. /\ Contents \in Seq(Values) /\ Len(Contents) = Used
      /\ \A i \in 1 .. Used : Contents[i] = slots[Slot(head + (i - 1))].lo
  BY ContentsSeq
<1>10. Contents' = Tail(Contents)
  <2>1. Contents' = Ring(head', Used - 1, slots)
    BY <1>1, <1>3 DEF Contents, Ring, Used
  <2>2. head' \in Int /\ Used - 1 \in Nat
    BY <1>1, <1>3, <1>4, ModulusFacts DEF TypeOK, Counter
  <2>3. /\ Contents' \in Seq(Values) /\ Len(Contents') = Used - 1
        /\ \A i \in 1 .. Used - 1 : Contents'[i] = slots[Slot(head' + (i - 1))].lo
    BY <1>3, <1>6, <2>1, <2>2, RingSeq
  <2>4. ASSUME NEW i \in 1 .. Used - 1 PROVE Contents'[i] = Contents[i + 1]
    <3>1. /\ i - 1 \in Nat /\ (i - 1) + 1 = (i + 1) - 1
          /\ i + 1 \in 1 .. Used
      BY <1>3
    <3> QED
      BY <1>5, <1>9, <2>3, <3>1, Zenon
  <2>5. /\ Tail(Contents) \in Seq(Values) /\ Len(Tail(Contents)) = Used - 1
        /\ \A i \in 1 .. Used - 1 : Tail(Contents)[i] = Contents[i + 1]
    BY <1>1, <1>3, <1>9
  <2> QED
    BY <2>3, <2>4, <2>5, SeqEqual
<1>11. Contents # <<>> /\ Delivered(cons'.out) = Head(Contents)
  <2>1. 0 \in 0 .. Used - 1 /\ 1 \in 1 .. Used /\ 1 - 1 = 0
    BY <1>1, <1>3
  <2>2. Head(Contents) = slots[Slot(head)].lo
    <3>1. Contents[1] = slots[Slot(head + 0)].lo
      <4> HIDE DEF IInv
      <4> QED
        BY <1>9, <2>1
    <3>2. Slot(head + 0) = Slot(head)
      BY UsedFacts
    <3>3. Head(Contents) = Contents[1]
      OBVIOUS
    <3> QED
      BY <3>1, <3>2, <3>3
  <2>3. slots[Slot(head)].lo = slots[Slot(head)].hi
    BY <2>1, UsedFacts DEF RingInv
  <2> QED
    BY <1>1, <1>2, <1>3, <1>9, <2>2, <2>3 DEF Delivered
<1>12. Fifo!PopOk
  BY <1>1, <1>2, <1>10, <1>11 DEF Fifo!PopOk
<1> QED
  BY <1>4, <1>7, <1>8, <1>12

LEMMA StepFacts ==
    IInv /\ [Next]_vars => IInv' /\ [Fifo!Next]_(Fifo!vars)
<1> SUFFICES ASSUME IInv, [Next]_vars PROVE IInv' /\ [Fifo!Next]_(Fifo!vars)
  OBVIOUS
<1>1. CASE \E v \in Values : PushLoad(v)
  BY <1>1, PushLoads DEF Fifo!Next, Fifo!vars, FifoVars
<1>2. CASE PushLo \/ PushHi
  BY <1>2, PushCopy DEF Fifo!vars, FifoVars
<1>3. CASE PushPublish
  BY <1>3, PushTakesEffect DEF Fifo!Next
<1>4. CASE PopLoad
  BY <1>4, PopLoads DEF Fifo!Next, Fifo!vars, FifoVars
<1>5. CASE PopLo \/ PopHi
  BY <1>5, PopCopy DEF Fifo!vars, FifoVars
<1>6. CASE PopPublish
  BY <1>6, PopTakesEffect DEF Fifo!Next
<1>7. CASE UNCHANGED vars
  <2>1. UNCHANGED <<head, tail, slots, prod, cons>>
    BY <1>7 DEF vars
  <2>2. Used' = Used /\ Contents' = Contents
    BY <2>1 DEF Used, Dist, Contents
  <2>3. TypeOK' /\ RingInv'
    BY <2>1, <2>2 DEF IInv, TypeOK, RingInv
  <2>4. ProdInv' /\ ConsInv'
    BY <2>1, <2>2 DEF IInv, ProdInv, ConsInv
  <2>5. UNCHANGED Fifo!vars
    BY <2>1, <2>2 DEF Fifo!vars, FifoVars, Delivered
  <2> QED
    BY <2>3, <2>4, <2>5 DEF IInv
<1> QED
  BY <1>1, <1>2, <1>3, <1>4, <1>5, <1>6, <1>7 DEF Next, Push, Pop

LEMMA InitFacts == Init => Fifo!Init
<1> SUFFICES ASSUME Init PROVE Fifo!Init
  OBVIOUS
<1>1. IInv /\ head = tail
  BY InitIInv DEF Init
<1>2. Used = 0
  BY <1>1, UsedFacts DEF IInv
<1>3. Contents = <<>>
  BY <1>1, <1>2, ContentsSeq
<1> QED
  BY <1>3 DEF Init, Fifo!Init, Delivered

\* Every variable of the ring keeps its type: in particular the counters stay
\* below the modulus they wrap at.
THEOREM RingTypes == Spec => []TypeOK
<1>1. IInv => TypeOK
  BY DEF IInv
<1> QED
  BY <1>1, InitIInv, StepFacts, PTL DEF Spec

\* The ring implements the bounded FIFO (obmm_spsc_push and obmm_spsc_pop), for
\* every ring size, descriptor set and wrap-around of the counters.
THEOREM RingIsFifo == Spec => IsFifo
BY InitIInv, StepFacts, InitFacts, PTL DEF Spec, IsFifo, Fifo!Spec
-----------------------------------------------------------------------------
(* The broadcast stream.                                                   *)

Results == {"none", "ok", "ENODEV", "EPIPE", "EAGAIN", "EINVAL", "EOVERFLOW"}
CursorStates == {"active", "paused", "detached"}
Cursors == [head : Nat, state : CursorStates, drops : Nat]
Calls == [pc : {"idle", "publish", "copy", "tail", "reclaim"}, left : SUBSET Consumers,
          min : Nat, rc : Results, n : Nat]
Reads == [pc : {"idle", "lo", "hi", "head"}, head : Nat, lo : Nat, hi : Nat, rc : Results]
Descs == [lo : Nat, hi : Nat]

StreamTyped ==
    /\ mask \subseteq Consumers /\ streamTail \in Nat
    /\ ring \in [0 .. Depth - 1 -> Descs]
    /\ cursor \in [Consumers -> Cursors]
    /\ prov \in Calls
    /\ readers \in [Consumers -> Reads]
    /\ reclaimed.to \in Nat
    /\ published \in Seq(Nat) /\ Len(published) = streamTail
    /\ read \in [Consumers -> Seq(Nat \X Nat)]

\* Where a cursor is: not past the tail, not more than the ring behind it, and
\* never dropped; a node outside the mask has none that is active.
CursorInv ==
    \A c \in Consumers :
        /\ cursor[c].drops = 0 /\ cursor[c].head <= streamTail
        /\ c \in mask => streamTail - cursor[c].head <= Depth
        /\ c \notin mask => cursor[c].state # "active"

\* What the scan of a publish has found out holds although the cursors move on:
\* its minimum is behind every cursor it has passed, and once it has let the
\* publish go ahead there is a free slot for every consumer of the mask.
Writing == prov.pc \in {"copy", "tail"}
ScanInv ==
    /\ prov.pc \in {"publish", "reclaim"} => prov.left \subseteq mask /\ prov.min <= streamTail
    /\ prov.pc = "publish" => \A c \in mask \ prov.left : prov.min <= cursor[c].head
    /\ prov.pc = "reclaim" =>
          \A c \in mask \ prov.left : cursor[c].state = "active" => prov.min <= cursor[c].head
    /\ Writing => \A c \in mask : streamTail - cursor[c].head < Depth

\* The last descriptors published are whole in the ring, but for the slot that is
\* being overwritten.
InRing(k) == k < streamTail /\ streamTail - k <= Depth /\ (Writing => streamTail - k < Depth)
StreamRingInv ==
    /\ \A k \in Nat : InRing(k) =>
          ring[k % Depth].lo = published[k + 1] /\ ring[k % Depth].hi = published[k + 1]
    /\ Writing => ring[streamTail % Depth].lo = prov.n + 1
    /\ prov.pc = "tail" => ring[streamTail % Depth].hi = prov.n + 1

\* A consume in progress reads the descriptor its cursor stands at.
ReaderInv ==
    \A c \in Consumers : readers[c].pc # "idle" =>
        /\ c \in mask /\ readers[c].head = cursor[c].head /\ cursor[c].head < streamTail
        /\ readers[c].pc \in {"hi", "head"} => readers[c].lo = published[cursor[c].head + 1]
        /\ readers[c].pc = "head" => readers[c].hi = published[cursor[c].head + 1]

\* What was read is what lies before the cursor.
ReadInv ==
    \A c \in Consumers :
        /\ Len(read[c]) = cursor[c].head
        /\ \A i \in 1 .. Len(read[c]) : read[c][i] = <<published[i], published[i]>>

StreamInv ==
    /\ StreamTyped /\ CursorInv /\ ScanInv /\ StreamRingInv
    /\ ReaderInv /\ ReadInv /\ ReclaimBehindReaders

LEMMA DepthFacts == Depth \in Nat \ {0}
BY DepthAssumption

LEMMA StreamInitInv == StreamInit => StreamInv
<1> SUFFICES ASSUME StreamInit PROVE StreamInv
  OBVIOUS
<1> USE DEF StreamInit
<1>1. StreamTyped
  <2>1. CIdle \in Reads /\ FreshCursor \in Cursors /\ Idle \in Calls
    BY DEF CIdle, FreshCursor, Idle, NoDesc, Reads, Cursors, Calls,
           CursorStates, Results
  <2>2. EmptyRing \in [0 .. Depth - 1 -> Descs]
    BY DEF EmptyRing, Descs, NoDesc
  <2>3. published \in Seq(Nat) /\ Len(published) = 0
    OBVIOUS
  <2>4. read \in [Consumers -> Seq(Nat \X Nat)]
    OBVIOUS
  <2> QED
    BY <2>1, <2>2, <2>3, <2>4 DEF StreamTyped
<1>2. CursorInv /\ ReclaimBehindReaders /\ ReadInv
  BY DepthFacts DEF CursorInv, ReclaimBehindReaders, ReadInv, FreshCursor
<1>3. ScanInv /\ StreamRingInv
  BY DEF ScanInv, StreamRingInv, Writing, InRing, Idle
<1>4. ReaderInv
  BY DEF ReaderInv, CIdle
<1> QED
  BY <1>1, <1>2, <1>3, <1>4 DEF StreamInv

-----------------------------------------------------------------------------
(* The provider's steps.                                                   *)

\* A slot of the ring that still counts is not the one of the tail.
LEMMA StreamSlots ==
    ASSUME StreamTyped, NEW k \in Nat
    PROVE  /\ k % Depth \in 0 .. Depth - 1
           /\ streamTail % Depth \in 0 .. Depth - 1
           /\ (k < streamTail /\ streamTail - k < Depth) => k % Depth # streamTail % Depth
<1>1. streamTail \in Int /\ k \in Int
  BY DEF StreamTyped
<1>2. k % Depth \in 0 .. Depth - 1 /\ streamTail % Depth \in 0 .. Depth - 1
  BY <1>1, DepthFacts, DivMod
<1>3. (k < streamTail /\ streamTail - k < Depth) => streamTail < k + Depth
  BY <1>1, DepthFacts
<1> QED
  BY <1>1, <1>2, <1>3, DepthFacts, ModDistinct, Zenon

OthersStill == UNCHANGED <<mask, streamTail, ring, published, consumerVars>>

\* A step of the provider that writes nothing but its own locals, outside the copy.
LEMMA ProviderLooks ==
    ASSUME StreamInv, OthersStill, ~Writing, ~Writing', prov' \in Calls, ScanInv',
           reclaimed'.to \in Nat, ReclaimBehindReaders'
    PROVE  StreamInv'
<1> USE DEF StreamInv, OthersStill, consumerVars
<1>1. StreamTyped'
  BY DEF StreamTyped
<1>2. CursorInv' /\ ReaderInv' /\ ReadInv'
  BY DEF CursorInv, ReaderInv, ReadInv
<1>3. StreamRingInv'
  <2>1. prov'.pc # "tail"
    BY DEF Writing
  <2> QED
    BY <2>1 DEF StreamRingInv, InRing
<1> QED
  BY <1>1, <1>2, <1>3

LEMMA ReturnKeeps ==
    ASSUME StreamInv, OthersStill, ~Writing, NEW rc \in Results, Return(rc),
           reclaimed'.to \in Nat, ReclaimBehindReaders'
    PROVE  StreamInv'
<1>1. prov' \in Calls /\ prov'.pc = "idle"
  BY Zenon DEF StreamInv, StreamTyped, Calls, Return
<1>2. ~Writing' /\ ScanInv'
  BY <1>1 DEF Writing, ScanInv
<1> QED
  BY <1>1, <1>2, ProviderLooks, Zenon

LEMMA BeginKeeps ==
    ASSUME StreamInv, OthersStill, ~Writing, UNCHANGED reclaimed,
           NEW pc \in {"publish", "reclaim"}, Begin(pc, mask)
    PROVE  StreamInv'
<1>1. prov' \in Calls /\ prov'.pc = pc /\ prov'.left = mask /\ prov'.min = streamTail
  BY Zenon DEF StreamInv, StreamTyped, Calls, Begin
<1>2. ~Writing'
  BY <1>1, Zenon DEF Writing
<1>3. ScanInv'
  BY <1>1, <1>2 DEF ScanInv, OthersStill, StreamInv, StreamTyped
<1>4. reclaimed'.to \in Nat /\ ReclaimBehindReaders'
  BY DEF StreamInv, StreamTyped, ReclaimBehindReaders, OthersStill, consumerVars
<1> QED
  BY <1>1, <1>2, <1>3, <1>4, ProviderLooks, Zenon

\* A scan goes on past a consumer: if it is active, its cursor bounds the minimum
\* from now on.
LEMMA ScanKeeps ==
    ASSUME StreamInv, OthersStill, UNCHANGED reclaimed,
           prov.pc \in {"publish", "reclaim"}, NEW c \in prov.left,
           \/ prov' = Scanned(c)
           \/ /\ prov.pc = "reclaim" /\ cursor[c].state # "active"
              /\ prov' = [prov EXCEPT !.left = @ \ {c}]
    PROVE  StreamInv'
<1> USE DEF StreamInv
<1>1. /\ c \in Consumers /\ c \in mask /\ prov.left \subseteq mask
      /\ prov.min \in Nat /\ cursor[c].head \in Nat /\ streamTail \in Nat
      /\ prov.min <= streamTail
  BY DEF StreamTyped, ScanInv, Cursors, Calls
<1>2. PICK m \in Nat : /\ prov' = [prov EXCEPT !.left = @ \ {c}, !.min = m]
                       /\ m <= prov.min
                       /\ m <= cursor[c].head
                             \/ (prov.pc = "reclaim" /\ cursor[c].state # "active")
  <2>1. CASE prov' = Scanned(c)
    <3>1. PICK m : m = IF cursor[c].head < prov.min THEN cursor[c].head ELSE prov.min
      BY Zenon
    <3>2. m \in Nat /\ m <= prov.min /\ m <= cursor[c].head
      BY <1>1, <3>1
    <3>3. prov' = [prov EXCEPT !.left = @ \ {c}, !.min = m]
      BY <2>1, <3>1 DEF Scanned
    <3> QED
      BY <3>2, <3>3, Zenon
  <2>2. CASE /\ prov.pc = "reclaim" /\ cursor[c].state # "active"
             /\ prov' = [prov EXCEPT !.left = @ \ {c}]
    <3>1. prov' = [prov EXCEPT !.left = @ \ {c}, !.min = prov.min]
      BY <2>2, Zenon DEF StreamTyped, Calls
    <3>2. prov.min <= prov.min
      BY <1>1
    <3> QED
      BY <1>1, <2>2, <3>1, <3>2, Zenon
  <2> QED
    BY <2>1, <2>2, Zenon
<1>3. /\ prov' \in Calls /\ prov'.pc = prov.pc
      /\ prov'.left = prov.left \ {c} /\ prov'.min = m
  BY <1>2, Zenon DEF StreamTyped, Calls
<1>4. ~Writing /\ ~Writing'
  BY <1>3 DEF Writing
<1>5. \A d \in mask : cursor[d].head \in Nat
  BY DEF StreamTyped, Cursors
<1>6. ScanInv'
  <2>1. prov'.left \subseteq mask /\ prov'.min <= streamTail
    BY <1>1, <1>2, <1>3
  <2>2. ASSUME prov.pc = "publish", NEW d \in mask \ prov'.left PROVE prov'.min <= cursor[d].head
    <3>1. d = c \/ prov.min <= cursor[d].head
      BY <1>3, <2>2 DEF ScanInv
    <3> QED
      BY <1>1, <1>2, <1>3, <1>5, <2>2, <3>1
  <2>3. ASSUME prov.pc = "reclaim", NEW d \in mask \ prov'.left, cursor[d].state = "active"
        PROVE  prov'.min <= cursor[d].head
    <3>1. d = c \/ prov.min <= cursor[d].head
      BY <1>3, <2>3 DEF ScanInv
    <3> QED
      BY <1>1, <1>2, <1>3, <1>5, <2>3, <3>1
  <2> QED
    BY <1>3, <1>4, <2>1, <2>2, <2>3 DEF ScanInv, OthersStill, consumerVars
<1>7. reclaimed'.to \in Nat /\ ReclaimBehindReaders'
  BY DEF StreamTyped, ReclaimBehindReaders, OthersStill, consumerVars
<1> QED
  BY <1>3, <1>4, <1>6, <1>7, ProviderLooks, Zenon

LEMMA ReclaimKeeps ==
    ASSUME StreamInv, Reclaim
    PROVE  StreamInv'
<1> USE DEF StreamInv
<1>1. /\ OthersStill /\ Return("ok") /\ ~Writing
      /\ prov.pc = "reclaim" /\ prov.left = {}
  BY DEF Reclaim, OthersStill, Writing
<1>3. reclaimed'.to = IF prov.min > reclaimed.to THEN prov.min ELSE reclaimed.to
  BY Zenon DEF Reclaim
<1>2. PICK m : m = reclaimed'.to
  BY Zenon
<1>4. m \in {reclaimed.to, prov.min} /\ reclaimed.to \in Nat /\ prov.min \in Nat
  BY <1>2, <1>3, Zenon DEF StreamTyped, Calls
<1>5. ReclaimBehindReaders'
  BY <1>1, <1>3, <1>4 DEF ReclaimBehindReaders, ScanInv, OthersStill, consumerVars
<1>6. reclaimed'.to \in Nat /\ "ok" \in Results
  BY <1>3, <1>4 DEF Results
<1> QED
  BY <1>1, <1>5, <1>6, ReturnKeeps, Zenon

\* The copy into the ring starts and goes on: the slot written is the one of the
\* tail, which no consumer of the mask has yet to read.
LEMMA CopyKeeps ==
    ASSUME StreamInv, UNCHANGED <<mask, streamTail, reclaimed, published, consumerVars>>,
           \A c \in mask : streamTail - cursor[c].head < Depth,
           ring' \in [0 .. Depth - 1 -> Descs],
           \A k \in 0 .. Depth - 1 : k # streamTail % Depth => ring'[k] = ring[k],
           prov' \in Calls, prov'.pc \in {"copy", "tail"},
           ring'[streamTail % Depth].lo = prov'.n + 1,
           prov'.pc = "tail" => ring'[streamTail % Depth].hi = prov'.n + 1
    PROVE  StreamInv'
<1> USE DEF StreamInv, consumerVars
<1>1. StreamTyped'
  BY Zenon DEF StreamTyped
<1>2. CursorInv' /\ ReaderInv' /\ ReadInv' /\ ReclaimBehindReaders'
  BY DEF CursorInv, ReaderInv, ReadInv, ReclaimBehindReaders
<1>3. Writing'
  BY Zenon DEF Writing
<1>4. ScanInv'
  BY <1>3, SMTT(30) DEF ScanInv
<1>5. StreamRingInv'
  <2>1. ASSUME NEW k \in Nat, InRing(k)'
        PROVE  /\ ring'[k % Depth].lo = published[k + 1]
               /\ ring'[k % Depth].hi = published[k + 1]
    <3>1. k < streamTail /\ streamTail - k < Depth
      BY <1>3, <2>1 DEF InRing
    <3>2. InRing(k)
      BY <3>1, DepthFacts DEF InRing, StreamTyped
    <3>3. ring'[k % Depth] = ring[k % Depth]
      BY <3>1, StreamSlots, Zenon
    <3> QED
      BY <3>2, <3>3 DEF StreamRingInv
  <2> QED
    BY <2>1 DEF StreamRingInv
<1> QED
  BY <1>1, <1>2, <1>4, <1>5

LEMMA PublishCopyKeeps ==
    ASSUME StreamInv, NEW ok \in BOOLEAN, PublishCopy(ok)
    PROVE  StreamInv'
<1> USE DEF StreamInv
<1>1. /\ prov.pc = "publish" /\ prov.left = {} /\ ~Writing
      /\ UNCHANGED <<mask, streamTail, gen, reclaimed, published, consumerVars>>
  BY DEF PublishCopy, Writing
<1>2. ASSUME NEW rc \in {"EAGAIN", "EINVAL"}, Return(rc), UNCHANGED ring PROVE StreamInv'
  <2>1. OthersStill /\ rc \in Results /\ reclaimed'.to \in Nat /\ ReclaimBehindReaders'
    BY <1>1, <1>2 DEF OthersStill, Results, StreamTyped, ReclaimBehindReaders, consumerVars
  <2> QED
    BY <1>1, <1>2, <2>1, ReturnKeeps, Zenon
<1>3. ASSUME ~StreamFull,
             ring' = [ring EXCEPT ![streamTail % Depth].lo = prov.n + 1],
             prov' = [prov EXCEPT !.pc = "copy"]
      PROVE  StreamInv'
  <2>1. prov' \in Calls /\ prov'.pc = "copy" /\ prov'.n = prov.n /\ prov.n \in Nat
    BY <1>3, Zenon DEF StreamTyped, Calls
  <2>2. /\ ring' \in [0 .. Depth - 1 -> Descs]
        /\ \A k \in 0 .. Depth - 1 : k # streamTail % Depth => ring'[k] = ring[k]
        /\ ring'[streamTail % Depth].lo = prov.n + 1
    <3>1. PICK t \in 0 .. Depth - 1 : t = streamTail % Depth
      BY StreamSlots
    <3>2. PICK v \in Nat : v = prov.n + 1
      BY <2>1
    <3>3. ring' = [ring EXCEPT ![t].lo = v] /\ ring \in [0 .. Depth - 1 -> Descs]
      BY <1>3, <3>1, <3>2 DEF StreamTyped
    <3>4. /\ ring' \in [0 .. Depth - 1 -> Descs]
          /\ \A k \in 0 .. Depth - 1 : k # t => ring'[k] = ring[k]
          /\ ring'[t].lo = v
      BY <3>3 DEF Descs
    <3> QED
      BY <3>1, <3>2, <3>4
  <2>3. \A c \in mask : streamTail - cursor[c].head < Depth
    <3> SUFFICES ASSUME NEW c \in mask PROVE streamTail - cursor[c].head < Depth
      OBVIOUS
    <3>1. prov.min <= cursor[c].head
      BY <1>1 DEF ScanInv
    <3>2. streamTail \in Nat /\ prov.min \in Nat /\ cursor[c].head \in Nat
      BY DEF StreamTyped, Calls, Cursors
    <3> QED
      BY <1>3, <3>1, <3>2, DepthFacts DEF StreamFull
  <2> QED
    BY <1>1, <2>1, <2>2, <2>3, CopyKeeps
<1> QED
  BY <1>2, <1>3 DEF PublishCopy

LEMMA PublishCopiedKeeps ==
    ASSUME StreamInv, PublishCopied
    PROVE  StreamInv'
<1> USE DEF StreamInv
<1>1. /\ prov.pc = "copy" /\ Writing
      /\ ring' = [ring EXCEPT ![streamTail % Depth].hi = prov.n + 1]
      /\ prov' = [prov EXCEPT !.pc = "tail"]
      /\ UNCHANGED <<mask, streamTail, gen, reclaimed, published, consumerVars>>
  BY DEF PublishCopied, Writing
<1>2. prov' \in Calls /\ prov'.pc = "tail" /\ prov'.n = prov.n /\ prov.n \in Nat
  BY <1>1, Zenon DEF StreamTyped, Calls
<1>3. /\ ring' \in [0 .. Depth - 1 -> Descs]
      /\ \A k \in 0 .. Depth - 1 : k # streamTail % Depth => ring'[k] = ring[k]
      /\ ring'[streamTail % Depth].lo = ring[streamTail % Depth].lo
      /\ ring'[streamTail % Depth].hi = prov.n + 1
  <2>1. PICK t \in 0 .. Depth - 1 : t = streamTail % Depth
    BY StreamSlots
  <2>2. PICK v \in Nat : v = prov.n + 1
    BY <1>2
  <2>3. ring' = [ring EXCEPT ![t].hi = v] /\ ring \in [0 .. Depth - 1 -> Descs]
    BY <1>1, <2>1, <2>2 DEF StreamTyped
  <2>4. /\ ring' \in [0 .. Depth - 1 -> Descs]
        /\ \A k \in 0 .. Depth - 1 : k # t => ring'[k] = ring[k]
        /\ ring'[t].lo = ring[t].lo /\ ring'[t].hi = v
    BY <2>3 DEF Descs
  <2> QED
    BY <2>1, <2>2, <2>4
<1>4. \A c \in mask : streamTail - cursor[c].head < Depth
  BY <1>1 DEF ScanInv
<1>5. ring'[streamTail % Depth].lo = prov.n + 1
  BY <1>1, <1>3 DEF StreamRingInv
<1> QED
  BY <1>1, <1>2, <1>3, <1>4, <1>5, CopyKeeps

\* The store of the tail: the descriptor is published whole, in a slot that was
\* free for every consumer of the mask.
LEMMA PublishTailKeeps ==
    ASSUME StreamInv, PublishTail
    PROVE  StreamInv'
<1> USE DEF StreamInv
<1>1. /\ prov.pc = "tail" /\ Writing
      /\ streamTail' = streamTail + 1
      /\ published' = Append(published, prov.n + 1)
      /\ prov' = [prov EXCEPT !.pc = "idle", !.rc = "ok", !.n = @ + 1]
      /\ UNCHANGED <<mask, ring, gen, reclaimed, cursor, readers, read>>
  BY DEF PublishTail, Writing, consumerVars
<1>3. PICK v \in Nat : v = prov.n + 1
  BY DEF StreamTyped, Calls
<1>2. prov' \in Calls /\ prov'.pc = "idle" /\ ~Writing'
  <2>1. prov' = [prov EXCEPT !.pc = "idle", !.rc = "ok", !.n = v]
    BY <1>1, <1>3
  <2>2. prov' \in Calls /\ prov'.pc = "idle"
    BY <2>1, Zenon DEF StreamTyped, Calls, Results
  <2> QED
    BY <2>2 DEF Writing
<1>4. streamTail \in Nat /\ published \in Seq(Nat) /\ Len(published) = streamTail
  BY DEF StreamTyped
<1>5. /\ published' \in Seq(Nat) /\ Len(published') = streamTail + 1
      /\ \A i \in 1 .. streamTail : published'[i] = published[i]
      /\ published'[streamTail + 1] = v
  BY <1>1, <1>3, <1>4
<1>6. \A c \in Consumers : cursor[c].head \in Nat
  BY DEF StreamTyped, Cursors
<1>7. StreamTyped'
  BY <1>1, <1>2, <1>4, <1>5 DEF StreamTyped
<1>8. CursorInv' /\ ScanInv' /\ ReclaimBehindReaders'
  <2>1. \A c \in mask : streamTail - cursor[c].head < Depth
    BY <1>1 DEF ScanInv
  <2>2. CursorInv'
    BY <1>1, <1>4, <1>6, <2>1, DepthFacts DEF CursorInv
  <2> QED
    BY <1>1, <1>2, <2>2 DEF ScanInv, ReclaimBehindReaders
<1>9. StreamRingInv'
  <2>1. ASSUME NEW k \in Nat, InRing(k)'
        PROVE  ring[k % Depth].lo = published'[k + 1] /\ ring[k % Depth].hi = published'[k + 1]
    <3>1. k < streamTail + 1 /\ streamTail + 1 - k <= Depth
      <4>1. k < streamTail' /\ streamTail' - k <= Depth
        BY <2>1 DEF InRing
      <4>2. streamTail' = streamTail + 1
        BY <1>1
      <4> QED
        BY <1>4, <4>1, <4>2, DepthFacts
    <3>2. CASE k = streamTail
      BY <1>1, <1>3, <1>5, <3>2 DEF StreamRingInv
    <3>3. CASE k < streamTail
      <4>1. InRing(k) /\ k + 1 \in 1 .. streamTail
        BY <1>4, <3>1, <3>3, DepthFacts DEF InRing
      <4> QED
        BY <1>5, <4>1 DEF StreamRingInv
    <3> QED
      BY <1>4, <3>1, <3>2, <3>3
  <2> QED
    BY <1>1, <1>2, <2>1, Zenon DEF StreamRingInv
<1>10. ReaderInv'
  <2> SUFFICES ASSUME NEW c \in Consumers, readers[c].pc # "idle"
               PROVE  /\ c \in mask /\ readers[c].head = cursor[c].head
                      /\ cursor[c].head < streamTail + 1
                      /\ readers[c].pc \in {"hi", "head"} =>
                            readers[c].lo = published'[cursor[c].head + 1]
                      /\ readers[c].pc = "head" => readers[c].hi = published'[cursor[c].head + 1]
    BY <1>1, Zenon DEF ReaderInv
  <2>1. cursor[c].head < streamTail
    BY DEF ReaderInv
  <2>2. published'[cursor[c].head + 1] = published[cursor[c].head + 1]
    BY <1>4, <1>5, <1>6, <2>1, SMTT(30)
  <2> QED
    BY <1>4, <1>6, <2>1, <2>2 DEF ReaderInv
<1>11. ReadInv'
  <2> SUFFICES ASSUME NEW c \in Consumers, NEW i \in 1 .. Len(read[c])
               PROVE  read[c][i] = <<published'[i], published'[i]>>
    BY <1>1, Zenon DEF ReadInv
  <2>1. i \in 1 .. streamTail
    BY <1>4, <1>6 DEF ReadInv, CursorInv
  <2> QED
    BY <1>5, <2>1 DEF ReadInv
<1> QED
  BY <1>7, <1>8, <1>9, <1>10, <1>11

LEMMA ResetKeeps ==
    ASSUME StreamInv, NEW m \in SUBSET Consumers, Reset(m)
    PROVE  StreamInv'
<1> USE DEF Reset
<1>1. prov' \in Calls /\ prov'.pc = "idle"
  BY Zenon DEF StreamInv, StreamTyped, Calls, Results
<1>2. EmptyRing \in [0 .. Depth - 1 -> Descs]
  BY DEF EmptyRing, Descs, NoDesc
<1>3. /\ cursor' \in [Consumers -> Cursors]
      /\ \A c \in Consumers : /\ cursor'[c].head = 0 /\ cursor'[c].drops = 0
                              /\ c \notin m => cursor'[c].state # "active"
  BY DEF FreshCursor, Cursors, CursorStates
<1>4. published' \in Seq(Nat) /\ Len(published') = 0
  OBVIOUS
<1>5. /\ read' \in [Consumers -> Seq(Nat \X Nat)]
      /\ \A c \in Consumers : Len(read'[c]) = 0
  OBVIOUS
<1>6. StreamTyped'
  BY <1>1, <1>2, <1>3, <1>4, <1>5, Zenon DEF StreamInv, StreamTyped
<1>7. CursorInv' /\ ReclaimBehindReaders' /\ ReadInv'
  BY <1>3, <1>5, DepthFacts DEF CursorInv, ReclaimBehindReaders, ReadInv
<1>8. ScanInv' /\ StreamRingInv'
  BY <1>1 DEF ScanInv, StreamRingInv, Writing, InRing
<1>9. ReaderInv'
  BY Zenon DEF ReaderInv
<1> QED
  BY <1>6, <1>7, <1>8, <1>9 DEF StreamInv

-----------------------------------------------------------------------------
(* The consumers' steps.                                                   *)

\* One call in progress changes, and nothing else.
LEMMA ReaderMoves ==
    ASSUME StreamInv, NEW c \in Consumers, NEW r \in Reads, readers' = [readers EXCEPT ![c] = r],
           UNCHANGED <<mask, streamTail, ring, prov, reclaimed, published, cursor, read>>,
           r.pc # "idle" =>
              /\ c \in mask /\ r.head = cursor[c].head /\ cursor[c].head < streamTail
              /\ r.pc \in {"hi", "head"} => r.lo = published[cursor[c].head + 1]
              /\ r.pc = "head" => r.hi = published[cursor[c].head + 1]
    PROVE  StreamInv'
<1> USE DEF StreamInv
<1>1. /\ readers' \in [Consumers -> Reads] /\ readers'[c] = r
      /\ \A d \in Consumers : d # c => readers'[d] = readers[d]
  BY Zenon DEF StreamTyped
<1>2. StreamTyped'
  BY <1>1, Zenon DEF StreamTyped
<1>3. CursorInv' /\ ReadInv' /\ ReclaimBehindReaders'
  BY Zenon DEF CursorInv, ReadInv, ReclaimBehindReaders
<1>4. ScanInv' /\ StreamRingInv'
  BY Zenon DEF ScanInv, StreamRingInv, InRing, Writing
<1>5. ReaderInv'
  <2> SUFFICES ASSUME NEW d \in Consumers, readers'[d].pc # "idle"
               PROVE  /\ d \in mask /\ readers'[d].head = cursor[d].head
                      /\ cursor[d].head < streamTail
                      /\ readers'[d].pc \in {"hi", "head"} =>
                            readers'[d].lo = published[cursor[d].head + 1]
                      /\ readers'[d].pc = "head" => readers'[d].hi = published[cursor[d].head + 1]
    BY DEF ReaderInv
  <2>1. CASE d = c
    BY <1>1, <2>1, Zenon
  <2>2. CASE d # c
    BY <1>1, <2>2 DEF ReaderInv
  <2> QED
    BY <2>1, <2>2
<1> QED
  BY <1>2, <1>3, <1>4, <1>5, Zenon

LEMMA ConsumeStartKeeps ==
    ASSUME StreamInv, NEW c \in Consumers, ConsumeStart(c)
    PROVE  StreamInv'
<1> USE DEF StreamInv
<1>1. /\ UNCHANGED <<mask, streamTail, ring, prov, reclaimed, published, read>>
      /\ readers[c] \in Reads /\ cursor[c] \in Cursors /\ streamTail \in Nat
  BY DEF ConsumeStart, StreamTyped
<1>2. ASSUME NEW rc \in Results, CReturn(c, rc), UNCHANGED cursor PROVE StreamInv'
  <2>1. PICK r : r = [readers[c] EXCEPT !.pc = "idle", !.rc = rc]
    BY Zenon
  <2>2. r \in Reads /\ r.pc = "idle"
    BY <1>1, <2>1, Zenon DEF Reads
  <2>3. readers' = [readers EXCEPT ![c] = r]
    BY <1>2, <2>1, Zenon DEF CReturn, StreamTyped, Reads
  <2> QED
    BY <1>1, <1>2, <2>2, <2>3, ReaderMoves, Zenon
<1>3. ASSUME cursor[c].state = "active" PROVE streamTail - cursor[c].head <= Depth
  BY <1>3 DEF CursorInv
<1>4. ASSUME cursor[c].state = "active", cursor[c].head # streamTail, UNCHANGED cursor,
             readers' = [readers EXCEPT ![c].pc = "lo", ![c].head = cursor[c].head]
      PROVE  StreamInv'
  <2>1. PICK r : r = [readers[c] EXCEPT !.pc = "lo", !.head = cursor[c].head]
    BY Zenon
  <2>2. r \in Reads /\ r.pc = "lo" /\ r.head = cursor[c].head
    BY <1>1, <2>1, Zenon DEF Reads, Cursors
  <2>3. readers' = [readers EXCEPT ![c] = r]
    BY <1>4, <2>1, Zenon DEF StreamTyped, Reads
  <2>4. c \in mask /\ cursor[c].head < streamTail
    BY <1>1, <1>4 DEF CursorInv, Cursors
  <2> QED
    BY <1>1, <1>4, <2>2, <2>3, <2>4, ReaderMoves, Zenon
<1>5. "ENODEV" \in Results /\ "EAGAIN" \in Results
  BY DEF Results
<1>6. ~(streamTail - cursor[c].head > Depth) \/ cursor[c].state # "active"
  BY <1>1, <1>3, DepthFacts DEF Cursors
<1> QED
  BY <1>2, <1>4, <1>5, <1>6 DEF ConsumeStart

\* What a consume reads while the provider may be writing: the slot of its cursor
\* still holds the descriptor published there.
LEMMA SlotRead ==
    ASSUME StreamInv, NEW c \in Consumers, readers[c].pc # "idle"
    PROVE  /\ ring[readers[c].head % Depth].lo = published[cursor[c].head + 1]
           /\ ring[readers[c].head % Depth].hi = published[cursor[c].head + 1]
<1> USE DEF StreamInv
<1>1. /\ c \in mask /\ readers[c].head = cursor[c].head
      /\ cursor[c].head < streamTail /\ cursor[c].head \in Nat
  BY Zenon DEF ReaderInv, StreamTyped, Cursors
<1>2. InRing(cursor[c].head)
  BY <1>1 DEF InRing, CursorInv, ScanInv
<1> QED
  BY <1>1, <1>2, Zenon DEF StreamRingInv

LEMMA ConsumeCopies ==
    ASSUME StreamInv, NEW c \in Consumers, ConsumeLo(c) \/ ConsumeHi(c)
    PROVE  StreamInv'
<1> USE DEF StreamInv
<1>1. /\ UNCHANGED <<mask, streamTail, ring, prov, reclaimed, published, cursor, read>>
      /\ readers[c] \in Reads /\ readers[c].pc # "idle"
  BY DEF ConsumeLo, ConsumeHi, StreamTyped
<1>2. PICK v : v = published[cursor[c].head + 1]
  BY ZenonT(30)
<1>3. /\ c \in mask /\ readers[c].head = cursor[c].head /\ cursor[c].head < streamTail
      /\ ring[readers[c].head % Depth].lo = v /\ ring[readers[c].head % Depth].hi = v
  BY <1>1, <1>2, SlotRead DEF ReaderInv
<1>4. v \in Nat
  <2>1. cursor[c].head + 1 \in 1 .. Len(published)
    BY <1>3 DEF StreamTyped, Cursors
  <2> QED
    BY <1>2, <2>1, SMTT(30) DEF StreamTyped
<1>5. CASE ConsumeLo(c)
  <2>1. PICK r : r = [readers[c] EXCEPT !.pc = "hi", !.lo = v]
    BY Zenon
  <2>2. r \in Reads /\ r.pc = "hi" /\ r.lo = v /\ r.head = readers[c].head
    BY <1>1, <1>4, <2>1, Zenon DEF Reads
  <2>3. readers' = [readers EXCEPT ![c] = r]
    BY <1>3, <1>5, <2>1, Zenon DEF ConsumeLo, StreamTyped, Reads
  <2> QED
    BY <1>1, <1>2, <1>3, <2>2, <2>3, ReaderMoves, Zenon
<1>6. CASE ConsumeHi(c)
  <2>1. PICK r : r = [readers[c] EXCEPT !.pc = "head", !.hi = v]
    BY Zenon
  <2>2. r \in Reads /\ r.pc = "head" /\ r.hi = v /\ r.head = readers[c].head
        /\ r.lo = readers[c].lo
    BY <1>1, <1>4, <2>1, Zenon DEF Reads
  <2>3. readers' = [readers EXCEPT ![c] = r]
    BY <1>3, <1>6, <2>1, Zenon DEF ConsumeHi, StreamTyped, Reads
  <2>4. readers[c].lo = v
    BY <1>2, <1>6 DEF ConsumeHi, ReaderInv
  <2> QED
    BY <1>1, <1>2, <1>3, <2>2, <2>3, <2>4, ReaderMoves, Zenon
<1> QED
  BY <1>5, <1>6

\* The store of the cursor's head: the provider may have read the old one.
LEMMA ConsumeHeadKeeps ==
    ASSUME StreamInv, NEW c \in Consumers, ConsumeHead(c)
    PROVE  StreamInv'
<1> USE DEF StreamInv
<1>1. /\ UNCHANGED <<mask, streamTail, ring, prov, reclaimed, published>>
      /\ readers[c] \in Reads /\ readers[c].pc = "head"
      /\ readers' = [readers EXCEPT ![c].pc = "idle", ![c].rc = "ok"]
  BY DEF ConsumeHead, CReturn, StreamTyped
<1>2. PICK h \in Nat : h = cursor[c].head
  BY DEF StreamTyped, Cursors
<1>3. /\ c \in mask /\ readers[c].head = h /\ h < streamTail /\ streamTail \in Nat
      /\ readers[c].lo = published[h + 1] /\ readers[c].hi = published[h + 1]
  BY <1>1, <1>2 DEF ReaderInv, StreamTyped
<1>4. PICK v \in Nat : v = published[h + 1]
  BY <1>3 DEF StreamTyped
<1>5. /\ cursor' = [cursor EXCEPT ![c].head = h + 1]
      /\ read' = [read EXCEPT ![c] = Append(@, <<v, v>>)]
  BY <1>3, <1>4 DEF ConsumeHead
<1>6. /\ cursor' \in [Consumers -> Cursors]
      /\ cursor'[c].head = h + 1
      /\ \A d \in Consumers : /\ cursor'[d].state = cursor[d].state
                              /\ cursor'[d].drops = cursor[d].drops
                              /\ d # c => cursor'[d].head = cursor[d].head
  <2>1. PICK n \in Nat : n = h + 1
    OBVIOUS
  <2>2. cursor' = [cursor EXCEPT ![c].head = n] /\ cursor \in [Consumers -> Cursors]
    BY <1>5, <2>1 DEF StreamTyped
  <2>3. /\ cursor' \in [Consumers -> Cursors]
        /\ cursor'[c].head = n
        /\ \A d \in Consumers : /\ cursor'[d].state = cursor[d].state
                                /\ cursor'[d].drops = cursor[d].drops
                                /\ d # c => cursor'[d].head = cursor[d].head
    BY <2>2 DEF Cursors
  <2> QED
    BY <2>1, <2>3
<1>7. /\ readers' \in [Consumers -> Reads] /\ readers'[c].pc = "idle"
      /\ \A d \in Consumers : d # c => readers'[d] = readers[d]
  BY <1>1, Zenon DEF StreamTyped, Reads, Results
<1>8. /\ read[c] \in Seq(Nat \X Nat) /\ Len(read[c]) = h
      /\ \A i \in 1 .. h : read[c][i] = <<published[i], published[i]>>
  BY <1>2 DEF StreamTyped, ReadInv
<1>9. PICK e \in Nat \X Nat : e = <<v, v>>
  BY Zenon
<1>10. PICK s : s = Append(read[c], e)
  BY Zenon
<1>11. /\ s \in Seq(Nat \X Nat) /\ Len(s) = h + 1 /\ s[h + 1] = e
       /\ \A i \in 1 .. h : s[i] = read[c][i]
  BY <1>8, <1>10
<1>12. /\ read' \in [Consumers -> Seq(Nat \X Nat)] /\ read'[c] = s
       /\ \A d \in Consumers : d # c => read'[d] = read[d]
  <2>1. read \in [Consumers -> Seq(Nat \X Nat)] /\ read' = [read EXCEPT ![c] = s]
    BY <1>5, <1>9, <1>10 DEF StreamTyped
  <2> QED
    BY <1>11, <2>1, Zenon
<1>13. \A d \in Consumers : cursor[d].head \in Nat /\ cursor[d].head <= cursor'[d].head
  <2> SUFFICES ASSUME NEW d \in Consumers
               PROVE  cursor[d].head \in Nat /\ cursor[d].head <= cursor'[d].head
    OBVIOUS
  <2>1. cursor[d].head \in Nat
    BY DEF StreamTyped, Cursors
  <2>2. CASE d = c
    BY <1>2, <1>6, <2>2
  <2>3. CASE d # c
    BY <1>6, <2>1, <2>3
  <2> QED
    BY <2>1, <2>2, <2>3
<1>14. \A d \in Consumers : cursor'[d].head \in Nat
  BY <1>6 DEF Cursors
<1>15. StreamTyped'
  BY <1>1, <1>6, <1>7, <1>12, Zenon DEF StreamTyped
<1>16. CursorInv'
  <2> SUFFICES ASSUME NEW d \in Consumers
               PROVE  /\ cursor'[d].drops = 0 /\ cursor'[d].head <= streamTail
                      /\ d \in mask => streamTail - cursor'[d].head <= Depth
                      /\ d \notin mask => cursor'[d].state # "active"
    BY <1>1 DEF CursorInv
  <2>1. /\ cursor[d].drops = 0 /\ cursor[d].head <= streamTail
        /\ d \in mask => streamTail - cursor[d].head <= Depth
        /\ d \notin mask => cursor[d].state # "active"
    BY Zenon DEF CursorInv
  <2>2. cursor'[d].head <= streamTail
    BY <1>2, <1>3, <1>6, <2>1
  <2> QED
    BY <1>3, <1>6, <1>13, <1>14, <2>1, <2>2, DepthFacts
<1>17. ScanInv'
  <2>1. prov.min \in Nat /\ mask \subseteq Consumers
    BY DEF StreamTyped, Calls
  <2>2. Writing' = Writing
    BY <1>1 DEF Writing
  <2>3. prov.pc = "publish" => \A d \in mask \ prov.left : prov.min <= cursor'[d].head
    BY <1>13, <1>14, <2>1 DEF ScanInv
  <2>4. prov.pc = "reclaim" =>
          \A d \in mask \ prov.left : cursor'[d].state = "active" => prov.min <= cursor'[d].head
    BY <1>6, <1>13, <1>14, <2>1 DEF ScanInv
  <2>5. Writing => \A d \in mask : streamTail - cursor'[d].head < Depth
    BY <1>3, <1>13, <1>14, <2>1, DepthFacts DEF ScanInv
  <2> QED
    BY <1>1, <2>2, <2>3, <2>4, <2>5 DEF ScanInv
<1>18. StreamRingInv'
  BY <1>1 DEF StreamRingInv, InRing, Writing
<1>19. ReaderInv'
  BY <1>1, <1>6, <1>7 DEF ReaderInv
<1>20. ReadInv'
  <2> SUFFICES ASSUME NEW d \in Consumers
               PROVE  /\ Len(read'[d]) = cursor'[d].head
                      /\ \A i \in 1 .. Len(read'[d]) :
                            read'[d][i] = <<published[i], published[i]>>
    BY <1>1 DEF ReadInv
  <2>1. CASE d # c
    <3>1. read'[d] = read[d] /\ cursor'[d].head = cursor[d].head
      BY <1>6, <1>12, <2>1
    <3> QED
      BY <3>1 DEF ReadInv
  <2>2. CASE d = c
    <3>1. ASSUME NEW i \in 1 .. h + 1 PROVE s[i] = <<published[i], published[i]>>
      <4>1. CASE i = h + 1
        BY <1>4, <1>9, <1>11, <4>1
      <4>2. CASE i \in 1 .. h
        BY <1>8, <1>11, <4>2, Zenon
      <4> QED
        BY <4>1, <4>2
    <3> QED
      BY <1>6, <1>11, <1>12, <2>2, <3>1
  <2> QED
    BY <2>1, <2>2
<1>21. ReclaimBehindReaders'
  <2>1. reclaimed.to \in Nat /\ mask \subseteq Consumers
    BY DEF StreamTyped
  <2> QED
    BY <1>1, <1>6, <1>13, <1>14, <2>1 DEF ReclaimBehindReaders
<1> QED
  BY <1>15, <1>16, <1>17, <1>18, <1>19, <1>20, <1>21

LEMMA PauseKeeps ==
    ASSUME StreamInv, NEW c \in Consumers, Pause(c)
    PROVE  StreamInv'
<1> USE DEF StreamInv
<1>1. /\ UNCHANGED <<mask, streamTail, ring, prov, readers, reclaimed, published, read>>
      /\ cursor' = [cursor EXCEPT ![c].state = "paused"]
  BY DEF Pause
<1>2. /\ cursor' \in [Consumers -> Cursors]
      /\ \A d \in Consumers : /\ cursor'[d].head = cursor[d].head
                              /\ cursor'[d].drops = cursor[d].drops
                              /\ cursor'[d].state = "active" => cursor[d].state = "active"
  BY <1>1 DEF StreamTyped, Cursors, CursorStates
<1>3. mask \subseteq Consumers
  BY DEF StreamTyped
<1>4. StreamTyped'
  BY <1>1, <1>2 DEF StreamTyped
<1>5. CursorInv' /\ ReaderInv' /\ ReadInv'
  BY <1>1, <1>2 DEF CursorInv, ReaderInv, ReadInv
<1>6. ScanInv' /\ ReclaimBehindReaders'
  BY <1>1, <1>2, <1>3 DEF ScanInv, Writing, ReclaimBehindReaders
<1>7. StreamRingInv'
  BY <1>1, Zenon DEF StreamRingInv, InRing, Writing
<1> QED
  BY <1>4, <1>5, <1>6, <1>7

-----------------------------------------------------------------------------

LEMMA StreamNextInv ==
    ASSUME StreamInv, [StreamNext]_streamVars
    PROVE  StreamInv'
<1> USE DEF StreamInv
<1>1. CASE PublishStart
  <2>1. OthersStill /\ ~Writing /\ UNCHANGED reclaimed
    BY <1>1 DEF PublishStart, OthersStill, Writing
  <2>2. reclaimed'.to \in Nat /\ ReclaimBehindReaders' /\ "ENODEV" \in Results
    BY <2>1 DEF StreamTyped, ReclaimBehindReaders, OthersStill, consumerVars, Results
  <2> QED
    BY <1>1, <2>1, <2>2, ReturnKeeps, BeginKeeps DEF PublishStart
<1>2. CASE PublishScan
  <2>1. OthersStill /\ ~Writing /\ UNCHANGED reclaimed /\ prov.pc = "publish"
    BY <1>2 DEF PublishScan, OthersStill, Writing
  <2>2. reclaimed'.to \in Nat /\ ReclaimBehindReaders' /\ "EPIPE" \in Results
    BY <2>1 DEF StreamTyped, ReclaimBehindReaders, OthersStill, consumerVars, Results
  <2>3. PICK c \in prov.left : prov' = Scanned(c) \/ Return("EPIPE")
    BY <1>2 DEF PublishScan
  <2> QED
    BY <2>1, <2>2, <2>3, ReturnKeeps, ScanKeeps
<1>3. CASE \E ok \in BOOLEAN : PublishCopy(ok)
  BY <1>3, PublishCopyKeeps
<1>4. CASE PublishCopied \/ PublishTail
  BY <1>4, PublishCopiedKeeps, PublishTailKeeps
<1>5. CASE ReclaimStart
  <2>1. OthersStill /\ ~Writing /\ UNCHANGED reclaimed /\ Begin("reclaim", mask)
    BY <1>5 DEF ReclaimStart, OthersStill, Writing
  <2> QED
    BY <2>1, BeginKeeps
<1>6. CASE ReclaimScan
  <2>1. OthersStill /\ UNCHANGED reclaimed /\ prov.pc = "reclaim"
    BY <1>6 DEF ReclaimScan, OthersStill
  <2>2. PICK c \in prov.left :
          \/ prov' = Scanned(c)
          \/ cursor[c].state # "active" /\ prov' = [prov EXCEPT !.left = @ \ {c}]
    BY <1>6, Zenon DEF ReclaimScan
  <2> QED
    BY <2>1, <2>2, ScanKeeps
<1>7. CASE Reclaim
  BY <1>7, ReclaimKeeps
<1>8. CASE \E m \in SUBSET Consumers : Reset(m)
  BY <1>8, ResetKeeps
<1>9. CASE \E c \in Consumers : Consume(c) \/ Pause(c)
  BY <1>9, ConsumeStartKeeps, ConsumeCopies, ConsumeHeadKeeps, PauseKeeps DEF Consume
<1>10. CASE UNCHANGED streamVars
  BY <1>10, Zenon DEF streamVars, StreamTyped, CursorInv, ScanInv, Writing, StreamRingInv, InRing,
               ReaderInv, ReadInv, ReclaimBehindReaders
<1> QED
  BY <1>1, <1>2, <1>3, <1>4, <1>5, <1>6, <1>7, <1>8, <1>9, <1>10
     DEF StreamNext, Publish, Reclaims

\* The inductive invariant gives what the stream promises.
LEMMA StreamInvSafe == StreamInv => NeverOverrun
<1> SUFFICES ASSUME StreamInv PROVE NeverOverrun
  OBVIOUS
<1>1. SeesTheStream
  <2> SUFFICES ASSUME NEW c \in Consumers, NEW i \in 1 .. Len(read[c])
               PROVE  i <= Len(published) /\ read[c][i] = <<published[i], published[i]>>
    BY ZenonT(30) DEF SeesTheStream
  <2>1. /\ Len(read[c]) = cursor[c].head /\ cursor[c].head <= streamTail
        /\ Len(published) = streamTail /\ streamTail \in Nat /\ cursor[c].head \in Nat
    BY DEF StreamInv, StreamTyped, CursorInv, ReadInv, Cursors
  <2> QED
    BY <2>1 DEF StreamInv, ReadInv
<1> QED
  BY <1>1 DEF StreamInv, CursorInv, NeverOverrun

\* obmm_spmc_publish never overruns a consumer, for every depth of the ring and
\* every set of consumers: although it reads the cursors one after another while
\* they move, no consumer in the mask falls more than the ring behind, every
\* consume returns the next descriptor whole and in order, and what
\* obmm_spmc_reclaimable_head gives up every active consumer has read.
THEOREM NoConsumerIsOverrun == StreamSpec => []NeverOverrun
<1>1. StreamInit => StreamInv
  BY StreamInitInv
<1>2. StreamInv /\ [StreamNext]_streamVars => StreamInv'
  BY StreamNextInv
<1>3. StreamInv => NeverOverrun
  BY StreamInvSafe
<1> QED
  BY <1>1, <1>2, <1>3, PTL DEF StreamSpec
=============================================================================
