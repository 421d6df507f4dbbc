--------------------------- MODULE MemoryProofs ---------------------------
(***************************************************************************)
(* Proofs about the kernel heap, for every heap size, word size and set of *)
(* requests: heap_offset stays an aligned offset of the heap, and          *)
(* allocations are disjoint and inside the heap except where a sum of      *)
(* kmalloc wrapped around.                                                 *)
(***************************************************************************)
EXTENDS Memory, TLAPS

(* What was handed out ends at or before heap_offset, unless its sums or   *)
(* those of a later allocation wrapped around.                             *)
BelowOffset ==
  \A j \in DOMAIN allocs :
    (\A m \in j .. Len(allocs) : ~Wrapped(allocs[m])) => allocs[j].ptr + allocs[j].size <= heap_offset

MemIInv == MemTypeOK /\ BelowOffset /\ AllocationsDisjoint /\ AllocationsInHeap

(* A sum smaller than the word size is not reduced.                        *)
LEMMA NoWrap == ASSUME NEW x \in Nat, x < Word PROVE x % Word = x
  BY MemoryAssumption

(* A sum of two words is reduced by the word size at most once.            *)
LEMMA OneWrap ==
  ASSUME NEW x \in Nat, x < 2 * Word
  PROVE  x % Word = IF x < Word THEN x ELSE x - Word
<1>1. CASE x < Word
  BY <1>1, NoWrap
<1>2. CASE x >= Word
  <2>1. x - Word \in 0 .. Word - 1 /\ Word \in Nat \ {0}
    BY <1>2, MemoryAssumption
  <2> QED
    BY <1>2, <2>1, MemoryAssumption
<1> QED
  BY <1>1, <1>2, MemoryAssumption

(* Rounding up gives a multiple of 8 below the word size; unless the sum   *)
(* wraps around, it is at least the size and at most 7 bytes larger.       *)
LEMMA AlignedBounds ==
  ASSUME NEW size \in Request
  PROVE  /\ Aligned(size) \in Nat /\ Aligned(size) % 8 = 0 /\ Aligned(size) < Word
         /\ size + 7 < Word => size <= Aligned(size) /\ Aligned(size) <= size + 7
<1> DEFINE y == (size + 7) % Word
<1>1. size \in Nat /\ size + 7 \in Nat /\ Word \in Nat \ {0}
  BY MemoryAssumption
<1>2. y \in 0 .. Word - 1 /\ (size + 7 < Word => y = size + 7)
  BY <1>1, NoWrap
<1>3. Aligned(size) = y - (y % 8)
  BY DEF Aligned
<1> HIDE DEF y
<1> QED
  BY <1>1, <1>2, <1>3

(* A step of the heap keeps the invariant.                                 *)
LEMMA MemStep == MemIInv /\ [MemNext]_memVars => MemIInv'
<1> SUFFICES ASSUME MemIInv, [MemNext]_memVars PROVE MemIInv'
  OBVIOUS
<1>1. CASE memory_init
  BY <1>1, MemoryAssumption
  DEF memory_init, MemIInv, MemTypeOK, BelowOffset, AllocationsDisjoint, AllocationsInHeap
<1>2. ASSUME NEW size \in Request, kmalloc(size) PROVE MemIInv'
  <2> DEFINE a == Aligned(size)
             h == heap_offset
             e == (h + a) % Word
  <2>1. /\ size \in Nat /\ a \in Nat /\ a % 8 = 0 /\ a < Word
        /\ size + 7 < Word => size <= a /\ a <= size + 7
    BY AlignedBounds, MemoryAssumption
  <2>2. h \in Nat /\ h <= HeapSize /\ h % 8 = 0 /\ h < Word
    BY MemoryAssumption DEF MemIInv, MemTypeOK
  <2> HIDE DEF a, h
  <2>3. e = IF h + a < Word THEN h + a ELSE h + a - Word
    BY <2>1, <2>2, OneWrap, MemoryAssumption
  <2> HIDE DEF e
  <2>4. e \in Nat /\ e % 8 = 0
    BY <2>1, <2>2, <2>3, MemoryAssumption
  <2>5. h + size + 7 < Word => h + size <= e
    BY <2>1, <2>2, <2>3, MemoryAssumption
  <2>6. CASE e <= HeapSize
    <3>1. /\ ptr' = h /\ heap_offset' = e
          /\ allocs' = Append(allocs, [ptr |-> h, size |-> size])
      BY <1>2, <2>6 DEF kmalloc, Fits, a, e, h
    <3>2. MemTypeOK'
      BY <2>2, <2>4, <2>6, <3>1, MemoryAssumption DEF MemIInv, MemTypeOK
    <3> DEFINE n == Len(allocs)
    <3> DEFINE Alloc == [ptr : 0 .. HeapSize, size : Request]
    <3>3. allocs \in Seq(Alloc)
      BY DEF MemIInv, MemTypeOK
    <3>4. \A k \in 1 .. n : allocs[k].ptr \in Nat /\ allocs[k].size \in Nat
      <4> SUFFICES ASSUME NEW k \in 1 .. n
                   PROVE  allocs[k].ptr \in Nat /\ allocs[k].size \in Nat
        OBVIOUS
      <4>1. allocs[k] \in Alloc
        <5> HIDE DEF Alloc
        <5> QED
          BY <3>3
      <4>2. allocs[k].ptr \in 0 .. HeapSize /\ allocs[k].size \in Request
        BY <4>1
      <4>3. \A s \in Request : s \in Nat
        BY MemoryAssumption
      <4> HIDE DEF Alloc, n
      <4>4. allocs[k].ptr \in Nat
        BY <4>2, MemoryAssumption
      <4>5. allocs[k].size \in Nat
        BY <4>2, <4>3
      <4> QED
        BY <4>4, <4>5
    <3>5. /\ n \in Nat /\ Len(allocs') = n + 1
          /\ DOMAIN allocs = 1 .. n /\ DOMAIN allocs' = 1 .. n + 1
          /\ \A k \in 1 .. n : allocs'[k] = allocs[k]
          /\ allocs'[n + 1].ptr = h /\ allocs'[n + 1].size = size
      BY <3>1, <3>3
    <3> DEFINE W(k) == Wrapped(allocs[k])
               V(k) == Wrapped(allocs'[k])
               End(k) == allocs[k].ptr + allocs[k].size
    <3>6. (\A k \in 1 .. n : V(k) = W(k)) /\ (~V(n + 1) => h + size + 7 < Word)
      BY <2>1, <2>2, <3>5, MemoryAssumption DEF Wrapped
    <3>7. \A j \in 1 .. n : End(j) \in Nat /\ ((\A m \in j .. n : ~W(m)) => End(j) <= h)
      BY <3>4, <3>5 DEF MemIInv, BelowOffset, h
    <3>8. \A j, k \in 1 .. n : j < k /\ (\A m \in j .. k - 1 : ~W(m)) => End(j) <= allocs[k].ptr
      BY <3>5 DEF MemIInv, AllocationsDisjoint
    <3>9. \A j \in 1 .. n : allocs'[j].ptr + allocs'[j].size = End(j)
      BY <3>5
    <3> HIDE DEF n, W, V, End
    <3>10. BelowOffset'
      <4> SUFFICES ASSUME NEW j \in 1 .. n + 1, \A m \in j .. n + 1 : ~V(m)
                   PROVE  allocs'[j].ptr + allocs'[j].size <= e
        BY <3>1, <3>5 DEF BelowOffset, V
      <4>1. ~V(n + 1)
        BY <3>5
      <4>2. h <= e /\ h + size <= e
        BY <2>1, <2>2, <2>4, <2>5, <3>6, <4>1
      <4>3. CASE j = n + 1
        BY <4>2, <4>3, <3>5
      <4>4. CASE j \in 1 .. n
        <5>1. \A m \in j .. n : ~W(m)
          BY <4>4, <3>5, <3>6
        <5> QED
          BY <4>2, <4>4, <5>1, <2>2, <2>4, <3>7, <3>9
      <4> QED
        BY <4>3, <4>4, <3>5
    <3>11. AllocationsDisjoint'
      <4> SUFFICES ASSUME NEW j \in 1 .. n + 1, NEW k \in 1 .. n + 1,
                          j < k, \A m \in j .. k - 1 : ~V(m)
                   PROVE  allocs'[j].ptr + allocs'[j].size <= allocs'[k].ptr
        BY <3>5 DEF AllocationsDisjoint, V
      <4>1. j \in 1 .. n /\ \A m \in j .. k - 1 : ~W(m)
        BY <3>5, <3>6
      <4>2. CASE k \in 1 .. n
        BY <4>1, <4>2, <3>5, <3>8, <3>9
      <4>3. CASE k = n + 1
        <5>1. \A m \in j .. n : ~W(m)
          BY <4>1, <4>3, <3>5
        <5> QED
          BY <4>1, <4>3, <5>1, <3>5, <3>7, <3>9
      <4> QED
        BY <4>2, <4>3, <3>5
    <3>12. AllocationsInHeap'
      <4> SUFFICES ASSUME NEW k \in 1 .. n + 1
                   PROVE  /\ allocs'[k].ptr % 8 = 0
                          /\ ~V(k) => allocs'[k].ptr + allocs'[k].size <= HeapSize
        BY <3>5 DEF AllocationsInHeap, V
      <4>1. CASE k \in 1 .. n
        BY <4>1, <3>5, <3>6 DEF MemIInv, AllocationsInHeap, W, n
      <4>2. CASE k = n + 1
        BY <4>2, <2>1, <2>2, <2>4, <2>5, <2>6, <3>5, <3>6, MemoryAssumption
      <4> QED
        BY <4>1, <4>2, <3>5
    <3> QED
      BY <3>2, <3>10, <3>11, <3>12 DEF MemIInv
  <2>7. CASE ~(e <= HeapSize)
    BY <1>2, <2>7
    DEF kmalloc, Fits, a, e, h, Null, MemIInv, MemTypeOK, BelowOffset, AllocationsDisjoint, AllocationsInHeap
  <2> QED
    BY <2>6, <2>7
<1>3. CASE kfree \/ UNCHANGED memVars
  BY <1>3
  DEF kfree, memVars, MemIInv, MemTypeOK, BelowOffset, AllocationsDisjoint, AllocationsInHeap
<1> QED
  BY <1>1, <1>2, <1>3 DEF MemNext

(* The invariant of the heap, from which the properties follow.            *)
LEMMA MemInvariant == MemSpec => []MemIInv
<1>1. MemInit => MemIInv
  BY MemoryAssumption
  DEF MemInit, Null, MemIInv, MemTypeOK, BelowOffset, AllocationsDisjoint, AllocationsInHeap
<1> QED
  BY <1>1, MemStep, PTL DEF MemSpec

(* Whatever sizes are asked for, heap_offset stays a multiple of 8 inside  *)
(* the heap, even when kmalloc's sums wrap around.                         *)
THEOREM HeapType == MemSpec => []MemTypeOK
<1>1. MemIInv => MemTypeOK
  BY DEF MemIInv
<1> QED
  BY <1>1, MemInvariant, PTL

(* kmalloc hands out a byte a second time only after a sum wrapped around. *)
THEOREM HeapDisjoint == MemSpec => []AllocationsDisjoint
<1>1. MemIInv => AllocationsDisjoint
  BY DEF MemIInv
<1> QED
  BY <1>1, MemInvariant, PTL

(* kmalloc hands out bytes outside the heap only when its own sums wrap    *)
(* around, and never an unaligned block.                                   *)
THEOREM HeapInside == MemSpec => []AllocationsInHeap
<1>1. MemIInv => AllocationsInHeap
  BY DEF MemIInv
<1> QED
  BY <1>1, MemInvariant, PTL

===========================================================================
