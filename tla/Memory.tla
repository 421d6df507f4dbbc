------------------------------ MODULE Memory ------------------------------
(***************************************************************************)
(* The kernel heap (kernel/memory.c): a bump allocator over a static       *)
(* array, with all its arithmetic in uint32_t.                             *)
(***************************************************************************)
EXTENDS Integers, Sequences

CONSTANTS
  HeapSize,    (* HEAP_SIZE: 16 MB in the code                             *)
  Word,        (* 2^32 in the code                                         *)
  Request,     (* sizes a caller asks for                                  *)
  MaxAllocs    (* bound on the number of allocations kept in the history   *)

ASSUME MemoryAssumption ==
  /\ HeapSize \in Nat /\ Word \in Nat /\ MaxAllocs \in Nat
  /\ HeapSize < Word /\ Request \subseteq 0 .. Word - 1
  /\ HeapSize % 8 = 0 /\ Word % 8 = 0

VARIABLES
  heap_offset,
  ptr,         (* what the last kmalloc returned                           *)
  allocs       (* history: the allocations made since memory_init          *)

memVars == <<heap_offset, ptr, allocs>>

Null == -1

MemInit == heap_offset = 0 /\ ptr = Null /\ allocs = <<>>

memory_init ==
  /\ heap_offset' = 0 /\ allocs' = <<>>
  /\ UNCHANGED ptr

(* Mutant: the size is rounded down.                                       *)
AlignedDown(size) == size - (size % 8)

(* (size + 7) & ~7 in uint32_t.                                            *)
Aligned(size) == ((size + 7) % Word) - (((size + 7) % Word) % 8)

(* Mutant: only the start of the block is checked.                         *)
FitsAtStart(size) == heap_offset < HeapSize

Fits(size) == (heap_offset + size) % Word <= HeapSize

kmalloc(size) ==
  /\ Len(allocs) < MaxAllocs
  /\ IF Fits(Aligned(size))
       THEN /\ ptr' = heap_offset
            /\ heap_offset' = (heap_offset + Aligned(size)) % Word
            /\ allocs' = Append(allocs, [ptr |-> heap_offset, size |-> size])
       ELSE ptr' = Null /\ UNCHANGED <<heap_offset, allocs>>

(* kfree does nothing.                                                     *)
kfree == UNCHANGED memVars

MemNext == memory_init \/ (\E size \in Request : kmalloc(size)) \/ kfree

MemSpec == MemInit /\ [][MemNext]_memVars

---------------------------------------------------------------------------
(* Type invariant. *)
MemTypeOK ==
  /\ heap_offset \in 0 .. HeapSize /\ heap_offset % 8 = 0
  /\ ptr \in 0 .. HeapSize \cup {Null}
  /\ allocs \in Seq([ptr : 0 .. HeapSize, size : Request])

(* A sum that kmalloc formed for this allocation exceeded a word: the size *)
(* was rounded to 0, or the end of the block came out below its start.     *)
Wrapped(r) == r.ptr + r.size + 7 >= Word

(* An allocation starts behind the end of every earlier one since          *)
(* memory_init, so that no two of them share a byte, unless the sums of    *)
(* the earlier one, or of one in between, wrapped around.                  *)
AllocationsDisjoint ==
  \A j, k \in DOMAIN allocs :
    j < k /\ (\A m \in j .. k - 1 : ~Wrapped(allocs[m])) => allocs[j].ptr + allocs[j].size <= allocs[k].ptr

(* Every allocation is aligned to 8 bytes and lies inside the heap array,  *)
(* unless its own sums wrapped around.  Earlier ones that wrapped do not   *)
(* matter.                                                                 *)
AllocationsInHeap ==
  \A k \in DOMAIN allocs :
    /\ allocs[k].ptr % 8 = 0
    /\ ~Wrapped(allocs[k]) => allocs[k].ptr + allocs[k].size <= HeapSize

===========================================================================
