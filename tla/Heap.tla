--------------------------------- MODULE Heap ---------------------------------
(***************************************************************************)
(* The heap of bertos/struct/heap.c: a list of free chunks sorted by       *)
(* address and kept inside the free memory itself, first fit from the end  *)
(* of a chunk, neighbours merged when memory is freed.  proc_new() takes   *)
(* the stacks of the processes from it.                                    *)
(***************************************************************************)
EXTENDS Integers, Sequences, FiniteSets, SequencesExt

CONSTANTS
  Granule,   \* sizeof(MemChunk): the size of the header of a free chunk
  SizeT,     \* sizeof(size_t): the size of the header of heap_malloc()
  Memory,    \* the size of the memory of the heap
  Sizes      \* the sizes the callers ask for

ASSUME HeapAssumption ==
  /\ Granule \in Nat \ {0}
  /\ SizeT \in Nat
  /\ Memory \in {Granule * n : n \in 1..Memory}   \* HEAP_DEFINE_BUF()
  /\ Sizes \subseteq Nat

VARIABLES
  free,   \* h->FreeList: the chunks [addr, size] in the order of the list
  used    \* the blocks the callers have: [addr, size], the size they gave

heapVars == <<free, used>>

heap_init ==
  /\ free = <<[addr |-> 0, size |-> Memory]>>
  /\ used = {}

(* mutant: a request for 0 bytes takes nothing *)
Rounded_mutant(size) == ((size + Granule - 1) \div Granule) * Granule

(* ROUND_UP2() to the allocation granularity; 0 bytes take a granule. *)
Rounded(size) ==
  IF size = 0 THEN Granule ELSE ((size + Granule - 1) \div Granule) * Granule

(* The first chunk big enough, 0 when there is none. *)
Fit(size) == SelectInSeq(free, LAMBDA chunk : chunk.size >= Rounded(size))

heap_allocmem(size) ==
  LET i == Fit(size)
      left == free[i].size - Rounded(size)
  IN  /\ i # 0
      /\ free' = IF left = 0 THEN RemoveAt(free, i) ELSE [free EXCEPT ![i].size = left]
      /\ used' = used \cup {[addr |-> free[i].addr + left, size |-> size]}

heap_allocmem_fails(size) == Fit(size) = 0 /\ UNCHANGED heapVars

(* Two chunks become one when the second begins where the first ends. *)
Touch(a, b) == a.addr + a.size = b.addr

Merge(a, b) == [addr |-> a.addr, size |-> a.size + b.size]

(* mutant: a block is merged with the chunk before it only *)
MergeNext_mutant(l, i) == l

(* "Also merge with next chunk?", for the chunk at position i of l. *)
MergeNext(l, i) ==
  IF i < Len(l) /\ Touch(l[i], l[i + 1])
  THEN RemoveAt([l EXCEPT ![i] = Merge(l[i], l[i + 1])], i + 1)
  ELSE l

heap_freemem(block) ==
  LET mem == [addr |-> block.addr, size |-> Rounded(block.size)]
      \* the last chunk before mem, 0 if mem is before the first chunk
      prev == SelectLastInSeq(free, LAMBDA chunk : chunk.addr < mem.addr)
  IN  /\ block \in used
      /\ used' = used \ {block}
      /\ free' = IF prev # 0 /\ Touch(free[prev], mem)
                 THEN MergeNext([free EXCEPT ![prev] = Merge(@, mem)], prev)
                 ELSE MergeNext(InsertAt(free, prev + 1, mem), prev + 1)

(* The malloc() interface keeps the size before the block. *)
heap_malloc(size) == heap_allocmem(size + SizeT)

heap_malloc_fails(size) == heap_allocmem_fails(size + SizeT)

HeapNext ==
  \/ \E size \in Sizes :
       \/ heap_allocmem(size)
       \/ heap_allocmem_fails(size)
       \/ heap_malloc(size)
       \/ heap_malloc_fails(size)
  \/ \E block \in used : heap_freemem(block)

HeapSpec == heap_init /\ [][HeapNext]_heapVars

(* free_mem, once the loop has passed n chunks. *)
free_mem[n \in 0..Len(free)] == IF n = 0 THEN 0 ELSE free_mem[n - 1] + free[n].size

heap_freeSpace == free_mem[Len(free)]
-----------------------------------------------------------------------------
Span(addr, size) == addr..(addr + size - 1)

FreeBytes == UNION {Span(free[i].addr, free[i].size) : i \in DOMAIN free}

UsedBytes(b) == Span(b.addr, Rounded(b.size))

(* The memory is never given to two callers, nor is a byte of it lost: the *)
(* blocks and the free chunks split the memory among them.                 *)
Partition ==
  /\ \A b, d \in used : b # d => UsedBytes(b) \cap UsedBytes(d) = {}
  /\ \A b \in used : UsedBytes(b) # {} /\ UsedBytes(b) \cap FreeBytes = {}
  /\ FreeBytes \cup UNION {UsedBytes(b) : b \in used} = 0..(Memory - 1)
  /\ heap_freeSpace = Cardinality(FreeBytes)

(* The free list is sorted, its chunks are whole granules, and no two of   *)
(* them touch: "there should be only one merge opportunity, because we     *)
(* always merge on free".                                                  *)
Merged ==
  \A i \in DOMAIN free :
    /\ free[i].addr % Granule = 0
    /\ free[i].size % Granule = 0
    /\ free[i].size > 0
    /\ i < Len(free) => free[i].addr + free[i].size < free[i + 1].addr

(* An allocation fails only when it must: no gap between the blocks of the *)
(* callers is big enough, wherever the frees before have left the gaps.    *)
FailsOnlyIfFull ==
  \A size \in Sizes : Fit(size) = 0 =>
    \A a \in 0..(Memory - Rounded(size)) :
      \E b \in used : UsedBytes(b) \cap Span(a, Rounded(size)) # {}
===============================================================================
