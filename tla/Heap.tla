-------------------------------- MODULE Heap --------------------------------
(***************************************************************************)
(* src/heap.c: the kernel heap, a doubly linked list of blocks that tile   *)
(* the heap, each with a header in the heap itself.                        *)
(*                                                                         *)
(* The static variables of heap.c are the record heap; each helper of the  *)
(* code is a function from one such record to the next.  heap.hdr has the  *)
(* headers the code may read: those of the listed blocks, and that of the  *)
(* block freed last, which stays in memory even when the block is absorbed *)
(* by a neighbour, until the memory is given to a caller.                  *)
(*                                                                         *)
(* Two uses of the heap are left out.  Memory from kmalloc_aligned is      *)
(* never freed: kfree would take the bytes before the aligned address for  *)
(* a header, for it does not look at the original pointer that is stored   *)
(* there.  (Nothing in src/ calls kmalloc_aligned.)  And no request is so  *)
(* large that size_t wraps around, see WidthAssumption.                    *)
(***************************************************************************)
EXTENDS Integers, FiniteSets

CONSTANTS BLOCK_HEADER_SIZE, MIN_BLOCK_SIZE,
          ALIGN,         \* 8: requests are rounded up to a multiple of it
          POINTER,       \* sizeof(void*)
          PAGE_SIZE,
          HEAP_START, HEAP_SIZE,   \* the arguments of heap_init
          FRAMES,        \* frames pmm_alloc_page can still give to the heap
          Sizes,         \* arguments of kmalloc
          AlignedSizes,  \* arguments <<size, alignment>> of kmalloc_aligned
          UINT32         \* 2^32, the range of size_t and of addresses

ASSUME HeapAssumption ==
  /\ ALIGN \in Nat \ {0} /\ POINTER \in Nat \ {0}
  /\ BLOCK_HEADER_SIZE \in Nat \ {0}
  /\ MIN_BLOCK_SIZE \in Nat /\ MIN_BLOCK_SIZE > BLOCK_HEADER_SIZE
  /\ PAGE_SIZE \in Nat /\ PAGE_SIZE >= MIN_BLOCK_SIZE
  /\ HEAP_SIZE \in Nat /\ HEAP_SIZE >= MIN_BLOCK_SIZE
  /\ HEAP_START \in Nat \ {0}
  /\ FRAMES \in Nat
  /\ Sizes \subseteq Nat
  /\ AlignedSizes \subseteq (Nat \ {0}) \X (Nat \ {0})

TotalFor(size, alignment) == size + alignment - 1 + POINTER

\* No sum of the code wraps around: not size + 7 of kmalloc, which would become 0,
\* nor total_needed, nor the total of kmalloc_aligned, nor an address.  ALIGN and
\* the alignments are powers of two, so that masking rounds up as the division in
\* Aligned and in UsedFrom does.
Requests == Sizes \cup {TotalFor(s[1], s[2]) : s \in AlignedSizes}
ASSUME WidthAssumption ==
  /\ \A size \in Requests :
       size + ALIGN - 1 + BLOCK_HEADER_SIZE + MIN_BLOCK_SIZE < UINT32
  /\ HEAP_START + HEAP_SIZE + FRAMES * PAGE_SIZE <= UINT32
  /\ \A n \in {ALIGN} \cup {s[2] : s \in AlignedSizes} : \E k \in 0..31 : n = 2^k

VARIABLES heap,     \* [hdr, blocks, end, size, used]; blocks is the set of listed blocks
          frames,   \* frames left
          owned,    \* allocations in use: kmalloc returned ptr, the caller got ret
                    \* and lo .. hi-1 is used
          freed,    \* the pointer freed last, if nothing was allocated since
          failed    \* the request, if the last kmalloc returned NULL

vars == <<heap, frames, owned, freed, failed>>

NULL == 0

Block(size, next, prev) ==
  [size |-> size, is_free |-> TRUE, next |-> next, prev |-> prev]

\* The fields of the header at an address.
SizeAt(h, a) == h.hdr[a].size
FreeAt(h, a) == h.hdr[a].is_free
NextAt(h, a) == h.hdr[a].next
PrevAt(h, a) == h.hdr[a].prev

Init ==    \* heap_init
  /\ heap = [hdr    |-> [a \in {HEAP_START} |-> Block(HEAP_SIZE, NULL, NULL)],
             blocks |-> {HEAP_START},
             end    |-> HEAP_START,
             size   |-> HEAP_SIZE,
             used   |-> BLOCK_HEADER_SIZE]
  /\ frames = FRAMES
  /\ owned = {}
  /\ freed = NULL
  /\ failed = 0
-----------------------------------------------------------------------------
(* Helpers on the list *)

Write(hdr, a, block) == [x \in DOMAIN hdr \cup {a} |-> IF x = a THEN block ELSE hdr[x]]

SetPrev_Skip(hdr, a, prev) == hdr
SetPrev(hdr, a, prev) == IF a = NULL THEN hdr ELSE [hdr EXCEPT ![a].prev = prev]

Fitting_IgnoreHeader(h, size) ==
  {b \in h.blocks : FreeAt(h, b) /\ SizeAt(h, b) >= size}
Fitting(h, size) ==
  {b \in h.blocks : FreeAt(h, b) /\ SizeAt(h, b) >= size + BLOCK_HEADER_SIZE}

\* The list is in address order, so the first fit is the lowest.
find_free_block(h, size) ==
  CHOOSE b \in Fitting(h, size) : \A other \in Fitting(h, size) : b <= other

split_block(h, b, size) ==
  LET total_needed == size + BLOCK_HEADER_SIZE
      old == h.hdr[b]
      new == b + total_needed
      shrunk == [h.hdr EXCEPT ![b].size = total_needed, ![b].next = new]
  IN IF old.size < total_needed + MIN_BLOCK_SIZE
     THEN h
     ELSE [h EXCEPT
            !.hdr = SetPrev(Write(shrunk, new, Block(old.size - total_needed, old.next, b)),
                            old.next, new),
            !.blocks = @ \cup {new},
            !.end = IF b = @ THEN new ELSE @]

\* Block b absorbs the block that follows it.
Absorb(h, b) ==
  LET gone == NextAt(h, b)
      next == NextAt(h, gone)
      grown == [h.hdr EXCEPT ![b].size = @ + SizeAt(h, gone), ![b].next = next]
  IN [h EXCEPT !.hdr = SetPrev(grown, next, b),
               !.blocks = @ \ {gone},
               !.end = IF next = NULL THEN b ELSE @]

IsFree(h, b) == b # NULL /\ FreeAt(h, b)

MergePrev(h, b) == IF IsFree(h, PrevAt(h, b)) THEN Absorb(h, PrevAt(h, b)) ELSE h
MergeNext(h, b) == IF IsFree(h, NextAt(h, b)) THEN Absorb(h, b) ELSE h
merge_free_blocks(h, b) == MergePrev(MergeNext(h, b), b)

\* One more page at the end, as a block of its own.
Expand(h) ==
  LET new == HEAP_START + h.size
      linked == [h.hdr EXCEPT ![h.end].next = new]
  IN [h EXCEPT !.hdr = Write(linked, new, Block(PAGE_SIZE, NULL, h.end)),
               !.blocks = @ \cup {new},
               !.end = new,
               !.size = @ + PAGE_SIZE]

\* The headers of the listed blocks and at the addresses in stale remain.
Forget(h, stale) == [h EXCEPT !.hdr = [a \in h.blocks \cup stale |-> @[a]]]

\* From now on the payload is the caller's to overwrite.
Allocate(h, b) ==
  Forget([h EXCEPT !.hdr[b].is_free = FALSE, !.used = @ + SizeAt(h, b)], {})
-----------------------------------------------------------------------------
(* The calls *)

Aligned(size) == ((size + ALIGN - 1) \div ALIGN) * ALIGN

\* The heap in which kmalloc places a request of size bytes: expanded, if
\* nothing fits and there is a frame.
Expands_Never(size) == FALSE
Expands(size) == Fitting(heap, size) = {} /\ frames > 0
Candidate(size) == IF Expands(size) THEN Expand(heap) ELSE heap

kmallocFails(request) ==
  LET size == Aligned(request)
  IN /\ Fitting(Candidate(size), size) = {}
     /\ heap' = Candidate(size)
     /\ frames' = IF Expands(size) THEN frames - 1 ELSE frames
     /\ failed' = request
     /\ UNCHANGED <<owned, freed>>

\* Where the caller of kmalloc starts to use its memory: at once, or at the
\* slot of the original pointer that precedes an aligned address.
UsedFrom(ptr, alignment) ==
  IF alignment = 0 THEN ptr
  ELSE ((ptr + POINTER + alignment - 1) \div alignment) * alignment - POINTER

\* kmalloc succeeds; the caller uses length bytes.
kmallocGives(request, alignment, length) ==
  LET size == Aligned(request)
      h == Candidate(size)
      b == find_free_block(h, size)
      ptr == b + BLOCK_HEADER_SIZE
      lo == UsedFrom(ptr, alignment)
  IN /\ Fitting(h, size) # {}
     /\ heap' = Allocate(split_block(h, b, size), b)
     /\ frames' = IF Expands(size) THEN frames - 1 ELSE frames
     /\ owned' = owned \cup {[ptr |-> ptr, lo |-> lo, hi |-> lo + length,
                               ret |-> IF alignment = 0 THEN ptr ELSE lo + POINTER]}
     /\ failed' = 0
     /\ freed' = NULL

\* kmalloc(0) returns NULL and changes nothing.
kmalloc(size) ==
  /\ size # 0
  /\ kmallocFails(size) \/ kmallocGives(size, 0, size)

kmalloc_aligned(size, alignment) ==
  LET total == TotalFor(size, alignment)
  IN kmallocFails(total) \/ kmallocGives(total, alignment, POINTER + size)

\* A block in use becomes free.
Release(h, b) ==
  merge_free_blocks([h EXCEPT !.used = @ - SizeAt(h, b), !.hdr[b].is_free = TRUE], b)

AlreadyFree(b) == FreeAt(heap, b)

\* Callers free what they own and had from kmalloc itself, and may free the same
\* pointer twice in a row, as fat32_readdir does after a failed read.
FromKmalloc == {o.ptr : o \in {p \in owned : p.ret = p.ptr}}
kfree(ptr) ==
  LET b == ptr - BLOCK_HEADER_SIZE
  IN /\ ptr \in FromKmalloc \cup ({freed} \ {NULL})
     /\ heap' = IF AlreadyFree(b) THEN heap ELSE Forget(Release(heap, b), {b})
     /\ owned' = {o \in owned : o.ptr # ptr}
     /\ freed' = ptr
     /\ failed' = 0
     /\ UNCHANGED frames

Next == \/ \E size \in Sizes : kmalloc(size)
        \/ \E s \in AlignedSizes : kmalloc_aligned(s[1], s[2])
        \/ \E ptr \in FromKmalloc \cup {freed} : kfree(ptr)

Spec == Init /\ [][Next]_vars
-----------------------------------------------------------------------------
Limit(h) == HEAP_START + h.size

(* What kmalloc and kmalloc_aligned gave out is safe to use: each region   *)
(* lies in the payload of a block that is not free, no two share a block,  *)
(* and so no two overlap and none reaches a header, if no request wraps    *)
(* around and kfree gets no pointer of kmalloc_aligned.                    *)
AllocationsDisjoint ==
  /\ \A o \in owned :
       LET b == o.ptr - BLOCK_HEADER_SIZE
       IN /\ b \in heap.blocks
          /\ ~ FreeAt(heap, b)
          /\ o.ptr <= o.lo
          /\ o.hi <= b + SizeAt(heap, b)
  /\ \A o, p \in owned : o.ptr = p.ptr => o = p

\* The block is where its neighbours say it is, and reaches up to the next.
Placed(h, b) ==
  LET after == b + SizeAt(h, b)
  IN /\ SizeAt(h, b) > BLOCK_HEADER_SIZE
     /\ after = Limit(h) <=> b = h.end
     /\ b = h.end => NextAt(h, b) = NULL
     /\ b # h.end => /\ NextAt(h, b) = after
                     /\ after \in h.blocks
                     /\ PrevAt(h, after) = b
     /\ b = HEAP_START <=> PrevAt(h, b) = NULL
     /\ b # HEAP_START => /\ PrevAt(h, b) \in h.blocks
                          /\ PrevAt(h, b) + SizeAt(h, PrevAt(h, b)) = b
     /\ \A c \in h.blocks : b < c => after <= c

\* The blocks tile the heap, and next, prev and heap_end follow suit.
Tiles(h) == /\ HEAP_START \in h.blocks
            /\ h.end \in h.blocks
            /\ \A b \in h.blocks : Placed(h, b)

\* The bytes of the blocks in use, headers included.
InUse(h) == {x \in HEAP_START .. Limit(h) - 1 :
               \E b \in h.blocks : ~ FreeAt(h, b) /\ b <= x /\ x < b + SizeAt(h, b)}

\* heap_init counts one header that belongs to no allocation.
UsedExact(h) == h.used = BLOCK_HEADER_SIZE + Cardinality(InUse(h))

\* Where kmalloc has appended a page, which it does not merge.
Seam(a) == a >= HEAP_START + HEAP_SIZE /\ (a - HEAP_START - HEAP_SIZE) % PAGE_SIZE = 0

\* Two neighbours are both free only at a seam, save behind the blocks in S.
CoalescedBut(h, S) ==
  \A b \in h.blocks \ S :
    FreeAt(h, b) /\ IsFree(h, NextAt(h, b)) => Seam(NextAt(h, b))

(* The list is intact: whatever is split, merged or appended, and even     *)
(* when a pointer is freed twice, the blocks tile the heap without gap or  *)
(* overlap, next and prev lead to the neighbours in memory, heap_end is    *)
(* the last block, free blocks are coalesced, and heap_used counts the     *)
(* allocated ones, if no request wraps around and kfree gets no pointer of *)
(* kmalloc_aligned.                                                        *)
WellFormed == Tiles(heap) /\ CoalescedBut(heap, {}) /\ UsedExact(heap)

(* No spurious failure for what fits in a page: kmalloc then returns NULL  *)
(* only when no frame is left.                                             *)
PageSizedSucceeds ==
  failed # 0 /\ frames # 0 => Aligned(failed) + BLOCK_HEADER_SIZE > PAGE_SIZE
=============================================================================
