-------------------------------- MODULE Pmm ---------------------------------
(***************************************************************************)
(* src/pmm.c: the physical memory manager, a bitmap with one bit per page. *)
(* A page is its number; bitmap is the set of the pages whose bit is set.  *)
(***************************************************************************)
EXTENDS Integers, FiniteSets

CONSTANTS PAGE_SIZE,
          PAGES,        \* BITMAP_SIZE * 32: the bitmap spans the 32-bit address space
          LOW_MEMORY,   \* 0x100000
          END,          \* &_end, where the kernel image ends
          MemoryMaps,   \* multiboot memory maps, sets of entries [addr, len, type]
          MemUppers,    \* mem_upper in bytes, for a boot loader that gives no map
          Counts        \* arguments of pmm_alloc_pages and pmm_free_pages

Limit == PAGES * PAGE_SIZE     \* 0x100000000

Available(e) == e.type = 1
Covers(e, byte) == Available(e) /\ e.addr <= byte /\ byte < e.addr + e.len

ASSUME PmmAssumption ==
  /\ PAGE_SIZE \in Nat \ {0} /\ PAGES \in Nat \ {0}
  /\ LOW_MEMORY \in Nat \ {0} /\ END \in Nat /\ LOW_MEMORY <= END
  /\ MemUppers \subseteq Nat
  /\ Counts \subseteq 0..PAGES
  /\ \A map \in MemoryMaps :
       /\ IsFiniteSet(map)
       /\ \A e \in map : e.addr \in Nat /\ e.len \in Nat
       /\ \A e, f \in map : Available(e) /\ Available(f) /\ e # f
            => e.addr + e.len <= f.addr \/ f.addr + f.len <= e.addr

VARIABLES bitmap, total_pages, used_pages,
          usable,   \* the pages pmm_init made available
          boot,     \* what the boot loader told: [map, mem_upper]; map {} for none
          held,     \* the pages callers were given and have not given back
          failed    \* how many pages the last call asked for, if it returned 0

vars == <<bitmap, total_pages, used_pages, usable, boot, held, failed>>

Page == 0 .. PAGES - 1
Run(start, n) == start .. start + n - 1
Clear == Page \ bitmap
-----------------------------------------------------------------------------
(* pmm_init *)

RoundUp(addr) == (addr + PAGE_SIZE - 1) \div PAGE_SIZE
kernel_end == RoundUp(END) * PAGE_SIZE

EndOf(e) == IF e.addr + e.len > Limit THEN Limit ELSE e.addr + e.len

FirstPage_Partial(e) == e.addr \div PAGE_SIZE
FirstPage(e) == RoundUp(e.addr)

FreedBy(e) ==
  {page \in FirstPage(e) .. (EndOf(e) \div PAGE_SIZE) - 1 :
     /\ Available(e) /\ e.addr < Limit
     /\ page * PAGE_SIZE >= LOW_MEMORY
     /\ page * PAGE_SIZE >= kernel_end}

Start(free, count) ==
  /\ usable = free
  /\ bitmap = Page \ free
  /\ total_pages = count
  /\ used_pages = 0
  /\ held = {}
  /\ failed = 0

\* total_pages is incremented once for every page of every entry.
InitFromMap ==
  \E map \in MemoryMaps :
    /\ boot = [map |-> map, mem_upper |-> 0]
    /\ Start(UNION {FreedBy(e) : e \in map},
             Cardinality(UNION {{<<e, page>> : page \in FreedBy(e)} : e \in map}))

\* Fallback; the size in bytes is a uint32_t.
InitFromMemUpper ==
  \E mem_upper \in MemUppers :
    LET mem_size == (mem_upper + LOW_MEMORY) % Limit
        free == {page \in Page : kernel_end \div PAGE_SIZE <= page
                                 /\ page < mem_size \div PAGE_SIZE}
    IN /\ boot = [map |-> {}, mem_upper |-> mem_upper]
       /\ Start(free, Cardinality(free))

Init == InitFromMap \/ InitFromMemUpper
-----------------------------------------------------------------------------
Take(pages) ==
  /\ bitmap' = bitmap \cup pages
  /\ held' = held \cup pages
  /\ used_pages' = used_pages + Cardinality(pages)
  /\ failed' = 0
  /\ UNCHANGED <<total_pages, usable, boot>>

ReturnZero(n) ==
  /\ failed' = n
  /\ UNCHANGED <<bitmap, total_pages, used_pages, usable, boot, held>>

pmm_alloc_page ==
  \/ \E page \in Clear : /\ \A other \in Clear : page <= other
                         /\ Take({page})
  \/ Clear = {} /\ ReturnZero(1)

\* Where a free run of n pages starts.
Starts_ShortScan(n) == {start \in 0 .. PAGES - n - 1 : Run(start, n) \cap bitmap = {}}
Starts_EndsOnly(n) == {start \in 0 .. PAGES - n : {start, start + n - 1} \cap bitmap = {}}
Starts(n) == {start \in 0 .. PAGES - n : Run(start, n) \cap bitmap = {}}

pmm_alloc_pages(n) ==
  IF n = 0
  THEN ReturnZero(0)
  ELSE \/ \E start \in Starts(n) : /\ \A other \in Starts(n) : start <= other
                                   /\ Take(Run(start, n))
       \/ Starts(n) = {} /\ ReturnZero(n)

\* Callers free pages they hold; a page that is free already is skipped.
Returnable(pages) == pages \cap Page \subseteq held \cup Clear

GiveBack(pages) ==
  /\ bitmap' = bitmap \ pages
  /\ used_pages' = used_pages - Cardinality(pages \cap bitmap)

pmm_free_page(page) ==
  /\ Returnable({page})
  /\ GiveBack({page})
  /\ held' = held \ {page}
  /\ failed' = 0
  /\ UNCHANGED <<total_pages, usable, boot>>

pmm_free_pages(start, n) ==
  /\ Returnable(Run(start, n))
  /\ GiveBack(Run(start, n) \cap Page)
  /\ held' = held \ Run(start, n)
  /\ failed' = 0
  /\ UNCHANGED <<total_pages, usable, boot>>

Next == \/ pmm_alloc_page
        \/ \E n \in Counts : pmm_alloc_pages(n)
        \/ \E page \in Page : pmm_free_page(page)
        \/ \E start \in Page, n \in Counts : pmm_free_pages(start, n)

Spec == Init /\ [][Next]_vars
-----------------------------------------------------------------------------
(* The bitmap tells the truth: the set bits are the pages never made       *)
(* available and the pages some caller holds.  So no page is handed out    *)
(* twice, by pmm_alloc_page or as part of a run of pmm_alloc_pages, and    *)
(* none that was given back is lost.  pmm_get_free_pages (total_pages -    *)
(* used_pages, unsigned) is the number of clear bits, and so never wraps   *)
(* below zero, although free pages may be freed again.                     *)
BitmapExact == /\ held \subseteq usable
               /\ bitmap = (Page \ usable) \cup held
               /\ used_pages = Cardinality(held)
               /\ total_pages - used_pages = Cardinality(Clear)

(* Only whole pages of RAM above the kernel are handed out, whatever the   *)
(* alignment of the map's entries: every byte of a held page is covered by *)
(* an available entry (or by mem_upper) and is past 1MB and past _end.     *)
(* In particular page 0 never is, so that 0 can mean "out of memory".      *)
OnlyUsableRam ==
  \A page \in held : \A byte \in page * PAGE_SIZE .. page * PAGE_SIZE + PAGE_SIZE - 1 :
    /\ byte >= LOW_MEMORY
    /\ byte >= END
    /\ \/ \E e \in boot.map : Covers(e, byte)
       \/ boot.map = {} /\ byte < LOW_MEMORY + boot.mem_upper

(* An allocation fails only if no run of that many free pages exists, not  *)
(* even one that ends with the last page of the bitmap.                    *)
FailsOnlyWhenNoRun ==
  failed > 0 => ~ \E start \in Page : \A k \in 0 .. failed - 1 : start + k \in Clear
=============================================================================
