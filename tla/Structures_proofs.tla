-------------------------- MODULE Structures_proofs --------------------------
(***************************************************************************)
(* Proofs that two structures of the kernel hold what they stand for.  The *)
(* bitmap of module Pmm is the set of the pages callers hold, for any page *)
(* size, any number of pages and any memory map whose available entries do *)
(* not overlap.  The linked list of module ReadyQueue is the sequence of   *)
(* module Process, for any set of processes.                               *)
(***************************************************************************)
EXTENDS Pmm, ReadyQueue, FiniteSetTheorems, TLAPS

(* A page that pmm_init makes available is RAM from its first byte to its  *)
(* last, past 1MB and past the kernel.                                     *)
Sound(page) ==
  \A byte \in page * PAGE_SIZE .. page * PAGE_SIZE + PAGE_SIZE - 1 :
    /\ byte >= LOW_MEMORY
    /\ byte >= END
    /\ \/ \E e \in boot.map : Covers(e, byte)
       \/ boot.map = {} /\ byte < LOW_MEMORY + boot.mem_upper

(* BitmapExact and OnlyUsableRam speak of the pages callers hold; what     *)
(* makes them inductive is the same for the pages that can be handed out.  *)
IInv ==
  /\ usable \subseteq Page
  /\ total_pages = Cardinality(usable)
  /\ \A page \in usable : Sound(page)
  /\ BitmapExact
  /\ FailsOnlyWhenNoRun

LEMMA Sizes ==
  /\ PAGE_SIZE \in Nat \ {0} /\ PAGES \in Nat \ {0}
  /\ LOW_MEMORY \in Nat \ {0} /\ END \in Nat /\ LOW_MEMORY <= END
  /\ MemUppers \subseteq Nat
  /\ Counts \subseteq 0..PAGES
  BY Zenon, PmmAssumption

LEMMA PageFinite == IsFiniteSet(Page)
  BY Sizes, FS_Interval DEF Page
-----------------------------------------------------------------------------
(* Division *)

LEMMA DivMod ==
  ASSUME NEW n \in Nat, NEW d \in Nat \ {0}
  PROVE  /\ n \div d \in Nat
         /\ (n \div d) * d <= n
         /\ n < (n \div d) * d + d
<1>1. n \div d \in Nat
  OBVIOUS
<1>2. (n \div d) * d <= n
  OBVIOUS
<1>3. n < (n \div d) * d + d
  OBVIOUS
<1> QED
  BY Zenon, <1>1, <1>2, <1>3

LEMMA Times ==
  ASSUME NEW a \in Nat, NEW b \in Nat, a <= b, NEW d \in Nat
  PROVE  a * d <= b * d
  OBVIOUS

\* From the first page after an address on, pages lie past the address.
LEMMA PastStart ==
  ASSUME NEW addr \in Nat, NEW page \in Nat, page >= RoundUp(addr)
  PROVE  page * PAGE_SIZE >= addr
<1>1. PAGE_SIZE \in Nat \ {0} /\ addr + PAGE_SIZE - 1 \in Nat
  BY Sizes
<1>2. RoundUp(addr) \in Nat /\ addr + PAGE_SIZE - 1 < RoundUp(addr) * PAGE_SIZE + PAGE_SIZE
  BY Zenon, <1>1, DivMod DEF RoundUp
<1>3. RoundUp(addr) * PAGE_SIZE <= page * PAGE_SIZE
  BY Zenon, <1>1, <1>2, Times
<1> QED
  BY <1>1, <1>2, <1>3

\* Pages below the one an address lies in end before the address.
LEMMA BeforeLimit ==
  ASSUME NEW addr \in Nat, NEW page \in Nat, page < addr \div PAGE_SIZE
  PROVE  page * PAGE_SIZE + PAGE_SIZE <= addr
<1>1. PAGE_SIZE \in Nat \ {0}
  BY Zenon, Sizes
<1>2. addr \div PAGE_SIZE \in Nat /\ (addr \div PAGE_SIZE) * PAGE_SIZE <= addr
  BY Zenon, <1>1, DivMod
<1>3. (page + 1) * PAGE_SIZE <= (addr \div PAGE_SIZE) * PAGE_SIZE
  BY <1>1, <1>2, Times
<1> QED
  BY <1>1, <1>2, <1>3
-----------------------------------------------------------------------------
(* pmm_init *)

LEMMA EntryType ==
  ASSUME NEW map \in MemoryMaps, NEW e \in map
  PROVE  /\ e.addr \in Nat /\ e.len \in Nat
         /\ EndOf(e) \in Nat /\ EndOf(e) <= e.addr + e.len /\ EndOf(e) <= Limit
<1>1. e.addr \in Nat /\ e.len \in Nat
  BY Zenon, PmmAssumption
<1>2. Limit \in Nat
  BY Sizes DEF Limit
<1> QED
  BY <1>1, <1>2 DEF EndOf

\* kernel_end is END rounded up.
LEMMA KernelEnd == kernel_end \in Nat /\ END <= kernel_end
<1>1. RoundUp(END) \in Nat
  <2>1. PAGE_SIZE \in Nat \ {0} /\ END + PAGE_SIZE - 1 \in Nat
    BY Sizes
  <2> QED
    BY Zenon, <2>1, DivMod DEF RoundUp
<1>2. RoundUp(END) * PAGE_SIZE >= END
  BY <1>1, PastStart, Sizes
<1> QED
  BY <1>1, <1>2, Sizes DEF kernel_end

\* What an entry frees lies in the entry and past the kernel.
LEMMA FreedPages ==
  ASSUME NEW map \in MemoryMaps, NEW e \in map, NEW page \in FreedBy(e)
  PROVE  /\ page \in Page /\ Available(e)
         /\ page * PAGE_SIZE \in Nat
         /\ e.addr <= page * PAGE_SIZE
         /\ page * PAGE_SIZE + PAGE_SIZE <= e.addr + e.len
         /\ LOW_MEMORY <= page * PAGE_SIZE
         /\ END <= page * PAGE_SIZE
<1>1. /\ e.addr \in Nat /\ e.len \in Nat
      /\ EndOf(e) \in Nat /\ EndOf(e) <= e.addr + e.len /\ EndOf(e) <= Limit
  BY Zenon, EntryType
<1>2. PAGE_SIZE \in Nat \ {0} /\ PAGES \in Nat
  BY Zenon, Sizes
<1>3. RoundUp(e.addr) \in Nat
  <2>1. e.addr + PAGE_SIZE - 1 \in Nat
    BY <1>1, <1>2
  <2> QED
    BY Zenon, <1>2, <2>1, DivMod DEF RoundUp
<1>4. EndOf(e) \div PAGE_SIZE \in Nat
  BY Zenon, <1>1, <1>2, DivMod
<1>5. /\ page \in Nat /\ page >= RoundUp(e.addr) /\ page < EndOf(e) \div PAGE_SIZE
      /\ Available(e) /\ page * PAGE_SIZE >= LOW_MEMORY /\ page * PAGE_SIZE >= kernel_end
  BY <1>3, <1>4 DEF FreedBy, FirstPage
<1>6. e.addr <= page * PAGE_SIZE
  BY Zenon, <1>1, <1>5, PastStart
<1>7. page * PAGE_SIZE + PAGE_SIZE <= EndOf(e)
  BY Zenon, <1>1, <1>5, BeforeLimit
<1>8. page < PAGES
  <2>1. SUFFICES ASSUME PAGES <= page PROVE FALSE
    BY <1>2, <1>5
  <2>2. PAGES * PAGE_SIZE <= page * PAGE_SIZE
    BY Zenon, <1>2, <1>5, <2>1, Times
  <2>3. PAGES * PAGE_SIZE \in Nat /\ page * PAGE_SIZE \in Nat
    BY <1>2, <1>5
  <2> QED
    BY <1>1, <1>2, <1>7, <2>2, <2>3 DEF Limit
<1>9. page * PAGE_SIZE \in Nat
  BY <1>2, <1>5
<1>10. END <= page * PAGE_SIZE
  BY <1>5, <1>9, KernelEnd, Sizes
<1>11. page * PAGE_SIZE + PAGE_SIZE <= e.addr + e.len
  BY <1>1, <1>2, <1>7, <1>9
<1> QED
  BY <1>2, <1>5, <1>6, <1>8, <1>9, <1>10, <1>11, Sizes DEF Page

\* No page lies in two available entries, so that counting pages entry by
\* entry, as total_pages does, counts every page once.
LEMMA OneEntry ==
  ASSUME NEW map \in MemoryMaps, NEW e \in map, NEW f \in map,
         NEW page \in FreedBy(e), page \in FreedBy(f)
  PROVE  e = f
<1>1. SUFFICES ASSUME e # f PROVE FALSE
  BY Zenon
<1>2. /\ Available(e) /\ page * PAGE_SIZE \in Nat
      /\ e.addr <= page * PAGE_SIZE /\ page * PAGE_SIZE + PAGE_SIZE <= e.addr + e.len
  BY Zenon, FreedPages
<1>3. /\ Available(f)
      /\ f.addr <= page * PAGE_SIZE /\ page * PAGE_SIZE + PAGE_SIZE <= f.addr + f.len
  BY Zenon, FreedPages
<1>4. e.addr + e.len <= f.addr \/ f.addr + f.len <= e.addr
  BY Zenon, <1>1, <1>2, <1>3, PmmAssumption
<1>5. PAGE_SIZE \in Nat \ {0} /\ e.addr \in Nat /\ e.len \in Nat /\ f.addr \in Nat /\ f.len \in Nat
  BY Zenon, Sizes, EntryType
<1> QED
  BY <1>2, <1>3, <1>4, <1>5

LEMMA CountedOnce ==
  ASSUME NEW map \in MemoryMaps
  PROVE  Cardinality(UNION {{<<e, page>> : page \in FreedBy(e)} : e \in map})
           = Cardinality(UNION {FreedBy(e) : e \in map})
<1> DEFINE Pairs == UNION {{<<e, page>> : page \in FreedBy(e)} : e \in map}
           Pages == UNION {FreedBy(e) : e \in map}
           Entry(page) == CHOOSE e \in map : page \in FreedBy(e)
           pair == [page \in Pages |-> <<Entry(page), page>>]
<1>1. \A page \in Pages : Entry(page) \in map /\ page \in FreedBy(Entry(page))
  BY Zenon
<1>2. IsFiniteSet(Pages)
  <2>1. Pages \subseteq Page
    BY Zenon, FreedPages
  <2> QED
    BY Zenon, <2>1, PageFinite, FS_Subset
<1>3. pair \in [Pages -> Pairs]
  BY <1>1
<1>4. \A p, q \in Pages : pair[p] = pair[q] => p = q
  OBVIOUS
<1>5. \A x \in Pairs : \E p \in Pages : pair[p] = x
  <2> SUFFICES ASSUME NEW e \in map, NEW p \in FreedBy(e) PROVE p \in Pages /\ pair[p] = <<e, p>>
    OBVIOUS
  <2>1. p \in Pages
    BY Zenon
  <2>2. Entry(p) = e
    BY Zenon, <1>1, <2>1, OneEntry
  <2> QED
    BY Zenon, <2>1, <2>2
<1>6. pair \in Bijection(Pages, Pairs)
  BY Zenon, <1>3, <1>4, <1>5 DEF Bijection, Injection, Surjection, IsInjective
<1> QED
  BY Zenon, <1>2, <1>6, FS_Bijection DEF ExistsBijection

LEMMA StartInv ==
  ASSUME NEW free, NEW count, Start(free, count), free \subseteq Page,
         count = Cardinality(free), \A page \in free : Sound(page)
  PROVE  IInv
<1>1. held = {} /\ used_pages = 0 /\ failed = 0 /\ usable = free /\ total_pages = count
  BY Zenon DEF Start
<1>2. bitmap = Page \ free /\ Clear = free
  BY Zenon DEF Start, Clear
<1>3. Cardinality(free) \in Nat
  BY Zenon, PageFinite, FS_Subset, FS_CardinalityType
<1>4. BitmapExact
  BY <1>1, <1>2, <1>3, FS_EmptySet DEF BitmapExact
<1>5. FailsOnlyWhenNoRun
  BY <1>1 DEF FailsOnlyWhenNoRun
<1> QED
  BY Zenon, <1>1, <1>4, <1>5 DEF IInv

LEMMA MapInv == InitFromMap => IInv
<1> SUFFICES ASSUME InitFromMap PROVE IInv
  BY Zenon
<1> DEFINE Pages(map) == UNION {FreedBy(e) : e \in map}
           Count(map) == Cardinality(UNION {{<<e, page>> : page \in FreedBy(e)} : e \in map})
<1>1. PICK map \in MemoryMaps : boot = [map |-> map, mem_upper |-> 0] /\ Start(Pages(map), Count(map))
  BY Zenon DEF InitFromMap
<1>2. Pages(map) \subseteq Page
  BY Zenon, FreedPages
<1>3. ASSUME NEW page \in Pages(map) PROVE Sound(page)
  <2>1. PICK e \in map : page \in FreedBy(e)
    BY Zenon, <1>3
  <2>2. /\ Available(e) /\ page * PAGE_SIZE \in Nat
        /\ e.addr <= page * PAGE_SIZE /\ page * PAGE_SIZE + PAGE_SIZE <= e.addr + e.len
        /\ LOW_MEMORY <= page * PAGE_SIZE /\ END <= page * PAGE_SIZE
    BY Zenon, <2>1, FreedPages
  <2>3. e.addr \in Nat /\ e.len \in Nat
    BY Zenon, EntryType
  <2>4. \A byte \in page * PAGE_SIZE .. page * PAGE_SIZE + PAGE_SIZE - 1 :
          Covers(e, byte) /\ byte >= LOW_MEMORY /\ byte >= END
    BY <2>2, <2>3, Sizes DEF Covers
  <2>5. e \in boot.map
    BY Zenon, <1>1
  <2> QED
    BY Zenon, <2>4, <2>5 DEF Sound
<1>4. Count(map) = Cardinality(Pages(map))
  BY Zenon, CountedOnce
<1> HIDE DEF Pages, Count
<1> QED
  BY Zenon, <1>1, <1>2, <1>3, <1>4, StartInv

LEMMA MemUpperInv == InitFromMemUpper => IInv
<1> SUFFICES ASSUME InitFromMemUpper PROVE IInv
  BY Zenon
<1> DEFINE Size(mem_upper) == (mem_upper + LOW_MEMORY) % Limit
           Free(mem_upper) == {page \in Page : kernel_end \div PAGE_SIZE <= page
                                               /\ page < Size(mem_upper) \div PAGE_SIZE}
<1>1. PICK mem_upper \in MemUppers :
        /\ boot = [map |-> {}, mem_upper |-> mem_upper]
        /\ Start(Free(mem_upper), Cardinality(Free(mem_upper)))
  BY Zenon DEF InitFromMemUpper
<1>2. mem_upper \in Nat /\ PAGE_SIZE \in Nat \ {0} /\ PAGES \in Nat \ {0}
  BY Zenon, Sizes
<1>3. Size(mem_upper) \in Nat /\ Size(mem_upper) <= LOW_MEMORY + mem_upper
  <2>1. Limit \in Nat \ {0}
    BY <1>2 DEF Limit
  <2>2. \A n \in Nat, d \in Nat \ {0} : n % d \in Nat /\ n % d <= n
    OBVIOUS
  <2>3. mem_upper + LOW_MEMORY \in Nat /\ mem_upper + LOW_MEMORY = LOW_MEMORY + mem_upper
    BY <1>2, Sizes
  <2> QED
    BY Zenon, <2>1, <2>2, <2>3
<1>4. ASSUME NEW page \in Free(mem_upper) PROVE Sound(page)
  <2>1. page \in Nat /\ kernel_end \div PAGE_SIZE <= page /\ page < Size(mem_upper) \div PAGE_SIZE
    BY <1>4 DEF Page
  <2>2. page * PAGE_SIZE + PAGE_SIZE <= LOW_MEMORY + mem_upper
    <3> HIDE DEF Size
    <3>1. page * PAGE_SIZE + PAGE_SIZE <= Size(mem_upper)
      BY Zenon, <1>3, <2>1, BeforeLimit
    <3> QED
      BY <1>2, <1>3, <2>1, <3>1, Sizes
  <2>3. END <= page * PAGE_SIZE
    <3>1. RoundUp(END) \in Nat
      <4>1. END + PAGE_SIZE - 1 \in Nat
        BY <1>2, Sizes
      <4> QED
        BY Zenon, <1>2, <4>1, DivMod DEF RoundUp
    <3>2. kernel_end \div PAGE_SIZE = RoundUp(END)
      <4>1. \A n \in Nat, d \in Nat \ {0} : (n * d) \div d = n
        OBVIOUS
      <4> QED
        BY Zenon, <1>2, <3>1, <4>1 DEF kernel_end
    <3> QED
      BY Zenon, <2>1, <3>1, <3>2, PastStart, Sizes
  <2>4. page * PAGE_SIZE \in Nat
    BY <1>2, <2>1
  <2>5. boot.map = {} /\ boot.mem_upper = mem_upper
    BY Zenon, <1>1
  <2> QED
    BY <1>2, <2>2, <2>3, <2>4, <2>5, Sizes DEF Sound
<1>5. Free(mem_upper) \subseteq Page
  BY Zenon
<1> HIDE DEF Free
<1> QED
  BY Zenon, <1>1, <1>4, <1>5, StartInv

LEMMA InitInv == Init => IInv
  BY Zenon, MapInv, MemUpperInv DEF Init
-----------------------------------------------------------------------------
(* The calls *)

\* While boot does not change, neither does what is sound.
LEMMA SoundStays == ASSUME NEW page, boot' = boot PROVE Sound(page)' = Sound(page)
  BY Zenon DEF Sound, Covers, Available

\* Pages that are clear are handed out: they were usable and not held.
LEMMA TakeInv ==
  ASSUME IInv, NEW pages, pages \subseteq Clear, Take(pages)
  PROVE  IInv'
<1>1. /\ bitmap' = bitmap \cup pages /\ held' = held \cup pages
      /\ used_pages' = used_pages + Cardinality(pages) /\ failed' = 0
      /\ total_pages' = total_pages /\ usable' = usable /\ boot' = boot
  BY Zenon DEF Take
<1>2. /\ usable \subseteq Page /\ held \subseteq usable /\ bitmap = (Page \ usable) \cup held
      /\ used_pages = Cardinality(held) /\ total_pages - used_pages = Cardinality(Clear)
  BY Zenon DEF IInv, BitmapExact
<1>3. Clear = usable \ held /\ Clear' = Clear \ pages
  BY Zenon, <1>1, <1>2 DEF Clear, Page
<1>4. pages \cap held = {} /\ pages \subseteq usable /\ held \cap pages = {}
  BY Zenon, <1>3
<1>5. IsFiniteSet(held) /\ IsFiniteSet(pages) /\ IsFiniteSet(Clear)
  BY Zenon, <1>2, <1>3, <1>4, PageFinite, FS_Subset
<1>6. /\ Cardinality(held) \in Nat /\ Cardinality(pages) \in Nat /\ Cardinality(Clear) \in Nat
      /\ Cardinality(usable) \in Nat
  BY Zenon, <1>2, <1>5, PageFinite, FS_Subset, FS_CardinalityType
<1>7. used_pages' = Cardinality(held')
  <2>1. Cardinality(held \cup pages)
          = Cardinality(held) + Cardinality(pages) - Cardinality(held \cap pages)
    BY <1>5, FS_Union, Zenon
  <2>2. Cardinality(held \cap pages) = 0
    BY <1>4, FS_EmptySet, Zenon
  <2> QED
    BY <1>1, <1>2, <1>6, <2>1, <2>2
<1>8. Cardinality(Clear') = Cardinality(Clear) - Cardinality(pages)
  <2>1. Clear \cap pages = pages
    BY Zenon
  <2>2. Cardinality(Clear \ pages) = Cardinality(Clear) - Cardinality(Clear \cap pages)
    BY <1>5, FS_Difference, Zenon
  <2> QED
    BY <1>3, <2>1, <2>2, Zenon
<1>9. total_pages' - used_pages' = Cardinality(Clear')
  <2>1. total_pages = Cardinality(usable)
    BY Zenon DEF IInv
  <2> QED
    BY <1>1, <1>2, <1>6, <1>8, <2>1
<1>10. BitmapExact'
  BY Zenon, <1>1, <1>2, <1>4, <1>7, <1>9 DEF BitmapExact, Page
<1>11. FailsOnlyWhenNoRun'
  BY <1>1 DEF FailsOnlyWhenNoRun
<1> QED
  BY Zenon, <1>1, <1>10, <1>11, SoundStays DEF IInv, Page

\* Pages are given back: of those that are not clear already, all are held.
LEMMA GiveBackInv ==
  ASSUME IInv, NEW pages, pages \cap Page \subseteq held \cup Clear,
         GiveBack(pages \cap Page), held' = held \ pages, failed' = 0,
         UNCHANGED <<total_pages, usable, boot>>
  PROVE  IInv'
<1> DEFINE back == pages \cap held
<1>2. /\ usable \subseteq Page /\ held \subseteq usable /\ bitmap = (Page \ usable) \cup held
      /\ used_pages = Cardinality(held) /\ total_pages - used_pages = Cardinality(Clear)
  BY Zenon DEF IInv, BitmapExact
<1>3. Clear = usable \ held /\ (pages \cap Page) \cap bitmap = back
  BY Zenon, <1>2 DEF Clear
<1>4. bitmap' = bitmap \ back /\ used_pages' = used_pages - Cardinality(back)
  BY Zenon, <1>2, <1>3 DEF GiveBack
<1>5. held' = held \ back /\ held \cap back = back /\ Clear' = Clear \cup back /\ Clear \cap back = {}
  BY Zenon, <1>2, <1>3, <1>4 DEF Clear, Page
<1>6. IsFiniteSet(held) /\ IsFiniteSet(back) /\ IsFiniteSet(Clear)
  BY Zenon, <1>2, <1>3, PageFinite, FS_Subset
<1>7. /\ Cardinality(held) \in Nat /\ Cardinality(back) \in Nat /\ Cardinality(Clear) \in Nat
      /\ Cardinality(usable) \in Nat
  BY Zenon, <1>2, <1>6, PageFinite, FS_Subset, FS_CardinalityType
<1>8. used_pages' = Cardinality(held')
  <2>1. Cardinality(held \ back) = Cardinality(held) - Cardinality(held \cap back)
    BY <1>6, FS_Difference, Zenon
  <2> HIDE DEF back
  <2> QED
    BY Zenon, <1>2, <1>4, <1>5, <2>1
<1>9. Cardinality(Clear') = Cardinality(Clear) + Cardinality(back)
  BY <1>5, <1>6, <1>7, FS_Union, FS_EmptySet
<1>10. total_pages' - used_pages' = Cardinality(Clear')
  <2>1. total_pages = Cardinality(usable)
    BY Zenon DEF IInv
  <2> QED
    BY <1>2, <1>4, <1>7, <1>9, <2>1
<1>11. BitmapExact'
  BY Zenon, <1>2, <1>4, <1>5, <1>8, <1>10 DEF BitmapExact, Page
<1>12. FailsOnlyWhenNoRun'
  BY DEF FailsOnlyWhenNoRun
<1> QED
  BY Zenon, <1>11, <1>12, SoundStays DEF IInv, Page

\* A call returns 0: nothing changes, and the search has been exhaustive.
LEMMA ReturnZeroInv ==
  ASSUME IInv, NEW n \in 0..PAGES, ReturnZero(n), n # 0 => Starts(n) = {}
  PROVE  IInv'
<1>1. failed' = n /\ UNCHANGED <<bitmap, total_pages, used_pages, usable, boot, held>>
  BY Zenon DEF ReturnZero
<1>2. BitmapExact'
  BY Zenon, <1>1 DEF IInv, BitmapExact, Clear, Page
<1>3. ASSUME n > 0, NEW start \in Page, \A k \in 0 .. n - 1 : start + k \in Clear PROVE FALSE
  <2>1. start \in Nat /\ n \in Nat /\ PAGES \in Nat
    BY <1>3, Sizes DEF Page
  <2>2. start + (n - 1) \in Page
    BY <1>3, <2>1 DEF Clear
  <2>3. start \in 0 .. PAGES - n
    BY <2>1, <2>2 DEF Page
  <2>4. \A x \in Run(start, n) : x - start \in 0 .. n - 1 /\ start + (x - start) = x
    BY <2>1 DEF Run
  <2>5. Run(start, n) \cap bitmap = {}
    BY Zenon, <1>3, <2>4 DEF Clear
  <2> QED
    BY <1>3, <2>1, <2>3, <2>5 DEF Starts
<1>4. FailsOnlyWhenNoRun'
  BY Zenon, <1>1, <1>3 DEF FailsOnlyWhenNoRun, Clear, Page
<1> QED
  BY Zenon, <1>1, <1>2, <1>4, SoundStays DEF IInv, Page

LEMMA NextInv == IInv /\ [Next]_vars => IInv'
<1> SUFFICES ASSUME IInv, [Next]_vars PROVE IInv'
  BY Zenon
<1>1. CASE pmm_alloc_page
  <2>1. CASE \E page \in Clear : Take({page})
    <3>1. PICK page \in Clear : Take({page})
      BY Zenon, <2>1
    <3> QED
      BY Zenon, <3>1, TakeInv
  <2>2. CASE Clear = {} /\ ReturnZero(1)
    <3>1. Starts(1) = {}
      <4> SUFFICES ASSUME NEW start \in Starts(1) PROVE FALSE
        BY Zenon
      <4>1. start \in Page
        BY Zenon, Sizes DEF Starts, Page
      <4>2. start \in Run(start, 1)
        BY <4>1 DEF Run, Page
      <4> QED
        BY Zenon, <2>2, <4>1, <4>2 DEF Starts, Clear
    <3> QED
      BY <2>2, <3>1, ReturnZeroInv, Sizes
  <2> QED
    BY Zenon, <1>1, <2>1, <2>2 DEF pmm_alloc_page
<1>2. ASSUME NEW n \in Counts, pmm_alloc_pages(n) PROVE IInv'
  <2>1. n \in 0..PAGES /\ PAGES \in Nat
    BY Zenon, Sizes
  <2>2. CASE n # 0 /\ \E start \in Starts(n) : Take(Run(start, n))
    <3>1. PICK start \in Starts(n) : Take(Run(start, n))
      BY Zenon, <2>2
    <3>2. Run(start, n) \subseteq Page
      BY <2>1, <2>2 DEF Starts, Run, Page
    <3>3. Run(start, n) \subseteq Clear
      BY Zenon, <3>2 DEF Starts, Clear
    <3> QED
      BY Zenon, <3>1, <3>3, TakeInv
  <2>3. CASE ReturnZero(n) /\ (n # 0 => Starts(n) = {})
    BY Zenon, <2>1, <2>3, ReturnZeroInv
  <2> QED
    BY Zenon, <1>2, <2>2, <2>3 DEF pmm_alloc_pages
<1>3. ASSUME NEW page \in Page, pmm_free_page(page) PROVE IInv'
  <2>1. {page} \cap Page = {page}
    BY Zenon
  <2> QED
    BY Zenon, <1>3, <2>1, GiveBackInv DEF pmm_free_page, Returnable
<1>4. ASSUME NEW start \in Page, NEW n \in Counts, pmm_free_pages(start, n) PROVE IInv'
  BY Zenon, <1>4, GiveBackInv DEF pmm_free_pages, Returnable
<1>5. CASE UNCHANGED vars
  BY Zenon, <1>5, SoundStays DEF vars, IInv, BitmapExact, FailsOnlyWhenNoRun, Clear, Page
<1> QED
  BY Zenon, <1>1, <1>2, <1>3, <1>4, <1>5 DEF Next

LEMMA Invariant == Spec => []IInv
  BY InitInv, NextInv, PTL DEF Spec

(* No page is ever handed out twice or lost, and the counters never wrap:  *)
(* the bitmap and used_pages say exactly which pages callers hold.         *)
THEOREM BitmapTrue == Spec => []BitmapExact
<1>1. IInv => BitmapExact
  BY Zenon DEF IInv
<1> QED
  BY Invariant, <1>1, PTL

(* For any alignment of the map's entries, callers get whole pages of RAM  *)
(* past 1MB and past the kernel, and nothing else.                         *)
THEOREM HandsOutRam == Spec => []OnlyUsableRam
<1>1. IInv => OnlyUsableRam
  BY Zenon DEF IInv, BitmapExact, OnlyUsableRam, Sound
<1> QED
  BY Invariant, <1>1, PTL

(* The two searches of the bitmap are exhaustive: a call returns 0 only if *)
(* there is no run of free pages as long as the one asked for.             *)
THEOREM SearchesAll == Spec => []FailsOnlyWhenNoRun
<1>1. IInv => FailsOnlyWhenNoRun
  BY Zenon DEF IInv
<1> QED
  BY Invariant, <1>1, PTL
-----------------------------------------------------------------------------
(* The ready queue *)

LEMMA Induct ==
  ASSUME NEW S, 0 \in S, \A n \in Nat : n \in S => n + 1 \in S
  PROVE  Nat \subseteq S
<1> DEFINE T == Nat \ S
           R == {nn \in Nat \X Nat : nn[1] < nn[2]}
<1> SUFFICES ASSUME T # {} PROVE FALSE
  BY Zenon
<1>1. IsWellFoundedOn(R, Nat)
  BY Zenon, NatLessThanWellFounded DEF OpToRel
<1> HIDE DEF R
<1>2. PICK b \in T : \A c \in T : ~ (<<c, b>> \in R)
  BY Zenon, <1>1, WFMin
<1>3. b # 0 /\ b - 1 \in Nat /\ <<b - 1, b>> \in R
  BY DEF R
<1>4. b - 1 \in S
  BY Zenon, <1>2, <1>3
<1> QED
  BY <1>3, <1>4

\* ReadyQueue!Represents, of a queue q of elements of P, its ends and its links.
Chain(P, nul, q, head, tail, nx) ==
  /\ nul \notin P /\ q \in Seq(P) /\ nx \in [P -> P \cup {nul}]
  /\ \A i, j \in 1..Len(q) : q[i] = q[j] => i = j
  /\ Len(q) = 0 => head = nul /\ tail = nul
  /\ Len(q) # 0 => head = q[1] /\ tail = q[Len(q)]
  /\ \A i \in 1..Len(q) - 1 : nx[q[i]] = q[i + 1]
  /\ \A p \in P : (\A i \in 1..Len(q) : q[i] # p) \/ p = tail => nx[p] = nul

Ends(P, nul, q, head, tail, nx) ==
  /\ Len(q) \in Nat /\ \A i \in 1..Len(q) : q[i] \in P /\ q[i] # nul
  /\ head # nul <=> Len(q) # 0
  /\ tail # nul <=> Len(q) # 0
  /\ Len(q) # 0 => /\ head \in P /\ tail \in P /\ nx[tail] = nul
                   /\ 1 \in 1..Len(q) /\ Len(q) \in 1..Len(q)

LEMMA ChainEnds ==
  ASSUME NEW P, NEW nul, NEW q, NEW head, NEW tail, NEW nx, Chain(P, nul, q, head, tail, nx)
  PROVE  Ends(P, nul, q, head, tail, nx)
<1>1. Len(q) \in Nat /\ \A i \in 1..Len(q) : q[i] \in P /\ q[i] # nul
  BY DEF Chain
<1>2. Len(q) # 0 => 1 \in 1..Len(q) /\ Len(q) \in 1..Len(q)
  BY <1>1
<1> QED
  BY Zenon, <1>1, <1>2 DEF Chain, Ends

Added(P, nul, q, head, tail, nx, p) ==
  Chain(P, nul, Append(q, p), IF tail = nul THEN p ELSE head, p,
        [x \in P |-> IF x = tail THEN p ELSE IF x = p THEN nul ELSE nx[x]])

LEMMA ChainAdd ==
  ASSUME NEW P, NEW nul, NEW q, NEW head, NEW tail, NEW nx, Chain(P, nul, q, head, tail, nx),
         NEW p \in P, \A i \in 1..Len(q) : q[i] # p
  PROVE  Added(P, nul, q, head, tail, nx, p)
<1> DEFINE n == Len(q)
           q2 == Append(q, p)
           nx2 == [x \in P |-> IF x = tail THEN p ELSE IF x = p THEN nul ELSE nx[x]]
           head2 == IF tail = nul THEN p ELSE head
<1>1. /\ nul \notin P /\ q \in Seq(P) /\ nx \in [P -> P \cup {nul}] /\ n \in Nat
      /\ \A i \in 1..n : q[i] \in P /\ q[i] # nul
      /\ n # 0 => tail = q[n] /\ n \in 1..n
      /\ n = 0 => tail = nul
  BY ChainEnds DEF Chain, Ends
<1>2. /\ q2 \in Seq(P) /\ Len(q2) = n + 1 /\ q2[n + 1] = p /\ \A i \in 1..n : q2[i] = q[i]
  BY <1>1
<1>3. nx2 \in [P -> P \cup {nul}]
  BY Zenon, <1>1
<1>4. \A x \in P : nx2[x] = IF x = tail THEN p ELSE IF x = p THEN nul ELSE nx[x]
  BY Zenon
<1> HIDE DEF q2, nx2, n
<1>0. (\A i, j \in 1..n : q[i] = q[j] => i = j) /\ \A i \in 1..n : q[i] # p
  BY Zenon DEF Chain, n
<1>5. \A i \in 1..n + 1 : i \in 1..n \/ i = n + 1
  BY <1>1
<1>6. ASSUME NEW i \in 1..n + 1, NEW j \in 1..n + 1, q2[i] = q2[j] PROVE i = j
  BY Zenon, <1>0, <1>2, <1>5, <1>6
<1>7. head2 = q2[1] /\ p = q2[n + 1]
  <2>1. CASE n = 0
    <3>1. n + 1 = 1 /\ tail = nul
      BY <1>1, <2>1
    <3> QED
      BY Zenon, <1>2, <3>1
  <2>2. CASE n # 0
    <3>1. 1 \in 1..n /\ tail # nul /\ head = q[1]
      BY <1>1, <2>2 DEF Chain, n
    <3> QED
      BY Zenon, <1>2, <3>1
  <2> QED
    BY Zenon, <2>1, <2>2
<1>8. ASSUME NEW i \in 1..n PROVE nx2[q2[i]] = q2[i + 1]
  <2>1. q2[i] = q[i] /\ q[i] \in P /\ q[i] # p
    BY Zenon, <1>1, <1>2 DEF n
  <2>2. CASE i = n
    <3>1. q[i] = tail
      BY <1>1, <2>2
    <3> QED
      BY Zenon, <1>2, <1>4, <2>1, <2>2, <3>1
  <2>3. CASE i # n
    <3>1. i \in 1..n - 1 /\ i + 1 \in 1..n /\ n # 0 /\ n \in 1..n
      BY <1>1, <2>3
    <3>2. q[i] # tail
      BY Zenon, <1>0, <1>1, <2>3, <3>1
    <3>3. nx[q[i]] = q[i + 1]
      BY Zenon, <3>1 DEF Chain, n
    <3> QED
      BY Zenon, <1>2, <1>4, <2>1, <3>1, <3>2, <3>3
  <2> QED
    BY Zenon, <2>2, <2>3
<1>9. ASSUME NEW x \in P, (\A i \in 1..n + 1 : q2[i] # x) \/ x = p PROVE nx2[x] = nul
  <2>1. x # tail
    <3>1. n # 0 => n \in 1..n + 1
      BY <1>1
    <3> QED
      BY Zenon, <1>1, <1>2, <1>9, <3>1 DEF n
  <2>2. CASE x = p
    BY Zenon, <1>4, <2>1, <2>2
  <2>3. CASE x # p
    <3>1. \A i \in 1..n : q[i] # x
      <4>1. \A i \in 1..n : i \in 1..n + 1
        BY <1>1
      <4> QED
        BY Zenon, <1>2, <1>9, <2>3, <4>1
    <3>2. nx[x] = nul
      BY Zenon, <3>1 DEF Chain, n
    <3> QED
      BY Zenon, <1>4, <2>1, <2>3, <3>2
  <2> QED
    BY Zenon, <2>2, <2>3
<1>10. Len(q2) # 0 /\ Len(q2) - 1 = n
  BY <1>1, <1>2
<1> HIDE DEF head2
<1> QED
  BY ZenonT(30), <1>1, <1>2, <1>3, <1>6, <1>7, <1>8, <1>9, <1>10 DEF Added, Chain, q2, nx2, head2

LEMMA ChainUnlink ==
  ASSUME NEW P, NEW nul, NEW q, NEW head, NEW tail, NEW nx, Chain(P, nul, q, head, tail, nx),
         Len(q) # 0,
         NEW q2 \in Seq(P), Len(q2) = Len(q) - 1, \A k \in 1..Len(q) - 1 : q2[k] = q[k + 1]
  PROVE  Chain(P, nul, q2, nx[head], IF nx[head] = nul THEN nul ELSE tail,
               [nx EXCEPT ![head] = nul])
<1> DEFINE n == Len(q)
           m == Len(q2)
           nx2 == [nx EXCEPT ![head] = nul]
           tail2 == IF nx[head] = nul THEN nul ELSE tail
<1>1. /\ nul \notin P /\ nx \in [P -> P \cup {nul}] /\ n \in Nat
      /\ \A i \in 1..n : q[i] \in P /\ q[i] # nul
      /\ tail = q[n] /\ n \in 1..n /\ head = q[1] /\ 1 \in 1..n /\ head \in P /\ nx[tail] = nul
      /\ n # 0 /\ m = n - 1
  BY ChainEnds DEF Chain, Ends
<1>2. /\ \A i, j \in 1..n : q[i] = q[j] => i = j
      /\ \A i \in 1..n - 1 : nx[q[i]] = q[i + 1] /\ q2[i] = q[i + 1]
  BY Zenon DEF Chain, n
<1>3. nx2 \in [P -> P \cup {nul}] /\ \A x \in P : nx2[x] = IF x = head THEN nul ELSE nx[x]
  BY Zenon, <1>1
<1> HIDE DEF n, m, nx2
<1>4. ASSUME NEW i \in 1..m, NEW j \in 1..m, q2[i] = q2[j] PROVE i = j
  <2>1. /\ i \in 1..n - 1 /\ j \in 1..n - 1 /\ i + 1 \in 1..n /\ j + 1 \in 1..n
        /\ (i + 1 = j + 1 => i = j)
    BY <1>1
  <2> QED
    BY Zenon, <1>2, <1>4, <2>1
<1>5. CASE n = 1
  <2>1. m = 0 /\ nx[head] = nul /\ head = tail
    BY <1>1, <1>5
  <2>2. \A i \in 1..m - 1 : FALSE
    BY <2>1
  <2>3. tail2 = nul
    BY Zenon, <2>1
  <2>4. ASSUME NEW x \in P PROVE nx2[x] = nul
    <3>1. \A i \in 1..n : i = 1
      BY <1>5
    <3>2. x # head => \A i \in 1..Len(q) : q[i] # x
      BY Zenon, <1>1, <3>1 DEF n
    <3> QED
      BY Zenon, <1>3, <3>2 DEF Chain
  <2> HIDE DEF tail2
  <2> QED
    BY Zenon, <1>1, <1>3, <1>4, <2>1, <2>2, <2>3, <2>4 DEF Chain, m, nx2, tail2
<1>6. CASE n # 1
  <2>1. 1 \in 1..n - 1 /\ 1 + 1 \in 1..n /\ m \in 1..n - 1 /\ m + 1 = n /\ m # 0 /\ 1 # 1 + 1
    BY <1>1, <1>6
  <2>2. nx[head] = q2[1] /\ nx[head] # nul
    BY Zenon, <1>1, <1>2, <2>1
  <2>3. tail2 = tail /\ tail = q2[m]
    BY Zenon, <1>1, <1>2, <2>1, <2>2
  <2> HIDE DEF tail2
  <2>4. ASSUME NEW i \in 1..m - 1 PROVE nx2[q2[i]] = q2[i + 1]
    <3>1. i \in 1..n - 1 /\ i + 1 \in 1..n - 1 /\ i + 1 \in 1..n /\ i + 1 # 1
      BY <1>1
    <3>2. q2[i] = q[i + 1] /\ q[i + 1] # head /\ q[i + 1] \in P
      BY Zenon, <1>1, <1>2, <3>1
    <3>3. nx[q[i + 1]] = q[(i + 1) + 1] /\ q2[i + 1] = q[(i + 1) + 1]
      BY Zenon, <1>2, <3>1
    <3> QED
      BY Zenon, <1>3, <3>2, <3>3
  <2>5. ASSUME NEW x \in P, (\A i \in 1..m : q2[i] # x) \/ x = tail2 PROVE nx2[x] = nul
    <3>1. CASE x = tail
      BY Zenon, <1>1, <1>3, <3>1
    <3>2. CASE x # tail /\ x # head
      <4>1. ASSUME NEW i \in 1..n PROVE q[i] # x
        <5>1. i = 1 \/ (i - 1 \in 1..m /\ i - 1 \in 1..n - 1 /\ (i - 1) + 1 = i)
          BY <1>1
        <5>2. \A k \in 1..m : q2[k] # x
          BY Zenon, <2>3, <2>5, <3>2
        <5>3. CASE i = 1
          BY Zenon, <1>1, <3>2, <5>3
        <5>4. CASE i # 1
          <6>1. q2[i - 1] = q[(i - 1) + 1] /\ q2[i - 1] # x
            BY Zenon, <1>2, <5>1, <5>2, <5>4
          <6> QED
            BY Zenon, <5>1, <5>4, <6>1
        <5> QED
          BY Zenon, <5>3, <5>4
      <4>2. nx[x] = nul
        BY Zenon, <4>1 DEF Chain, n
      <4> QED
        BY Zenon, <1>3, <3>2, <4>2
    <3>3. CASE x = head
      BY Zenon, <1>3, <3>3
    <3> QED
      BY Zenon, <3>1, <3>2, <3>3
  <2> QED
    BY Zenon, <1>1, <1>3, <1>4, <2>1, <2>2, <2>3, <2>4, <2>5 DEF Chain, m, nx2, tail2
<1> QED
  BY Zenon, <1>5, <1>6

Passed(P, nul, q, q2, head, tail, nx, e) ==
  Chain(P, nul, q2, head, IF tail = q[e + 1] THEN q[e] ELSE tail,
        [nx EXCEPT ![q[e]] = nx[q[e + 1]], ![q[e + 1]] = nul])

LEMMA ChainInner ==
  ASSUME NEW P, NEW nul, NEW q, NEW head, NEW tail, NEW nx, Chain(P, nul, q, head, tail, nx),
         NEW e \in 1..Len(q) - 1, NEW q2 \in Seq(P), Len(q2) = Len(q) - 1,
         \A k \in 1..Len(q) - 1 : q2[k] = IF k <= e THEN q[k] ELSE q[k + 1]
  PROVE  Passed(P, nul, q, q2, head, tail, nx, e)
<1> DEFINE n == Len(q)
           m == Len(q2)
           prev == q[e]
           proc == q[e + 1]
           nx2 == [nx EXCEPT ![prev] = nx[proc], ![proc] = nul]
           tail2 == IF tail = proc THEN prev ELSE tail
<1>1. /\ nul \notin P /\ nx \in [P -> P \cup {nul}] /\ n \in Nat
      /\ \A i \in 1..n : q[i] \in P /\ q[i] # nul
      /\ (n # 0 => tail = q[n] /\ n \in 1..n /\ head = q[1] /\ 1 \in 1..n /\ nx[tail] = nul)
      /\ m = n - 1
  BY ChainEnds DEF Chain, Ends
<1>2. /\ \A i, j \in 1..n : q[i] = q[j] => i = j
      /\ \A i \in 1..n - 1 : nx[q[i]] = q[i + 1]
      /\ \A i \in 1..n - 1 : q2[i] = IF i <= e THEN q[i] ELSE q[i + 1]
      /\ e \in 1..n - 1
  BY Zenon DEF Chain, n
<1> HIDE DEF n, m
<1>3. /\ n # 0 /\ e \in 1..n /\ e + 1 \in 1..n /\ e # e + 1 /\ e \in Nat
      /\ m # 0 /\ m \in Nat /\ m + 1 = n
  BY <1>1, <1>2
<1>4. prev \in P /\ proc \in P /\ prev # proc /\ nx[prev] = proc
  BY Zenon, <1>1, <1>2, <1>3
<1> HIDE DEF prev, proc
<1>5. /\ nx2 \in [P -> P \cup {nul}]
      /\ \A x \in P : nx2[x] = IF x = proc THEN nul ELSE IF x = prev THEN nx[proc] ELSE nx[x]
  BY Zenon, <1>1, <1>4
<1> HIDE DEF nx2
<1>6. ASSUME NEW i \in 1..m
      PROVE  /\ i \in 1..n - 1 /\ i \in 1..n /\ i + 1 \in 1..n /\ i \in Nat
             /\ (i <= e => q2[i] = q[i] /\ i # e + 1)
             /\ (~ (i <= e) => q2[i] = q[i + 1] /\ i + 1 # e + 1 /\ i + 1 # e)
             /\ q2[i] \in P /\ q2[i] # proc
  <2>1. i \in 1..n - 1 /\ i \in 1..n /\ i + 1 \in 1..n /\ i \in Nat
    BY <1>1
  <2>2. (i <= e => i # e + 1) /\ (~ (i <= e) => i + 1 # e + 1 /\ i + 1 # e)
    BY <1>3, <2>1
  <2>3. (i <= e => q2[i] = q[i]) /\ (~ (i <= e) => q2[i] = q[i + 1])
    BY Zenon, <1>2, <2>1
  <2>4. q2[i] # proc
    BY Zenon, <1>2, <1>3, <2>1, <2>2, <2>3 DEF proc
  <2> QED
    BY Zenon, <1>1, <2>1, <2>2, <2>3, <2>4
<1>7. ASSUME NEW i \in 1..m, NEW j \in 1..m, q2[i] = q2[j] PROVE i = j
  <2> DEFINE a(k) == IF k <= e THEN k ELSE k + 1
  <2>1. q2[i] = q[a(i)] /\ q2[j] = q[a(j)] /\ a(i) \in 1..n /\ a(j) \in 1..n
    BY Zenon, <1>6
  <2>2. a(i) = a(j)
    <3> HIDE DEF a
    <3> QED
      BY Zenon, <1>2, <1>7, <2>1
  <2>3. i \in Nat /\ j \in Nat /\ e \in Nat
    BY Zenon, <1>3, <1>6
  <2> QED
    BY <2>2, <2>3
<1>8. head = q2[1] /\ tail2 = q2[m]
  <2>1. 1 \in 1..m /\ 1 <= e /\ m \in 1..m /\ (m <= e => e = m)
    BY <1>1, <1>2, <1>3
  <2>2. head = q2[1]
    BY Zenon, <1>1, <1>3, <1>6, <2>1
  <2>3. CASE m <= e
    <3>1. tail = proc /\ q2[m] = prev
      BY Zenon, <1>1, <1>3, <1>6, <2>1, <2>3 DEF proc, prev
    <3> QED
      BY Zenon, <2>2, <3>1
  <2>4. CASE ~ (m <= e)
    <3>1. q2[m] = tail /\ tail # proc
      <4>1. q2[m] = q[m + 1] /\ q2[m] # proc
        BY Zenon, <1>6, <2>1, <2>4
      <4> QED
        BY Zenon, <1>1, <1>3, <4>1
    <3> QED
      BY Zenon, <2>2, <3>1
  <2> QED
    BY Zenon, <2>3, <2>4
<1> HIDE DEF tail2
<1>9. ASSUME NEW i \in 1..m - 1 PROVE nx2[q2[i]] = q2[i + 1]
  <2>1. i \in 1..m /\ i + 1 \in 1..m /\ i \in 1..n - 1 /\ i + 1 \in 1..n - 1 /\ i + 1 \in 1..n
    BY SMTT(20), <1>1, <1>3
  <2>2. CASE ~ (i <= e)
    <3>1. ~ (i + 1 <= e)
      BY <1>3, <2>2
    <3>2. q2[i] = q[i + 1] /\ q[i + 1] # proc /\ q[i + 1] # prev /\ q[i + 1] \in P
      BY Zenon, <1>2, <1>3, <1>6, <2>1, <2>2 DEF proc, prev
    <3>3. nx[q[i + 1]] = q[(i + 1) + 1] /\ q2[i + 1] = q[(i + 1) + 1]
      BY Zenon, <1>2, <1>6, <2>1, <3>1
    <3> QED
      BY Zenon, <1>5, <3>2, <3>3
  <2>3. CASE i = e
    <3>1. i <= e /\ ~ (i + 1 <= e)
      BY <1>3, <2>3
    <3>2. q2[i] = prev /\ q2[i + 1] = q[(i + 1) + 1] /\ nx[proc] = q[(i + 1) + 1]
      BY Zenon, <1>2, <1>6, <2>1, <2>3, <3>1 DEF prev, proc
    <3> QED
      BY Zenon, <1>4, <1>5, <3>2
  <2>4. CASE i <= e /\ i # e
    <3>1. i + 1 <= e
      BY <1>3, <2>4
    <3>2. q2[i] = q[i] /\ q2[i + 1] = q[i + 1] /\ nx[q[i]] = q[i + 1]
      BY Zenon, <1>2, <1>6, <2>1, <2>4, <3>1
    <3>3. q[i] # prev /\ q2[i] # proc /\ q2[i] \in P
      BY Zenon, <1>2, <1>3, <1>6, <2>1, <2>4 DEF prev
    <3> QED
      BY Zenon, <1>5, <3>2, <3>3
  <2> QED
    BY Zenon, <2>2, <2>3, <2>4
<1>10. ASSUME NEW x \in P, (\A i \in 1..m : q2[i] # x) \/ x = tail2 PROVE nx2[x] = nul
  <2>1. CASE x = proc
    BY Zenon, <1>5, <2>1
  <2>2. CASE x = prev
    <3>1. prev = q2[e] /\ e \in 1..m
      <4>1. e \in 1..m /\ e <= e
        BY <1>1, <1>3
      <4> QED
        BY Zenon, <1>6, <4>1 DEF prev
    <3>2. x = tail2
      BY Zenon, <1>10, <2>2, <3>1
    <3>3. tail = proc
      <4>1. CASE tail = prev
        <5>1. nx[prev] = nul
          BY Zenon, <1>1, <1>3, <4>1
        <5> QED
          BY Zenon, <1>1, <1>4, <5>1
      <4> QED
        BY Zenon, <2>2, <3>2, <4>1 DEF tail2
    <3> QED
      BY Zenon, <1>1, <1>3, <1>4, <1>5, <2>2, <3>3
  <2>3. CASE x # proc /\ x # prev
    <3>1. CASE x = tail
      BY Zenon, <1>1, <1>3, <1>5, <2>3, <3>1
    <3>2. CASE x # tail
      <4>1. x # tail2
        BY Zenon, <2>3, <3>2 DEF tail2
      <4>2. ASSUME NEW i \in 1..n PROVE q[i] # x
        <5>1. CASE i <= e
          <6>1. i \in 1..m
            BY <1>3, <5>1, <1>2
          <6> QED
            BY Zenon, <1>6, <1>10, <4>1, <5>1, <6>1
        <5>2. CASE i = e + 1
          BY Zenon, <2>3, <5>2 DEF proc
        <5>3. CASE ~ (i <= e) /\ i # e + 1
          <6>1. i - 1 \in 1..m /\ ~ (i - 1 <= e) /\ (i - 1) + 1 = i
            BY <1>3, <5>3
          <6> QED
            BY Zenon, <1>6, <1>10, <4>1, <6>1
        <5> QED
          BY Zenon, <5>1, <5>2, <5>3
      <4>3. nx[x] = nul
        BY Zenon, <4>2 DEF Chain, n
      <4> QED
        BY Zenon, <1>5, <2>3, <4>3
    <3> QED
      BY Zenon, <3>1, <3>2
  <2> QED
    BY Zenon, <2>1, <2>2, <2>3
<1> QED
  BY Zenon, <1>1, <1>3, <1>5, <1>7, <1>8, <1>9, <1>10 DEF Passed, Chain, m, nx2, tail2, prev, proc

Walk(P, nul, nx, head, p) ==
  LET walk[prev \in P] == IF nx[prev] \in {nul, p} THEN prev ELSE walk[nx[prev]]
  IN walk[head]

StopsAt(P, nul, q, nx, head, p, e) == Walk(P, nul, nx, head, p) = q[e]

\* The loop of scheduler_remove stops before p, or at the end of the list.
LEMMA WalkStops ==
  ASSUME NEW P, NEW nul, NEW q, NEW head, NEW tail, NEW nx, Chain(P, nul, q, head, tail, nx),
         NEW p, NEW e \in 1..Len(q), \A i \in 1..e : q[i] # p,
         e = Len(q) \/ q[e + 1] = p
  PROVE  StopsAt(P, nul, q, nx, head, p, e)
<1> DEFINE n == Len(q)
           Unfolds(w) == w = [prev \in P |-> IF nx[prev] \in {nul, p} THEN prev ELSE w[nx[prev]]]
           walk == CHOOSE w : Unfolds(w)
           pos(x) == CHOOSE i \in 1..n : q[i] = x
           w == [x \in P |-> IF \A i \in 1..n : q[i] # x THEN x
                              ELSE IF pos(x) <= e THEN q[e] ELSE q[n]]
<1>1. /\ nul \notin P /\ nx \in [P -> P \cup {nul}] /\ n \in Nat
      /\ \A i \in 1..n : q[i] \in P /\ q[i] # nul
      /\ (n # 0 => tail = q[n] /\ n \in 1..n /\ head = q[1] /\ 1 \in 1..n /\ nx[tail] = nul)
  BY ChainEnds DEF Chain, Ends
<1>2. /\ \A i, j \in 1..n : q[i] = q[j] => i = j
      /\ \A i \in 1..n - 1 : nx[q[i]] = q[i + 1]
      /\ \A x \in P : (\A i \in 1..n : q[i] # x) => nx[x] = nul
      /\ e \in 1..n /\ (e = n \/ q[e + 1] = p)
  BY Zenon DEF Chain, n
<1> HIDE DEF n
<1>3. e \in Nat /\ n # 0 /\ e <= n
  BY <1>1, <1>2
<1>4. ASSUME NEW i \in 1..n
      PROVE  /\ (i = e => nx[q[i]] \in {nul, p})
             /\ (i = n => nx[q[i]] \in {nul, p})
             /\ (i # e /\ i # n => i + 1 \in 1..n /\ nx[q[i]] = q[i + 1] /\ nx[q[i]] \notin {nul, p})
  <2>1. i = n \/ (i \in 1..n - 1 /\ i + 1 \in 1..n)
    BY <1>1
  <2>2. i = n => nx[q[i]] = nul
    BY Zenon, <1>1, <1>3
  <2>3. i = e /\ i # n => nx[q[i]] = p
    BY Zenon, <1>2, <2>1
  <2>4. ASSUME i # e, i # n PROVE nx[q[i]] = q[i + 1] /\ q[i + 1] # p /\ q[i + 1] # nul
    <3>1. nx[q[i]] = q[i + 1] /\ q[i + 1] # nul
      BY Zenon, <1>1, <1>2, <2>1, <2>4
    <3>2. q[i + 1] # p
      <4>1. CASE i + 1 <= e
        <5>1. i + 1 \in 1..e
          BY <1>3, <4>1
        <5> QED
          BY Zenon, <5>1
      <4>2. CASE ~ (i + 1 <= e)
        <5>1. e # n /\ e + 1 \in 1..n /\ i + 1 # e + 1 /\ i + 1 \in 1..n
          BY <1>1, <1>3, <2>1, <2>4, <4>2
        <5> QED
          BY Zenon, <1>2, <5>1
      <4> QED
        BY Zenon, <4>1, <4>2
    <3> QED
      BY Zenon, <3>1, <3>2
  <2> QED
    BY Zenon, <2>1, <2>2, <2>3, <2>4
<1>5. ASSUME NEW i \in 1..n
      PROVE  pos(q[i]) = i /\ w[q[i]] = IF i <= e THEN q[e] ELSE q[n]
  <2>1. pos(q[i]) = i
    BY Zenon, <1>2
  <2>2. ~ (\A j \in 1..n : q[j] # q[i])
    BY Zenon
  <2> HIDE DEF pos
  <2> QED
    BY Zenon, <1>1, <2>1, <2>2
<1>6. ASSUME NEW x \in P, \A i \in 1..n : q[i] # x PROVE w[x] = x
  BY Zenon, <1>6
<1>7. w = [x \in P |-> w[x]]
  BY Zenon
<1> HIDE DEF w, pos
<1>8. Unfolds(w)
  <2>1. ASSUME NEW x \in P
        PROVE  w[x] = IF nx[x] \in {nul, p} THEN x ELSE w[nx[x]]
    <3>1. CASE \A i \in 1..n : q[i] # x
      BY Zenon, <1>2, <1>6, <3>1
    <3>2. ASSUME NEW i \in 1..n, x = q[i] PROVE w[x] = IF nx[x] \in {nul, p} THEN x ELSE w[nx[x]]
      <4>1. CASE i = e
        <5>1. i <= e
          BY <1>3, <4>1
        <5> QED
          BY Zenon, <1>4, <1>5, <3>2, <4>1, <5>1
      <4>2. CASE i # e /\ i = n
        <5>1. ~ (i <= e)
          BY <1>3, <4>2
        <5> QED
          BY Zenon, <1>4, <1>5, <3>2, <4>2, <5>1
      <4>3. CASE i # e /\ i # n
        <5>1. (i <= e) <=> (i + 1 <= e)
          BY <1>3, <4>3
        <5>2. w[q[i + 1]] = w[q[i]]
          BY Zenon, <1>4, <1>5, <4>3, <5>1
        <5> QED
          BY Zenon, <1>4, <3>2, <4>3, <5>2
      <4> QED
        BY Zenon, <4>1, <4>2, <4>3
    <3> QED
      BY Zenon, <3>1, <3>2
  <2> QED
    BY Zenon, <1>7, <2>1
<1>9. Unfolds(walk)
  <2> HIDE DEF Unfolds
  <2> QED
    BY Zenon, <1>8
<1> HIDE DEF walk
<1>10. \A x \in P : walk[x] = IF nx[x] \in {nul, p} THEN x ELSE walk[nx[x]]
  BY Zenon, <1>9
<1> DEFINE S == {j \in Nat : j < e => walk[q[e - j]] = q[e]}
<1>11. 0 \in S
  <2>1. e - 0 = e
    BY <1>3
  <2>2. walk[q[e]] = q[e]
    BY Zenon, <1>1, <1>2, <1>4, <1>10
  <2> QED
    BY Zenon, <2>1, <2>2
<1>12. ASSUME NEW j \in Nat, j \in S PROVE j + 1 \in S
  <2> SUFFICES ASSUME j + 1 < e PROVE walk[q[e - (j + 1)]] = q[e]
    OBVIOUS
  <2>1. walk[q[e - j]] = q[e]
    BY <1>3, <1>12
  <2> DEFINE i == e - (j + 1)
  <2>2. i \in 1..n /\ i # e /\ i # n /\ i + 1 = e - j
    BY <1>1, <1>3
  <2> HIDE DEF i
  <2>3. walk[q[i]] = walk[q[i + 1]]
    <3>1. q[i] \in P /\ nx[q[i]] = q[i + 1] /\ nx[q[i]] \notin {nul, p}
      BY Zenon, <1>1, <1>4, <2>2
    <3>2. walk[q[i]] = walk[nx[q[i]]]
      BY Zenon, <1>10, <3>1
    <3> QED
      BY Zenon, <3>1, <3>2
  <2> QED
    BY Zenon, <2>1, <2>2, <2>3 DEF i
<1> HIDE DEF S
<1>13. Nat \subseteq S
  BY Zenon, <1>11, <1>12, Induct
<1>14. walk[q[1]] = q[e]
  <2>1. e - 1 \in Nat /\ e - 1 < e /\ e - (e - 1) = 1
    BY <1>2
  <2>2. e - 1 \in S
    BY Zenon, <1>13, <2>1
  <2> QED
    BY Zenon, <2>1, <2>2 DEF S
<1> QED
  BY Zenon, <1>1, <1>3, <1>14 DEF walk, Walk, StopsAt

Linked == Chain(Proc, NULL, ready_queue, ready_queue_head, ready_queue_tail, next)

LEMMA LinkedRepresents == Linked => Represents
<1> SUFFICES ASSUME Linked PROVE Represents
  BY Zenon
<1>1. ready_queue \in Seq(Proc) /\ Len(ready_queue) \in Nat
  BY DEF Linked, Chain
<1>2. DOMAIN ready_queue = 1..Len(ready_queue) /\ (ready_queue = <<>> <=> Len(ready_queue) = 0)
  BY <1>1
<1>3. \A i, j \in DOMAIN ready_queue : ready_queue[i] = ready_queue[j] => i = j
  BY Zenon, <1>2 DEF Linked, Chain
<1>4. /\ ready_queue = <<>> => ready_queue_head = NULL /\ ready_queue_tail = NULL
      /\ ready_queue # <<>> => /\ ready_queue_head = ready_queue[1]
                               /\ ready_queue_tail = ready_queue[Len(ready_queue)]
  BY Zenon, <1>2 DEF Linked, Chain
<1>5. \A i \in 1..Len(ready_queue) - 1 : next[ready_queue[i]] = ready_queue[i + 1]
  BY Zenon DEF Linked, Chain
<1>6. ASSUME NEW s \in Proc, s \notin Queued \/ s = ready_queue_tail
      PROVE  next[s] = NULL
  <2>1. s \notin Queued => \A i \in 1..Len(ready_queue) : ready_queue[i] # s
    BY Zenon, <1>2 DEF Queued
  <2> QED
    BY Zenon, <1>6, <2>1 DEF Linked, Chain
<1> QED
  BY Zenon, <1>3, <1>4, <1>5, <1>6 DEF Represents

LEMMA LinkedStart == QueueInit => Linked
<1> SUFFICES ASSUME QueueInit PROVE Linked
  OBVIOUS
<1>1. /\ ready_queue = <<>> /\ ready_queue \in Seq(Proc) /\ Len(ready_queue) = 0
      /\ next \in [Proc -> Proc \cup {NULL}] /\ \A p \in Proc : next[p] = NULL
      /\ ready_queue_head = NULL /\ ready_queue_tail = NULL
  BY DEF QueueInit
<1>2. \A i \in 1..Len(ready_queue) : FALSE
  BY <1>1
<1>3. \A i \in 1..Len(ready_queue) - 1 : FALSE
  BY <1>1
<1> QED
  BY Zenon, <1>1, <1>2, <1>3, ReadyQueueAssumption DEF Linked, Chain

LEMMA WithoutSeq ==
  ASSUME NEW P, NEW q \in Seq(P), NEW i \in 1..Len(q)
  PROVE  /\ Without(q, i) \in Seq(P) /\ Len(Without(q, i)) = Len(q) - 1
         /\ \A k \in 1..Len(q) - 1 : Without(q, i)[k] = IF k < i THEN q[k] ELSE q[k + 1]
<1>1. \A k \in 1..Len(q) - 1 : (IF k < i THEN q[k] ELSE q[k + 1]) \in P
  OBVIOUS
<1>2. Len(q) - 1 \in Nat
  OBVIOUS
<1> QED
  BY <1>1, <1>2 DEF Without

LEMMA LinkedAdd ==
  ASSUME Linked, NEW proc \in Proc, scheduler_add(proc)
  PROVE  Linked'
<1>1. ready_queue \in Seq(Proc) /\ DOMAIN ready_queue = 1..Len(ready_queue)
  BY DEF Linked, Chain
<1>2. \A i \in 1..Len(ready_queue) : ready_queue[i] # proc
  BY Zenon, <1>1 DEF scheduler_add, Queued
<1>3. Added(Proc, NULL, ready_queue, ready_queue_head, ready_queue_tail, next, proc)
  BY Zenon, <1>2, ChainAdd DEF Linked
<1> QED
  BY Zenon, <1>3 DEF Added, Linked, scheduler_add

LEMMA LinkedUnlink ==
  ASSUME Linked, ready_queue_head # NULL, Unlink(ready_queue_head),
         ready_queue' = Tail(ready_queue) \/ ready_queue' = Without(ready_queue, 1)
  PROVE  Linked'
<1>1. ready_queue \in Seq(Proc) /\ Len(ready_queue) # 0 /\ 1 \in 1..Len(ready_queue)
  <2>1. Ends(Proc, NULL, ready_queue, ready_queue_head, ready_queue_tail, next)
    BY Zenon, ChainEnds DEF Linked
  <2> QED
    BY Zenon, <2>1 DEF Linked, Chain, Ends
<1>2. /\ ready_queue' \in Seq(Proc) /\ Len(ready_queue') = Len(ready_queue) - 1
      /\ \A k \in 1..Len(ready_queue) - 1 : ready_queue'[k] = ready_queue[k + 1]
  <2>1. CASE ready_queue' = Tail(ready_queue)
    BY <1>1, <2>1
  <2>2. CASE ready_queue' = Without(ready_queue, 1)
    <3>1. \A k \in 1..Len(ready_queue) - 1 : ~ (k < 1)
      OBVIOUS
    <3> QED
      BY Zenon, <1>1, <2>2, <3>1, WithoutSeq
  <2> QED
    BY Zenon, <2>1, <2>2
<1> QED
  BY Zenon, <1>1, <1>2, ChainUnlink DEF Linked, Unlink

LEMMA LinkedRemove ==
  ASSUME Linked, NEW proc \in Proc, scheduler_remove(proc)
  PROVE  Linked'
<1> DEFINE n == Len(ready_queue)
<1>1. /\ ready_queue \in Seq(Proc) /\ DOMAIN ready_queue = 1..n /\ n \in Nat
      /\ ready_queue_head # NULL /\ n # 0 /\ NULL \notin Proc
      /\ ready_queue_head = ready_queue[1] /\ 1 \in 1..n
      /\ ready_queue_tail = ready_queue[n] /\ n \in 1..n /\ next[ready_queue_tail] = NULL
  <2>1. ready_queue \in Seq(Proc)
    BY Zenon DEF Linked, Chain
  <2>2. DOMAIN ready_queue = 1..n
    BY <2>1
  <2>3. Ends(Proc, NULL, ready_queue, ready_queue_head, ready_queue_tail, next)
    BY Zenon, ChainEnds DEF Linked
  <2>4. ready_queue_head # NULL
    BY Zenon DEF scheduler_remove
  <2> QED
    BY Zenon, <2>1, <2>2, <2>3, <2>4 DEF Linked, Chain, Ends
<1>2. /\ \A i, j \in 1..n : ready_queue[i] = ready_queue[j] => i = j
      /\ \A i \in 1..n - 1 : next[ready_queue[i]] = ready_queue[i + 1]
  BY Zenon DEF Linked, Chain
<1>3. CASE \A i \in 1..n : ready_queue[i] # proc
  <2>1. proc # ready_queue_head /\ ready_queue' = ready_queue
    BY Zenon, <1>1, <1>3 DEF scheduler_remove
  <2>2. Search(proc) = ready_queue[n]
    <3>1. StopsAt(Proc, NULL, ready_queue, next, ready_queue_head, proc, n)
      BY Zenon, <1>1, <1>3, WalkStops DEF Linked
    <3> QED
      BY Zenon, <3>1 DEF Search, Walk, StopsAt
  <2>3. next[Search(proc)] # proc
    BY Zenon, <1>1, <2>2
  <2>4. UNCHANGED <<ready_queue_head, ready_queue_tail, next>>
    BY Zenon, <2>1, <2>3 DEF scheduler_remove, RemoveInner
  <2> QED
    BY Zenon, <2>1, <2>4 DEF Linked
<1>4. ASSUME NEW m \in 1..n, ready_queue[m] = proc PROVE Linked'
  <2>1. ready_queue' = Without(ready_queue, m)
    BY Zenon, <1>1, <1>2, <1>4 DEF scheduler_remove, Queued
  <2>2. CASE m = 1
    <3>1. proc = ready_queue_head
      BY Zenon, <1>1, <1>4, <2>2
    <3>2. Unlink(ready_queue_head)
      BY Zenon, <3>1 DEF scheduler_remove
    <3> QED
      BY Zenon, <1>1, <2>1, <2>2, <3>2, LinkedUnlink
  <2>3. CASE m # 1
    <3> DEFINE e == m - 1
    <3>1. e \in 1..n - 1 /\ e \in 1..n /\ e + 1 = m /\ \A i \in 1..e : i \in 1..n /\ i # m
      BY <1>1, <2>3
    <3> HIDE DEF e
    <3>2. proc # ready_queue_head
      BY Zenon, <1>1, <1>2, <1>4, <2>3
    <3>3. \A i \in 1..e : ready_queue[i] # proc
      BY Zenon, <1>2, <1>4, <3>1
    <3>4. Search(proc) = ready_queue[e]
      <4>1. ready_queue[e + 1] = proc
        BY Zenon, <1>4, <3>1
      <4>2. StopsAt(Proc, NULL, ready_queue, next, ready_queue_head, proc, e)
        BY Zenon, <3>1, <3>3, <4>1, WalkStops DEF Linked
      <4> QED
        BY Zenon, <4>2 DEF Search, Walk, StopsAt
    <3>5. next[ready_queue[e]] = proc
      BY Zenon, <1>2, <1>4, <3>1
    <3>6. /\ next' = [next EXCEPT ![ready_queue[e]] = next[proc], ![proc] = NULL]
          /\ ready_queue_tail' = IF ready_queue_tail = proc THEN ready_queue[e] ELSE ready_queue_tail
          /\ ready_queue_head' = ready_queue_head
      BY Zenon, <3>2, <3>4, <3>5 DEF scheduler_remove, RemoveInner, TailAfter
    <3>7. /\ ready_queue' \in Seq(Proc) /\ Len(ready_queue') = n - 1
          /\ \A k \in 1..n - 1 :
               ready_queue'[k] = IF k <= e THEN ready_queue[k] ELSE ready_queue[k + 1]
      <4>1. /\ ready_queue' \in Seq(Proc) /\ Len(ready_queue') = n - 1
            /\ \A k \in 1..n - 1 :
                 ready_queue'[k] = IF k < m THEN ready_queue[k] ELSE ready_queue[k + 1]
        BY Zenon, <1>1, <2>1, WithoutSeq
      <4>2. \A k \in 1..n - 1 : k < m <=> k <= e
        BY <1>1, <3>1
      <4> QED
        BY Zenon, <4>1, <4>2
    <3>8. ready_queue[e + 1] = proc
      BY Zenon, <1>4, <3>1
    <3>9. Passed(Proc, NULL, ready_queue, ready_queue', ready_queue_head, ready_queue_tail, next, e)
      BY Zenon, <3>1, <3>7, ChainInner DEF Linked
    <3> QED
      BY Zenon, <3>6, <3>8, <3>9 DEF Linked, Passed
  <2> QED
    BY Zenon, <2>2, <2>3
<1> QED
  BY Zenon, <1>3, <1>4

LEMMA LinkedStep ==
  ASSUME Linked, [QueueNext]_queue_vars
  PROVE  Linked'
<1>1. CASE schedule
  BY Zenon, <1>1, LinkedUnlink DEF schedule
<1>2. CASE UNCHANGED queue_vars
  BY Zenon, <1>2 DEF queue_vars, Linked
<1> QED
  BY Zenon, <1>1, <1>2, LinkedAdd, LinkedRemove DEF QueueNext

(* scheduler_add, schedule and scheduler_remove: whatever they do and in   *)
(* whatever order, the head, the tail and the next pointers are the queue  *)
(* that the scheduler of module Process works with, for any number of      *)
(* processes, and a process outside it has no stale next into it.          *)
THEOREM QueueIsTheSequence == QueueSpec => []Represents
  BY LinkedStart, LinkedStep, LinkedRepresents, PTL DEF QueueSpec
=============================================================================
