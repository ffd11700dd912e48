------------------------------- MODULE Paging -------------------------------
(***************************************************************************)
(* src/paging.c: page directories, page tables and demand paging, with the *)
(* processor's TLB.  Pages and frames are numbers (addresses divided by    *)
(* PAGE_SIZE).  All RAM lies below the identity-mapped window, so that the *)
(* kernel reaches a directory or a table through its physical address.     *)
(***************************************************************************)
EXTENDS Integers, FiniteSets

CONSTANTS ENTRIES,      \* entries of a page table (1024)
          DIRS,         \* entries of a page directory (1024)
          IDENTITY,     \* how many of them map the kernel window (256)
          LAST,         \* the last frame of RAM
          HEAP_PAGES,   \* pages of the heap mapped at boot (256)
          MAX_HEAP,     \* bound on the pages the heap grows to
          MAX_PDS,      \* bound on the number of page directories
          UserPages,    \* the pages programs and user mappings use
          Accesses      \* memory accesses [page, write, user]

\* kernel_page_tables and kernel_pd lie in the kernel's image, RAM above it.
kernel_page_tables == 1 .. IDENTITY
kernel_pd == IDENTITY + 1
RAM == IDENTITY + 2 .. LAST

Dir == 0 .. DIRS - 1
Index == 0 .. ENTRIES - 1
HEAP_DIR == DIRS - 1                \* 0xC0000000 >> 22
HeapPage(k) == HEAP_DIR * ENTRIES + k
Page == 0 .. DIRS * ENTRIES - 1
pd_index(v) == v \div ENTRIES
pt_index(v) == v % ENTRIES

ASSUME PagingAssumption ==
  /\ ENTRIES \in Nat \ {0} /\ DIRS \in Nat /\ IDENTITY \in Nat /\ IDENTITY < DIRS - 1
  /\ LAST \in Nat /\ LAST < IDENTITY * ENTRIES
  /\ HEAP_PAGES \in 1 .. MAX_HEAP /\ MAX_HEAP \in 1 .. ENTRIES
  /\ kernel_pd + HEAP_PAGES + 1 <= LAST
  /\ MAX_PDS \in Nat \ {0}
  /\ UserPages \subseteq IDENTITY * ENTRIES .. HEAP_DIR * ENTRIES - 1
  /\ Accesses \subseteq [page : UserPages, write : BOOLEAN, user : BOOLEAN]

VARIABLES pd,        \* page directory -> index -> entry
          pt,        \* page table -> index -> entry
          free,      \* the frames pmm_alloc_page has left
          current,   \* current_pd_phys and cr3
          tlb,       \* the translations the processor has cached
          access,    \* the memory access each address space is retrying
          heap_size, \* in pages
          panicked

vars == <<pd, pt, free, current, tlb, access, heap_size, panicked>>

\* PAGE_PRESENT, PAGE_WRITE and PAGE_USER, and the address bits.
Entry(addr, flags) ==
  [present |-> TRUE, addr |-> addr, write |-> flags.write, user |-> flags.user]
Zero == [present |-> FALSE, addr |-> 0, write |-> FALSE, user |-> FALSE]
Kernel == [write |-> TRUE, user |-> FALSE]

None == [page |-> 0, write |-> FALSE, user |-> FALSE]

\* pmm_alloc_page: the lowest free frame.
pmm_alloc_page(frames, f) == f \in frames /\ \A g \in frames : f <= g
Without_Kept(frames, f) == frames
Without(frames, f) == frames \ {f}
-----------------------------------------------------------------------------
(* paging_init, and kmain's pmm_alloc_pages and mapping of the heap *)

HeapFrame(k) == kernel_pd + 1 + k
HeapTable == kernel_pd + 1 + HEAP_PAGES

Init ==
  /\ pt = [t \in kernel_page_tables \cup {HeapTable} |->
             [j \in Index |->
                IF t # HeapTable THEN Entry((t - 1) * ENTRIES + j, Kernel)
                ELSE IF j < HEAP_PAGES THEN Entry(HeapFrame(j), Kernel) ELSE Zero]]
  /\ pd = [p \in {kernel_pd} |->
             [i \in Dir |->
                IF i < IDENTITY THEN Entry(i + 1, Kernel)
                ELSE IF i = HEAP_DIR THEN Entry(HeapTable, Kernel) ELSE Zero]]
  /\ free = {f \in RAM : f > HeapTable}
  /\ current = kernel_pd
  /\ tlb = [v \in {} |-> Zero]
  /\ access = [p \in {kernel_pd} |-> None]
  /\ heap_size = HEAP_PAGES
  /\ panicked = FALSE
-----------------------------------------------------------------------------
Walk(p, v) == IF pd[p][pd_index(v)].present
              THEN pt[pd[p][pd_index(v)].addr][pt_index(v)]
              ELSE Zero

\* What the processor finds: an access needs the right of both levels.
Translate(p, v) ==
  [Walk(p, v) EXCEPT !.write = @ /\ pd[p][pd_index(v)].write,
                     !.user = @ /\ pd[p][pd_index(v)].user]

invlpg_Skip(v) == tlb' = tlb
invlpg(v) == tlb' = [w \in DOMAIN tlb \ {v} |-> tlb[w]]

NewTable_Garbage(v, phys, flags) == [j \in Index |-> Entry(phys, flags)]
NewTable(v, phys, flags) ==
  [[j \in Index |-> Zero] EXCEPT ![pt_index(v)] = Entry(phys, flags)]

\* frames: the ones left after the caller took phys.
paging_map_page(v, phys, flags, frames) ==
  LET entry == pd[current][pd_index(v)]
  IN \/ /\ entry.present
        /\ pt' = [pt EXCEPT ![entry.addr][pt_index(v)] = Entry(phys, flags)]
        /\ invlpg(v)
        /\ free' = frames
        /\ UNCHANGED pd
     \/ /\ ~ entry.present
        /\ \E table \in frames :
             /\ pmm_alloc_page(frames, table)
             /\ pt' = [t \in DOMAIN pt \cup {table} |->
                         IF t = table THEN NewTable(v, phys, flags) ELSE pt[t]]
             /\ pd' = [pd EXCEPT ![current][pd_index(v)] =
                                   Entry(table, [write |-> TRUE, user |-> flags.user])]
             /\ free' = Without(frames, table)
        /\ invlpg(v)
     \/ /\ ~ entry.present /\ frames = {}    \* out of memory: return
        /\ free' = frames
        /\ UNCHANGED <<pd, pt, tlb>>

\* No caller in the kernel yet; the frame is not given back.
paging_unmap_page(v) ==
  /\ ~ panicked
  /\ IF pd[current][pd_index(v)].present
     THEN /\ pt' = [pt EXCEPT ![pd[current][pd_index(v)].addr][pt_index(v)] = Zero]
          /\ invlpg(v)
     ELSE UNCHANGED <<pt, tlb>>
  /\ UNCHANGED <<pd, free, current, access, heap_size, panicked>>

\* elf_exec: take a frame and map it for the program.
map_user_page(v, write) ==
  /\ ~ panicked
  /\ \E f \in free : /\ pmm_alloc_page(free, f)
                     /\ paging_map_page(v, f, [write |-> write, user |-> TRUE], Without(free, f))
  /\ UNCHANGED <<current, access, heap_size, panicked>>

\* kmalloc: take a frame and map it at the end of the heap.
expand_heap ==
  /\ ~ panicked /\ heap_size < MAX_HEAP
  /\ \E f \in free : /\ pmm_alloc_page(free, f)
                     /\ paging_map_page(HeapPage(heap_size), f, Kernel, Without(free, f))
  /\ heap_size' = heap_size + 1
  /\ UNCHANGED <<current, access, panicked>>

\* The directory a new address space starts from.
cloned_pd_Current == pd[current]
cloned_pd_Low == [i \in Dir |-> IF i < IDENTITY THEN pd[kernel_pd][i] ELSE Zero]
cloned_pd == pd[kernel_pd]

paging_clone_pd ==
  /\ ~ panicked /\ Cardinality(DOMAIN pd) < MAX_PDS
  /\ \E f \in free : /\ pmm_alloc_page(free, f)
                     /\ pd' = [p \in DOMAIN pd \cup {f} |-> IF p = f THEN cloned_pd ELSE pd[p]]
                     /\ access' = [p \in DOMAIN access \cup {f} |->
                                     IF p = f THEN None ELSE access[p]]
                     /\ free' = Without(free, f)
  /\ UNCHANGED <<pt, current, tlb, heap_size, panicked>>

\* Loading cr3 empties the TLB.
paging_switch(p) ==
  /\ ~ panicked
  /\ current' = p
  /\ tlb' = [v \in {} |-> Zero]
  /\ UNCHANGED <<pd, pt, free, access, heap_size, panicked>>
-----------------------------------------------------------------------------
(* A memory access of the running program or of the kernel on its behalf,  *)
(* retried after every fault until it succeeds.                            *)

Cached(v) == IF v \in DOMAIN tlb THEN tlb[v] ELSE Translate(current, v)

\* CR0.WP is clear: the kernel may write to read-only pages.
Permits(e, a) == e.present /\ (a.user => e.user /\ (a.write => e.write))

Touch(a) ==
  /\ ~ panicked /\ access[current] = None
  /\ access' = [access EXCEPT ![current] = a]
  /\ UNCHANGED <<pd, pt, free, current, tlb, heap_size, panicked>>

Succeed ==
  LET a == access[current]
  IN /\ a # None /\ Permits(Cached(a.page), a)
     /\ access' = [access EXCEPT ![current] = None]
     /\ tlb' = [v \in DOMAIN tlb \cup {a.page} |-> Cached(v)]
     /\ UNCHANGED <<pd, pt, free, current, heap_size, panicked>>

\* err & 1: the page is present, so the access violates its protection.
Protection(a) == Cached(a.page).present

panic_Return == UNCHANGED <<pd, pt, free, tlb, panicked>>
panic == panicked' = TRUE /\ UNCHANGED <<pd, pt, free, tlb>>

page_fault_handler ==
  LET a == access[current]
  IN /\ a # None /\ ~ Permits(Cached(a.page), a)
     /\ \/ Protection(a) /\ panic
        \/ ~ Protection(a) /\ free = {} /\ panic
        \/ /\ ~ Protection(a) /\ free # {}
           /\ \E f \in free :
                /\ pmm_alloc_page(free, f)
                /\ paging_map_page(a.page, f, [write |-> TRUE, user |-> a.user], Without(free, f))
           /\ UNCHANGED panicked
     /\ UNCHANGED <<current, access, heap_size>>

Cpu(p) == ~ panicked /\ current = p /\ (Succeed \/ page_fault_handler)

Next ==
  \/ \E a \in Accesses : Touch(a)
  \/ \E p \in DOMAIN pd : Cpu(p)
  \/ \E v \in UserPages : paging_unmap_page(v)
  \/ \E v \in UserPages, write \in BOOLEAN : map_user_page(v, write)
  \/ expand_heap
  \/ paging_clone_pd
  \/ \E p \in DOMAIN pd : paging_switch(p)

Spec == Init /\ [][Next]_vars

\* A process that is scheduled again and again retries its access.
FairSpec == Spec /\ \A p \in {kernel_pd} \cup RAM : SF_vars(p \in DOMAIN pd /\ Cpu(p))
-----------------------------------------------------------------------------
\* The entries that map a frame outside the identity-mapped window.
Mapped == {e \in (DOMAIN pt \ kernel_page_tables) \X Index : pt[e[1]][e[2]].present}
FrameOf(e) == pt[e[1]][e[2]].addr

(* A frame has one use: it is free, or a directory, or a table, or mapped  *)
(* by exactly one entry, although paging_map_page takes a frame for a      *)
(* table while its caller already holds the one to be mapped.              *)
FramesExclusive ==
  /\ DOMAIN pd \cap DOMAIN pt = {}
  /\ free \cap (DOMAIN pd \cup DOMAIN pt) = {}
  /\ \A e \in Mapped : FrameOf(e) \notin free \cup DOMAIN pd \cup DOMAIN pt
  /\ \A e, f \in Mapped : FrameOf(e) = FrameOf(f) => e = f

(* Whatever address space is loaded, the kernel reaches every frame at its *)
(* physical address (paging.c reads and writes tables that way) and every  *)
(* page of the heap, the ones kmalloc added after the address space was    *)
(* cloned included.  It rests on the table of the heap being in kernel_pd  *)
(* before the first clone, and so ends where the heap outgrows that table. *)
KernelMappedEverywhere ==
  \A p \in DOMAIN pd :
    /\ \A f \in RAM : Walk(p, f) = Entry(f, Kernel)
    /\ \A k \in 0 .. heap_size - 1 :
         Walk(p, HeapPage(k)).present /\ Walk(p, HeapPage(k)) = Walk(kernel_pd, HeapPage(k))

(* Two address spaces share a table only if kernel_pd holds it, at the     *)
(* same index: what paging_map_page adds to the space of one process is    *)
(* not seen by another, unless it was added to kernel_pd before the clone. *)
TablesPrivate ==
  \A p, q \in DOMAIN pd, i, j \in Dir :
    /\ pd[p][i].present /\ pd[q][j].present
    /\ pd[p][i].addr = pd[q][j].addr
    /\ <<p, i>> # <<q, j>>
    => i = j /\ pd[kernel_pd][i] = pd[p][i]

(* The processor never uses a translation that the tables no longer hold:  *)
(* the invlpg of paging_map_page and paging_unmap_page and the reload of   *)
(* cr3 in paging_switch are enough, also for tables that are shared.       *)
TlbCoherent == \A v \in DOMAIN tlb : tlb[v] = Translate(current, v)

(* A step changes the translation of at most one page, and changes it in   *)
(* another address space only through a table that space shares with the   *)
(* current one.                                                            *)
ChangesOnePage ==
  \A p \in DOMAIN pd, v \in Page :
    Walk(p, v)' # Walk(p, v)
    => /\ pd'[p][pd_index(v)].addr = pd'[current][pd_index(v)].addr
       /\ \A q \in DOMAIN pd, w \in Page : Walk(q, w)' # Walk(q, w) => w = v
OnePageChanges == [][ChangesOnePage]_vars

(* An access is never retried forever: in an address space that keeps      *)
(* being scheduled it succeeds or the kernel halts, also when memory runs  *)
(* out between the frame of the page and the frame of its table, which     *)
(* paging_map_page does not report.                                        *)
AccessEnds ==
  \A p \in {kernel_pd} \cup RAM :
    []<>(current = p) => ((p \in DOMAIN pd /\ access[p] # None)
                            ~> (panicked \/ (p \in DOMAIN pd /\ access[p] = None)))

(* elf.c: "Map with user permission".  A page mapped with PAGE_USER can be *)
(* used in user mode.                                                      *)
MappedForUser ==
  \A p \in DOMAIN pd, v \in Page : Walk(p, v).user => Translate(p, v).user
=============================================================================
