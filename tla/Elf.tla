-------------------------------- MODULE Elf ---------------------------------
(***************************************************************************)
(* src/elf.c: elf_exec, called by kmain and by SYS_EXEC of the program it  *)
(* is about to replace, in whose address space it loads.  Disk reads, the  *)
(* heap and the frames may fail at every step.  A byte of memory is the    *)
(* offset in the file it was read from, 0 when cleared, OLD before.  The   *)
(* image lies in one 4MB region and the stack in another; the heap takes   *)
(* no frame meanwhile.                                                     *)
(***************************************************************************)
EXTENDS Integers, Sequences

CONSTANTS PAGE_SIZE,
          PAGES,       \* user pages below the stack
          FRAMES,      \* frames pmm_alloc_page has
          Programs     \* [valid, phdrs]; phdrs: [load, vaddr, memsz, filesz, offset]

OLD == -1
STACK_PAGES == 2
Image == 0 .. PAGES - 1
Stack == PAGES .. PAGES + STACK_PAGES - 1    \* the topmost page first
UserPage == Image \cup Stack
Unmapped == 0

ProgramHeader == [load : BOOLEAN, vaddr : Nat, memsz : Nat, filesz : Nat, offset : Nat]

ASSUME ElfAssumption ==
  /\ PAGE_SIZE \in Nat \ {0} /\ PAGES \in Nat /\ FRAMES \in Nat
  /\ \A p \in Programs :
       /\ p.phdrs \in Seq(ProgramHeader)
       /\ \A k \in DOMAIN p.phdrs :
            LET h == p.phdrs[k]
            IN /\ h.filesz <= h.memsz /\ h.offset > 0
               /\ h.vaddr + h.memsz <= PAGES * PAGE_SIZE

VARIABLES phase, prog,
          map,         \* page -> frame
          tables,      \* the regions, {"image", "stack"}, that have a page table
          mem,         \* frame -> place -> byte
          used,        \* how many frames were taken
          pheaders,    \* whether the program headers are on the heap
          i, j,
          before,      \* <<map, mem>> when elf_exec was called
          complete     \* no read of a segment was cut short

elf_vars == <<phase, prog, map, tables, mem, used, pheaders, i, j, before, complete>>

Frame == 1..FRAMES
Region(v) == IF v \in Image THEN "image" ELSE "stack"

ElfInit == /\ phase = "start"
           /\ prog \in Programs
           /\ map = [v \in UserPage |-> Unmapped]
           /\ tables = {}
           /\ mem = [f \in Frame |-> [k \in 0 .. PAGE_SIZE - 1 |-> OLD]]
           /\ used \in 0..FRAMES                    \* the kernel has frames too
           /\ pheaders = FALSE
           /\ i = 1 /\ j = 0
           /\ before = <<map, mem>>
           /\ complete = TRUE

Unread == UNCHANGED <<prog, map, tables, mem, used, before, complete>>

Fail == phase' = "failed" /\ pheaders' = FALSE      \* kfree(pheaders); return -1

\* vfs_finddir, and the header: read in full, magic, machine and type.  The node
\* that vfs_finddir allocates is never freed, one for each call; it is left out,
\* as every later allocation may fail whether or not nodes have used up the heap.
Header ==
  /\ phase = "start"
  /\ \/ phase' = "failed"                           \* not found, or not read
     \/ phase' = IF prog.valid THEN "alloc" ELSE "failed"
  /\ UNCHANGED <<pheaders, i, j>> /\ Unread

\* kmalloc(0) returns NULL, as kmalloc does when nothing is left.
AllocHeaders ==
  /\ phase = "alloc"
  /\ \/ phase' = "failed" /\ UNCHANGED pheaders
     \/ prog.phdrs # <<>> /\ phase' = "headers" /\ pheaders' = TRUE
  /\ UNCHANGED <<i, j>> /\ Unread

ReadHeaders ==
  /\ phase = "headers"
  /\ \/ Fail
     \/ phase' = "segment" /\ UNCHANGED pheaders
  /\ UNCHANGED <<i, j>> /\ Unread
-----------------------------------------------------------------------------
Header_i == prog.phdrs[i]
page_start(h) == h.vaddr \div PAGE_SIZE
page_end(h) == (h.vaddr + h.memsz + PAGE_SIZE - 1) \div PAGE_SIZE

NextSegment ==
  /\ phase = "segment"
  /\ IF i > Len(prog.phdrs)
     THEN phase' = "stack" /\ pheaders' = FALSE /\ j' = 0 /\ UNCHANGED i
     ELSE /\ UNCHANGED pheaders
          /\ IF Header_i.load
             THEN phase' = "pages" /\ j' = page_start(Header_i) /\ UNCHANGED i
             ELSE i' = i + 1 /\ UNCHANGED <<phase, j>>
  /\ Unread

\* pmm_alloc_page and paging_map_page, which takes a second frame for a
\* missing table and returns silently when there is none.
MapFresh(v) ==
  /\ used < FRAMES
  /\ IF Region(v) \in tables
     THEN map' = [map EXCEPT ![v] = used + 1] /\ used' = used + 1 /\ UNCHANGED tables
     ELSE IF used + 1 < FRAMES
     THEN /\ map' = [map EXCEPT ![v] = used + 1]
          /\ tables' = tables \cup {Region(v)}
          /\ used' = used + 2
     ELSE used' = used + 1 /\ UNCHANGED <<map, tables>>
  /\ UNCHANGED <<mem, prog, before, complete>>

MapPage ==
  /\ phase = "pages" /\ j < page_end(Header_i)
  /\ \/ MapFresh(j) /\ j' = j + 1 /\ UNCHANGED <<phase, pheaders>>
     \/ used = FRAMES /\ Fail /\ UNCHANGED j /\ Unread
  /\ UNCHANGED i

\* The byte of a segment, after n bytes of it were read.
Loaded(h, addr, n) == LET k == addr - h.vaddr
                      IN IF k < n THEN h.offset + k
                         ELSE IF k >= h.filesz THEN 0 ELSE OLD

Written_NoBss(h, k, n) == k \in 0 .. n - 1
Written(h, k, n) == k \in 0 .. n - 1 \/ k \in h.filesz .. h.memsz - 1

\* vfs_read into the mapped pages, and the bss; a store to a page that
\* could not be mapped finds no frame in the page fault handler either.
Touched(h, n) == {v \in Image : \E k \in 0 .. PAGE_SIZE - 1 :
                                   Written(h, v * PAGE_SIZE + k - h.vaddr, n)}

Store(h, n) ==
  mem' = [f \in Frame |-> [k \in 0 .. PAGE_SIZE - 1 |->
            LET hit == {v \in Image : map[v] = f /\ Written(h, v * PAGE_SIZE + k - h.vaddr, n)}
            IN IF hit = {} THEN mem[f][k]
               ELSE Loaded(h, (CHOOSE v \in hit : TRUE) * PAGE_SIZE + k, n)]]

ReadOK(h, n) == /\ Store(h, n)
                /\ complete' = (complete /\ n = h.filesz)
                /\ i' = i + 1
                /\ phase' = "segment" /\ UNCHANGED pheaders

ReadSegment_Checked ==
  /\ phase = "pages" /\ j = page_end(Header_i)
  /\ \E n \in 0..Header_i.filesz :
       /\ IF n < Header_i.filesz THEN Fail /\ UNCHANGED <<mem, complete, i>>
          ELSE ReadOK(Header_i, n)
  /\ UNCHANGED <<prog, map, tables, used, j, before>>

ReadSegment ==
  /\ phase = "pages" /\ j = page_end(Header_i)
  /\ \E n \in 0..Header_i.filesz :
       /\ IF \E v \in Touched(Header_i, n) : map[v] = Unmapped
          THEN phase' = "panic" /\ UNCHANGED <<mem, complete, i, pheaders>>
          ELSE ReadOK(Header_i, n)
  /\ UNCHANGED <<prog, map, tables, used, j, before>>

MapStack_Unchecked ==
  /\ phase = "stack" /\ j < STACK_PAGES
  /\ \/ MapFresh(PAGES + j)
     \/ used = FRAMES /\ Unread
  /\ j' = j + 1
  /\ UNCHANGED <<phase, i, pheaders>>

MapStack ==
  /\ phase = "stack" /\ j < STACK_PAGES
  /\ \/ MapFresh(PAGES + j) /\ j' = j + 1 /\ UNCHANGED phase
     \/ used = FRAMES /\ phase' = "failed" /\ UNCHANGED j /\ Unread
  /\ UNCHANGED <<i, pheaders>>

enter_usermode ==
  /\ phase = "stack" /\ j = STACK_PAGES
  /\ phase' = "user"
  /\ UNCHANGED <<pheaders, i, j>> /\ Unread

\* The caller that got -1, or the new program, executes another one.
sys_exec ==
  /\ phase \in {"failed", "user"}
  /\ phase' = "start"
  /\ prog' \in Programs
  /\ i' = 1 /\ j' = 0
  /\ before' = <<map, mem>>
  /\ complete' = TRUE
  /\ UNCHANGED <<map, tables, mem, used, pheaders>>

ElfNext == \/ Header \/ AllocHeaders \/ ReadHeaders
           \/ NextSegment \/ MapPage \/ ReadSegment
           \/ MapStack \/ enter_usermode
           \/ sys_exec

ElfSpec == ElfInit /\ [][ElfNext]_elf_vars
-----------------------------------------------------------------------------
Loads == {k \in DOMAIN prog.phdrs : prog.phdrs[k].load}
PagesOf(h) == page_start(h) .. page_end(h) - 1
At(addr) == IF map[addr \div PAGE_SIZE] = Unmapped THEN OLD
            ELSE mem[map[addr \div PAGE_SIZE]][addr % PAGE_SIZE]

\* The memory of the program as its program headers describe it.
AsLinked ==
  \A k \in Loads :
    LET h == prog.phdrs[k]
    IN \A a \in h.vaddr .. h.vaddr + h.memsz - 1 : At(a) = Loaded(h, a, h.filesz)

PagesApart == \A k, l \in Loads : k # l => PagesOf(prog.phdrs[k]) \cap PagesOf(prog.phdrs[l]) = {}

(* When elf_exec jumps to user mode every byte of every segment is the one *)
(* of the file, or zero in the bss, whatever was mapped there before, as   *)
(* long as no two segments share a page and no read was cut short.         *)
ImageLoaded == phase = "user" /\ PagesApart /\ complete => AsLinked

(* Pages of the program, the stack included, have frames of their own, and *)
(* none is a frame of the image that was replaced; so a program never sees *)
(* its stack in its data.  The two pages of the stack are mapped whenever  *)
(* user mode is entered, although paging_map_page fails silently.          *)
StackReady ==
  /\ \A v, w \in UserPage : map[v] = map[w] /\ map[v] # Unmapped => v = w
  /\ phase = "user" => \A v \in Stack : map[v] # Unmapped

(* elf_exec returns -1 for a file that is missing, unreadable or no i386   *)
(* executable, or when the heap is exhausted, with the caller's memory as  *)
(* it was; only running out of frames while loading (used = FRAMES) may    *)
(* leave it half replaced.  And every way out, a success too, has given    *)
(* the program headers back.                                               *)
RejectedHarmless ==
  /\ phase = "failed" /\ used < FRAMES => before = <<map, mem>>
  /\ phase \in {"start", "failed", "user"} => ~ pheaders
=============================================================================
