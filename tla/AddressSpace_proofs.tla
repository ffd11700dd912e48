------------------------- MODULE AddressSpace_proofs -------------------------
(***************************************************************************)
(* Proofs about address spaces: module Paging, for tables and directories  *)
(* of any size, any amount of RAM, any user pages and any accesses, and    *)
(* module Elf, which loads a program into one, for any programs, pages of  *)
(* any size and any number of frames.                                      *)
(***************************************************************************)
EXTENDS Paging, Elf, TLAPS

EntryType == [present : BOOLEAN, addr : Nat, write : BOOLEAN, user : BOOLEAN]

Typed ==
  /\ free \subseteq RAM
  /\ DOMAIN pd \subseteq {kernel_pd} \cup RAM /\ kernel_pd \in DOMAIN pd
  /\ pd \in [DOMAIN pd -> [Dir -> EntryType]]
  /\ DOMAIN pt \subseteq kernel_page_tables \cup RAM
  /\ pt \in [DOMAIN pt -> [Index -> EntryType]]
  /\ current \in DOMAIN pd
  /\ access \in [DOMAIN pd -> Accesses \cup {None}]
  /\ heap_size \in HEAP_PAGES .. MAX_HEAP
  /\ DOMAIN tlb \subseteq Page

(* FramesExclusive, entry by entry.                                        *)
Present(t, y) == t \in DOMAIN pt \ kernel_page_tables /\ y \in Index /\ pt[t][y].present
Apart ==
  /\ DOMAIN pd \cap DOMAIN pt = {}
  /\ free \cap (DOMAIN pd \cup DOMAIN pt) = {}
  /\ \A t, y : Present(t, y) => pt[t][y].addr \notin free \cup DOMAIN pd \cup DOMAIN pt
  /\ \A t, y, u, k : Present(t, y) /\ Present(u, k) /\ pt[t][y].addr = pt[u][k].addr
                       => t = u /\ y = k

(* A directory leads to tables only.                                       *)
Linked == \A p \in DOMAIN pd, x \in Dir : pd[p][x].present => pd[p][x].addr \in DOMAIN pt

(* Every directory begins with the identity-mapped window.                 *)
Window ==
  /\ kernel_page_tables \subseteq DOMAIN pt
  /\ \A t \in kernel_page_tables, y \in Index : pt[t][y] = Entry((t - 1) * ENTRIES + y, Kernel)
  /\ \A p \in DOMAIN pd, x \in 0 .. IDENTITY - 1 : pd[p][x] = Entry(x + 1, Kernel)

(* Every directory ends with the table of the heap.                        *)
HeapWindow ==
  /\ HeapTable \in DOMAIN pt
  /\ \A p \in DOMAIN pd : pd[p][HEAP_DIR] = Entry(HeapTable, Kernel)
  /\ \A k \in 0 .. heap_size - 1 : pt[HeapTable][k].present

IInv == /\ Typed /\ Apart /\ Linked /\ Window /\ HeapWindow
        /\ TablesPrivate /\ TlbCoherent
-----------------------------------------------------------------------------
(* Pages and their indexes *)

LEMMA Division ==
  ASSUME NEW n \in Nat, NEW d \in Nat \ {0}
  PROVE  /\ n \div d \in Nat /\ n % d \in 0 .. d - 1
         /\ n = (n \div d) * d + (n % d)
<1>1. n \div d \in Nat
  OBVIOUS
<1>2. n % d \in 0 .. d - 1
  OBVIOUS
<1>3. n = (n \div d) * d + (n % d)
  OBVIOUS
<1> QED
  BY Zenon, <1>1, <1>2, <1>3

LEMMA Quotient ==
  ASSUME NEW a \in Nat, NEW b \in Nat, NEW d \in Nat \ {0}
  PROVE  /\ a < b * d => a \div d < b
         /\ b * d <= a => b <= a \div d
<1>1. /\ a \div d \in Nat /\ a % d \in 0 .. d - 1
      /\ a = (a \div d) * d + (a % d)
  BY ZenonT(30), Division
<1> DEFINE q == a \div d
           r == a % d
<1> HIDE DEF q, r
<1>2. q \in Nat /\ r \in 0 .. d - 1 /\ a = q * d + r
  BY Zenon, <1>1 DEF q, r
<1>3. ASSUME b <= q PROVE b * d <= q * d
  BY <1>2, <1>3
<1>4. ASSUME q < b PROVE q * d + d <= b * d
  <2>1. (q + 1) * d <= b * d
    BY <1>2, <1>4
  <2>2. (q + 1) * d = q * d + d
    BY <1>2
  <2> QED
    BY Zenon, <2>1, <2>2
<1>5. a < b * d => q < b
  BY <1>2, <1>3
<1>6. b * d <= a => b <= q
  BY <1>2, <1>4
<1> QED
  BY Zenon, <1>5, <1>6 DEF q

LEMMA Sizes ==
  /\ ENTRIES \in Nat \ {0} /\ DIRS \in Nat /\ IDENTITY \in Nat \ {0} /\ LAST \in Nat
  /\ HEAP_DIR \in Dir /\ IDENTITY < HEAP_DIR /\ HEAP_PAGES \in Nat \ {0}
  /\ MAX_HEAP \in Nat /\ MAX_HEAP <= ENTRIES
  /\ RAM \subseteq Nat
  /\ HeapTable \in RAM /\ kernel_pd \in Nat /\ kernel_pd \notin RAM
  /\ \A k \in 0 .. HEAP_PAGES - 1 : HeapFrame(k) \in RAM /\ HeapFrame(k) < HeapTable
  /\ kernel_page_tables \cap ({kernel_pd} \cup RAM) = {}
<1>1. IDENTITY # 0
  BY PagingAssumption
<1> QED
  BY <1>1, PagingAssumption
     DEF HEAP_DIR, Dir, HeapTable, RAM, kernel_pd, HeapFrame, kernel_page_tables

\* A page is where its two indexes say.
LEMMA Indexes ==
  ASSUME NEW v \in Page
  PROVE  /\ pd_index(v) \in Dir /\ pt_index(v) \in Index
         /\ v = pd_index(v) * ENTRIES + pt_index(v)
<1>1. v \in Nat /\ DIRS * ENTRIES \in Nat /\ v < DIRS * ENTRIES
  BY Sizes DEF Page
<1>2. v \div ENTRIES < DIRS
  BY Zenon, <1>1, Sizes, Quotient
<1>3. v \div ENTRIES \in Nat /\ v % ENTRIES \in 0 .. ENTRIES - 1
  BY ZenonT(30), <1>1, Sizes, Division
<1>4. v = (v \div ENTRIES) * ENTRIES + (v % ENTRIES)
  BY Zenon, <1>1, Sizes, Division
<1>5. pd_index(v) \in Dir /\ pt_index(v) \in Index
  BY <1>2, <1>3, Sizes DEF Dir, Index, pd_index, pt_index
<1> QED
  BY Zenon, <1>4, <1>5 DEF pd_index, pt_index

LEMMA UserIndexes ==
  ASSUME NEW v \in UserPages
  PROVE  v \in Page /\ pd_index(v) \in Dir /\ IDENTITY <= pd_index(v) /\ pd_index(v) # HEAP_DIR
<1>1. /\ IDENTITY * ENTRIES \in Nat /\ HEAP_DIR * ENTRIES \in Nat /\ HEAP_DIR \in Nat
      /\ v \in IDENTITY * ENTRIES .. HEAP_DIR * ENTRIES - 1
  BY Sizes, PagingAssumption DEF Dir
<1>2. HEAP_DIR * ENTRIES <= DIRS * ENTRIES
  BY Sizes DEF HEAP_DIR, Dir
<1>3. v \in Page
  BY <1>1, <1>2, Sizes DEF Page
<1>4. IDENTITY <= v \div ENTRIES /\ v \div ENTRIES < HEAP_DIR
  BY <1>1, Sizes, Quotient
<1> QED
  BY <1>3, <1>4, Indexes, Sizes DEF pd_index, Dir

LEMMA HeapIndexes ==
  ASSUME NEW k \in 0 .. MAX_HEAP - 1
  PROVE  /\ HeapPage(k) \in Page /\ pd_index(HeapPage(k)) = HEAP_DIR
         /\ pt_index(HeapPage(k)) = k
<1>1. k \in 0 .. ENTRIES - 1 /\ HEAP_DIR \in Nat /\ ENTRIES \in Nat \ {0}
  BY Sizes DEF Dir
<1>2. DIRS * ENTRIES = HEAP_DIR * ENTRIES + ENTRIES
  BY Sizes DEF HEAP_DIR
<1>3. HEAP_DIR * ENTRIES \in Nat
  BY <1>1
<1>4. HeapPage(k) \in Page
  BY <1>1, <1>2, <1>3 DEF HeapPage, Page
<1>5. pd_index(HeapPage(k)) \in Dir /\ HEAP_DIR <= pd_index(HeapPage(k))
  <2>1. HeapPage(k) \in Nat /\ HEAP_DIR * ENTRIES <= HeapPage(k)
    BY <1>1, <1>3 DEF HeapPage
  <2>2. HEAP_DIR <= HeapPage(k) \div ENTRIES
    BY Zenon, <1>1, <2>1, Quotient
  <2> QED
    BY Zenon, <1>4, <2>2, Indexes DEF pd_index
<1>6. pd_index(HeapPage(k)) = HEAP_DIR
  BY <1>5, Sizes DEF HEAP_DIR, Dir
<1>7. HEAP_DIR * ENTRIES + k = HEAP_DIR * ENTRIES + pt_index(HeapPage(k))
  BY Zenon, <1>4, <1>6, Indexes DEF HeapPage
<1> QED
  BY SMTT(20), <1>1, <1>3, <1>4, <1>6, <1>7, Indexes DEF Index

LEMMA RamIndexes ==
  ASSUME NEW f \in RAM
  PROVE  /\ f \in Page /\ pd_index(f) \in 0 .. IDENTITY - 1 /\ pt_index(f) \in Index
         /\ f = pd_index(f) * ENTRIES + pt_index(f)
<1>1. f \in Nat /\ IDENTITY * ENTRIES \in Nat /\ f < IDENTITY * ENTRIES
  BY Sizes, PagingAssumption DEF RAM
<1>2. IDENTITY * ENTRIES <= DIRS * ENTRIES
  BY Sizes DEF HEAP_DIR, Dir
<1>3. f \in Page
  BY <1>1, <1>2, Sizes DEF Page
<1>4. f \div ENTRIES < IDENTITY /\ f \div ENTRIES \in Nat
  BY ZenonT(30), <1>1, Sizes, Quotient, Division
<1> QED
  BY <1>3, <1>4, Indexes, Sizes DEF pd_index
-----------------------------------------------------------------------------
(* Entries *)

LEMMA Entries ==
  /\ Zero \in EntryType /\ ~ Zero.present
  /\ \A a \in Nat, w \in BOOLEAN, u \in BOOLEAN :
       LET e == Entry(a, [write |-> w, user |-> u])
       IN e \in EntryType /\ e.present /\ e.addr = a
  /\ \A a \in Nat : Entry(a, Kernel) \in EntryType /\ Entry(a, Kernel).present
                    /\ Entry(a, Kernel).addr = a
  BY DEF Zero, Entry, EntryType, Kernel

LEMMA ExclusiveIsApart == FramesExclusive <=> Apart
<1>1. ASSUME NEW t, NEW y
      PROVE  <<t, y>> \in Mapped <=> Present(t, y)
  BY Zenon DEF Mapped, Present
<1>2. \A t, y : FrameOf(<<t, y>>) = pt[t][y].addr
  BY Zenon DEF FrameOf
<1>3. \A e \in Mapped : e = <<e[1], e[2]>>
  BY DEF Mapped
<1>4. ASSUME FramesExclusive PROVE Apart
  <2>1. ASSUME NEW t, NEW y, Present(t, y)
        PROVE  pt[t][y].addr \notin free \cup DOMAIN pd \cup DOMAIN pt
    BY ZenonT(30), <1>1, <1>2, <1>4, <2>1 DEF FramesExclusive
  <2>2. ASSUME NEW t, NEW y, NEW u, NEW k,
               Present(t, y), Present(u, k), pt[t][y].addr = pt[u][k].addr
        PROVE  t = u /\ y = k
    <3>1. <<t, y>> \in Mapped /\ <<u, k>> \in Mapped
      BY Zenon, <1>1, <2>2
    <3>2. <<t, y>> = <<u, k>>
      BY <1>2, <1>4, <2>2, <3>1 DEF FramesExclusive
    <3> QED
      BY Zenon, <3>2
  <2> QED
    BY Zenon, <1>4, <2>1, <2>2 DEF FramesExclusive, Apart
<1>5. ASSUME Apart PROVE FramesExclusive
  <2>1. ASSUME NEW e \in Mapped
        PROVE  FrameOf(e) \notin free \cup DOMAIN pd \cup DOMAIN pt
    BY Zenon, <1>1, <1>3, <1>5, <2>1 DEF Apart, FrameOf
  <2>2. ASSUME NEW e \in Mapped, NEW f \in Mapped, FrameOf(e) = FrameOf(f)
        PROVE  e = f
    <3>1. Present(e[1], e[2]) /\ Present(f[1], f[2])
      BY Zenon, <1>1, <1>3
    <3>2. e[1] = f[1] /\ e[2] = f[2]
      BY Zenon, <1>5, <2>2, <3>1 DEF Apart, FrameOf
    <3> QED
      BY Zenon, <1>3, <3>2
  <2> QED
    BY Zenon, <1>5, <2>1, <2>2 DEF FramesExclusive, Apart
<1> QED
  BY Zenon, <1>4, <1>5

\* The tables of the window and of the heap are found at their indexes only.
LEMMA TablesApart ==
  ASSUME IInv, NEW p \in DOMAIN pd, NEW x \in Dir, pd[p][x].present
  PROVE  /\ IDENTITY <= x => pd[p][x].addr \in DOMAIN pt \ kernel_page_tables
         /\ x # HEAP_DIR => pd[p][x].addr # HeapTable
<1>1. pd[p][x].addr \in DOMAIN pt
  BY Zenon DEF IInv, Linked
<1>2. kernel_pd \in DOMAIN pd
  BY Zenon DEF IInv, Typed
<1>3. ASSUME IDENTITY <= x, pd[p][x].addr \in kernel_page_tables PROVE FALSE
  <2> DEFINE k == pd[p][x].addr - 1
  <2>1. k \in 0 .. IDENTITY - 1 /\ k \in Dir /\ k # x /\ k + 1 = pd[p][x].addr
    BY <1>3, Sizes DEF kernel_page_tables, Dir, HEAP_DIR
  <2>2. pd[kernel_pd][k].present /\ pd[kernel_pd][k].addr = pd[p][x].addr
    <3>1. pd[kernel_pd][k] = Entry(k + 1, Kernel)
      BY Zenon, <1>2, <2>1 DEF IInv, Window
    <3> QED
      BY <2>1, <3>1, Sizes, Entries
  <2> QED
    BY <1>2, <2>1, <2>2 DEF IInv, TablesPrivate
<1>4. ASSUME x # HEAP_DIR, pd[p][x].addr = HeapTable PROVE FALSE
  <2>1. pd[kernel_pd][HEAP_DIR].present /\ pd[kernel_pd][HEAP_DIR].addr = HeapTable
    <3>1. pd[kernel_pd][HEAP_DIR] = Entry(HeapTable, Kernel) /\ HeapTable \in Nat
      BY Zenon, <1>2, Sizes DEF IInv, HeapWindow, RAM
    <3> QED
      BY Zenon, <3>1, Entries
  <2> QED
    BY <1>2, <1>4, <2>1, Sizes DEF IInv, TablesPrivate
<1> QED
  BY Zenon, <1>1, <1>3, <1>4
-----------------------------------------------------------------------------
(* An entry of an existing table is written *)

LEMMA PutKeeps ==
  ASSUME IInv, NEW t \in DOMAIN pt \ kernel_page_tables, NEW y \in Index, NEW e \in EntryType,
         pt' = [pt EXCEPT ![t][y] = e], pd' = pd, free' \subseteq free,
         e.present => e.addr \in free \ free'
  PROVE  /\ DOMAIN pt' = DOMAIN pt /\ pt' \in [DOMAIN pt -> [Index -> EntryType]]
         /\ Apart' /\ Linked' /\ Window' /\ TablesPrivate'
         /\ \A p \in DOMAIN pd : pd'[p][HEAP_DIR] = Entry(HeapTable, Kernel)
<1>1. /\ pt \in [DOMAIN pt -> [Index -> EntryType]]
      /\ Apart /\ Linked /\ Window /\ TablesPrivate
  BY Zenon DEF IInv, Typed
<1>2. DOMAIN pt' = DOMAIN pt /\ pt' \in [DOMAIN pt -> [Index -> EntryType]]
  BY Zenon, <1>1
<1>3. /\ pt'[t][y] = e
      /\ \A u \in DOMAIN pt, k \in Index : <<u, k>> # <<t, y>> => pt'[u][k] = pt[u][k]
  BY Zenon, <1>1
<1>4. Apart'
  <2>1. \A u, k : Present(u, k)' => \/ u = t /\ k = y /\ e.present
                                    \/ <<u, k>> # <<t, y>> /\ Present(u, k)
    BY Zenon, <1>2, <1>3 DEF Present
  <2>2. ASSUME NEW u, NEW k, Present(u, k)'
        PROVE  pt'[u][k].addr \notin free' \cup DOMAIN pd \cup DOMAIN pt
    <3>1. CASE u = t /\ k = y /\ e.present
      BY <1>1, <1>3, <3>1 DEF Apart
    <3>2. CASE <<u, k>> # <<t, y>> /\ Present(u, k)
      <4>1. pt'[u][k] = pt[u][k]
        BY Zenon, <1>3, <3>2 DEF Present
      <4> QED
        BY Zenon, <1>1, <3>2, <4>1 DEF Apart
    <3> QED
      BY Zenon, <2>1, <2>2, <3>1, <3>2
  <2>3. ASSUME NEW u, NEW k, <<u, k>> # <<t, y>>, Present(u, k), e.present
        PROVE  pt'[u][k].addr # e.addr
    <3>1. pt'[u][k] = pt[u][k]
      BY Zenon, <1>3, <2>3 DEF Present
    <3> QED
      BY Zenon, <1>1, <2>3, <3>1 DEF Apart
  <2>4. ASSUME NEW u, NEW k, NEW w, NEW l,
               Present(u, k)', Present(w, l)', pt'[u][k].addr = pt'[w][l].addr
        PROVE  u = w /\ k = l
    <3>1. CASE <<u, k>> # <<t, y>> /\ <<w, l>> # <<t, y>>
      <4>1. Present(u, k) /\ Present(w, l)
        BY Zenon, <2>1, <2>4, <3>1
      <4>2. pt'[u][k] = pt[u][k] /\ pt'[w][l] = pt[w][l]
        BY Zenon, <1>3, <3>1, <4>1 DEF Present
      <4> QED
        BY Zenon, <1>1, <2>4, <4>1, <4>2 DEF Apart
    <3>2. CASE u = t /\ k = y
      BY <1>3, <2>1, <2>3, <2>4, <3>2
    <3>3. CASE w = t /\ l = y
      BY <1>3, <2>1, <2>3, <2>4, <3>3
    <3> QED
      BY Zenon, <3>1, <3>2, <3>3
  <2> QED
    BY Zenon, <1>1, <1>2, <2>2, <2>4 DEF Apart
<1>5. Linked' /\ TablesPrivate'
  BY <1>1, <1>2 DEF Linked, TablesPrivate
<1>6. Window'
  BY <1>1, <1>2, <1>3 DEF Window
<1>7. \A p \in DOMAIN pd : pd'[p][HEAP_DIR] = Entry(HeapTable, Kernel)
  BY Zenon DEF IInv, HeapWindow
<1> QED
  BY Zenon, <1>2, <1>4, <1>5, <1>6, <1>7

\* It changes the translation of one page, wherever the table is used.
LEMMA PutChanges ==
  ASSUME IInv, NEW v \in Page, pd[current][pd_index(v)].present, NEW e,
         pt' = [pt EXCEPT ![pd[current][pd_index(v)].addr][pt_index(v)] = e], pd' = pd,
         NEW p \in DOMAIN pd, NEW w \in Page, Walk(p, w)' # Walk(p, w)
  PROVE  w = v /\ pd'[p][pd_index(v)].addr = pd'[current][pd_index(v)].addr
<1> DEFINE a == pd[current][pd_index(v)].addr
           x == pd_index(v)
           y == pd_index(w)
<1>1. /\ current \in DOMAIN pd /\ pt \in [DOMAIN pt -> [Index -> EntryType]]
      /\ x \in Dir /\ y \in Dir /\ pt_index(v) \in Index /\ pt_index(w) \in Index
      /\ v = x * ENTRIES + pt_index(v) /\ w = y * ENTRIES + pt_index(w)
  BY Zenon, Indexes DEF IInv, Typed
<1>2. pd[p][y].present
  BY Zenon DEF Walk
<1>3. a \in DOMAIN pt /\ pd[p][y].addr \in DOMAIN pt
  BY Zenon, <1>1, <1>2 DEF IInv, Linked
<1>4. pd[p][y].addr = a /\ pt_index(w) = pt_index(v)
  <2>1. pt'[pd[p][y].addr][pt_index(w)] # pt[pd[p][y].addr][pt_index(w)]
    BY Zenon, <1>2 DEF Walk
  <2> QED
    BY Zenon, <1>1, <1>3, <2>1
<1>5. x = y
  BY <1>1, <1>2, <1>4 DEF IInv, TablesPrivate
<1> QED
  BY Zenon, <1>1, <1>4, <1>5
-----------------------------------------------------------------------------
(* A table is added to the current directory *)

Added(table, v, e) == 
  [t \in DOMAIN pt \cup {table} |->
     IF t = table THEN [[y \in Index |-> Zero] EXCEPT ![pt_index(v)] = e] ELSE pt[t]]

LEMMA AddKeeps ==
  ASSUME IInv, NEW v \in Page, ~ pd[current][pd_index(v)].present, IDENTITY <= pd_index(v),
         NEW table \in free, NEW e \in EntryType, NEW link \in EntryType,
         link.present, link.addr = table, free' \subseteq free \ {table},
         e.present => e.addr \in free \ ({table} \cup free'),
         pt' = Added(table, v, e), pd' = [pd EXCEPT ![current][pd_index(v)] = link]
  PROVE  /\ DOMAIN pt' \subseteq kernel_page_tables \cup RAM
         /\ pt' \in [DOMAIN pt' -> [Index -> EntryType]]
         /\ DOMAIN pd' = DOMAIN pd /\ pd' \in [DOMAIN pd -> [Dir -> EntryType]]
         /\ Apart' /\ Linked' /\ Window' /\ TablesPrivate'
         /\ HeapTable \in DOMAIN pt' /\ pt'[HeapTable] = pt[HeapTable]
         /\ \A p \in DOMAIN pd : pd'[p][HEAP_DIR] = Entry(HeapTable, Kernel)
<1> DEFINE x == pd_index(v)
           y == pt_index(v)
<1>1. /\ pt \in [DOMAIN pt -> [Index -> EntryType]] /\ DOMAIN pt \subseteq kernel_page_tables \cup RAM
      /\ pd \in [DOMAIN pd -> [Dir -> EntryType]] /\ current \in DOMAIN pd
      /\ Apart /\ Linked /\ Window /\ TablesPrivate /\ HeapWindow
      /\ x \in Dir /\ y \in Index /\ table \in RAM /\ kernel_pd \in DOMAIN pd
  BY Zenon, Indexes DEF IInv, Typed
<1>2. table \notin DOMAIN pt /\ table \notin DOMAIN pd /\ table \notin kernel_page_tables
  BY Zenon, <1>1, Sizes DEF Apart
<1>3. /\ DOMAIN pt' = DOMAIN pt \cup {table} /\ pt' \in [DOMAIN pt' -> [Index -> EntryType]]
      /\ \A t \in DOMAIN pt : pt'[t] = pt[t]
      /\ pt'[table][y] = e /\ \A k \in Index \ {y} : pt'[table][k] = Zero
  BY Zenon, <1>1, <1>2, Entries DEF Added
<1>4. /\ DOMAIN pd' = DOMAIN pd /\ pd' \in [DOMAIN pd -> [Dir -> EntryType]]
      /\ pd'[current][x] = link
      /\ \A p \in DOMAIN pd, k \in Dir : <<p, k>> # <<current, x>> => pd'[p][k] = pd[p][k]
  BY Zenon, <1>1
<1>5. Apart'
  <2>1. \A u, k : Present(u, k)' => \/ u = table /\ k = y /\ e.present
                                    \/ u # table /\ Present(u, k)
    BY <1>2, <1>3, Entries DEF Present
  <2>2. \A u, k : u # table /\ Present(u, k) =>
                    /\ pt'[u][k] = pt[u][k]
                    /\ pt[u][k].addr \notin free \cup DOMAIN pd \cup DOMAIN pt
    BY Zenon, <1>1, <1>3 DEF Present, Apart
  <2>3. ASSUME NEW u, NEW k, Present(u, k)'
        PROVE  pt'[u][k].addr \notin free' \cup DOMAIN pd \cup DOMAIN pt'
    <3>1. CASE u = table /\ k = y /\ e.present
      <4>1. e.addr \in free /\ e.addr # table /\ e.addr \notin free'
        BY Zenon, <3>1
      <4> QED
        BY Zenon, <1>1, <1>3, <3>1, <4>1 DEF Apart
    <3>2. CASE u # table /\ Present(u, k)
      BY <1>3, <2>2, <3>2
    <3> QED
      BY Zenon, <2>1, <2>3, <3>1, <3>2
  <2>4. ASSUME NEW u, NEW k, NEW w, NEW l,
               Present(u, k)', Present(w, l)', pt'[u][k].addr = pt'[w][l].addr
        PROVE  u = w /\ k = l
    <3>1. CASE u # table /\ w # table
      BY <1>1, <2>1, <2>2, <2>4, <3>1 DEF Apart
    <3>2. CASE u = table /\ w # table
      <4>1. e.present /\ pt'[u][k] = e /\ Present(w, l)
        BY Zenon, <1>3, <2>1, <2>4, <3>2
      <4> QED
        BY <2>2, <2>4, <3>2, <4>1
    <3>3. CASE u # table /\ w = table
      <4>1. e.present /\ pt'[w][l] = e /\ Present(u, k)
        BY Zenon, <1>3, <2>1, <2>4, <3>3
      <4> QED
        BY <2>2, <2>4, <3>3, <4>1
    <3>4. CASE u = table /\ w = table
      BY Zenon, <2>1, <2>4, <3>4
    <3> QED
      BY Zenon, <3>1, <3>2, <3>3, <3>4
  <2>5. DOMAIN pd' \cap DOMAIN pt' = {} /\ free' \cap (DOMAIN pd' \cup DOMAIN pt') = {}
    BY <1>1, <1>2, <1>3, <1>4 DEF Apart
  <2> QED
    BY Zenon, <1>4, <2>3, <2>4, <2>5 DEF Apart
<1>6. Linked'
  <2> SUFFICES ASSUME NEW p \in DOMAIN pd, NEW k \in Dir, pd'[p][k].present
               PROVE  pd'[p][k].addr \in DOMAIN pt'
    BY Zenon, <1>4 DEF Linked
  <2>1. CASE <<p, k>> = <<current, x>>
    BY Zenon, <1>3, <1>4, <2>1
  <2>2. CASE <<p, k>> # <<current, x>>
    BY <1>1, <1>3, <1>4, <2>2 DEF Linked
  <2> QED
    BY Zenon, <2>1, <2>2
<1>7. Window'
  <2>1. \A p \in DOMAIN pd, k \in 0 .. IDENTITY - 1 : pd'[p][k] = pd[p][k]
    BY SMTT(20), <1>1, <1>4, Sizes DEF Dir, HEAP_DIR
  <2>2. \A t \in kernel_page_tables : t \in DOMAIN pt /\ pt'[t] = pt[t]
    BY Zenon, <1>1, <1>3 DEF Window
  <2> QED
    BY <1>1, <1>3, <1>4, <2>1, <2>2 DEF Window
<1>8. TablesPrivate'
  <2> SUFFICES ASSUME NEW p \in DOMAIN pd, NEW q \in DOMAIN pd, NEW k \in Dir, NEW l \in Dir,
                      pd'[p][k].present, pd'[q][l].present,
                      pd'[p][k].addr = pd'[q][l].addr, <<p, k>> # <<q, l>>
               PROVE  k = l /\ pd'[kernel_pd][k] = pd'[p][k]
    BY <1>4 DEF TablesPrivate
  <2>1. \A r \in DOMAIN pd, m \in Dir : <<r, m>> # <<current, x>> /\ pd[r][m].present
                                          => pd[r][m].addr # table
    BY Zenon, <1>1, <1>2 DEF Linked
  <2>2. <<p, k>> # <<current, x>> /\ <<q, l>> # <<current, x>>
    BY <1>4, <2>1
  <2>3. pd'[p][k] = pd[p][k] /\ pd'[q][l] = pd[q][l]
    BY Zenon, <1>4, <2>2
  <2>4. k = l /\ pd[kernel_pd][k] = pd[p][k]
    BY <1>1, <2>3 DEF TablesPrivate
  <2>5. <<kernel_pd, k>> # <<current, x>>
    BY Zenon, <2>3, <2>4
  <2> QED
    BY <1>1, <1>4, <2>3, <2>4, <2>5
<1>9. \A p \in DOMAIN pd : pd'[p][HEAP_DIR] = Entry(HeapTable, Kernel)
  <2>1. pd[current][HEAP_DIR].present
    <3>1. HeapTable \in Nat /\ pd[current][HEAP_DIR] = Entry(HeapTable, Kernel)
      BY Zenon, <1>1, Sizes DEF HeapWindow
    <3> QED
      BY <3>1, Entries
  <2>2. x # HEAP_DIR
    BY Zenon, <2>1
  <2> QED
    BY Zenon, <1>1, <1>4, <2>2, Sizes DEF HeapWindow
<1> QED
  BY <1>1, <1>3, <1>4, <1>5, <1>6, <1>7, <1>8, <1>9 DEF HeapWindow

LEMMA AddChanges ==
  ASSUME IInv, NEW v \in Page, ~ pd[current][pd_index(v)].present,
         NEW table \in free, NEW e, NEW link, link.present, link.addr = table,
         pt' = Added(table, v, e), pd' = [pd EXCEPT ![current][pd_index(v)] = link],
         NEW p \in DOMAIN pd, NEW w \in Page
  PROVE  /\ Walk(p, w)' # Walk(p, w) => w = v /\ p = current
         /\ w # v => \/ Walk(p, w)' = Zero /\ Walk(p, w) = Zero
                     \/ /\ Walk(p, w)' = Walk(p, w)
                        /\ pd'[p][pd_index(w)] = pd[p][pd_index(w)]
<1> DEFINE x == pd_index(v)
           y == pd_index(w)
<1>1. /\ current \in DOMAIN pd /\ pd \in [DOMAIN pd -> [Dir -> EntryType]]
      /\ x \in Dir /\ y \in Dir /\ pt_index(v) \in Index /\ pt_index(w) \in Index
      /\ v = x * ENTRIES + pt_index(v) /\ w = y * ENTRIES + pt_index(w)
      /\ table \notin DOMAIN pt
  BY Zenon, Indexes DEF IInv, Typed, Apart
<1>2. CASE p = current /\ x = y
  <2>1. Walk(p, w) = Zero
    BY Zenon, <1>2 DEF Walk
  <2>2. Walk(p, w)' = pt'[table][pt_index(w)]
    BY Zenon, <1>1, <1>2 DEF Walk
  <2>3. w # v => pt_index(w) # pt_index(v)
    BY Zenon, <1>1, <1>2
  <2>4. w # v => Walk(p, w)' = Zero
    BY Zenon, <1>1, <2>2, <2>3 DEF Added
  <2> QED
    BY Zenon, <1>2, <2>1, <2>4
<1>3. CASE ~ (p = current /\ x = y)
  <2>1. pd'[p][y] = pd[p][y]
    BY Zenon, <1>1, <1>3
  <2>2. pd[p][y].present => pd[p][y].addr \in DOMAIN pt
    BY Zenon, <1>1 DEF IInv, Linked
  <2>3. \A t \in DOMAIN pt : pt'[t] = pt[t]
    BY Zenon, <1>1 DEF Added
  <2>4. Walk(p, w)' = Walk(p, w)
    BY <2>1, <2>2, <2>3 DEF Walk
  <2> QED
    BY Zenon, <2>1, <2>4
<1> QED
  BY Zenon, <1>2, <1>3

\* Translate combines an entry of each level.
Rights(e, d) == [e EXCEPT !.write = @ /\ d.write, !.user = @ /\ d.user]

LEMMA NoRights ==
  ASSUME NEW d
  PROVE  Rights(Zero, d) = Zero
<1>1. Zero.write = FALSE /\ Zero.user = FALSE
  BY Zenon DEF Zero
<1>2. (Zero.write /\ d.write) = FALSE /\ (Zero.user /\ d.user) = FALSE
  BY <1>1, Zenon
<1>3. Rights(Zero, d) = [Zero EXCEPT !.write = FALSE, !.user = FALSE]
  BY <1>2, Zenon DEF Rights
<1> QED
  BY ZenonT(30), <1>3 DEF Zero

LEMMA TlbKept ==
  ASSUME TlbCoherent, NEW v, current' = current,
         tlb' = [w \in DOMAIN tlb \ {v} |-> tlb[w]],
         \A w \in DOMAIN tlb \ {v} :
           \/ Walk(current, w)' = Zero /\ Walk(current, w) = Zero
           \/ /\ Walk(current, w)' = Walk(current, w)
              /\ pd'[current][pd_index(w)] = pd[current][pd_index(w)]
  PROVE  TlbCoherent'
<1> SUFFICES ASSUME NEW w \in DOMAIN tlb \ {v}
             PROVE  tlb'[w] = Translate(current, w)'
  BY Zenon DEF TlbCoherent
<1>1. tlb'[w] = Translate(current, w)
  BY Zenon DEF TlbCoherent
<1>2. /\ Translate(current, w) = Rights(Walk(current, w), pd[current][pd_index(w)])
      /\ Translate(current, w)' = Rights(Walk(current, w)', pd'[current][pd_index(w)])
  BY Zenon DEF Translate, Rights
<1>3. CASE Walk(current, w)' = Zero /\ Walk(current, w) = Zero
  BY Zenon, <1>1, <1>2, <1>3, NoRights
<1>4. CASE /\ Walk(current, w)' = Walk(current, w)
           /\ pd'[current][pd_index(w)] = pd[current][pd_index(w)]
  BY Zenon, <1>1, <1>2, <1>4
<1> QED
  BY Zenon, <1>3, <1>4
-----------------------------------------------------------------------------
(* paging_map_page and paging_unmap_page *)

OneChanges(v) ==
  \A p \in DOMAIN pd, w \in Page :
    Walk(p, w)' # Walk(p, w)
      => w = v /\ pd'[p][pd_index(v)].addr = pd'[current][pd_index(v)].addr

\* With the heap as it is, or one page larger if v is that page.
HeapAfter(v) ==
  \/ heap_size' = heap_size
  \/ heap_size < MAX_HEAP /\ heap_size' = heap_size + 1 /\ v = HeapPage(heap_size)

LEMMA HeapFilled ==
  ASSUME IInv, NEW v, HeapAfter(v),
         \A k \in Index : pt[HeapTable][k].present => pt'[HeapTable][k].present,
         pd_index(v) = HEAP_DIR => pt'[HeapTable][pt_index(v)].present
  PROVE  /\ heap_size' \in HEAP_PAGES .. MAX_HEAP
         /\ \A k \in 0 .. heap_size' - 1 : pt'[HeapTable][k].present
<1>1. /\ heap_size \in HEAP_PAGES .. MAX_HEAP /\ 0 .. heap_size - 1 \subseteq Index
      /\ \A k \in 0 .. heap_size - 1 : pt[HeapTable][k].present
  BY Sizes DEF IInv, Typed, HeapWindow, Index
<1>2. CASE heap_size' = heap_size
  BY Zenon, <1>1, <1>2
<1>3. CASE heap_size < MAX_HEAP /\ heap_size' = heap_size + 1 /\ v = HeapPage(heap_size)
  <2>1. heap_size \in 0 .. MAX_HEAP - 1
    BY <1>1, <1>3, Sizes
  <2>2. pd_index(v) = HEAP_DIR /\ pt_index(v) = heap_size
    BY Zenon, <1>3, <2>1, HeapIndexes
  <2>3. pt'[HeapTable][heap_size].present
    BY Zenon, <2>2
  <2>4. \A k \in 0 .. heap_size' - 1 : k = heap_size \/ k \in 0 .. heap_size - 1
    BY <1>1, <1>3, Sizes
  <2> QED
    BY <1>1, <1>3, <2>1, <2>3, <2>4, Sizes
<1> QED
  BY Zenon, <1>2, <1>3 DEF HeapAfter

LEMMA TablesSame ==
  ASSUME IInv, UNCHANGED <<pd, pt>>, free' \subseteq free
  PROVE  Apart' /\ Linked' /\ Window' /\ TablesPrivate'
<1>1. Apart'
  <2>1. \A t, y : Present(t, y)' <=> Present(t, y)
    BY Zenon DEF Present
  <2> QED
    BY Zenon, <2>1 DEF IInv, Apart
<1>2. Linked' /\ Window'
  BY Zenon DEF IInv, Linked, Window
<1>3. TablesPrivate'
  BY DEF IInv, TablesPrivate
<1> QED
  BY Zenon, <1>1, <1>2, <1>3

LEMMA MapStep ==
  ASSUME IInv, NEW v \in Page, IDENTITY <= pd_index(v),
         NEW phys \in free, NEW flags \in [write : BOOLEAN, user : BOOLEAN],
         paging_map_page(v, phys, flags, Without(free, phys)),
         UNCHANGED <<current, access>>, HeapAfter(v)
  PROVE  IInv' /\ OneChanges(v)
<1> DEFINE e == Entry(phys, flags)
           entry == pd[current][pd_index(v)]
           frames == Without(free, phys)
<1>1. /\ Typed /\ current \in DOMAIN pd /\ phys \in Nat /\ phys \in RAM
      /\ pd_index(v) \in Dir /\ pt_index(v) \in Index /\ TlbCoherent /\ HeapWindow
      /\ frames = free \ {phys}
  BY Zenon, Indexes, Sizes DEF IInv, Typed, Without
<1>2. e \in EntryType /\ e.present /\ e.addr = phys
  BY Zenon, <1>1 DEF Entry, EntryType
<1>3. CASE /\ entry.present
           /\ pt' = [pt EXCEPT ![entry.addr][pt_index(v)] = e]
           /\ invlpg(v) /\ free' = frames /\ UNCHANGED pd
  <2>1. entry.addr \in DOMAIN pt \ kernel_page_tables
    BY Zenon, <1>1, <1>3, TablesApart
  <2>2. /\ DOMAIN pt' = DOMAIN pt /\ pt' \in [DOMAIN pt -> [Index -> EntryType]]
        /\ Apart' /\ Linked' /\ Window' /\ TablesPrivate'
        /\ \A p \in DOMAIN pd : pd'[p][HEAP_DIR] = Entry(HeapTable, Kernel)
    BY ZenonT(30), <1>1, <1>2, <1>3, <2>1, PutKeeps
  <2>3. \A p \in DOMAIN pd, w \in Page : Walk(p, w)' # Walk(p, w)
          => w = v /\ pd'[p][pd_index(v)].addr = pd'[current][pd_index(v)].addr
    BY ZenonT(30), <1>3, PutChanges
  <2>4. TlbCoherent'
    <3>1. tlb' = [w \in DOMAIN tlb \ {v} |-> tlb[w]]
      BY <1>3 DEF invlpg
    <3>2. \A w \in DOMAIN tlb \ {v} : Walk(current, w)' = Walk(current, w)
                                      /\ pd'[current][pd_index(w)] = pd[current][pd_index(w)]
      BY Zenon, <1>1, <1>3, <2>3 DEF Typed
    <3> QED
      BY Zenon, <1>1, <3>1, <3>2, TlbKept
  <2>5. /\ \A k \in Index : pt[HeapTable][k].present => pt'[HeapTable][k].present
        /\ pd_index(v) = HEAP_DIR => pt'[HeapTable][pt_index(v)].present
    <3>1. pt \in [DOMAIN pt -> [Index -> EntryType]] /\ HeapTable \in DOMAIN pt
      BY Zenon, <1>1 DEF Typed, HeapWindow
    <3>2. pd_index(v) = HEAP_DIR => entry.addr = HeapTable
      <4>1. pd[current][HEAP_DIR] = Entry(HeapTable, Kernel) /\ HeapTable \in Nat
        BY ZenonT(30), <1>1, Sizes DEF HeapWindow
      <4> QED
        BY <4>1, Entries
    <3> QED
      BY Zenon, <1>1, <1>2, <1>3, <2>1, <3>1, <3>2
  <2>6. /\ heap_size' \in HEAP_PAGES .. MAX_HEAP
        /\ \A k \in 0 .. heap_size' - 1 : pt'[HeapTable][k].present
    BY Zenon, <2>5, HeapFilled
  <2>7. Typed'
    BY Zenon, <1>1, <1>3, <2>2, <2>6 DEF Typed, invlpg
  <2>8. HeapWindow'
    BY Zenon, <1>1, <1>3, <2>2, <2>6 DEF HeapWindow
  <2> QED
    BY Zenon, <2>2, <2>3, <2>4, <2>7, <2>8 DEF IInv, OneChanges
<1>4. CASE /\ ~ entry.present
           /\ \E table \in frames :
                /\ pmm_alloc_page(frames, table)
                /\ pt' = [t \in DOMAIN pt \cup {table} |->
                            IF t = table THEN NewTable(v, phys, flags) ELSE pt[t]]
                /\ pd' = [pd EXCEPT ![current][pd_index(v)] =
                                      Entry(table, [write |-> TRUE, user |-> flags.user])]
                /\ free' = Without(frames, table)
           /\ invlpg(v)
  <2>1. PICK table \in frames :
          /\ pt' = [t \in DOMAIN pt \cup {table} |->
                      IF t = table THEN NewTable(v, phys, flags) ELSE pt[t]]
          /\ pd' = [pd EXCEPT ![current][pd_index(v)] =
                                Entry(table, [write |-> TRUE, user |-> flags.user])]
          /\ free' = Without(frames, table)
    BY ZenonT(30), <1>4
  <2> DEFINE link == Entry(table, [write |-> TRUE, user |-> flags.user])
  <2>2. table \in free /\ table # phys /\ table \in Nat /\ free' = free \ {phys, table}
    BY Zenon, <1>1, <2>1, Sizes DEF Without, Typed
  <2>3. link \in EntryType /\ link.present /\ link.addr = table
    BY Zenon, <2>2 DEF Entry, EntryType
  <2>4. pt' = Added(table, v, e)
    BY Zenon, <2>1 DEF Added, NewTable
  <2>5. /\ DOMAIN pt' \subseteq kernel_page_tables \cup RAM
        /\ pt' \in [DOMAIN pt' -> [Index -> EntryType]]
        /\ DOMAIN pd' = DOMAIN pd /\ pd' \in [DOMAIN pd -> [Dir -> EntryType]]
        /\ Apart' /\ Linked' /\ Window' /\ TablesPrivate'
        /\ HeapTable \in DOMAIN pt' /\ pt'[HeapTable] = pt[HeapTable]
        /\ \A p \in DOMAIN pd : pd'[p][HEAP_DIR] = Entry(HeapTable, Kernel)
    <3>1. e.addr \in free \ ({table} \cup free') /\ free' \subseteq free \ {table}
      BY Zenon, <1>2, <2>2
    <3>2. pd' = [pd EXCEPT ![current][pd_index(v)] = link]
      BY Zenon, <2>1
    <3> HIDE DEF e, link
    <3> QED
      BY ZenonT(30), <1>2, <1>4, <2>2, <2>3, <2>4, <3>1, <3>2, AddKeeps
  <2>6. \A p \in DOMAIN pd, w \in Page :
          /\ Walk(p, w)' # Walk(p, w) => w = v /\ p = current
          /\ w # v => \/ Walk(p, w)' = Zero /\ Walk(p, w) = Zero
                      \/ /\ Walk(p, w)' = Walk(p, w)
                         /\ pd'[p][pd_index(w)] = pd[p][pd_index(w)]
    <3>1. pd' = [pd EXCEPT ![current][pd_index(v)] = link]
      BY Zenon, <2>1
    <3> HIDE DEF e, link
    <3> QED
      BY ZenonT(30), <1>4, <2>2, <2>3, <2>4, <3>1, AddChanges
  <2>7. TlbCoherent'
    <3>1. tlb' = [w \in DOMAIN tlb \ {v} |-> tlb[w]] /\ DOMAIN tlb \subseteq Page
      BY Zenon, <1>1, <1>4 DEF invlpg, Typed
    <3> QED
      BY <1>1, <2>6, <3>1, TlbKept
  <2>8. pd_index(v) # HEAP_DIR
    <3>1. pd[current][HEAP_DIR] = Entry(HeapTable, Kernel) /\ HeapTable \in Nat
      BY ZenonT(30), <1>1, Sizes DEF HeapWindow
    <3> QED
      BY <1>4, <3>1, Entries
  <2>9. /\ heap_size' \in HEAP_PAGES .. MAX_HEAP
        /\ \A k \in 0 .. heap_size' - 1 : pt'[HeapTable][k].present
    BY Zenon, <2>5, <2>8, HeapFilled
  <2>10. Typed'
    BY ZenonT(30), <1>1, <1>4, <2>2, <2>5, <2>9 DEF Typed, invlpg
  <2>11. HeapWindow'
    BY Zenon, <1>1, <2>5, <2>9 DEF HeapWindow
  <2> QED
    BY Zenon, <2>5, <2>6, <2>7, <2>10, <2>11 DEF IInv, OneChanges
<1>5. CASE /\ ~ entry.present /\ frames = {}
           /\ free' = frames
           /\ UNCHANGED <<pd, pt, tlb>>
  <2>1. pd_index(v) # HEAP_DIR
    <3>1. pd[current][HEAP_DIR] = Entry(HeapTable, Kernel) /\ HeapTable \in Nat
      BY ZenonT(30), <1>1, Sizes DEF HeapWindow
    <3> QED
      BY <1>5, <3>1, Entries
  <2>2. /\ heap_size' \in HEAP_PAGES .. MAX_HEAP
        /\ \A k \in 0 .. heap_size' - 1 : pt'[HeapTable][k].present
    BY Zenon, <1>5, <2>1, HeapFilled
  <2>3. Typed' /\ HeapWindow'
    BY Zenon, <1>1, <1>5, <2>2 DEF Typed, HeapWindow
  <2>4. Apart' /\ Linked' /\ Window' /\ TablesPrivate'
    BY Zenon, <1>1, <1>5, TablesSame
  <2>5. TlbCoherent'
    BY ZenonT(30), <1>5 DEF IInv, TlbCoherent, Translate, Walk
  <2>6. OneChanges(v)
    BY Zenon, <1>5 DEF OneChanges, Walk
  <2> QED
    BY Zenon, <2>3, <2>4, <2>5, <2>6 DEF IInv
<1> QED
  BY ZenonT(30), <1>3, <1>4, <1>5 DEF paging_map_page

LEMMA UnmapStep ==
  ASSUME IInv, NEW v \in UserPages, paging_unmap_page(v)
  PROVE  IInv' /\ OneChanges(v)
<1> DEFINE entry == pd[current][pd_index(v)]
<1>1. /\ Typed /\ TlbCoherent /\ HeapWindow /\ current \in DOMAIN pd
      /\ UNCHANGED <<pd, free, current, access, heap_size>>
      /\ v \in Page /\ IDENTITY <= pd_index(v) /\ pd_index(v) # HEAP_DIR
      /\ pd_index(v) \in Dir /\ pt_index(v) \in Index
  BY Zenon, UserIndexes, Indexes DEF IInv, Typed, paging_unmap_page
<1>2. CASE entry.present
  <2>1. pt' = [pt EXCEPT ![entry.addr][pt_index(v)] = Zero] /\ invlpg(v)
    BY Zenon, <1>2 DEF paging_unmap_page
  <2>2. entry.addr \in DOMAIN pt \ kernel_page_tables /\ entry.addr # HeapTable
    BY Zenon, <1>1, <1>2, TablesApart
  <2>3. /\ DOMAIN pt' = DOMAIN pt /\ pt' \in [DOMAIN pt -> [Index -> EntryType]]
        /\ Apart' /\ Linked' /\ Window' /\ TablesPrivate'
        /\ \A p \in DOMAIN pd : pd'[p][HEAP_DIR] = Entry(HeapTable, Kernel)
    BY ZenonT(30), <1>1, <2>1, <2>2, Entries, PutKeeps
  <2>4. \A p \in DOMAIN pd, w \in Page : Walk(p, w)' # Walk(p, w)
          => w = v /\ pd'[p][pd_index(v)].addr = pd'[current][pd_index(v)].addr
    BY ZenonT(30), <1>1, <1>2, <2>1, PutChanges
  <2>5. TlbCoherent'
    <3>1. tlb' = [w \in DOMAIN tlb \ {v} |-> tlb[w]]
      BY Zenon, <2>1 DEF invlpg
    <3>2. \A w \in DOMAIN tlb \ {v} : Walk(current, w)' = Walk(current, w)
                                      /\ pd'[current][pd_index(w)] = pd[current][pd_index(w)]
      BY Zenon, <1>1, <2>4 DEF Typed
    <3> QED
      BY Zenon, <1>1, <3>1, <3>2, TlbKept
  <2>6. Typed'
    BY Zenon, <1>1, <2>1, <2>3 DEF Typed, invlpg
  <2>7. HeapWindow'
    BY Zenon, <1>1, <2>1, <2>2, <2>3 DEF HeapWindow, Typed
  <2> QED
    BY Zenon, <2>3, <2>4, <2>5, <2>6, <2>7 DEF IInv, OneChanges
<1>3. CASE ~ entry.present
  <2>1. UNCHANGED <<pt, tlb>>
    BY Zenon, <1>3 DEF paging_unmap_page
  <2>2. Typed' /\ HeapWindow'
    BY Zenon, <1>1, <2>1 DEF Typed, HeapWindow
  <2>3. Apart' /\ Linked' /\ Window' /\ TablesPrivate'
    BY Zenon, <1>1, <2>1, TablesSame
  <2>4. TlbCoherent'
    BY ZenonT(30), <1>1, <2>1 DEF TlbCoherent, Translate, Walk
  <2>5. OneChanges(v)
    BY Zenon, <1>1, <2>1 DEF OneChanges, Walk
  <2> QED
    BY Zenon, <2>2, <2>3, <2>4, <2>5 DEF IInv
<1> QED
  BY Zenon, <1>2, <1>3

LEMMA CloneStep ==
  ASSUME IInv, paging_clone_pd
  PROVE  IInv' /\ \A p \in DOMAIN pd, v \in Page : Walk(p, v)' = Walk(p, v)
<1>1. PICK f \in free :
        /\ pd' = [p \in DOMAIN pd \cup {f} |-> IF p = f THEN pd[kernel_pd] ELSE pd[p]]
        /\ access' = [p \in DOMAIN access \cup {f} |-> IF p = f THEN None ELSE access[p]]
        /\ free' = free \ {f}
  BY Zenon DEF paging_clone_pd, cloned_pd, Without
<1>2. UNCHANGED <<pt, current, tlb, heap_size>>
  BY Zenon DEF paging_clone_pd
<1>3. /\ Typed /\ Apart /\ Linked /\ Window /\ HeapWindow /\ TablesPrivate /\ TlbCoherent
      /\ current \in DOMAIN pd /\ kernel_pd \in DOMAIN pd
  BY Zenon DEF IInv, Typed
<1>4. f \notin DOMAIN pd /\ f \notin DOMAIN pt /\ f \in RAM
  BY Zenon, <1>3 DEF Apart, Typed
<1>5. /\ DOMAIN pd' = DOMAIN pd \cup {f} /\ pd'[f] = pd[kernel_pd]
      /\ \A p \in DOMAIN pd : pd'[p] = pd[p]
  BY Zenon, <1>1, <1>4
<1>6. Typed'
  BY Zenon, <1>1, <1>2, <1>3, <1>4 DEF Typed
<1>7. Apart'
  <2>1. \A t, y : Present(t, y)' <=> Present(t, y)
    BY Zenon, <1>2 DEF Present
  <2>2. \A t, y : Present(t, y) => pt[t][y].addr # f
    BY <1>3 DEF Apart
  <2> QED
    BY <1>1, <1>2, <1>3, <1>4, <1>5, <2>1, <2>2 DEF Apart
<1>8. Linked' /\ Window' /\ HeapWindow'
  BY <1>2, <1>3, <1>5 DEF Linked, Window, HeapWindow
<1>9. TablesPrivate'
  <2> DEFINE Of(p) == IF p = f THEN kernel_pd ELSE p
  <2> SUFFICES ASSUME NEW p \in DOMAIN pd', NEW q \in DOMAIN pd', NEW x \in Dir, NEW y \in Dir,
                      pd'[p][x].present, pd'[q][y].present,
                      pd'[p][x].addr = pd'[q][y].addr, <<p, x>> # <<q, y>>
               PROVE  x = y /\ pd'[kernel_pd][x] = pd'[p][x]
    BY DEF TablesPrivate
  <2>1. /\ Of(p) \in DOMAIN pd /\ Of(q) \in DOMAIN pd /\ pd'[kernel_pd] = pd[kernel_pd]
        /\ pd'[p] = pd[Of(p)] /\ pd'[q] = pd[Of(q)]
    BY Zenon, <1>3, <1>5
  <2>2. CASE <<Of(p), x>> # <<Of(q), y>>
    BY <1>3, <2>1, <2>2 DEF TablesPrivate
  <2>3. CASE <<Of(p), x>> = <<Of(q), y>>
    <3>1. x = y /\ p # q /\ Of(p) = Of(q)
      BY Zenon, <2>3
    <3>2. Of(p) = kernel_pd
      BY Zenon, <3>1
    <3> QED
      BY Zenon, <2>1, <3>1, <3>2
  <2> QED
    BY Zenon, <2>2, <2>3
<1>10. \A p \in DOMAIN pd, v \in Page : Walk(p, v)' = Walk(p, v)
  BY Zenon, <1>2, <1>5 DEF Walk
<1>11. TlbCoherent'
  <2> SUFFICES ASSUME NEW v \in DOMAIN tlb PROVE tlb[v] = Translate(current, v)'
    BY Zenon, <1>2 DEF TlbCoherent
  <2>1. tlb[v] = Translate(current, v) /\ v \in Page
    BY Zenon, <1>3 DEF TlbCoherent, Typed
  <2>2. /\ Walk(current, v)' = Walk(current, v)
        /\ pd'[current'][pd_index(v)] = pd[current][pd_index(v)]
    BY Zenon, <1>2, <1>3, <1>5, <1>10, <2>1
  <2> QED
    BY <2>1, <2>2, Zenon DEF Translate
<1> QED
  BY Zenon, <1>6, <1>7, <1>8, <1>9, <1>10, <1>11 DEF IInv

\* Steps of the processor that write no table.
LEMMA CpuStep ==
  ASSUME IInv, UNCHANGED <<pd, pt, free, heap_size>>, current' \in DOMAIN pd,
         access' \in [DOMAIN pd -> Accesses \cup {None}],
         DOMAIN tlb' \subseteq Page,
         \A v \in DOMAIN tlb' : tlb'[v] = Translate(current', v)
  PROVE  IInv' /\ \A p \in DOMAIN pd, v \in Page : Walk(p, v)' = Walk(p, v)
<1>1. Typed' /\ HeapWindow'
  BY Zenon DEF IInv, Typed, HeapWindow
<1>2. Apart' /\ Linked' /\ Window' /\ TablesPrivate'
  BY Zenon, TablesSame
<1>3. \A p, v : Walk(p, v)' = Walk(p, v)
  BY Zenon DEF Walk
<1>4. TlbCoherent'
  <2> SUFFICES ASSUME NEW v \in DOMAIN tlb' PROVE tlb'[v] = Translate(current, v)'
    BY Zenon DEF TlbCoherent
  <2>1. tlb'[v] = Translate(current', v)
    BY Zenon
  <2> QED
    BY <2>1, Zenon DEF Translate, Walk
<1> QED
  BY Zenon, <1>1, <1>2, <1>3, <1>4 DEF IInv
-----------------------------------------------------------------------------
(* The invariant *)

LEMMA InitInv == Init => IInv
<1> SUFFICES ASSUME Init PROVE IInv
  BY Zenon
<1>1. /\ DOMAIN pt = kernel_page_tables \cup {HeapTable} /\ HeapTable \notin kernel_page_tables
      /\ \A t \in kernel_page_tables, y \in Index : pt[t][y] = Entry((t - 1) * ENTRIES + y, Kernel)
      /\ \A y \in Index : pt[HeapTable][y] = IF y < HEAP_PAGES THEN Entry(HeapFrame(y), Kernel)
                                             ELSE Zero
  BY Zenon, Sizes DEF Init
<1>2. /\ DOMAIN pd = {kernel_pd}
      /\ \A x \in Dir : pd[kernel_pd][x] = IF x < IDENTITY THEN Entry(x + 1, Kernel)
                                           ELSE IF x = HEAP_DIR THEN Entry(HeapTable, Kernel)
                                           ELSE Zero
  BY Zenon DEF Init
<1>3. free = {f \in RAM : f > HeapTable} /\ HeapTable \in RAM /\ RAM \subseteq Nat
  BY Zenon, Sizes DEF Init
<1>4. /\ \A t \in kernel_page_tables, y \in Index : (t - 1) * ENTRIES + y \in Nat
      /\ \A y \in Index : y < HEAP_PAGES => HeapFrame(y) \in RAM /\ HeapFrame(y) < HeapTable
      /\ \A x \in Dir : x + 1 \in Nat /\ (x < IDENTITY => x + 1 \in kernel_page_tables)
  <2>1. \A t \in kernel_page_tables : t - 1 \in Nat
    BY Sizes DEF kernel_page_tables
  <2>2. \A a, b \in Nat : a * b \in Nat
    OBVIOUS
  <2>3. \A y \in Index : y \in Nat
    BY Sizes DEF Index
  <2>4. \A t \in kernel_page_tables : (t - 1) * ENTRIES \in Nat
    BY Zenon, <2>1, <2>2, Sizes
  <2> QED
    BY <2>3, <2>4, Sizes DEF Dir, kernel_page_tables
<1>5. Typed
  <2>1. pt \in [DOMAIN pt -> [Index -> EntryType]]
    <3>1. \A t \in DOMAIN pt, y \in Index : pt[t][y] \in EntryType
      <4>0. Zero \in EntryType /\ \A a \in Nat : Entry(a, Kernel) \in EntryType
        BY Entries
      <4>1. \A t \in kernel_page_tables, y \in Index : pt[t][y] \in EntryType
        BY Zenon, <1>1, <1>4, <4>0
      <4>2. \A y \in Index : y < HEAP_PAGES => HeapFrame(y) \in Nat
        BY Zenon, <1>3, <1>4
      <4>3. \A y \in Index : pt[HeapTable][y] \in EntryType
        BY <1>1, <4>0, <4>2
      <4> QED
        BY Zenon, <1>1, <4>1, <4>3
    <3>2. /\ pt = [t \in DOMAIN pt |-> pt[t]]
          /\ \A t \in DOMAIN pt : pt[t] = [y \in Index |-> pt[t][y]]
      BY ZenonT(30) DEF Init
    <3> QED
      BY Zenon, <3>1, <3>2
  <2>2. pd \in [DOMAIN pd -> [Dir -> EntryType]]
    <3>1. \A x \in Dir : pd[kernel_pd][x] \in EntryType
      BY <1>2, <1>3, <1>4, Entries
    <3>2. pd = [p \in DOMAIN pd |-> pd[p]] /\ pd[kernel_pd] = [x \in Dir |-> pd[kernel_pd][x]]
      BY Zenon DEF Init
    <3> QED
      BY Zenon, <1>2, <3>1, <3>2
  <2>3. /\ current = kernel_pd /\ access \in [DOMAIN pd -> Accesses \cup {None}]
        /\ heap_size = HEAP_PAGES /\ DOMAIN tlb = {}
    BY Zenon, <1>2 DEF Init
  <2>4. HEAP_PAGES \in HEAP_PAGES .. MAX_HEAP
    BY PagingAssumption
  <2> QED
    BY Zenon, <1>1, <1>2, <1>3, <2>1, <2>2, <2>3, <2>4 DEF Typed
<1>6. Apart
  <2>1. \A t, y : Present(t, y) => /\ t = HeapTable /\ y \in Index /\ y < HEAP_PAGES
                                   /\ pt[t][y].addr = HeapFrame(y)
    <3>1. ASSUME NEW y \in Index, pt[HeapTable][y].present
          PROVE  y < HEAP_PAGES /\ pt[HeapTable][y].addr = HeapFrame(y)
      <4>1. y < HEAP_PAGES
        BY Zenon, <1>1, <3>1, Entries
      <4> QED
        BY ZenonT(30), <1>1, <1>3, <1>4, <4>1, Entries
    <3> QED
      BY Zenon, <1>1, <3>1 DEF Present
  <2>2. \A y, k \in Index : HeapFrame(y) = HeapFrame(k) => y = k
    BY Sizes DEF HeapFrame, Index, kernel_pd
  <2>3. ASSUME NEW t, NEW y, Present(t, y)
        PROVE  pt[t][y].addr \notin free \cup DOMAIN pd \cup DOMAIN pt
    <3>1. pt[t][y].addr \in RAM /\ pt[t][y].addr < HeapTable
      BY Zenon, <1>4, <2>1, <2>3
    <3>2. pt[t][y].addr \notin kernel_page_tables /\ pt[t][y].addr # kernel_pd
      BY Zenon, <3>1, Sizes
    <3>3. pt[t][y].addr \notin free /\ pt[t][y].addr # HeapTable
      <4>1. \A a \in RAM : a < HeapTable => a \notin free /\ a # HeapTable
        BY <1>3
      <4> QED
        BY Zenon, <3>1, <4>1
    <3> QED
      BY Zenon, <1>1, <1>2, <3>2, <3>3
  <2>4. ASSUME NEW t, NEW y, NEW u, NEW k,
               Present(t, y), Present(u, k), pt[t][y].addr = pt[u][k].addr
        PROVE  t = u /\ y = k
    BY <2>1, <2>2, <2>4
  <2>5. DOMAIN pd \cap DOMAIN pt = {} /\ free \cap (DOMAIN pd \cup DOMAIN pt) = {}
    BY <1>1, <1>2, <1>3, Sizes
  <2> QED
    BY Zenon, <2>3, <2>4, <2>5 DEF Apart
<1>7. Linked /\ TablesPrivate
  <2>1. \A x \in Dir : pd[kernel_pd][x].present =>
          \/ x < IDENTITY /\ pd[kernel_pd][x].addr = x + 1
          \/ x = HEAP_DIR /\ pd[kernel_pd][x].addr = HeapTable
    BY Zenon, <1>2, <1>3, <1>4, Entries
  <2>2. Linked
    BY Zenon, <1>1, <1>2, <1>4, <2>1 DEF Linked
  <2>3. ASSUME NEW x \in Dir, NEW y \in Dir,
               pd[kernel_pd][x].present, pd[kernel_pd][y].present,
               pd[kernel_pd][x].addr = pd[kernel_pd][y].addr
        PROVE  x = y
    <3>1. x + 1 # HeapTable \/ IDENTITY <= x
      BY <1>1, <1>4, Sizes DEF Dir
    <3>2. y + 1 # HeapTable \/ IDENTITY <= y
      BY <1>1, <1>4, Sizes DEF Dir
    <3> QED
      BY <2>1, <2>3, <3>1, <3>2, Sizes DEF Dir
  <2> QED
    BY Zenon, <1>2, <2>2, <2>3 DEF TablesPrivate
<1>8. Window
  BY <1>1, <1>2, Sizes DEF Window, Dir, HEAP_DIR
<1>9. HeapWindow
  <2>1. heap_size = HEAP_PAGES /\ 0 .. HEAP_PAGES - 1 \subseteq Index
    BY Sizes, PagingAssumption DEF Init, Index
  <2>2. ASSUME NEW k \in 0 .. HEAP_PAGES - 1
        PROVE  pt[HeapTable][k].present
    <3>1. k \in Index /\ k < HEAP_PAGES
      BY <2>1, Sizes
    <3>2. pt[HeapTable][k] = Entry(HeapFrame(k), Kernel) /\ HeapFrame(k) \in Nat
      BY ZenonT(30), <1>1, <1>3, <1>4, <3>1
    <3> QED
      BY Zenon, <3>2, Entries
  <2>3. pd[kernel_pd][HEAP_DIR] = Entry(HeapTable, Kernel)
    BY <1>2, Sizes DEF Dir
  <2> QED
    BY Zenon, <1>1, <1>2, <2>1, <2>2, <2>3 DEF HeapWindow
<1>10. TlbCoherent
  BY Zenon DEF TlbCoherent, Init
<1> QED
  BY Zenon, <1>5, <1>6, <1>7, <1>8, <1>9, <1>10 DEF IInv

LEMMA FaultStep ==
  ASSUME IInv, page_fault_handler
  PROVE  IInv' /\ ChangesOnePage
<1> DEFINE a == access[current]
<1>1. a # None /\ UNCHANGED <<current, access, heap_size>>
  BY Zenon DEF page_fault_handler
<1>2. Typed /\ a \in Accesses
  BY Zenon, <1>1 DEF IInv, Typed
<1>3. a.page \in UserPages /\ a.user \in BOOLEAN
  BY Zenon, <1>2, PagingAssumption
<1>4. CASE panic
  <2>1. UNCHANGED <<pd, pt, free, tlb>>
    BY Zenon, <1>4 DEF panic
  <2>2. /\ current' \in DOMAIN pd /\ access' \in [DOMAIN pd -> Accesses \cup {None}]
        /\ DOMAIN tlb' \subseteq Page /\ \A v \in DOMAIN tlb' : tlb'[v] = Translate(current', v)
    BY Zenon, <1>1, <2>1 DEF IInv, Typed, TlbCoherent
  <2> QED
    BY Zenon, <1>1, <2>1, <2>2, CpuStep DEF ChangesOnePage
<1>5. CASE \E f \in free : paging_map_page(a.page, f, [write |-> TRUE, user |-> a.user],
                                           Without(free, f))
  <2>1. PICK f \in free : paging_map_page(a.page, f, [write |-> TRUE, user |-> a.user],
                                          Without(free, f))
    BY Zenon, <1>5
  <2>2. a.page \in Page /\ IDENTITY <= pd_index(a.page) /\ HeapAfter(a.page)
    BY Zenon, <1>1, <1>3, UserIndexes DEF HeapAfter
  <2>3. [write |-> TRUE, user |-> a.user] \in [write : BOOLEAN, user : BOOLEAN]
    BY Zenon, <1>3
  <2>4. IInv' /\ OneChanges(a.page)
    BY ZenonT(30), <1>1, <2>1, <2>2, <2>3, MapStep
  <2> QED
    BY Zenon, <2>4 DEF OneChanges, ChangesOnePage
<1> QED
  BY ZenonT(30), <1>4, <1>5 DEF page_fault_handler

LEMMA StepInv ==
  ASSUME IInv, [Next]_vars
  PROVE  IInv' /\ (Next => ChangesOnePage)
<1>0. Typed /\ current \in DOMAIN pd /\ TlbCoherent
  BY Zenon DEF IInv, Typed
<1>1. ASSUME NEW a \in Accesses, Touch(a)
      PROVE  IInv' /\ ChangesOnePage
  <2>1. UNCHANGED <<pd, pt, free, current, tlb, heap_size>>
    BY Zenon, <1>1 DEF Touch
  <2>2. access' \in [DOMAIN pd -> Accesses \cup {None}]
    BY Zenon, <1>0, <1>1 DEF Touch, Typed
  <2>3. DOMAIN tlb' \subseteq Page /\ \A v \in DOMAIN tlb' : tlb'[v] = Translate(current', v)
    BY Zenon, <1>0, <2>1 DEF Typed, TlbCoherent
  <2> QED
    BY Zenon, <1>0, <2>1, <2>2, <2>3, CpuStep DEF ChangesOnePage
<1>2. ASSUME Succeed
      PROVE  IInv' /\ ChangesOnePage
  <2> DEFINE a == access[current]
  <2>1. /\ UNCHANGED <<pd, pt, free, current, heap_size>>
        /\ a # None
        /\ access' = [access EXCEPT ![current] = None]
        /\ tlb' = [v \in DOMAIN tlb \cup {a.page} |-> Cached(v)]
    BY Zenon, <1>2 DEF Succeed
  <2>2. access' \in [DOMAIN pd -> Accesses \cup {None}] /\ a \in Accesses
    BY Zenon, <1>0, <2>1 DEF Typed
  <2>3. a.page \in Page
    BY ZenonT(30), <2>2, PagingAssumption, UserIndexes
  <2>4. \A v : Cached(v) = Translate(current, v)
    BY Zenon, <1>0 DEF Cached, TlbCoherent
  <2>5. DOMAIN tlb' \subseteq Page /\ \A v \in DOMAIN tlb' : tlb'[v] = Translate(current', v)
    BY Zenon, <1>0, <2>1, <2>3, <2>4 DEF Typed
  <2> QED
    BY Zenon, <1>0, <2>1, <2>2, <2>5, CpuStep DEF ChangesOnePage
<1>3. ASSUME NEW v \in UserPages, paging_unmap_page(v)
      PROVE  IInv' /\ ChangesOnePage
  BY <1>3, UnmapStep DEF OneChanges, ChangesOnePage
<1>4. ASSUME NEW v \in UserPages, NEW write \in BOOLEAN, map_user_page(v, write)
      PROVE  IInv' /\ ChangesOnePage
  <2>1. PICK f \in free : paging_map_page(v, f, [write |-> write, user |-> TRUE], Without(free, f))
    BY Zenon, <1>4 DEF map_user_page
  <2>2. UNCHANGED <<current, access>> /\ HeapAfter(v)
    BY Zenon, <1>4 DEF map_user_page, HeapAfter
  <2>3. [write |-> write, user |-> TRUE] \in [write : BOOLEAN, user : BOOLEAN]
    BY Zenon
  <2>4. IInv' /\ OneChanges(v)
    BY ZenonT(30), <2>1, <2>2, <2>3, UserIndexes, MapStep
  <2> QED
    BY Zenon, <2>4 DEF OneChanges, ChangesOnePage
<1>5. ASSUME expand_heap
      PROVE  IInv' /\ ChangesOnePage
  <2> DEFINE v == HeapPage(heap_size)
  <2>1. PICK f \in free : paging_map_page(v, f, Kernel, Without(free, f))
    BY Zenon, <1>5 DEF expand_heap
  <2>2. /\ UNCHANGED <<current, access>> /\ HeapAfter(v)
        /\ heap_size \in 0 .. MAX_HEAP - 1
    BY <1>0, <1>5, Sizes DEF expand_heap, HeapAfter, Typed
  <2>3. Kernel \in [write : BOOLEAN, user : BOOLEAN]
    BY Zenon DEF Kernel
  <2>4. v \in Page /\ IDENTITY <= pd_index(v)
    BY <2>2, HeapIndexes, Sizes DEF Dir
  <2> HIDE DEF v
  <2>5. IInv' /\ OneChanges(v)
    BY Zenon, <2>1, <2>2, <2>3, <2>4, MapStep
  <2> QED
    BY Zenon, <2>5 DEF OneChanges, ChangesOnePage
<1>6. ASSUME paging_clone_pd
      PROVE  IInv' /\ ChangesOnePage
  BY Zenon, <1>6, CloneStep DEF ChangesOnePage
<1>7. ASSUME NEW p \in DOMAIN pd, paging_switch(p)
      PROVE  IInv' /\ ChangesOnePage
  <2>1. UNCHANGED <<pd, pt, free, access, heap_size>> /\ current' = p /\ DOMAIN tlb' = {}
    BY Zenon, <1>7 DEF paging_switch
  <2>2. access' \in [DOMAIN pd -> Accesses \cup {None}]
    BY Zenon, <1>0, <2>1 DEF Typed
  <2> QED
    BY Zenon, <2>1, <2>2, CpuStep DEF ChangesOnePage
<1>8. CASE UNCHANGED vars
  <2>1. UNCHANGED <<pd, pt, free, current, tlb, access, heap_size>>
    BY Zenon, <1>8 DEF vars
  <2>2. /\ access' \in [DOMAIN pd -> Accesses \cup {None}] /\ DOMAIN tlb' \subseteq Page
        /\ \A v \in DOMAIN tlb' : tlb'[v] = Translate(current', v)
    BY Zenon, <1>0, <2>1 DEF Typed, TlbCoherent
  <2> QED
    BY Zenon, <1>0, <2>1, <2>2, CpuStep DEF ChangesOnePage
<1> QED
  BY Zenon, <1>1, <1>2, <1>3, <1>4, <1>5, <1>6, <1>7, <1>8, FaultStep DEF Next, Cpu

LEMMA Invariant == Spec => []IInv
  BY InitInv, StepInv, PTL DEF Spec

(* Whatever is mapped, unmapped, cloned or faulted in, no frame is put to  *)
(* two uses by paging.c, for any amount of RAM.                            *)
THEOREM FramesNeverShared == Spec => []FramesExclusive
<1>1. IInv => FramesExclusive
  BY Zenon, ExclusiveIsApart DEF IInv
<1> QED
  BY <1>1, Invariant, PTL

(* The kernel finds all of RAM and all of its heap in every address space, *)
(* however many were cloned and however far the heap has grown since, up   *)
(* to the end of the heap's page table.                                    *)
THEOREM KernelAlwaysMapped == Spec => []KernelMappedEverywhere
<1>1. IInv => KernelMappedEverywhere
  <2> SUFFICES ASSUME IInv, NEW p \in DOMAIN pd
               PROVE  /\ \A f \in RAM : Walk(p, f) = Entry(f, Kernel)
                      /\ \A k \in 0 .. heap_size - 1 :
                           /\ Walk(p, HeapPage(k)).present
                           /\ Walk(p, HeapPage(k)) = Walk(kernel_pd, HeapPage(k))
    BY Zenon DEF KernelMappedEverywhere
  <2>1. ASSUME NEW f \in RAM PROVE Walk(p, f) = Entry(f, Kernel)
    <3>1. /\ pd_index(f) \in 0 .. IDENTITY - 1 /\ pt_index(f) \in Index
          /\ f = pd_index(f) * ENTRIES + pt_index(f)
      BY Zenon, RamIndexes
    <3>2. /\ pd[p][pd_index(f)] = Entry(pd_index(f) + 1, Kernel)
          /\ pd_index(f) + 1 \in Nat /\ pd_index(f) + 1 \in kernel_page_tables
          /\ (pd_index(f) + 1) - 1 = pd_index(f)
      BY <3>1, Sizes DEF IInv, Window, kernel_page_tables
    <3>3. pd[p][pd_index(f)].present /\ pd[p][pd_index(f)].addr = pd_index(f) + 1
      BY Zenon, <3>2, Entries
    <3>4. pt[pd_index(f) + 1][pt_index(f)] = Entry(f, Kernel)
      BY <3>1, <3>2 DEF IInv, Window
    <3> QED
      BY Zenon, <3>3, <3>4 DEF Walk
  <2>2. ASSUME NEW q \in DOMAIN pd, NEW k \in 0 .. heap_size - 1
        PROVE  Walk(q, HeapPage(k)) = pt[HeapTable][k]
    <3>1. k \in 0 .. MAX_HEAP - 1
      BY <2>2, Sizes DEF IInv, Typed
    <3>2. pd_index(HeapPage(k)) = HEAP_DIR /\ pt_index(HeapPage(k)) = k
      BY Zenon, <3>1, HeapIndexes
    <3>3. pd[q][HEAP_DIR] = Entry(HeapTable, Kernel) /\ HeapTable \in Nat
      BY ZenonT(30), <2>2, Sizes DEF IInv, HeapWindow
    <3>4. pd[q][HEAP_DIR].present /\ pd[q][HEAP_DIR].addr = HeapTable
      BY Zenon, <3>3, Entries
    <3> QED
      BY Zenon, <3>2, <3>4 DEF Walk
  <2>3. kernel_pd \in DOMAIN pd /\ \A k \in 0 .. heap_size - 1 : pt[HeapTable][k].present
    BY Zenon DEF IInv, Typed, HeapWindow
  <2> QED
    BY Zenon, <2>1, <2>2, <2>3
<1> QED
  BY <1>1, Invariant, PTL

(* Two address spaces share a page table only through kernel_pd: what      *)
(* paging_map_page adds to one stays out of the others.                    *)
THEOREM TablesStayPrivate == Spec => []TablesPrivate
<1>1. IInv => TablesPrivate
  BY Zenon DEF IInv
<1> QED
  BY <1>1, Invariant, PTL

(* Every translation in the TLB is what the tables of the current address  *)
(* space say: the code flushes all that it has to.                         *)
THEOREM TlbNeverStale == Spec => []TlbCoherent
<1>1. IInv => TlbCoherent
  BY Zenon DEF IInv
<1> QED
  BY <1>1, Invariant, PTL

(* Every step changes the translation of at most one page, and in another  *)
(* address space only through a shared table.                              *)
THEOREM OnePageAtATime == Spec => OnePageChanges
<1>1. IInv /\ [Next]_vars => [ChangesOnePage]_vars
  BY Zenon, StepInv
<1> QED
  BY <1>1, Invariant, PTL DEF Spec, OnePageChanges
-----------------------------------------------------------------------------
(* Loading a program *)

Reading == {"start", "alloc", "headers"}
Loading == {"segment", "pages", "stack", "user"}

ElfTyped ==
  /\ phase \in Reading \cup Loading \cup {"failed", "panic"}
  /\ prog \in Programs
  /\ used \in 0..FRAMES
  /\ map \in [UserPage -> 0..used]
  /\ i \in Nat \ {0} /\ j \in Nat

(* Every page has a frame of its own, and the page table it needs.         *)
Exclusive ==
  /\ \A v, w \in UserPage : map[v] = map[w] /\ map[v] # Unmapped => v = w
  /\ \A v \in UserPage : map[v] # Unmapped => Region(v) \in tables

(* Where the loops are.                                                    *)
Loops ==
  /\ phase \in Reading => i = 1
  /\ phase = "pages" => i \in Loads /\ j >= page_start(Header_i)
  /\ phase \in {"stack", "user"} => i > Len(prog.phdrs)

(* A page of the stack that got no frame for its table took the last one,  *)
(* so the next fails.                                                      *)
StackMapped ==
  /\ phase = "stack" => /\ j \in 0..STACK_PAGES
                        /\ j = 1 => map[PAGES] # Unmapped \/ used = FRAMES
                        /\ j = 2 => \A v \in Stack : map[v] # Unmapped
  /\ phase = "user" => \A v \in Stack : map[v] # Unmapped

(* The memory of the caller is replaced only after the last check of the   *)
(* file; and the headers are on the heap only between two steps of the     *)
(* loader.                                                                 *)
CallerKept ==
  /\ phase \in Reading => before = <<map, mem>>
  /\ phase = "failed" => before = <<map, mem>> \/ used = FRAMES
  /\ phase \in {"start", "alloc", "stack", "failed", "user"} => pheaders = FALSE

(* The segments loaded so far are as the file has them.                    *)
LinkedAt(k) ==
  LET h == prog.phdrs[k]
  IN \A a \in h.vaddr .. h.vaddr + h.memsz - 1 : At(a) = Loaded(h, a, h.filesz)
LinkedSoFar ==
  phase \in Loading /\ PagesApart /\ complete => \A k \in Loads : k < i => LinkedAt(k)

ElfInv == ElfTyped /\ Exclusive /\ Loops /\ StackMapped /\ CallerKept /\ LinkedSoFar
-----------------------------------------------------------------------------
(* Pages and addresses *)

LEMMA ElfSizes == PAGE_SIZE \in Nat \ {0} /\ PAGES \in Nat /\ FRAMES \in Nat
  BY Zenon, ElfAssumption

\* Rows of d: the row of a, and the rows before it.
LEMMA Rows ==
  ASSUME NEW q \in Nat, NEW p \in Nat, NEW d \in Nat \ {0}
  PROVE  q < p => q * d + d <= p * d
<1>1. ASSUME q < p PROVE q * d + d <= p * d
  <2>1. (q + 1) * d <= p * d
    BY <1>1
  <2>2. (q + 1) * d = q * d + d
    OBVIOUS
  <2> QED
    BY Zenon, <2>1, <2>2
<1> QED
  BY Zenon, <1>1

\* The page and the place in it determine the address.
LEMMA OneRow ==
  ASSUME NEW v \in Nat, NEW d \in Nat \ {0}, NEW k \in 0 .. d - 1,
         NEW q \in Nat, NEW r \in 0 .. d - 1, v * d + k = q * d + r
  PROVE  v = q /\ k = r
<1>1. v * d \in Nat /\ q * d \in Nat
  OBVIOUS
<1>2. ~ (v < q)
  BY <1>1, Rows
<1>3. ~ (q < v)
  BY <1>1, Rows
<1>4. v = q
  BY <1>2, <1>3
<1> QED
  BY <1>1, <1>4

LEMMA HeaderType ==
  ASSUME prog \in Programs, NEW k \in DOMAIN prog.phdrs
  PROVE  LET h == prog.phdrs[k]
         IN /\ h \in ProgramHeader
            /\ h.vaddr \in Nat /\ h.memsz \in Nat /\ h.filesz \in Nat /\ h.offset \in Nat
            /\ h.filesz <= h.memsz
            /\ h.vaddr + h.memsz <= PAGES * PAGE_SIZE
<1>1. prog.phdrs \in Seq(ProgramHeader)
  BY Zenon, ElfAssumption
<1>2. prog.phdrs[k] \in ProgramHeader
  BY <1>1
<1> QED
  BY Zenon, <1>2, ElfAssumption DEF ProgramHeader

(* The pages that elf_exec maps for a segment are those its bytes lie in,  *)
(* and belong to the image.                                                *)
LEMMA SegmentPages ==
  ASSUME NEW h \in ProgramHeader, h.vaddr + h.memsz <= PAGES * PAGE_SIZE
  PROVE  /\ page_start(h) \in Nat /\ page_end(h) \in Nat /\ page_end(h) <= PAGES
         /\ \A v \in Nat : \A k \in 0 .. PAGE_SIZE - 1 :
              v * PAGE_SIZE + k \in h.vaddr .. h.vaddr + h.memsz - 1
              => v \in PagesOf(h) /\ v \in Image
<1> DEFINE d  == PAGE_SIZE
           e  == h.vaddr + h.memsz
           m  == e + d - 1
           q1 == h.vaddr \div d
           r1 == h.vaddr % d
           q2 == m \div d
           r2 == m % d
<1>1. /\ d \in Nat \ {0} /\ h.vaddr \in Nat /\ h.memsz \in Nat /\ e \in Nat /\ m \in Nat
      /\ PAGES \in Nat
  BY ElfSizes DEF ProgramHeader
<1>2. page_start(h) = q1 /\ page_end(h) = q2
  BY Zenon DEF page_start, page_end
<1>3. /\ q1 \in Nat /\ r1 \in 0 .. d - 1 /\ h.vaddr = q1 * d + r1
  BY <1>1, Division, ZenonT(30)
<1>4. /\ q2 \in Nat /\ r2 \in 0 .. d - 1 /\ m = q2 * d + r2
  BY <1>1, Division, ZenonT(30)
<1> HIDE DEF q1, r1, q2, r2, d
<1>5. q1 * d \in Nat /\ q2 * d \in Nat /\ PAGES * d \in Nat
  BY <1>1, <1>3, <1>4
<1>6. q2 <= PAGES
  <2>1. PAGES < q2 => PAGES * d + d <= q2 * d
    BY Zenon, <1>1, <1>4, Rows
  <2>2. e <= PAGES * d
    BY Zenon DEF d
  <2> QED
    BY <1>1, <1>4, <1>5, <2>1, <2>2
<1>7. ASSUME NEW v \in Nat, NEW k \in 0 .. d - 1, v * d + k \in h.vaddr .. e - 1
      PROVE  v \in q1 .. q2 - 1
  <2>1. v * d \in Nat
    BY <1>1
  <2>2. v < q1 => v * d + d <= q1 * d
    BY Zenon, <1>1, <1>3, Rows
  <2>3. q2 <= v => q2 * d <= v * d
    <3>1. q2 < v => q2 * d + d <= v * d
      BY Zenon, <1>1, <1>4, Rows
    <3> QED
      BY <1>1, <1>4, <1>5, <2>1, <3>1
  <2>4. ~ (v < q1)
    BY <1>1, <1>3, <1>5, <1>7, <2>1, <2>2
  <2>5. ~ (q2 <= v)
    BY <1>1, <1>4, <1>5, <1>7, <2>1, <2>3
  <2> QED
    BY <1>3, <1>4, <2>4, <2>5
<1>8. \A v \in Nat : v \in q1 .. q2 - 1 => v \in Image
  BY <1>1, <1>3, <1>4, <1>6 DEF Image
<1>9. \A v \in Nat : \A k \in 0 .. PAGE_SIZE - 1 :
        v * PAGE_SIZE + k \in h.vaddr .. e - 1 => v \in q1 .. q2 - 1
  BY <1>7, Zenon DEF d
<1>e. e - 1 = h.vaddr + h.memsz - 1
  BY <1>1
<1> HIDE DEF e
<1>10. \A v \in Nat : \A k \in 0 .. PAGE_SIZE - 1 :
        v * PAGE_SIZE + k \in h.vaddr .. e - 1 => v \in PagesOf(h) /\ v \in Image
  BY <1>2, <1>8, <1>9, Zenon DEF PagesOf
<1>11. page_start(h) \in Nat /\ page_end(h) \in Nat /\ page_end(h) <= PAGES
  BY Zenon, <1>2, <1>3, <1>4, <1>6
<1> QED
  BY <1>e, <1>10, <1>11, Zenon

LEMMA Address ==
  ASSUME prog \in Programs, NEW k \in DOMAIN prog.phdrs,
         NEW a \in prog.phdrs[k].vaddr .. prog.phdrs[k].vaddr + prog.phdrs[k].memsz - 1
  PROVE  /\ a \div PAGE_SIZE \in PagesOf(prog.phdrs[k]) /\ a \div PAGE_SIZE \in Image
         /\ a % PAGE_SIZE \in 0 .. PAGE_SIZE - 1
         /\ a = (a \div PAGE_SIZE) * PAGE_SIZE + (a % PAGE_SIZE)
<1> DEFINE h == prog.phdrs[k]
<1>1. /\ h \in ProgramHeader /\ h.vaddr \in Nat /\ h.memsz \in Nat
      /\ h.vaddr + h.memsz <= PAGES * PAGE_SIZE
  BY Zenon, HeaderType
<1>2. a \in h.vaddr .. h.vaddr + h.memsz - 1
  BY Zenon
<1> HIDE DEF h
<1>3. a \in Nat
  BY <1>1, <1>2
<1>4. /\ a \div PAGE_SIZE \in Nat /\ a % PAGE_SIZE \in 0 .. PAGE_SIZE - 1
      /\ a = (a \div PAGE_SIZE) * PAGE_SIZE + (a % PAGE_SIZE)
  BY <1>3, ElfSizes, Division, Zenon
<1>5. a \div PAGE_SIZE \in PagesOf(h) /\ a \div PAGE_SIZE \in Image
  <2> DEFINE q == a \div PAGE_SIZE
             r == a % PAGE_SIZE
  <2>1. q \in Nat /\ r \in 0 .. PAGE_SIZE - 1
        /\ q * PAGE_SIZE + r \in h.vaddr .. h.vaddr + h.memsz - 1
    BY <1>2, <1>4, Zenon
  <2> HIDE DEF q, r
  <2>2. q \in PagesOf(h) /\ q \in Image
    BY <1>1, <2>1, SegmentPages, Zenon
  <2> QED
    BY Zenon, <2>2 DEF q
<1> QED
  BY Zenon, <1>4, <1>5 DEF h

(* Mapping pages that a segment does not have leaves it as it is.          *)
LEMMA LinkedStays ==
  ASSUME prog \in Programs, NEW k \in DOMAIN prog.phdrs, LinkedAt(k), prog' = prog, mem' = mem,
         \A w \in Image : w \in PagesOf(prog.phdrs[k]) => map'[w] = map[w]
  PROVE  LinkedAt(k)'
<1> SUFFICES ASSUME NEW a \in prog.phdrs[k].vaddr ..
                              prog.phdrs[k].vaddr + prog.phdrs[k].memsz - 1
             PROVE  At(a)' = At(a)
  BY Zenon DEF LinkedAt, Loaded
<1>1. map'[a \div PAGE_SIZE] = map[a \div PAGE_SIZE]
  BY Address, Zenon
<1> QED
  BY <1>1, Zenon DEF At
-----------------------------------------------------------------------------
(* Mapping a page *)

LEMMA MapFreshStep ==
  ASSUME ElfTyped, Exclusive, NEW v \in UserPage, MapFresh(v)
  PROVE  /\ used' \in 0..FRAMES /\ map' \in [UserPage -> 0..used']
         /\ \A w \in UserPage \ {v} : map'[w] = map[w]
         /\ map'[v] # Unmapped \/ used' = FRAMES
         /\ Region(v) \in tables => map'[v] # Unmapped
         /\ Exclusive'
         /\ UNCHANGED <<mem, prog, before, complete>>
<1>1. /\ used \in Nat /\ FRAMES \in Nat /\ used < FRAMES /\ map \in [UserPage -> 0..used]
      /\ UNCHANGED <<mem, prog, before, complete>>
  BY ElfSizes DEF ElfTyped, MapFresh
<1>2. CASE map' = [map EXCEPT ![v] = used + 1]
  <2>1. /\ used' \in 0..FRAMES /\ used + 1 <= used'
        /\ tables' = tables \cup {Region(v)}
    BY <1>1, <1>2 DEF MapFresh
  <2>2. /\ map' \in [UserPage -> 0..used'] /\ map'[v] = used + 1
        /\ \A w \in UserPage \ {v} : map'[w] = map[w] /\ map'[w] # used + 1
    BY <1>1, <1>2, <2>1
  <2>3. map'[v] # Unmapped
    BY <1>1, <2>2 DEF Unmapped
  <2>4. Exclusive'
    <3>1. \A w \in UserPage : Region(w)' = Region(w)
      BY Zenon DEF Region
    <3>2. \A x, w \in UserPage : map'[x] = map'[w] /\ map'[x] # Unmapped => x = w
      BY Zenon, <2>2 DEF Exclusive
    <3>3. \A w \in UserPage : map'[w] # Unmapped => Region(w) \in tables'
      BY Zenon, <2>1, <2>2 DEF Exclusive
    <3> QED
      BY Zenon, <3>1, <3>2, <3>3 DEF Exclusive
  <2> QED
    BY Zenon, <1>1, <2>1, <2>2, <2>3, <2>4
<1>3. CASE map' = map /\ Region(v) \notin tables /\ used' = FRAMES /\ tables' = tables
  <2>1. map' \in [UserPage -> 0..used'] /\ used' \in 0..FRAMES
    BY <1>1, <1>3
  <2>2. Exclusive'
    BY Zenon, <1>3 DEF Exclusive, Region
  <2> QED
    BY Zenon, <1>1, <1>3, <2>1, <2>2
<1>4. \/ map' = [map EXCEPT ![v] = used + 1]
      \/ map' = map /\ Region(v) \notin tables /\ used' = FRAMES /\ tables' = tables
  BY <1>1 DEF MapFresh
<1> QED
  BY Zenon, <1>2, <1>3, <1>4
-----------------------------------------------------------------------------
(* Reading a segment *)

(* Each place of a mapped page gets the byte of the segment that belongs   *)
(* there, or keeps what it had: no other page shares the frame.            *)
LEMMA Stored ==
  ASSUME ElfTyped, Exclusive, NEW h, NEW n, Store(h, n),
         NEW v \in Image, map[v] # Unmapped, NEW k \in 0 .. PAGE_SIZE - 1
  PROVE  mem'[map[v]][k] = IF Written(h, v * PAGE_SIZE + k - h.vaddr, n)
                           THEN Loaded(h, v * PAGE_SIZE + k, n) ELSE mem[map[v]][k]
<1> DEFINE hit == {w \in Image : map[w] = map[v] /\ Written(h, w * PAGE_SIZE + k - h.vaddr, n)}
<1>1. v \in UserPage /\ \A w \in Image : w \in UserPage
  BY Zenon DEF UserPage
<1>2. map[v] \in Frame
  BY <1>1, ElfSizes DEF ElfTyped, Frame, Unmapped
<1>3. \A w \in hit : w = v
  BY Zenon, <1>1 DEF Exclusive
<1>4. mem'[map[v]][k] = IF hit = {} THEN mem[map[v]][k]
                        ELSE Loaded(h, (CHOOSE w \in hit : TRUE) * PAGE_SIZE + k, n)
  BY <1>2, Zenon DEF Store
<1>5. v \in hit <=> Written(h, v * PAGE_SIZE + k - h.vaddr, n)
  BY Zenon
<1> HIDE DEF hit
<1>6. hit # {} => v \in hit /\ (CHOOSE w \in hit : TRUE) = v
  BY Zenon, <1>3
<1> QED
  BY <1>4, <1>5, <1>6, Zenon

(* The bytes of a segment that elf_exec writes lie in its pages.           *)
LEMMA WrittenInside ==
  ASSUME NEW h \in ProgramHeader, h.filesz <= h.memsz, NEW n \in 0..h.filesz,
         h.vaddr + h.memsz <= PAGES * PAGE_SIZE,
         NEW v \in Image, NEW k \in 0 .. PAGE_SIZE - 1,
         Written(h, v * PAGE_SIZE + k - h.vaddr, n)
  PROVE  v \in PagesOf(h)
<1>1. /\ h.vaddr \in Nat /\ h.memsz \in Nat /\ h.filesz \in Nat /\ v \in Nat
      /\ PAGE_SIZE \in Nat /\ k \in Nat
  BY ElfSizes DEF ProgramHeader, Image
<1> DEFINE a == v * PAGE_SIZE + k
<1>2. a \in Nat
  BY <1>1
<1>3. a - h.vaddr \in 0 .. h.memsz - 1
  <2>1. a - h.vaddr = v * PAGE_SIZE + k - h.vaddr
    BY <1>1
  <2>2. Written(h, a - h.vaddr, n)
    BY <2>1, Zenon
  <2> HIDE DEF a
  <2> QED
    BY <1>1, <1>2, <2>2 DEF Written
<1>4. a \in h.vaddr .. h.vaddr + h.memsz - 1
  <2> HIDE DEF a
  <2> QED
    BY <1>1, <1>2, <1>3
<1> QED
  BY <1>1, <1>4, SegmentPages, Zenon

(* Another segment, on pages of its own, stays as it is.                   *)
LEMMA StoreKeeps ==
  ASSUME ElfTyped, Exclusive, PagesApart, NEW k \in Loads, NEW l \in Loads, k # l,
         NEW n \in 0..prog.phdrs[l].filesz, Store(prog.phdrs[l], n),
         map' = map, prog' = prog, LinkedAt(k)
  PROVE  LinkedAt(k)'
<1> DEFINE g == prog.phdrs[k]
           h == prog.phdrs[l]
<1>1. prog \in Programs /\ k \in DOMAIN prog.phdrs /\ l \in DOMAIN prog.phdrs
  BY Zenon DEF ElfTyped, Loads
<1>2. /\ h \in ProgramHeader /\ h.filesz <= h.memsz
      /\ h.vaddr + h.memsz <= PAGES * PAGE_SIZE
  BY Zenon, <1>1, HeaderType
<1>3. PagesOf(g) \cap PagesOf(h) = {}
  BY Zenon DEF PagesApart
<1> SUFFICES ASSUME NEW a \in g.vaddr .. g.vaddr + g.memsz - 1
             PROVE  At(a)' = At(a)
  BY Zenon DEF LinkedAt, Loaded
<1> DEFINE v == a \div PAGE_SIZE
           r == a % PAGE_SIZE
<1>4. v \in PagesOf(g) /\ v \in Image /\ r \in 0 .. PAGE_SIZE - 1
  BY <1>1, Address, Zenon
<1> HIDE DEF g, h, v, r
<1>5. ~ Written(h, v * PAGE_SIZE + r - h.vaddr, n)
  BY Zenon, <1>2, <1>3, <1>4, WrittenInside DEF h
<1>6. map[v] # Unmapped => mem'[map[v]][r] = mem[map[v]][r]
  BY <1>4, <1>5, Stored, Zenon DEF h
<1> QED
  BY <1>6, Zenon DEF At, v, r

(* A segment that was read completely is as the file has it.               *)
LEMMA StoreLinks ==
  ASSUME ElfTyped, Exclusive, NEW l \in Loads,
         NEW n, n = prog.phdrs[l].filesz, Store(prog.phdrs[l], n),
         \A v \in Touched(prog.phdrs[l], n) : map[v] # Unmapped,
         map' = map, prog' = prog
  PROVE  LinkedAt(l)'
<1> DEFINE h == prog.phdrs[l]
<1>1. prog \in Programs /\ l \in DOMAIN prog.phdrs
  BY Zenon DEF ElfTyped, Loads
<1>2. /\ h.vaddr \in Nat /\ h.memsz \in Nat /\ h.filesz \in Nat
  BY Zenon, <1>1, HeaderType
<1> SUFFICES ASSUME NEW a \in h.vaddr .. h.vaddr + h.memsz - 1
             PROVE  At(a)' = Loaded(h, a, n)
  BY Zenon DEF LinkedAt
<1> DEFINE v == a \div PAGE_SIZE
           r == a % PAGE_SIZE
<1>3. v \in Image /\ r \in 0 .. PAGE_SIZE - 1 /\ a = v * PAGE_SIZE + r
  BY <1>1, Address, Zenon
<1>4. a \in h.vaddr .. h.vaddr + h.memsz - 1 /\ n = h.filesz
  BY Zenon
<1>5. Written(h, a - h.vaddr, n)
  <2> HIDE DEF h, v, r
  <2> QED
    BY <1>2, <1>4 DEF Written
<1> HIDE DEF v, r
<1>6. Written(h, v * PAGE_SIZE + r - h.vaddr, n)
  <2>1. v \in Nat /\ PAGE_SIZE \in Nat
    BY <1>3, ElfSizes DEF Image
  <2>2. a - h.vaddr = v * PAGE_SIZE + r - h.vaddr
    <3> HIDE DEF h
    <3> QED
      BY <1>2, <1>3, <2>1
  <2> QED
    BY <1>5, <2>2, Zenon
<1>7. map[v] # Unmapped
  BY <1>3, <1>6, Zenon DEF Touched
<1>8. mem'[map[v]][r] = Loaded(h, v * PAGE_SIZE + r, n)
  BY <1>3, <1>6, <1>7, Stored, Zenon
<1>9. mem'[map[v]][r] = Loaded(h, a, n)
  BY <1>3, <1>8, Zenon
<1> QED
  BY <1>7, <1>9, Zenon DEF At, v, r
-----------------------------------------------------------------------------
(* The steps *)

LEMMA ElfInitInv == ElfInit => ElfInv
<1> SUFFICES ASSUME ElfInit PROVE ElfInv
  BY Zenon
<1>1. ElfTyped
  BY ElfSizes DEF ElfInit, ElfTyped, Reading, Unmapped
<1>2. Exclusive /\ StackMapped
  BY Zenon DEF ElfInit, Exclusive, StackMapped
<1>3. Loops /\ CallerKept
  BY Zenon DEF ElfInit, Loops, CallerKept
<1>4. LinkedSoFar
  BY Zenon DEF ElfInit, LinkedSoFar, Loading
<1> QED
  BY Zenon, <1>1, <1>2, <1>3, <1>4 DEF ElfInv

(* A step that leaves the memory and the frames alone.                     *)
LEMMA SameMemory ==
  ASSUME ElfInv, UNCHANGED <<prog, map, tables, mem, used, before, complete>>,
         i' \in Nat \ {0}, j' \in Nat,
         phase' \in Reading \cup Loading \cup {"failed", "panic"}
  PROVE  /\ ElfTyped' /\ Exclusive'
         /\ PagesApart' = PagesApart /\ Loads' = Loads
         /\ \A k \in Loads : LinkedAt(k)' = LinkedAt(k)
<1>1. ElfTyped'
  BY Zenon DEF ElfInv, ElfTyped
<1>2. Exclusive'
  BY Zenon DEF ElfInv, Exclusive, Region
<1>3. PagesApart' = PagesApart /\ Loads' = Loads
  BY DEF PagesApart, Loads, PagesOf, page_start, page_end
<1>4. \A k \in Loads : LinkedAt(k)' = LinkedAt(k)
  BY ZenonT(30) DEF LinkedAt, At, Loaded
<1> QED
  BY <1>1, <1>2, <1>3, <1>4

LEMMA HeaderSteps ==
  ASSUME ElfInv, Header \/ AllocHeaders \/ ReadHeaders
  PROVE  ElfInv'
<1>1. /\ UNCHANGED <<prog, map, tables, mem, used, before, complete>>
      /\ i' = i /\ j' = j /\ phase \in Reading
      /\ phase' \in {"alloc", "headers", "segment", "failed"}
  BY Zenon DEF Header, AllocHeaders, ReadHeaders, Fail, Unread, Reading
<1>2. i = 1 /\ i \in Nat \ {0} /\ j \in Nat /\ before = <<map, mem>>
  BY Zenon, <1>1 DEF ElfInv, ElfTyped, Loops, CallerKept
<1>3. ElfTyped' /\ Exclusive' /\ Loads' = Loads
  BY Zenon, <1>1, <1>2, SameMemory DEF Reading, Loading
<1>4. Loops' /\ StackMapped'
  BY Zenon, <1>1, <1>2 DEF Loops, StackMapped
<1>5. CallerKept'
  <2>1. phase' \in {"alloc", "failed"} => pheaders' = FALSE
    BY Zenon DEF Header, AllocHeaders, ReadHeaders, Fail, ElfInv, CallerKept
  <2> QED
    BY Zenon, <1>1, <1>2, <2>1 DEF CallerKept
<1>6. LinkedSoFar'
  <2>1. \A k \in Loads : ~ (k < i')
    BY <1>1, <1>2, ElfAssumption DEF Loads, ElfInv, ElfTyped
  <2> QED
    BY ZenonT(30), <1>3, <2>1 DEF LinkedSoFar
<1> QED
  BY Zenon, <1>3, <1>4, <1>5, <1>6 DEF ElfInv

LEMMA SegmentStep ==
  ASSUME ElfInv, NextSegment
  PROVE  ElfInv'
<1>1. /\ UNCHANGED <<prog, map, tables, mem, used, before, complete>>
      /\ phase = "segment" /\ i \in Nat \ {0} /\ j \in Nat /\ prog \in Programs
  BY Zenon DEF NextSegment, Unread, ElfInv, ElfTyped
<1>2. prog.phdrs \in Seq(ProgramHeader)
  BY Zenon, <1>1, ElfAssumption
<1>3. CASE i > Len(prog.phdrs)
  <2>1. phase' = "stack" /\ pheaders' = FALSE /\ j' = 0 /\ i' = i
    BY Zenon, <1>3 DEF NextSegment
  <2>2. ElfTyped' /\ Exclusive' /\ PagesApart' = PagesApart /\ Loads' = Loads
        /\ \A k \in Loads : LinkedAt(k)' = LinkedAt(k)
    BY Zenon, <1>1, <2>1, SameMemory DEF Loading
  <2>3. Loops' /\ StackMapped' /\ CallerKept'
    BY <1>1, <1>3, <2>1 DEF Loops, StackMapped, CallerKept, Reading, STACK_PAGES
  <2>4. LinkedSoFar'
    BY <1>1, <2>1, <2>2, Zenon DEF LinkedSoFar, Loading, ElfInv
  <2> QED
    BY Zenon, <2>2, <2>3, <2>4 DEF ElfInv
<1>4. CASE ~ (i > Len(prog.phdrs)) /\ Header_i.load
  <2>1. phase' = "pages" /\ j' = page_start(Header_i) /\ i' = i /\ pheaders' = pheaders
    BY Zenon, <1>4 DEF NextSegment
  <2>2. i \in Loads
    BY <1>1, <1>2, <1>4 DEF Loads, Header_i
  <2>3. page_start(Header_i) \in Nat
    BY Zenon, <1>1, <2>2, HeaderType, SegmentPages DEF Header_i, Loads
  <2>4. ElfTyped' /\ Exclusive' /\ PagesApart' = PagesApart /\ Loads' = Loads
        /\ \A k \in Loads : LinkedAt(k)' = LinkedAt(k)
    BY Zenon, <1>1, <2>1, <2>3, SameMemory DEF Loading
  <2>5. Loops'
    <3>1. page_start(Header_i)' = page_start(Header_i)
      BY Zenon, <1>1, <2>1 DEF page_start, Header_i
    <3> QED
      BY <2>1, <2>2, <2>3, <2>4, <3>1 DEF Loops, Reading
  <2>6. StackMapped' /\ CallerKept'
    BY Zenon, <2>1 DEF StackMapped, CallerKept, Reading
  <2>7. LinkedSoFar'
    BY <1>1, <2>1, <2>4, Zenon DEF LinkedSoFar, Loading, ElfInv
  <2> QED
    BY Zenon, <2>4, <2>5, <2>6, <2>7 DEF ElfInv
<1>5. CASE ~ (i > Len(prog.phdrs)) /\ ~ Header_i.load
  <2>1. phase' = "segment" /\ j' = j /\ i' = i + 1 /\ pheaders' = pheaders
    BY Zenon, <1>1, <1>5 DEF NextSegment
  <2>2. i \notin Loads
    BY Zenon, <1>5 DEF Loads, Header_i
  <2>3. ElfTyped' /\ Exclusive' /\ PagesApart' = PagesApart /\ Loads' = Loads
        /\ \A k \in Loads : LinkedAt(k)' = LinkedAt(k)
    BY <1>1, <2>1, SameMemory DEF Loading
  <2>4. Loops' /\ StackMapped' /\ CallerKept'
    BY Zenon, <2>1 DEF Loops, StackMapped, CallerKept, Reading
  <2>5. \A k \in Loads : k < i' => k < i
    BY <1>1, <1>2, <2>1, <2>2 DEF Loads
  <2>6. LinkedSoFar'
    BY <1>1, <2>1, <2>3, <2>5, Zenon DEF LinkedSoFar, Loading, ElfInv
  <2> QED
    BY Zenon, <2>3, <2>4, <2>6 DEF ElfInv
<1> QED
  BY Zenon, <1>3, <1>4, <1>5

(* Running out of frames: nothing more is mapped, and -1 is returned.      *)
LEMMA OutOfFrames ==
  ASSUME ElfInv, used = FRAMES, phase' = "failed", pheaders' = FALSE, i' = i, j' = j, Unread
  PROVE  ElfInv'
<1>1. i' \in Nat \ {0} /\ j' \in Nat
  BY Zenon DEF ElfInv, ElfTyped
<1>2. ElfTyped' /\ Exclusive'
  BY Zenon, <1>1, SameMemory DEF Unread
<1>3. Loops' /\ StackMapped' /\ CallerKept' /\ LinkedSoFar'
  BY Zenon DEF Loops, StackMapped, CallerKept, LinkedSoFar, Reading, Loading, Unread
<1> QED
  BY Zenon, <1>2, <1>3 DEF ElfInv

(* The image has pages of its own; those of other segments and of the      *)
(* stack are elsewhere.                                                    *)
LEMMA LinkedElsewhere ==
  ASSUME ElfTyped, NEW v \in UserPage, prog' = prog, mem' = mem,
         \A w \in UserPage \ {v} : map'[w] = map[w],
         NEW k \in Loads, LinkedAt(k), v \notin PagesOf(prog.phdrs[k]) \/ v \notin Image
  PROVE  LinkedAt(k)'
<1>1. prog \in Programs /\ k \in DOMAIN prog.phdrs
  BY Zenon DEF ElfTyped, Loads
<1>2. \A w \in Image : w \in PagesOf(prog.phdrs[k]) => map'[w] = map[w]
  BY Zenon DEF UserPage
<1> QED
  BY Zenon, <1>1, <1>2, LinkedStays

LEMMA MapPageStep ==
  ASSUME ElfInv, MapPage
  PROVE  ElfInv'
<1>1. /\ phase = "pages" /\ j < page_end(Header_i) /\ i' = i /\ i \in Loads
      /\ j >= page_start(Header_i) /\ i \in Nat \ {0} /\ j \in Nat /\ prog \in Programs
      /\ i \in DOMAIN prog.phdrs
  BY Zenon DEF MapPage, ElfInv, ElfTyped, Loops, Loads
<1>2. CASE used = FRAMES /\ Fail /\ UNCHANGED j /\ Unread
  BY Zenon, <1>1, <1>2, OutOfFrames DEF Fail
<1>3. CASE MapFresh(j) /\ j' = j + 1 /\ UNCHANGED <<phase, pheaders>>
  <2>1. /\ page_start(Header_i) \in Nat /\ page_end(Header_i) \in Nat
        /\ page_end(Header_i) <= PAGES
    BY Zenon, <1>1, HeaderType, SegmentPages DEF Header_i
  <2>2. j \in PagesOf(Header_i) /\ j \in Image /\ j \in UserPage
    BY <1>1, <2>1, ElfSizes DEF PagesOf, Image, UserPage
  <2>3. /\ used' \in 0..FRAMES /\ map' \in [UserPage -> 0..used']
        /\ \A w \in UserPage \ {j} : map'[w] = map[w]
        /\ Exclusive'
        /\ UNCHANGED <<mem, prog, before, complete>>
    BY Zenon, <1>3, <2>2, MapFreshStep DEF ElfInv
  <2>4. ElfTyped'
    BY SMTT(20), <1>1, <1>3, <2>3 DEF ElfTyped, Loading
  <2>5. PagesApart' = PagesApart /\ Loads' = Loads /\ page_start(Header_i)' = page_start(Header_i)
    BY <1>1, <2>3 DEF PagesApart, Loads, PagesOf, page_start, page_end, Header_i
  <2>6. Loops' /\ StackMapped' /\ CallerKept'
    BY <1>1, <1>3, <2>1, <2>5 DEF Loops, StackMapped, CallerKept, Reading
  <2>7. LinkedSoFar'
    <3> SUFFICES ASSUME PagesApart, complete, NEW k \in Loads, k < i
                 PROVE  LinkedAt(k)'
      BY <1>1, <2>3, <2>5, Zenon DEF LinkedSoFar
    <3>1. LinkedAt(k)
      BY Zenon, <1>1 DEF ElfInv, LinkedSoFar, Loading
    <3>2. k # i
      BY <1>1
    <3>3. j \notin PagesOf(prog.phdrs[k])
      BY Zenon, <1>1, <2>2, <3>2 DEF PagesApart, Header_i
    <3> QED
      BY Zenon, <2>2, <2>3, <3>1, <3>3, LinkedElsewhere DEF ElfInv
  <2> QED
    BY Zenon, <2>3, <2>4, <2>6, <2>7 DEF ElfInv
<1> QED
  BY Zenon, <1>2, <1>3 DEF MapPage

LEMMA ReadStep ==
  ASSUME ElfInv, ReadSegment
  PROVE  ElfInv'
<1>1. /\ phase = "pages" /\ i \in Loads /\ i \in Nat \ {0} /\ j \in Nat
      /\ UNCHANGED <<prog, map, tables, used, j, before>>
  BY Zenon DEF ReadSegment, ElfInv, ElfTyped, Loops
<1>2. PICK n \in 0..Header_i.filesz :
        IF \E v \in Touched(Header_i, n) : map[v] = Unmapped
        THEN phase' = "panic" /\ UNCHANGED <<mem, complete, i, pheaders>>
        ELSE ReadOK(Header_i, n)
  BY Zenon DEF ReadSegment
<1>3. Exclusive' /\ PagesApart' = PagesApart /\ Loads' = Loads
  BY <1>1 DEF ElfInv, Exclusive, Region, PagesApart, Loads, PagesOf, page_start, page_end
<1>4. CASE phase' = "panic" /\ UNCHANGED <<mem, complete, i, pheaders>>
  <2>1. ElfTyped'
    BY Zenon, <1>1, <1>4 DEF ElfInv, ElfTyped
  <2>2. Loops' /\ StackMapped' /\ CallerKept' /\ LinkedSoFar'
    BY Zenon, <1>4 DEF Loops, StackMapped, CallerKept, LinkedSoFar, Reading, Loading
  <2> QED
    BY Zenon, <1>3, <2>1, <2>2 DEF ElfInv
<1>5. CASE /\ ReadOK(Header_i, n)
           /\ \A v \in Touched(Header_i, n) : map[v] # Unmapped
  <2>1. /\ Store(Header_i, n) /\ complete' = (complete /\ n = Header_i.filesz)
        /\ i' = i + 1 /\ phase' = "segment" /\ pheaders' = pheaders
    BY <1>5, Zenon DEF ReadOK
  <2>2. ElfTyped'
    BY <1>1, <2>1 DEF ElfInv, ElfTyped, Loading
  <2>3. Loops' /\ StackMapped' /\ CallerKept'
    BY Zenon, <2>1 DEF Loops, StackMapped, CallerKept, Reading
  <2>4. ASSUME PagesApart, complete, n = Header_i.filesz, NEW k \in Loads, k < i + 1
        PROVE  LinkedAt(k)'
    <3>1. CASE k = i
      BY Zenon, <1>1, <1>5, <2>1, <2>4, <3>1, StoreLinks DEF ElfInv, Header_i
    <3>2. CASE k # i
      <4>1. k < i
        BY <1>1, <2>4, <3>2, ElfAssumption DEF Loads, ElfInv, ElfTyped
      <4>2. LinkedAt(k)
        BY Zenon, <1>1, <2>4, <4>1 DEF ElfInv, LinkedSoFar, Loading
      <4> QED
        BY Zenon, <1>1, <2>1, <2>4, <3>2, <4>2, StoreKeeps DEF ElfInv, Header_i
    <3> QED
      BY Zenon, <3>1, <3>2
  <2>5. LinkedSoFar'
    BY <1>3, <2>1, <2>4, Zenon DEF LinkedSoFar
  <2> QED
    BY Zenon, <1>3, <2>2, <2>3, <2>5 DEF ElfInv
<1> QED
  BY <1>2, <1>4, <1>5, Zenon

LEMMA MapStackStep ==
  ASSUME ElfInv, MapStack
  PROVE  ElfInv'
<1>1. /\ phase = "stack" /\ j \in {0, 1} /\ i' = i /\ i \in Nat \ {0} /\ pheaders' = pheaders
      /\ i > Len(prog.phdrs) /\ pheaders = FALSE
  BY DEF MapStack, ElfInv, ElfTyped, Loops, CallerKept, STACK_PAGES
<1>2. CASE used = FRAMES /\ phase' = "failed" /\ UNCHANGED j /\ Unread
  BY Zenon, <1>1, <1>2, OutOfFrames
<1>3. CASE MapFresh(PAGES + j) /\ j' = j + 1 /\ UNCHANGED phase
  <2> DEFINE v == PAGES + j
  <2>1. v \in UserPage /\ v \notin Image /\ v \in Stack
    BY <1>1, ElfSizes DEF UserPage, Stack, Image, STACK_PAGES
  <2>2. /\ used' \in 0..FRAMES /\ map' \in [UserPage -> 0..used']
        /\ \A w \in UserPage \ {v} : map'[w] = map[w]
        /\ map'[v] # Unmapped \/ used' = FRAMES
        /\ Region(v) \in tables => map'[v] # Unmapped
        /\ Exclusive'
        /\ UNCHANGED <<mem, prog, before, complete>>
    BY Zenon, <1>3, <2>1, MapFreshStep DEF ElfInv
  <2>3. ElfTyped'
    BY <1>1, <1>3, <2>2 DEF ElfTyped, Loading, ElfInv
  <2>4. PagesApart' = PagesApart /\ Loads' = Loads
    BY <2>2 DEF PagesApart, Loads, PagesOf, page_start, page_end
  <2>5. Loops' /\ CallerKept'
    BY Zenon, <1>1, <1>3, <2>2 DEF Loops, CallerKept, Reading
  <2>6. StackMapped'
    <3>1. CASE j = 0
      BY <1>1, <1>3, <2>2, <3>1, ElfSizes DEF StackMapped, STACK_PAGES
    <3>2. CASE j = 1
      <4>1. used < FRAMES /\ PAGES \in UserPage /\ PAGES # v /\ PAGES \notin Image
        BY <1>3, <2>1, <3>2, ElfSizes DEF MapFresh, UserPage, Stack, Image, STACK_PAGES
      <4>2. map[PAGES] # Unmapped
        BY <1>1, <3>2, <4>1, ElfSizes DEF ElfInv, StackMapped, ElfTyped
      <4>3. Region(PAGES) = Region(v)
        BY Zenon, <2>1, <4>1 DEF Region
      <4>4. map'[v] # Unmapped /\ map'[PAGES] # Unmapped
        BY Zenon, <2>2, <4>1, <4>2, <4>3 DEF ElfInv, Exclusive
      <4>5. \A w \in Stack : w = PAGES \/ w = v
        BY <3>2, ElfSizes DEF Stack, STACK_PAGES
      <4>6. j' = 2 /\ phase' = "stack"
        BY <1>1, <1>3, <3>2
      <4> HIDE DEF v
      <4> QED
        BY <4>4, <4>5, <4>6 DEF StackMapped, STACK_PAGES
    <3> QED
      BY Zenon, <1>1, <3>1, <3>2
  <2>7. LinkedSoFar'
    <3> SUFFICES ASSUME PagesApart, complete, NEW k \in Loads, k < i
                 PROVE  LinkedAt(k)'
      BY <1>1, <2>2, <2>4, Zenon DEF LinkedSoFar
    <3>1. LinkedAt(k)
      BY Zenon, <1>1 DEF ElfInv, LinkedSoFar, Loading
    <3> HIDE DEF v
    <3> QED
      BY Zenon, <2>1, <2>2, <3>1, LinkedElsewhere DEF ElfInv
  <2> QED
    BY Zenon, <2>2, <2>3, <2>5, <2>6, <2>7 DEF ElfInv
<1> QED
  BY Zenon, <1>1, <1>2, <1>3 DEF MapStack

LEMMA EnterStep ==
  ASSUME ElfInv, enter_usermode
  PROVE  ElfInv'
<1>1. /\ UNCHANGED <<prog, map, tables, mem, used, before, complete>>
      /\ UNCHANGED <<pheaders, i, j>>
      /\ phase = "stack" /\ phase' = "user" /\ j = 2
      /\ i \in Nat \ {0} /\ j \in Nat
  BY Zenon DEF enter_usermode, Unread, ElfInv, ElfTyped, STACK_PAGES
<1>2. ElfTyped' /\ Exclusive' /\ PagesApart' = PagesApart /\ Loads' = Loads
      /\ \A k \in Loads : LinkedAt(k)' = LinkedAt(k)
  BY Zenon, <1>1, SameMemory DEF Loading
<1>3. Loops' /\ StackMapped' /\ CallerKept'
  BY Zenon, <1>1 DEF ElfInv, Loops, StackMapped, CallerKept, Reading
<1>4. LinkedSoFar'
  BY <1>1, <1>2, Zenon DEF LinkedSoFar, Loading, ElfInv
<1> QED
  BY Zenon, <1>2, <1>3, <1>4 DEF ElfInv

LEMMA ExecStep ==
  ASSUME ElfInv, sys_exec
  PROVE  ElfInv'
<1>1. ElfTyped'
  BY DEF sys_exec, ElfInv, ElfTyped, Reading
<1>2. Exclusive'
  BY Zenon DEF sys_exec, ElfInv, Exclusive, Region
<1>3. Loops' /\ StackMapped' /\ CallerKept' /\ LinkedSoFar'
  BY Zenon DEF sys_exec, ElfInv, Loops, StackMapped, CallerKept, LinkedSoFar, Reading, Loading
<1> QED
  BY Zenon, <1>1, <1>2, <1>3 DEF ElfInv

LEMMA StutterStep ==
  ASSUME ElfInv, UNCHANGED elf_vars
  PROVE  ElfInv'
<1>1. /\ UNCHANGED <<prog, map, tables, mem, used, before, complete>>
      /\ UNCHANGED <<phase, pheaders, i, j>>
      /\ i \in Nat \ {0} /\ j \in Nat
      /\ phase \in Reading \cup Loading \cup {"failed", "panic"}
  BY Zenon DEF elf_vars, ElfInv, ElfTyped
<1>2. ElfTyped' /\ Exclusive' /\ PagesApart' = PagesApart /\ Loads' = Loads
      /\ \A k \in Loads : LinkedAt(k)' = LinkedAt(k)
  BY Zenon, <1>1, SameMemory
<1>3. Loops'
  BY Zenon, <1>1, <1>2 DEF ElfInv, Loops, page_start, Header_i
<1>4. StackMapped' /\ CallerKept'
  BY Zenon, <1>1 DEF ElfInv, StackMapped, CallerKept
<1>5. LinkedSoFar'
  BY <1>1, <1>2, Zenon DEF LinkedSoFar, ElfInv
<1> QED
  BY Zenon, <1>2, <1>3, <1>4, <1>5 DEF ElfInv

LEMMA ElfNextInv == ElfInv /\ [ElfNext]_elf_vars => ElfInv'
  BY Zenon, HeaderSteps, SegmentStep, MapPageStep, ReadStep, MapStackStep, EnterStep, ExecStep,
     StutterStep DEF ElfNext

LEMMA ElfInvariant == ElfSpec => []ElfInv
  BY ElfInitInv, ElfNextInv, PTL DEF ElfSpec
-----------------------------------------------------------------------------
(* Theorems *)

(* When elf_exec enters user mode, every byte of every segment is the one  *)
(* of the file or a cleared one, for any program whose segments share no   *)
(* page and whose reads were complete, whatever programs ran before.       *)
THEOREM ImageIsLoaded == ElfSpec => []ImageLoaded
<1>1. ElfInv => ImageLoaded
  <2> SUFFICES ASSUME ElfInv, phase = "user", PagesApart, complete PROVE AsLinked
    BY Zenon DEF ImageLoaded
  <2>1. \A k \in Loads : k < i
    BY ElfAssumption DEF ElfInv, ElfTyped, Loops, Loads
  <2>2. \A k \in Loads : LinkedAt(k)
    BY Zenon, <2>1 DEF ElfInv, LinkedSoFar, Loading
  <2> QED
    BY Zenon, <2>2 DEF AsLinked, LinkedAt
<1> QED
  BY <1>1, ElfInvariant, PTL

(* No two pages of a program share a frame, and user mode is entered only  *)
(* with both pages of the stack mapped, although paging_map_page does not  *)
(* report that it found no frame for a table.                              *)
THEOREM StackIsReady == ElfSpec => []StackReady
<1>1. ElfInv => StackReady
  BY Zenon DEF ElfInv, Exclusive, StackMapped, StackReady
<1> QED
  BY <1>1, ElfInvariant, PTL

(* elf_exec returns -1 to a caller whose memory it has not touched, unless *)
(* the frames ran out, and never keeps the program headers on the heap.    *)
THEOREM RejectionIsHarmless == ElfSpec => []RejectedHarmless
<1>1. ElfInv => RejectedHarmless
  BY ElfSizes DEF ElfInv, ElfTyped, CallerKept, RejectedHarmless, Reading
<1> QED
  BY <1>1, ElfInvariant, PTL
=============================================================================
