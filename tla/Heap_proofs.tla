----------------------------- MODULE Heap_proofs ----------------------------
(***************************************************************************)
(* Proofs about module Heap, for any constants that satisfy its assumption *)
(* and any requests: the list of blocks stays intact, allocations never    *)
(* overlap, and a request that fits in a page fails only when no frame is  *)
(* left.                                                                   *)
(***************************************************************************)
EXTENDS Heap, TLAPS

Header == [size : Nat, is_free : BOOLEAN, next : Nat, prev : Nat]

\* Every header lies in the heap, and the heap has grown by whole pages.
Typed(h) ==
  /\ h = [hdr |-> h.hdr, blocks |-> h.blocks, end |-> h.end, size |-> h.size, used |-> h.used]
  /\ h.hdr \in [DOMAIN h.hdr -> Header]
  /\ DOMAIN h.hdr \subseteq HEAP_START .. Limit(h) - 1
  /\ h.blocks \subseteq DOMAIN h.hdr
  /\ h.end \in Nat /\ h.size \in Nat /\ h.used \in Int
  /\ h.size >= HEAP_SIZE /\ (h.size - HEAP_SIZE) % PAGE_SIZE = 0

\* What holds between the steps of a call, save for the free neighbours.
Listed(h) == Typed(h) /\ Tiles(h)
Intact(h) == Listed(h) /\ CoalescedBut(h, {})

\* From h to g the same bytes stay in use, or n bytes from b on are taken.
SameUse(h, g) == InUse(g) = InUse(h) /\ g.used = h.used
Takes(h, g, b, n) ==
  /\ InUse(h) \cap (b .. b + n - 1) = {}
  /\ InUse(g) = InUse(h) \cup (b .. b + n - 1)
  /\ g.used = h.used + n
-----------------------------------------------------------------------------
(* Constants and arithmetic *)

LEMMA Constants ==
  /\ BLOCK_HEADER_SIZE \in Nat /\ BLOCK_HEADER_SIZE > 0
  /\ MIN_BLOCK_SIZE \in Nat /\ MIN_BLOCK_SIZE > BLOCK_HEADER_SIZE
  /\ PAGE_SIZE \in Nat /\ PAGE_SIZE >= MIN_BLOCK_SIZE
  /\ HEAP_SIZE \in Nat /\ HEAP_SIZE >= MIN_BLOCK_SIZE
  /\ HEAP_START \in Nat /\ HEAP_START > 0
  /\ ALIGN \in Nat /\ ALIGN > 0
  /\ POINTER \in Nat /\ POINTER > 0
  BY HeapAssumption

\* Rounding up to a multiple.
LEMMA RoundUp ==
  ASSUME NEW n \in Nat, NEW a \in Nat, a > 0
  PROVE  /\ ((n + a - 1) \div a) * a \in Nat
         /\ n <= ((n + a - 1) \div a) * a
         /\ ((n + a - 1) \div a) * a <= n + a - 1
<1> DEFINE m == n + a - 1
           q == m \div a
<1>1. m \in Nat
  OBVIOUS
<1> HIDE DEF m
<1>2. q \in Nat
  BY <1>1
<1>3. m = a * q + (m % a)
  BY <1>1
<1>4. m % a \in 0 .. a - 1
  BY <1>1
<1>5. a * q = q * a /\ q * a \in Nat
  BY <1>2
<1> HIDE DEF q
<1>6. q * a <= m /\ m - a < q * a
  BY <1>1, <1>2, <1>3, <1>4, <1>5
<1> QED
  BY <1>5, <1>6 DEF m, q

\* One more page is still a whole number of pages.
LEMMA OneMore ==
  ASSUME NEW k \in Nat, NEW p \in Nat, p > 0, k % p = 0
  PROVE  (k + p) % p = 0
<1> DEFINE q == k \div p
           m == k + p
           s == m \div p
           r == m % p
<1>1. q \in Nat /\ k = q * p
  <2>1. k = p * q + (k % p)
    OBVIOUS
  <2>2. q \in Nat
    OBVIOUS
  <2>3. p * q = q * p
    BY <2>2
  <2> QED
    BY <2>1, <2>2, <2>3
<1>2. m \in Nat
  OBVIOUS
<1> HIDE DEF q, m
<1>3. s \in Nat /\ m = s * p + r /\ r \in 0 .. p - 1
  <2>1. m = p * s + r
    BY <1>2
  <2>2. s \in Nat
    BY <1>2
  <2>3. r \in 0 .. p - 1
    BY <1>2
  <2>4. p * s = s * p
    BY <2>2
  <2> QED
    BY Zenon, <2>1, <2>2, <2>3, <2>4
<1> HIDE DEF s, r
<1>4. m = (q + 1) * p
  <2>1. (q + 1) * p = q * p + p
    BY <1>1
  <2> QED
    BY Zenon, <1>1, <2>1 DEF m
<1>5. ASSUME s <= q PROVE FALSE
  <2>1. s * p <= q * p
    BY <1>1, <1>3, <1>5
  <2> QED
    BY <1>1, <1>3, <2>1 DEF m
<1>6. ASSUME s > q + 1 PROVE FALSE
  <2>1. (q + 2) * p <= s * p
    BY <1>1, <1>3, <1>6
  <2>2. (q + 2) * p = q * p + p + p
    BY <1>1
  <2> QED
    BY <1>1, <1>3, <2>1, <2>2 DEF m
<1>7. s = q + 1
  BY <1>1, <1>3, <1>5, <1>6
<1>8. r = 0
  BY <1>1, <1>3, <1>4, <1>7
<1> QED
  BY Zenon, <1>8 DEF r, m
-----------------------------------------------------------------------------
(* Headers *)

\* The headers new are those of hdr, but for prev at a.
OnlyPrev(D, hdr, new, a, p) ==
  /\ new \in [D -> Header]
  /\ \A x \in D : /\ new[x].size = hdr[x].size
                  /\ new[x].is_free = hdr[x].is_free
                  /\ new[x].next = hdr[x].next
                  /\ new[x].prev = IF x = a THEN p ELSE hdr[x].prev

LEMMA SetPrevSets ==
  ASSUME NEW D, 0 \notin D, NEW hdr \in [D -> Header], NEW a \in D \cup {0}, NEW p \in Nat
  PROVE  OnlyPrev(D, hdr, SetPrev(hdr, a, p), a, p)
<1>1. CASE a = 0
  BY Zenon, <1>1 DEF SetPrev, NULL, OnlyPrev
<1>2. CASE a # 0
  BY Zenon, <1>2 DEF SetPrev, NULL, Header, OnlyPrev
<1> QED
  BY Zenon, <1>1, <1>2

\* What splitting a block writes: two headers, and prev in a third.
LEMMA SplitFields ==
  ASSUME NEW h, Typed(h), NEW b \in h.blocks, NEW size \in Nat,
         NextAt(h, b) \in h.blocks \cup {NULL},
         SizeAt(h, b) >= size + BLOCK_HEADER_SIZE + MIN_BLOCK_SIZE,
         b + SizeAt(h, b) <= Limit(h),
         NEW new, new = b + size + BLOCK_HEADER_SIZE, new \notin h.blocks
  PROVE  LET g == split_block(h, b, size)
         IN /\ Typed(g)
            /\ g.blocks = h.blocks \cup {new}
            /\ g.end = IF b = h.end THEN new ELSE h.end
            /\ g.size = h.size /\ g.used = h.used
            /\ DOMAIN g.hdr = DOMAIN h.hdr \cup {new}
            /\ \A x \in DOMAIN h.hdr \ {new} :
                 /\ SizeAt(g, x) = IF x = b THEN size + BLOCK_HEADER_SIZE ELSE SizeAt(h, x)
                 /\ FreeAt(g, x) = FreeAt(h, x)
                 /\ NextAt(g, x) = IF x = b THEN new ELSE NextAt(h, x)
                 /\ PrevAt(g, x) = IF x = NextAt(h, b) THEN new ELSE PrevAt(h, x)
            /\ SizeAt(g, new) = SizeAt(h, b) - (size + BLOCK_HEADER_SIZE)
            /\ FreeAt(g, new)
            /\ NextAt(g, new) = NextAt(h, b)
            /\ PrevAt(g, new) = b
<1> USE DEF SizeAt, FreeAt, NextAt, PrevAt
<1> DEFINE total == size + BLOCK_HEADER_SIZE
           D == DOMAIN h.hdr
           E == D \cup {new}
           old == h.hdr[b]
           shrunk == [h.hdr EXCEPT ![b].size = total, ![b].next = new]
           node == Block(old.size - total, old.next, b)
           written == Write(shrunk, new, node)
           linked == SetPrev(written, old.next, new)
           g == split_block(h, b, size)
<1>1. /\ h.hdr \in [D -> Header] /\ D \subseteq Nat /\ 0 \notin D /\ b \in D /\ b \in Nat
      /\ total \in Nat /\ old \in Header /\ Limit(h) \in Nat
  BY Constants DEF Typed, Limit
<1>2. /\ old.size \in Nat /\ old.next \in Nat /\ old.next \in D \cup {0}
      /\ old.size - total \in Nat /\ old.size >= total + MIN_BLOCK_SIZE /\ new = b + total
      /\ new \in Nat /\ new > b /\ new < Limit(h) /\ new # 0 /\ new # b
  BY <1>1, Constants DEF Typed, Header, NULL
<1>3. /\ shrunk \in [D -> Header]
      /\ \A x \in D : /\ shrunk[x].size = IF x = b THEN total ELSE SizeAt(h, x)
                      /\ shrunk[x].is_free = FreeAt(h, x)
                      /\ shrunk[x].next = IF x = b THEN new ELSE NextAt(h, x)
                      /\ shrunk[x].prev = PrevAt(h, x)
  BY Zenon, <1>1, <1>2 DEF Header
<1>4. /\ node \in Header
      /\ node.size = old.size - total /\ node.is_free /\ node.next = old.next /\ node.prev = b
  BY Zenon, <1>1, <1>2 DEF Block, Header
<1> HIDE DEF shrunk, node
<1>5. /\ written \in [E -> Header]
      /\ \A x \in D \ {new} : written[x] = shrunk[x]
      /\ written[new] = node
  BY Zenon, <1>3, <1>4 DEF Write
<1> HIDE DEF written
<1>6. 0 \notin E /\ old.next \in E \cup {0} /\ old.next # new
  BY Zenon, <1>1, <1>2 DEF Typed, NULL
<1>7. /\ linked \in [E -> Header]
      /\ \A x \in E : /\ linked[x].size = written[x].size
                      /\ linked[x].is_free = written[x].is_free
                      /\ linked[x].next = written[x].next
                      /\ linked[x].prev = IF x = old.next THEN new ELSE written[x].prev
  <2>1. new \in Nat /\ written \in [E -> Header] /\ 0 \notin E /\ old.next \in E \cup {0}
    BY Zenon, <1>2, <1>5, <1>6
  <2> HIDE DEF E, old
  <2>2. OnlyPrev(E, written, linked, old.next, new)
    BY Zenon, <2>1, SetPrevSets
  <2> QED
    BY Zenon, <2>2 DEF OnlyPrev
<1>8. g = [h EXCEPT !.hdr = linked, !.blocks = h.blocks \cup {new},
                    !.end = IF b = h.end THEN new ELSE h.end]
  <2>1. ~ (old.size < size + BLOCK_HEADER_SIZE + MIN_BLOCK_SIZE) /\ b + (size + BLOCK_HEADER_SIZE) = new
    BY <1>1, <1>2, Constants
  <2> QED
    BY ZenonT(30), <2>1 DEF split_block, linked, written, shrunk, node
<1> HIDE DEF linked, g
<1>9. /\ g = [hdr |-> linked, blocks |-> h.blocks \cup {new},
              end |-> IF b = h.end THEN new ELSE h.end, size |-> h.size, used |-> h.used]
  BY ZenonT(30), <1>8 DEF Typed
<1>10. /\ g.hdr = linked /\ g.blocks = h.blocks \cup {new}
       /\ g.end = (IF b = h.end THEN new ELSE h.end) /\ g.size = h.size /\ g.used = h.used
       /\ g = [hdr |-> g.hdr, blocks |-> g.blocks, end |-> g.end, size |-> g.size, used |-> g.used]
       /\ DOMAIN g.hdr = E
  BY Zenon, <1>7, <1>9
<1>11. Typed(g)
  <2>1. E \subseteq HEAP_START .. Limit(h) - 1 /\ Limit(g) = Limit(h)
    BY <1>1, <1>2, <1>10, Constants DEF Typed, Limit
  <2>2. h.blocks \cup {new} \subseteq E
    BY Zenon DEF Typed
  <2> QED
    BY Zenon, <1>2, <1>7, <1>10, <2>1, <2>2 DEF Typed
<1>12. \A x \in D \ {new} :
         /\ SizeAt(g, x) = IF x = b THEN total ELSE SizeAt(h, x)
         /\ FreeAt(g, x) = FreeAt(h, x)
         /\ NextAt(g, x) = IF x = b THEN new ELSE NextAt(h, x)
         /\ PrevAt(g, x) = IF x = old.next THEN new ELSE PrevAt(h, x)
  BY <1>3, <1>5, <1>7, <1>10
<1>13. /\ SizeAt(g, new) = old.size - total
       /\ FreeAt(g, new)
       /\ NextAt(g, new) = old.next
       /\ PrevAt(g, new) = b
  BY <1>4, <1>5, <1>6, <1>7, <1>10
<1> QED
  BY Zenon, <1>10, <1>11, <1>12, <1>13 DEF g

LEMMA ExpandFields ==
  ASSUME NEW h, Typed(h), h.end \in h.blocks
  PROVE  LET g == Expand(h)
             new == Limit(h)
         IN /\ Typed(g)
            /\ g.blocks = h.blocks \cup {new} /\ g.end = new /\ g.size = h.size + PAGE_SIZE
            /\ g.used = h.used
            /\ DOMAIN g.hdr = DOMAIN h.hdr \cup {new}
            /\ \A x \in DOMAIN h.hdr :
                 /\ SizeAt(g, x) = SizeAt(h, x)
                 /\ FreeAt(g, x) = FreeAt(h, x)
                 /\ NextAt(g, x) = IF x = h.end THEN new ELSE NextAt(h, x)
                 /\ PrevAt(g, x) = PrevAt(h, x)
            /\ SizeAt(g, new) = PAGE_SIZE /\ FreeAt(g, new)
            /\ NextAt(g, new) = NULL /\ PrevAt(g, new) = h.end
<1> USE DEF SizeAt, FreeAt, NextAt, PrevAt
<1> DEFINE new == Limit(h)
           D == DOMAIN h.hdr
           E == D \cup {new}
           linked == [h.hdr EXCEPT ![h.end].next = new]
           node == Block(PAGE_SIZE, NULL, h.end)
           written == Write(linked, new, node)
           g == Expand(h)
<1>1. /\ h.hdr \in [D -> Header] /\ h.end \in D /\ new \in Nat /\ new \notin D /\ h.end \in Nat
      /\ h.size \in Nat
  BY Constants DEF Typed, Limit
<1>2. /\ linked \in [D -> Header]
      /\ \A x \in D : /\ linked[x].size = SizeAt(h, x)
                      /\ linked[x].is_free = FreeAt(h, x)
                      /\ linked[x].next = IF x = h.end THEN new ELSE NextAt(h, x)
                      /\ linked[x].prev = PrevAt(h, x)
  BY Zenon, <1>1 DEF Header
<1>3. /\ node \in Header /\ node.size = PAGE_SIZE /\ node.is_free
      /\ node.next = NULL /\ node.prev = h.end
  BY Zenon, <1>1, Constants DEF Block, Header, NULL
<1>4. g = [h EXCEPT !.hdr = written, !.blocks = h.blocks \cup {new}, !.end = new,
                    !.size = h.size + PAGE_SIZE]
  BY Zenon DEF Expand, Limit
<1> HIDE DEF linked, node
<1>5. /\ written \in [E -> Header]
      /\ \A x \in D : written[x] = linked[x]
      /\ written[new] = node
  BY Zenon, <1>1, <1>2, <1>3 DEF Write
<1> HIDE DEF written, g
<1>6. g = [hdr |-> written, blocks |-> h.blocks \cup {new}, end |-> new,
           size |-> h.size + PAGE_SIZE, used |-> h.used]
  BY ZenonT(30), <1>4 DEF Typed
<1>7. /\ g.hdr = written /\ g.blocks = h.blocks \cup {new} /\ g.end = new
      /\ g.size = h.size + PAGE_SIZE /\ g.used = h.used
      /\ g = [hdr |-> g.hdr, blocks |-> g.blocks, end |-> g.end, size |-> g.size, used |-> g.used]
      /\ DOMAIN g.hdr = E
  BY Zenon, <1>5, <1>6
<1>8. Typed(g)
  <2>1. E \subseteq HEAP_START .. Limit(g) - 1
    BY <1>1, <1>7, Constants DEF Typed, Limit
  <2>2. g.size \in Nat /\ g.size >= HEAP_SIZE /\ (g.size - HEAP_SIZE) % PAGE_SIZE = 0
    <3> DEFINE k == h.size - HEAP_SIZE
    <3>1. k \in Nat /\ k % PAGE_SIZE = 0 /\ g.size - HEAP_SIZE = k + PAGE_SIZE
      <4>1. h.size >= HEAP_SIZE
        BY Zenon DEF Typed
      <4>2. k \in Nat /\ g.size - HEAP_SIZE = k + PAGE_SIZE
        BY <1>1, <1>7, <4>1, Constants
      <4>3. k % PAGE_SIZE = 0
        BY Zenon DEF Typed
      <4> QED
        BY Zenon, <4>2, <4>3
    <3> HIDE DEF k
    <3>2. (k + PAGE_SIZE) % PAGE_SIZE = 0
      <4>1. PAGE_SIZE \in Nat /\ PAGE_SIZE > 0
        BY Constants
      <4> QED
        BY ZenonT(30), <3>1, <4>1, OneMore
    <3>3. g.size \in Nat /\ g.size >= HEAP_SIZE
      BY <1>1, <1>7, Constants DEF Typed
    <3> QED
      BY Zenon, <3>1, <3>2, <3>3
  <2>3. h.blocks \cup {new} \subseteq E
    BY Zenon DEF Typed
  <2> QED
    BY Zenon, <1>1, <1>5, <1>7, <2>1, <2>2, <2>3 DEF Typed
<1> QED
  BY <1>1, <1>2, <1>3, <1>5, <1>7, <1>8 DEF g

LEMMA AbsorbFields ==
  ASSUME NEW h, Typed(h), NEW b \in h.blocks, NEW gone \in h.blocks, gone = NextAt(h, b),
         gone # b, NEW next, next = NextAt(h, gone), next \in h.blocks \cup {NULL}
  PROVE  LET g == Absorb(h, b)
         IN /\ Typed(g)
            /\ g.blocks = h.blocks \ {gone}
            /\ g.end = IF next = NULL THEN b ELSE h.end
            /\ g.size = h.size /\ g.used = h.used
            /\ DOMAIN g.hdr = DOMAIN h.hdr
            /\ \A x \in DOMAIN h.hdr :
                 /\ SizeAt(g, x) = IF x = b THEN SizeAt(h, b) + SizeAt(h, gone) ELSE SizeAt(h, x)
                 /\ FreeAt(g, x) = FreeAt(h, x)
                 /\ NextAt(g, x) = IF x = b THEN next ELSE NextAt(h, x)
                 /\ PrevAt(g, x) = IF x = next THEN b ELSE PrevAt(h, x)
<1> USE DEF SizeAt, FreeAt, NextAt, PrevAt
<1> DEFINE D == DOMAIN h.hdr
           sum == SizeAt(h, b) + SizeAt(h, gone)
           grown == [h.hdr EXCEPT ![b].size = sum, ![b].next = next]
           linked == SetPrev(grown, next, b)
           g == Absorb(h, b)
<1>1. /\ h.hdr \in [D -> Header] /\ b \in D /\ gone \in D /\ next \in D \cup {0} /\ 0 \notin D
      /\ b \in Nat
  BY Constants DEF Typed, NULL
<1>2. sum \in Nat /\ next \in Nat
  BY <1>1 DEF Header
<1>3. g = [h EXCEPT !.hdr = linked, !.blocks = h.blocks \ {gone},
                    !.end = IF next = NULL THEN b ELSE h.end]
  BY Zenon DEF Absorb
<1> HIDE DEF sum
<1>4. /\ grown \in [D -> Header]
      /\ \A x \in D : /\ grown[x].size = IF x = b THEN sum ELSE SizeAt(h, x)
                      /\ grown[x].is_free = FreeAt(h, x)
                      /\ grown[x].next = IF x = b THEN next ELSE NextAt(h, x)
                      /\ grown[x].prev = PrevAt(h, x)
  BY <1>1, <1>2 DEF Header
<1> HIDE DEF grown, D
<1>5. /\ linked \in [D -> Header]
      /\ \A x \in D : /\ linked[x].size = grown[x].size
                      /\ linked[x].is_free = grown[x].is_free
                      /\ linked[x].next = grown[x].next
                      /\ linked[x].prev = IF x = next THEN b ELSE grown[x].prev
  <2>1. 0 \notin D /\ grown \in [D -> Header] /\ next \in D \cup {0} /\ b \in Nat
    BY Zenon, <1>1, <1>4
  <2>2. OnlyPrev(D, grown, linked, next, b)
    BY Zenon, <2>1, SetPrevSets
  <2> QED
    BY ZenonT(30), <2>2 DEF OnlyPrev
<1> HIDE DEF linked, g
<1>6. g = [hdr |-> linked, blocks |-> h.blocks \ {gone},
           end |-> IF next = NULL THEN b ELSE h.end, size |-> h.size, used |-> h.used]
  BY ZenonT(30), <1>3 DEF Typed
<1>7. /\ g.hdr = linked /\ g.blocks = h.blocks \ {gone}
      /\ g.end = (IF next = NULL THEN b ELSE h.end) /\ g.size = h.size /\ g.used = h.used
      /\ g = [hdr |-> g.hdr, blocks |-> g.blocks, end |-> g.end, size |-> g.size, used |-> g.used]
      /\ DOMAIN g.hdr = D
  BY Zenon, <1>5, <1>6
<1>8. Typed(g)
  <2>1. Limit(g) = Limit(h)
    BY Zenon, <1>7 DEF Limit
  <2> QED
    BY ZenonT(30), <1>1, <1>5, <1>7, <2>1 DEF Typed, D
<1> QED
  BY <1>4, <1>5, <1>7, <1>8 DEF g, D, sum
-----------------------------------------------------------------------------
(* The list *)

LEMMA Neighbours ==
  ASSUME NEW h, Typed(h), Tiles(h), NEW b \in h.blocks
  PROVE  /\ b \in Nat /\ b >= HEAP_START /\ b < Limit(h) /\ b # NULL /\ Limit(h) \in Nat
         /\ h.hdr[b] \in Header /\ SizeAt(h, b) \in Nat /\ FreeAt(h, b) \in BOOLEAN
         /\ NextAt(h, b) \in Nat /\ PrevAt(h, b) \in Nat
         /\ SizeAt(h, b) > BLOCK_HEADER_SIZE
         /\ b + SizeAt(h, b) <= Limit(h)
         /\ NextAt(h, b) \in h.blocks \cup {NULL}
         /\ PrevAt(h, b) \in h.blocks \cup {NULL}
         /\ NextAt(h, b) = NULL <=> b = h.end
         /\ PrevAt(h, b) = NULL <=> b = HEAP_START
         /\ NextAt(h, b) # NULL => /\ NextAt(h, b) = b + SizeAt(h, b)
                                    /\ PrevAt(h, NextAt(h, b)) = b
         /\ PrevAt(h, b) # NULL => /\ PrevAt(h, b) + SizeAt(h, PrevAt(h, b)) = b
                                    /\ PrevAt(h, b) < b
         /\ \A c \in h.blocks : b < c => b + SizeAt(h, b) <= c
         /\ \A c \in h.blocks : b # c => c + SizeAt(h, c) <= b \/ b + SizeAt(h, b) <= c
<1>1. \A c \in h.blocks : /\ c \in Nat /\ c >= HEAP_START /\ c < Limit(h) /\ c # NULL /\ h.hdr[c] \in Header
                          /\ SizeAt(h, c) \in Nat /\ FreeAt(h, c) \in BOOLEAN
                          /\ NextAt(h, c) \in Nat /\ PrevAt(h, c) \in Nat
  BY Constants DEF Typed, Limit, Header, NULL, SizeAt, FreeAt, NextAt, PrevAt
<1>2. Limit(h) \in Nat
  BY Constants DEF Typed, Limit
<1>3. \A c \in h.blocks : Placed(h, c)
  BY Zenon DEF Tiles
<1>4. h.end \in h.blocks /\ HEAP_START \in h.blocks
  BY Zenon DEF Tiles
<1>5. \A c \in h.blocks : b < c => b + SizeAt(h, b) <= c
  BY Zenon, <1>3 DEF Placed
<1>6. \A c \in h.blocks : c < b => c + SizeAt(h, c) <= b
  BY Zenon, <1>3 DEF Placed
<1>7. \A c \in h.blocks : b # c => c + SizeAt(h, c) <= b \/ b + SizeAt(h, b) <= c
  BY <1>1, <1>5, <1>6
<1>8. h.end + SizeAt(h, h.end) = Limit(h)
  BY Zenon, <1>3, <1>4 DEF Placed
<1>9. b + SizeAt(h, b) <= Limit(h)
  BY <1>1, <1>2, <1>4, <1>7, <1>8
<1>10. /\ SizeAt(h, b) > BLOCK_HEADER_SIZE
       /\ NextAt(h, b) \in h.blocks \cup {NULL}
       /\ PrevAt(h, b) \in h.blocks \cup {NULL}
       /\ NextAt(h, b) = NULL <=> b = h.end
       /\ PrevAt(h, b) = NULL <=> b = HEAP_START
       /\ NextAt(h, b) # NULL => /\ NextAt(h, b) = b + SizeAt(h, b)
                                  /\ PrevAt(h, NextAt(h, b)) = b
       /\ PrevAt(h, b) # NULL => /\ PrevAt(h, b) + SizeAt(h, PrevAt(h, b)) = b
                                  /\ PrevAt(h, b) \in h.blocks
  BY <1>1, <1>3 DEF Placed
<1>11. PrevAt(h, b) # NULL => PrevAt(h, b) < b
  BY <1>1, <1>3, <1>10, Constants DEF Placed
<1> QED
  BY Zenon, <1>1, <1>2, <1>5, <1>7, <1>9, <1>10, <1>11

\* No block in use is touched.
KeepsBusy(h, g) ==
  \A c \in h.blocks : ~ FreeAt(h, c) => /\ c \in g.blocks
                                            /\ ~ FreeAt(g, c)
                                            /\ SizeAt(g, c) = SizeAt(h, c)

\* A block that is free can be split; the two halves are both free.
LEMMA SplitListed ==
  ASSUME NEW h, Listed(h), NEW b \in h.blocks, NEW size \in Nat, size > 0,
         FreeAt(h, b), SizeAt(h, b) >= size + BLOCK_HEADER_SIZE
  PROVE  LET g == split_block(h, b, size)
         IN /\ Listed(g)
            /\ h.blocks \subseteq g.blocks
            /\ FreeAt(g, b) /\ SizeAt(g, b) >= size + BLOCK_HEADER_SIZE
            /\ CoalescedBut(h, {}) => CoalescedBut(g, {b})
            /\ KeepsBusy(h, g) /\ SameUse(h, g)
<1> DEFINE total == size + BLOCK_HEADER_SIZE
           g == split_block(h, b, size)
           new == b + total
<1>0. total \in Nat /\ total > BLOCK_HEADER_SIZE
  BY Constants
<1>1. CASE SizeAt(h, b) < total + MIN_BLOCK_SIZE
  <2>1. g = h
    BY Zenon, <1>1 DEF split_block, SizeAt
  <2> QED
    BY Zenon, <2>1 DEF KeepsBusy, CoalescedBut, SameUse
<1>2. CASE ~ (SizeAt(h, b) < total + MIN_BLOCK_SIZE)
  <2> HIDE DEF g
  <2>1. Typed(h) /\ Tiles(h)
    BY Zenon DEF Listed
  <2>2. /\ b \in Nat /\ SizeAt(h, b) \in Nat /\ NextAt(h, b) \in h.blocks \cup {NULL}
        /\ b + SizeAt(h, b) <= Limit(h) /\ b # NULL
        /\ NextAt(h, b) # NULL => NextAt(h, b) = b + SizeAt(h, b)
        /\ Limit(h) \in Nat
        /\ FreeAt(h, b) \in BOOLEAN
    BY Zenon, <2>1, Neighbours
  <2>3. SizeAt(h, b) >= total + MIN_BLOCK_SIZE /\ new \in Nat /\ new > b /\ new < b + SizeAt(h, b)
    BY <1>0, <1>2, <2>2, Constants
  <2>4. new \notin h.blocks
    <3>1. \A c \in h.blocks : b < c => b + SizeAt(h, b) <= c
      BY Zenon, <2>1, Neighbours
    <3> QED
      BY <2>2, <2>3, <3>1
  <2>5. /\ Typed(g)
        /\ g.blocks = h.blocks \cup {new}
        /\ g.end = IF b = h.end THEN new ELSE h.end
        /\ g.size = h.size /\ g.used = h.used
        /\ DOMAIN g.hdr = DOMAIN h.hdr \cup {new}
        /\ \A x \in DOMAIN h.hdr \ {new} :
             /\ SizeAt(g, x) = IF x = b THEN total ELSE SizeAt(h, x)
             /\ FreeAt(g, x) = FreeAt(h, x)
             /\ NextAt(g, x) = IF x = b THEN new ELSE NextAt(h, x)
             /\ PrevAt(g, x) = IF x = NextAt(h, b) THEN new ELSE PrevAt(h, x)
        /\ SizeAt(g, new) = SizeAt(h, b) - total
        /\ FreeAt(g, new)
        /\ NextAt(g, new) = NextAt(h, b)
        /\ PrevAt(g, new) = b
    <3>1. SizeAt(h, b) >= size + BLOCK_HEADER_SIZE + MIN_BLOCK_SIZE /\ new = b + size + BLOCK_HEADER_SIZE
      BY <2>2, <2>3, Constants
    <3> QED
      BY <2>1, <2>2, <2>4, <3>1, SplitFields DEF g
  <2>6. \A x \in h.blocks :
          /\ SizeAt(g, x) = IF x = b THEN total ELSE SizeAt(h, x)
          /\ FreeAt(g, x) = FreeAt(h, x)
          /\ NextAt(g, x) = IF x = b THEN new ELSE NextAt(h, x)
          /\ PrevAt(g, x) = IF x = NextAt(h, b) THEN new ELSE PrevAt(h, x)
    BY Zenon, <2>1, <2>4, <2>5 DEF Typed
  <2>7. /\ Limit(g) = Limit(h) /\ SizeAt(g, new) \in Nat
        /\ new + SizeAt(g, new) = b + SizeAt(h, b)
        /\ SizeAt(g, new) > BLOCK_HEADER_SIZE
    BY <2>2, <2>3, <2>5, Constants, <1>0 DEF Limit
  <2>8. Tiles(g)
    <3>1. HEAP_START \in g.blocks /\ g.end \in g.blocks
      BY Zenon, <2>1, <2>5 DEF Tiles
    <3>2. ASSUME NEW c \in g.blocks PROVE Placed(g, c)
      <4>1. CASE c = new
        <5>1. HEAP_START \in h.blocks /\ h.end \in h.blocks
          BY Zenon, <2>1 DEF Tiles
        <5>2. \A d \in g.blocks : new < d => b + SizeAt(h, b) <= d
          <6>1. \A d \in h.blocks : d \in Nat /\ (b < d => b + SizeAt(h, b) <= d)
            BY Zenon, <2>1, Neighbours
          <6> QED
            BY <2>2, <2>3, <2>5, <6>1
        <5>3. SizeAt(g, b) = total /\ b \in g.blocks
          BY Zenon, <2>5, <2>6
        <5>4. /\ b # h.end => b + SizeAt(h, b) \in h.blocks /\ b + SizeAt(h, b) = NextAt(h, b) /\ NextAt(h, b) # NULL
              /\ b + SizeAt(h, b) = Limit(h) <=> b = h.end
              /\ b = h.end => NextAt(h, b) = NULL
          <6>1. Placed(h, b)
            BY Zenon, <2>1 DEF Tiles
          <6>2. b # h.end => NextAt(h, b) # NULL
            BY Zenon, <2>1, Neighbours
          <6> QED
            BY Zenon, <6>1, <6>2 DEF Placed
        <5>5. SizeAt(g, new) > BLOCK_HEADER_SIZE /\ (b + SizeAt(h, b) = Limit(g) <=> new = g.end)
          BY Zenon, <2>4, <2>5, <2>7, <5>1, <5>4
        <5>6. new = g.end => NextAt(g, new) = NULL
          BY Zenon, <2>4, <2>5, <5>1, <5>4
        <5>7. new # g.end => /\ NextAt(g, new) = b + SizeAt(h, b)
                             /\ b + SizeAt(h, b) \in g.blocks
                             /\ PrevAt(g, b + SizeAt(h, b)) = new
          BY Zenon, <2>5, <2>6, <5>4
        <5>8. new # HEAP_START /\ PrevAt(g, new) # NULL
          BY Zenon, <2>2, <2>4, <2>5, <5>1
        <5> QED
          BY Zenon, <2>5, <2>7, <4>1, <5>2, <5>3, <5>5, <5>6, <5>7, <5>8 DEF Placed
      <4>2. CASE c = b
        <5>1. /\ PrevAt(h, b) = NULL <=> b = HEAP_START
              /\ PrevAt(h, b) # NULL => /\ PrevAt(h, b) \in h.blocks /\ PrevAt(h, b) # b
                                    /\ PrevAt(h, b) + SizeAt(h, PrevAt(h, b)) = b
              /\ \A d \in h.blocks : d \in Nat /\ (b < d => b + SizeAt(h, b) <= d)
          BY <2>1, Neighbours
        <5>2. NextAt(h, b) # b
          BY <2>2, <2>3
        <5>3. /\ SizeAt(g, b) = total /\ NextAt(g, b) = new /\ PrevAt(g, b) = PrevAt(h, b)
              /\ PrevAt(h, b) # NULL => SizeAt(g, PrevAt(h, b)) = SizeAt(h, PrevAt(h, b))
          BY Zenon, <2>6, <5>1, <5>2
        <5>4. b # g.end /\ new # Limit(g)
          BY <2>2, <2>3, <2>5, <2>7
        <5>5. \A d \in g.blocks : b < d => new <= d
          BY <2>2, <2>3, <2>5, <5>1
        <5> QED
          BY Zenon, <1>0, <2>5, <4>2, <5>1, <5>3, <5>4, <5>5 DEF Placed
      <4>3. CASE c # new /\ c # b
        <5>1. c \in h.blocks
          BY Zenon, <2>5, <4>3
        <5>2. /\ Placed(h, c) /\ c \in Nat /\ SizeAt(h, c) \in Nat
              /\ c < Limit(h) /\ PrevAt(h, c) \in h.blocks \cup {NULL}
              /\ b # c => b + SizeAt(h, b) <= c \/ c + SizeAt(h, c) <= b
          BY Zenon, <2>1, <5>1, Neighbours DEF Tiles
        <5>3. /\ SizeAt(g, c) = SizeAt(h, c) /\ NextAt(g, c) = NextAt(h, c)
              /\ PrevAt(g, c) = IF c = NextAt(h, b) THEN new ELSE PrevAt(h, c)
          BY Zenon, <2>6, <4>3, <5>1
        <5>4. h.end \in h.blocks /\ (c = g.end <=> c = h.end)
          BY Zenon, <2>1, <2>4, <2>5, <4>3, <5>1 DEF Tiles
        <5>5. /\ SizeAt(g, c) > BLOCK_HEADER_SIZE
              /\ c + SizeAt(g, c) = Limit(g) <=> c = g.end
              /\ c = g.end => NextAt(g, c) = NULL
              /\ c # g.end => NextAt(g, c) = c + SizeAt(g, c) /\ c + SizeAt(g, c) \in g.blocks
          BY Zenon, <2>5, <2>7, <5>2, <5>3, <5>4 DEF Placed
        <5>6. c # g.end => PrevAt(g, c + SizeAt(g, c)) = c
          <6> SUFFICES ASSUME c # g.end PROVE PrevAt(g, c + SizeAt(g, c)) = c
            BY Zenon
          <6> DEFINE after == c + SizeAt(h, c)
          <6>1. after \in h.blocks /\ PrevAt(h, after) = c
            BY Zenon, <5>2, <5>4 DEF Placed
          <6>2. NextAt(h, b) # NULL => PrevAt(h, NextAt(h, b)) = b
            BY Zenon, <2>1, Neighbours
          <6>3. after # NextAt(h, b)
            BY Zenon, <2>1, <4>3, <6>1, <6>2, Neighbours
          <6> QED
            BY Zenon, <2>6, <5>3, <6>1, <6>3
        <5>7. ASSUME c = NextAt(h, b)
              PROVE /\ c = HEAP_START <=> PrevAt(g, c) = NULL
                    /\ c # HEAP_START => /\ PrevAt(g, c) \in g.blocks
                                         /\ PrevAt(g, c) + SizeAt(g, PrevAt(g, c)) = c
          <6>1. c # HEAP_START /\ new # NULL /\ c = b + SizeAt(h, b)
            <7>1. c # NULL /\ PrevAt(h, c) = b
              BY Zenon, <2>1, <5>1, <5>7, Neighbours
            <7> QED
              BY <2>1, <2>2, <2>3, <5>1, <5>7, <7>1, Neighbours DEF NULL
          <6>2. /\ c = HEAP_START <=> PrevAt(g, c) = NULL
                /\ c # HEAP_START => /\ PrevAt(g, c) \in g.blocks
                                     /\ PrevAt(g, c) + SizeAt(g, PrevAt(g, c)) = c
            BY Zenon, <2>5, <2>7, <5>3, <5>7, <6>1
          <6> QED
            BY Zenon, <6>2
        <5>8. ASSUME c # NextAt(h, b)
              PROVE /\ c = HEAP_START <=> PrevAt(g, c) = NULL
                    /\ c # HEAP_START => /\ PrevAt(g, c) \in g.blocks
                                         /\ PrevAt(g, c) + SizeAt(g, PrevAt(g, c)) = c
          <6>1. PrevAt(h, c) # b
            <7>1. NextAt(h, b) = NULL <=> b = h.end
              BY Zenon, <2>1, Neighbours
            <7>2. b = h.end => b + SizeAt(h, b) = Limit(h)
              BY Zenon, <2>1 DEF Tiles, Placed
            <7>3. PrevAt(h, c) # NULL => PrevAt(h, c) + SizeAt(h, PrevAt(h, c)) = c
              BY Zenon, <2>1, <5>1, Neighbours
            <7> QED
              BY <2>2, <5>2, <5>8, <7>1, <7>2, <7>3
          <6> QED
            BY Zenon, <2>5, <2>6, <5>2, <5>3, <5>8, <6>1 DEF Placed
        <5>9. \A d \in g.blocks : c < d => c + SizeAt(g, c) <= d
          BY <2>2, <2>3, <2>5, <4>3, <5>2, <5>3 DEF Placed
        <5>10. /\ c = HEAP_START <=> PrevAt(g, c) = NULL
               /\ c # HEAP_START => /\ PrevAt(g, c) \in g.blocks
                                    /\ PrevAt(g, c) + SizeAt(g, PrevAt(g, c)) = c
          BY Zenon, <5>7, <5>8
        <5> QED
          BY Zenon, <5>5, <5>6, <5>9, <5>10 DEF Placed
      <4> QED
        BY Zenon, <4>1, <4>2, <4>3
    <3> QED
      BY Zenon, <3>1, <3>2 DEF Tiles
  <2>9. SameUse(h, g)
    <3>1. \A c \in g.blocks : ~ FreeAt(g, c)
            <=> c \in h.blocks /\ ~ FreeAt(h, c)
      BY Zenon, <2>4, <2>5, <2>6
    <3>2. \A c \in h.blocks : ~ FreeAt(h, c) => c \in g.blocks /\ SizeAt(g, c) = SizeAt(h, c)
      BY Zenon, <2>5, <2>6
    <3>3. InUse(g) = InUse(h)
      BY ZenonT(30), <2>5, <2>7, <3>1, <3>2 DEF InUse
    <3> QED
      BY Zenon, <2>5, <3>3 DEF SameUse
  <2>10. ASSUME CoalescedBut(h, {}) PROVE CoalescedBut(g, {b})
    <3>1. SUFFICES ASSUME NEW c \in g.blocks \ {b}, FreeAt(g, c), IsFree(g, NextAt(g, c))
                   PROVE  Seam(NextAt(g, c))
      BY Zenon DEF CoalescedBut
    <3>2. CASE c = new
      <4>1. NextAt(g, c) = NextAt(h, b) /\ NextAt(h, b) # NULL /\ NextAt(h, b) \in h.blocks
        BY Zenon, <2>2, <2>5, <3>1, <3>2 DEF IsFree
      <4>2. IsFree(h, NextAt(h, b))
        BY Zenon, <2>6, <3>1, <4>1 DEF IsFree
      <4> QED
        BY Zenon, <2>10, <4>1, <4>2 DEF CoalescedBut
    <3>3. CASE c # new
      <4>1. c \in h.blocks /\ FreeAt(h, c) /\ NextAt(g, c) = NextAt(h, c)
        BY Zenon, <2>5, <2>6, <3>1, <3>3
      <4>2. NextAt(h, c) \in h.blocks
        BY Zenon, <2>1, <3>1, <4>1, Neighbours DEF IsFree
      <4>3. IsFree(h, NextAt(h, c))
        BY Zenon, <2>6, <3>1, <4>1, <4>2 DEF IsFree
      <4> QED
        BY Zenon, <2>10, <4>1, <4>3 DEF CoalescedBut
    <3> QED
      BY Zenon, <3>2, <3>3
  <2>11. KeepsBusy(h, g)
    BY Zenon, <2>5, <2>6 DEF KeepsBusy
  <2>12. FreeAt(g, b) /\ SizeAt(g, b) >= total
    BY <2>6, <1>0
  <2> QED
    BY Zenon, <2>5, <2>8, <2>9, <2>10, <2>11, <2>12 DEF g, Listed
<1> QED
  BY Zenon, <1>1, <1>2

\* A page is appended; what was the last block may be free in front of it.
LEMMA ExpandIntact ==
  ASSUME NEW h, Intact(h)
  PROVE  LET g == Expand(h)
         IN /\ Intact(g)
            /\ h.blocks \subseteq g.blocks
            /\ \A x \in DOMAIN h.hdr : /\ x \in DOMAIN g.hdr
                                       /\ FreeAt(g, x) = FreeAt(h, x)
                                       /\ SizeAt(g, x) = SizeAt(h, x)
            /\ KeepsBusy(h, g) /\ SameUse(h, g)
            /\ \E b \in g.blocks : FreeAt(g, b) /\ SizeAt(g, b) = PAGE_SIZE
<1> DEFINE g == Expand(h)
           new == Limit(h)
<1>1. /\ Typed(h) /\ Tiles(h) /\ h.end \in h.blocks /\ HEAP_START \in h.blocks
      /\ CoalescedBut(h, {})
  BY Zenon DEF Intact, Listed, Tiles
<1>2. /\ Typed(g)
      /\ g.blocks = h.blocks \cup {new} /\ g.end = new /\ g.size = h.size + PAGE_SIZE
      /\ g.used = h.used
      /\ DOMAIN g.hdr = DOMAIN h.hdr \cup {new}
      /\ \A x \in DOMAIN h.hdr :
           /\ SizeAt(g, x) = SizeAt(h, x)
           /\ FreeAt(g, x) = FreeAt(h, x)
           /\ NextAt(g, x) = IF x = h.end THEN new ELSE NextAt(h, x)
           /\ PrevAt(g, x) = PrevAt(h, x)
      /\ SizeAt(g, new) = PAGE_SIZE /\ FreeAt(g, new)
      /\ NextAt(g, new) = NULL /\ PrevAt(g, new) = h.end
  BY Zenon, <1>1, ExpandFields
<1> HIDE DEF g
<1>3. h.blocks \subseteq DOMAIN h.hdr
  BY Zenon, <1>1 DEF Typed
<1>4. /\ new \in Nat /\ new # NULL /\ Limit(g) = new + PAGE_SIZE
      /\ \A c \in h.blocks : c \in Nat /\ c < new /\ SizeAt(h, c) \in Nat /\ c + SizeAt(h, c) <= new
  <2>1. \A c \in h.blocks : c \in Nat /\ c < new /\ SizeAt(h, c) \in Nat /\ c + SizeAt(h, c) <= new
    BY Zenon, <1>1, Neighbours
  <2> QED
    BY <1>1, <1>2, <2>1, Constants DEF Limit, NULL, Typed
<1>5. Tiles(g)
  <2>1. HEAP_START \in g.blocks /\ g.end \in g.blocks
    BY Zenon, <1>1, <1>2
  <2>2. ASSUME NEW c \in g.blocks PROVE Placed(g, c)
    <3>1. CASE c = new
      <4>1. h.end + SizeAt(h, h.end) = new
        BY Zenon, <1>1 DEF Tiles, Placed
      <4>2. \A d \in g.blocks : new < d => new + PAGE_SIZE <= d
        BY <1>2, <1>4
      <4>3. new # HEAP_START /\ h.end # NULL /\ h.end \in g.blocks
        BY <1>1, <1>2, <1>4, Neighbours
      <4>4. SizeAt(g, h.end) = SizeAt(h, h.end)
        BY Zenon, <1>1, <1>2, <1>3
      <4> QED
        BY <1>2, <1>4, <3>1, <4>1, <4>2, <4>3, <4>4, Constants DEF Placed
    <3>2. CASE c # new
      <4>1. c \in h.blocks /\ c \in DOMAIN h.hdr
        BY Zenon, <1>2, <1>3, <3>2
      <4>2. Placed(h, c)
        BY Zenon, <1>1, <4>1 DEF Tiles
      <4>3. /\ SizeAt(g, c) = SizeAt(h, c) /\ PrevAt(g, c) = PrevAt(h, c)
            /\ NextAt(g, c) = IF c = h.end THEN new ELSE NextAt(h, c)
        BY Zenon, <1>2, <4>1
      <4>4. /\ c # g.end /\ c + SizeAt(g, c) # Limit(g)
        BY <1>2, <1>4, <4>1, <4>3, Constants
      <4>5. /\ NextAt(g, c) = c + SizeAt(g, c)
            /\ c + SizeAt(g, c) \in g.blocks
            /\ PrevAt(g, c + SizeAt(g, c)) = c
        BY <1>2, <1>3, <4>2, <4>3 DEF Placed
      <4>6. \A d \in g.blocks : c < d => c + SizeAt(g, c) <= d
        BY Zenon, <1>2, <1>4, <4>1, <4>2, <4>3 DEF Placed
      <4>7. /\ c = HEAP_START <=> PrevAt(g, c) = NULL
            /\ c # HEAP_START => /\ PrevAt(g, c) \in g.blocks
                                 /\ PrevAt(g, c) + SizeAt(g, PrevAt(g, c)) = c
        BY <1>2, <1>3, <4>2, <4>3 DEF Placed
      <4>8. SizeAt(g, c) > BLOCK_HEADER_SIZE
        BY Zenon, <4>2, <4>3 DEF Placed
      <4> QED
        BY Zenon, <4>4, <4>5, <4>6, <4>7, <4>8 DEF Placed
    <3> QED
      BY Zenon, <3>1, <3>2
  <2> QED
    BY Zenon, <2>1, <2>2 DEF Tiles
<1>6. SameUse(h, g)
  <2>1. \A c \in g.blocks : ~ FreeAt(g, c) <=> c \in h.blocks /\ ~ FreeAt(h, c)
    <3>1. new \notin h.blocks
      BY <1>4
    <3> QED
      BY Zenon, <1>2, <1>3, <3>1
  <2>2. \A c \in h.blocks : c \in g.blocks /\ SizeAt(g, c) = SizeAt(h, c)
    BY Zenon, <1>2, <1>3
  <2>3. InUse(g) = InUse(h)
    <3>1. ASSUME NEW x \in InUse(g) PROVE x \in InUse(h)
      <4>1. PICK c \in g.blocks : ~ FreeAt(g, c) /\ c <= x /\ x < c + SizeAt(g, c)
        BY Zenon DEF InUse
      <4>2. c \in h.blocks /\ ~ FreeAt(h, c) /\ SizeAt(g, c) = SizeAt(h, c)
        BY Zenon, <2>1, <2>2, <4>1
      <4>3. x \in HEAP_START .. Limit(g) - 1
        BY Zenon DEF InUse
      <4>4. x \in HEAP_START .. Limit(h) - 1
        BY <1>4, <4>1, <4>2, <4>3, Constants
      <4> QED
        BY Zenon, <4>1, <4>2, <4>4 DEF InUse
    <3>2. ASSUME NEW x \in InUse(h) PROVE x \in InUse(g)
      <4>1. PICK c \in h.blocks : ~ FreeAt(h, c) /\ c <= x /\ x < c + SizeAt(h, c)
        BY Zenon DEF InUse
      <4>2. c \in g.blocks /\ ~ FreeAt(g, c) /\ SizeAt(g, c) = SizeAt(h, c)
        BY Zenon, <2>1, <2>2, <4>1
      <4>3. x \in HEAP_START .. Limit(h) - 1
        BY Zenon DEF InUse
      <4>4. x \in HEAP_START .. Limit(g) - 1
        BY <1>4, <4>3, Constants
      <4> QED
        BY Zenon, <4>1, <4>2, <4>4 DEF InUse
    <3> QED
      BY Zenon, <3>1, <3>2
  <2> QED
    BY Zenon, <1>2, <2>3 DEF SameUse
<1>7. CoalescedBut(g, {})
  <2>1. SUFFICES ASSUME NEW c \in g.blocks, FreeAt(g, c), IsFree(g, NextAt(g, c))
                 PROVE  Seam(NextAt(g, c))
    BY Zenon DEF CoalescedBut
  <2>2. c \in h.blocks /\ FreeAt(h, c)
    BY Zenon, <1>2, <1>3, <2>1 DEF IsFree
  <2>3. CASE c = h.end
    <3>1. NextAt(g, c) = new
      BY Zenon, <1>2, <1>3, <2>2, <2>3
    <3>2. Seam(new)
      <4>1. /\ new - HEAP_START - HEAP_SIZE = h.size - HEAP_SIZE /\ new >= HEAP_START + HEAP_SIZE
        BY <1>1, Constants DEF Typed, Limit
      <4> QED
        BY Zenon, <1>1, <4>1 DEF Seam, Typed
    <3> QED
      BY Zenon, <3>1, <3>2
  <2>4. CASE c # h.end
    <3>1. NextAt(g, c) = NextAt(h, c) /\ NextAt(h, c) \in h.blocks
      BY Zenon, <1>1, <1>2, <1>3, <2>2, <2>4, Neighbours
    <3>2. IsFree(h, NextAt(h, c))
      BY Zenon, <1>2, <1>3, <2>1, <3>1 DEF IsFree
    <3> QED
      BY Zenon, <1>1, <2>2, <3>1, <3>2 DEF CoalescedBut
  <2> QED
    BY Zenon, <2>3, <2>4
<1>8. KeepsBusy(h, g)
  BY Zenon, <1>2, <1>3 DEF KeepsBusy
<1> QED
  BY Zenon, <1>2, <1>5, <1>6, <1>7, <1>8 DEF g, Intact, Listed

\* What a merge into b leaves: b itself, the blocks in use, and who is free.
Merged(h, g, b, S) ==
  /\ Listed(g)
  /\ CoalescedBut(g, S)
  /\ KeepsBusy(h, g) /\ SameUse(h, g)
  /\ DOMAIN g.hdr = DOMAIN h.hdr
  /\ \A x \in DOMAIN h.hdr : FreeAt(g, x) = FreeAt(h, x)
  /\ b \in g.blocks /\ PrevAt(g, b) = PrevAt(h, b)

\* A free block absorbs the free block behind it.
LEMMA AbsorbListed ==
  ASSUME NEW h, Listed(h), NEW b \in h.blocks, NextAt(h, b) # NULL,
         FreeAt(h, b), FreeAt(h, NextAt(h, b)),
         NEW S, CoalescedBut(h, S), NextAt(h, b) \notin S
  PROVE  Merged(h, Absorb(h, b), b, S \ {b})
<1> DEFINE gone == NextAt(h, b)
           next == NextAt(h, gone)
           g == Absorb(h, b)
<1>1. Typed(h) /\ Tiles(h) /\ HEAP_START \in h.blocks /\ h.end \in h.blocks
  BY Zenon DEF Listed, Tiles
<1>2. /\ b \in Nat /\ b # NULL /\ SizeAt(h, b) \in Nat /\ SizeAt(h, b) > BLOCK_HEADER_SIZE
      /\ gone \in h.blocks /\ gone = b + SizeAt(h, b) /\ b # h.end
      /\ PrevAt(h, gone) = b
  BY Zenon, <1>1, Neighbours
<1>3. /\ gone \in Nat /\ gone > b /\ SizeAt(h, gone) \in Nat /\ next \in h.blocks \cup {NULL}
      /\ SizeAt(h, gone) > BLOCK_HEADER_SIZE
      /\ next = NULL <=> gone = h.end
      /\ next # NULL => next = gone + SizeAt(h, gone) /\ PrevAt(h, next) = gone
  <2>1. gone \in Nat /\ gone > b
    BY <1>2, Constants
  <2> HIDE DEF gone
  <2> QED
    BY Zenon, <1>1, <1>2, <2>1, Neighbours
<1>4. next # b /\ next # gone
  BY <1>2, <1>3, Constants DEF NULL
<1>5. /\ Typed(g)
      /\ g.blocks = h.blocks \ {gone}
      /\ g.end = IF next = NULL THEN b ELSE h.end
      /\ g.size = h.size /\ g.used = h.used
      /\ DOMAIN g.hdr = DOMAIN h.hdr
      /\ \A x \in DOMAIN h.hdr :
           /\ SizeAt(g, x) = IF x = b THEN SizeAt(h, b) + SizeAt(h, gone) ELSE SizeAt(h, x)
           /\ FreeAt(g, x) = FreeAt(h, x)
           /\ NextAt(g, x) = IF x = b THEN next ELSE NextAt(h, x)
           /\ PrevAt(g, x) = IF x = next THEN b ELSE PrevAt(h, x)
  <2>1. gone # b /\ gone \in h.blocks /\ next \in h.blocks \cup {NULL}
    BY <1>2, <1>3
  <2> QED
    BY <1>1, <2>1, AbsorbFields
<1> HIDE DEF g, gone, next
<1>6. \A x \in h.blocks :
        /\ SizeAt(g, x) = IF x = b THEN SizeAt(h, b) + SizeAt(h, gone) ELSE SizeAt(h, x)
        /\ FreeAt(g, x) = FreeAt(h, x)
        /\ NextAt(g, x) = IF x = b THEN next ELSE NextAt(h, x)
        /\ PrevAt(g, x) = IF x = next THEN b ELSE PrevAt(h, x)
  BY Zenon, <1>1, <1>5 DEF Typed
<1>7. Limit(g) = Limit(h) /\ b + SizeAt(g, b) = gone + SizeAt(h, gone)
  BY <1>2, <1>3, <1>5, <1>6 DEF Limit
<1>8. \A c \in h.blocks : /\ c \in Nat /\ SizeAt(h, c) \in Nat /\ SizeAt(h, c) > BLOCK_HEADER_SIZE
                          /\ c # b => c + SizeAt(h, c) <= b \/ b + SizeAt(h, b) <= c
                          /\ c # gone => c + SizeAt(h, c) <= gone \/ gone + SizeAt(h, gone) <= c
  BY Zenon, <1>1, <1>2, Neighbours
<1>9. Tiles(g)
  <2>1. HEAP_START \in g.blocks /\ g.end \in g.blocks
    <3>1. gone # HEAP_START
      BY Zenon, <1>1, <1>2, Neighbours
    <3> QED
      BY Zenon, <1>1, <1>2, <1>3, <1>5, <3>1
  <2>2. ASSUME NEW c \in g.blocks PROVE Placed(g, c)
    <3>0. c \in h.blocks /\ c # gone
      BY Zenon, <1>5
    <3>1. CASE c = b
      <4>1. /\ PrevAt(h, b) = NULL <=> b = HEAP_START
            /\ PrevAt(h, b) # NULL => /\ PrevAt(h, b) \in h.blocks /\ PrevAt(h, b) < b
                                       /\ PrevAt(h, b) + SizeAt(h, PrevAt(h, b)) = b
        BY Zenon, <1>1, Neighbours
      <4>2. PrevAt(g, b) = PrevAt(h, b) /\ NextAt(g, b) = next
        BY Zenon, <1>4, <1>6
      <4>3. /\ b = HEAP_START <=> PrevAt(g, b) = NULL
            /\ b # HEAP_START => /\ PrevAt(g, b) \in g.blocks
                                 /\ PrevAt(g, b) + SizeAt(g, PrevAt(g, b)) = b
        BY <1>2, <1>3, <1>5, <1>6, <1>8, <4>1, <4>2
      <4>4. /\ gone + SizeAt(h, gone) = Limit(h) <=> gone = h.end
        BY Zenon, <1>1, <1>2 DEF Tiles, Placed
      <4>5. b + SizeAt(g, b) = Limit(g) <=> b = g.end
        BY Zenon, <1>2, <1>3, <1>5, <1>7, <4>4
      <4>6. b = g.end => NextAt(g, b) = NULL
        BY Zenon, <1>2, <1>5, <4>2
      <4>7. b # g.end => /\ NextAt(g, b) = b + SizeAt(g, b)
                         /\ b + SizeAt(g, b) \in g.blocks
                         /\ PrevAt(g, b + SizeAt(g, b)) = b
        BY Zenon, <1>3, <1>4, <1>5, <1>6, <1>7, <4>2
      <4>8. \A d \in g.blocks : b < d => b + SizeAt(g, b) <= d
        <5> SUFFICES ASSUME NEW d \in g.blocks, b < d PROVE gone + SizeAt(h, gone) <= d
          BY Zenon, <1>7
        <5>1. d \in h.blocks /\ d # gone /\ d # b
          BY <1>2, <1>5
        <5> QED
          BY <1>2, <1>3, <1>8, <5>1, Constants
      <4>9. SizeAt(g, b) > BLOCK_HEADER_SIZE
        BY <1>2, <1>3, <1>6, Constants
      <4> QED
        BY Zenon, <3>1, <4>3, <4>5, <4>6, <4>7, <4>8, <4>9 DEF Placed
    <3>2. CASE c # b
      <4>1. /\ Placed(h, c) /\ c \in Nat
        BY Zenon, <1>1, <1>8, <3>0 DEF Tiles
      <4>2. /\ SizeAt(g, c) = SizeAt(h, c) /\ NextAt(g, c) = NextAt(h, c)
            /\ PrevAt(g, c) = IF c = next THEN b ELSE PrevAt(h, c)
        BY Zenon, <1>6, <3>0, <3>2
      <4>3. c = g.end <=> c = h.end
        BY Zenon, <1>3, <1>5, <3>0, <3>2
      <4>4. /\ SizeAt(g, c) > BLOCK_HEADER_SIZE
            /\ c + SizeAt(g, c) = Limit(g) <=> c = g.end
            /\ c = g.end => NextAt(g, c) = NULL
            /\ c # g.end => NextAt(g, c) = c + SizeAt(g, c)
            /\ \A d \in g.blocks : c < d => c + SizeAt(g, c) <= d
        BY Zenon, <1>5, <1>7, <4>1, <4>2, <4>3 DEF Placed
      <4>5. c # g.end => /\ c + SizeAt(g, c) \in g.blocks
                         /\ PrevAt(g, c + SizeAt(g, c)) = c
        <5> SUFFICES ASSUME c # g.end
                     PROVE  /\ c + SizeAt(g, c) \in g.blocks
                            /\ PrevAt(g, c + SizeAt(g, c)) = c
          BY Zenon
        <5> DEFINE after == c + SizeAt(h, c)
        <5>1. after \in h.blocks /\ PrevAt(h, after) = c
          BY Zenon, <4>1, <4>3 DEF Placed
        <5>2. after # gone
          BY Zenon, <1>2, <3>2, <5>1
        <5>3. after # next
          BY Zenon, <1>1, <1>3, <3>0, <5>1, Neighbours
        <5> QED
          BY Zenon, <1>5, <1>6, <4>2, <5>1, <5>2, <5>3
      <4>6. /\ c = HEAP_START <=> PrevAt(g, c) = NULL
            /\ c # HEAP_START => /\ PrevAt(g, c) \in g.blocks
                                 /\ PrevAt(g, c) + SizeAt(g, PrevAt(g, c)) = c
        <5>1. ASSUME c = next
              PROVE  /\ c # HEAP_START /\ PrevAt(g, c) = b /\ b # NULL /\ b \in g.blocks
                     /\ b + SizeAt(g, b) = c
          <6>1. c # NULL /\ PrevAt(h, c) # NULL
            BY Zenon, <1>1, <1>2, <1>3, <3>0, <5>1, Neighbours
          <6>2. c # HEAP_START
            BY Zenon, <1>1, <3>0, <6>1, Neighbours
          <6> QED
            BY Zenon, <1>2, <1>3, <1>5, <1>7, <4>2, <5>1, <6>1, <6>2
        <5>2. ASSUME c # next, c # HEAP_START
              PROVE  PrevAt(h, c) # gone /\ PrevAt(h, c) # b
          <6>1. /\ PrevAt(h, c) # NULL /\ PrevAt(h, c) \in h.blocks
                /\ PrevAt(h, c) + SizeAt(h, PrevAt(h, c)) = c
            BY Zenon, <1>1, <3>0, <5>2, Neighbours
          <6>2. PrevAt(h, c) # b
            BY Zenon, <1>2, <3>0, <6>1
          <6>3. PrevAt(h, c) = gone => gone # h.end
            <7>1. h.end + SizeAt(h, h.end) = Limit(h)
              BY Zenon, <1>1 DEF Tiles, Placed
            <7>2. c # Limit(h)
              BY <1>1, <3>0, Neighbours
            <7> QED
              BY Zenon, <6>1, <7>1, <7>2
          <6> QED
            BY Zenon, <1>3, <5>2, <6>1, <6>2, <6>3
        <5>3. CASE c = next
          BY Zenon, <5>1, <5>3
        <5>4. CASE c # next
          <6>1. c = HEAP_START <=> PrevAt(h, c) = NULL
            BY Zenon, <4>1 DEF Placed
          <6>2. c # HEAP_START => PrevAt(h, c) \in h.blocks /\ PrevAt(h, c) + SizeAt(h, PrevAt(h, c)) = c
            BY Zenon, <4>1 DEF Placed
          <6> QED
            BY Zenon, <1>5, <1>6, <4>2, <5>2, <5>4, <6>1, <6>2
        <5> QED
          BY Zenon, <5>3, <5>4
      <4> QED
        BY Zenon, <4>4, <4>5, <4>6 DEF Placed
    <3> QED
      BY Zenon, <3>1, <3>2
  <2> QED
    BY Zenon, <2>1, <2>2 DEF Tiles
<1>10. SameUse(h, g)
  <2>1. \A c \in h.blocks : ~ FreeAt(h, c) => /\ c \in g.blocks /\ ~ FreeAt(g, c)
                                                  /\ SizeAt(g, c) = SizeAt(h, c)
    BY Zenon, <1>5, <1>6 DEF gone
  <2>2. \A c \in g.blocks : ~ FreeAt(g, c) => /\ c \in h.blocks /\ ~ FreeAt(h, c)
                                                  /\ SizeAt(g, c) = SizeAt(h, c)
    BY Zenon, <1>5, <1>6
  <2>3. InUse(g) = InUse(h)
    BY Zenon, <1>7, <2>1, <2>2 DEF InUse
  <2> QED
    BY Zenon, <1>5, <2>3 DEF SameUse
<1>11. CoalescedBut(g, S \ {b})
  <2>1. SUFFICES ASSUME NEW c \in g.blocks \ (S \ {b}), FreeAt(g, c), IsFree(g, NextAt(g, c))
                 PROVE  Seam(NextAt(g, c))
    BY Zenon DEF CoalescedBut
  <2>2. c \in h.blocks /\ FreeAt(h, c)
    BY Zenon, <1>5, <1>6, <2>1
  <2>3. CASE c = b
    <3>1. NextAt(g, c) = next /\ next # NULL /\ next \in h.blocks
      BY Zenon, <1>3, <1>6, <2>1, <2>3 DEF IsFree
    <3>2. IsFree(h, next)
      BY Zenon, <1>6, <2>1, <3>1 DEF IsFree
    <3>3. gone \in h.blocks \ S /\ FreeAt(h, gone)
      BY Zenon, <1>2 DEF gone
    <3> QED
      BY Zenon, <3>1, <3>2, <3>3 DEF CoalescedBut, next
  <2>4. CASE c # b
    <3>1. NextAt(g, c) = NextAt(h, c) /\ NextAt(h, c) \in h.blocks
      BY Zenon, <1>1, <1>6, <2>1, <2>2, <2>4, Neighbours DEF IsFree
    <3>2. IsFree(h, NextAt(h, c))
      BY Zenon, <1>6, <2>1, <3>1 DEF IsFree
    <3> QED
      BY Zenon, <2>1, <2>2, <2>4, <3>1, <3>2 DEF CoalescedBut
  <2> QED
    BY Zenon, <2>3, <2>4
<1>12. KeepsBusy(h, g)
  BY Zenon, <1>5, <1>6 DEF KeepsBusy, gone
<1>13. b \in g.blocks /\ PrevAt(g, b) = PrevAt(h, b)
  BY Zenon, <1>2, <1>3, <1>4, <1>5, <1>6
<1> QED
  BY Zenon, <1>5, <1>9, <1>10, <1>11, <1>12, <1>13 DEF g, Listed, Merged
-----------------------------------------------------------------------------
\* The header of the pointer freed last can still be read, and says so.
FreedIsFree ==
  freed # NULL => /\ freed - BLOCK_HEADER_SIZE \in DOMAIN heap.hdr
                  /\ FreeAt(heap, freed - BLOCK_HEADER_SIZE)

Region == [ptr : Nat, ret : Nat, lo : Nat, hi : Nat]

HeapInv ==
  /\ Intact(heap)
  /\ frames \in Nat /\ freed \in Nat /\ failed \in Nat
  /\ owned \subseteq Region
  /\ AllocationsDisjoint
  /\ FreedIsFree
  /\ PageSizedSucceeds

\* A step changes what is in use by one block at most, and heap_used with it.
Accounted ==
  \/ SameUse(heap, heap')
  \/ \E b \in Nat, n \in Nat \ {0} : Takes(heap, heap', b, n) \/ Takes(heap', heap, b, n)

FindsFit(size) ==
  Fitting(Candidate(size), size) # {} =>
    find_free_block(Candidate(size), size) \in Fitting(Candidate(size), size)
-----------------------------------------------------------------------------
(* Merging *)

\* The block in front of b, and b behind it.
LEMMA InFront ==
  ASSUME NEW h, Typed(h), Tiles(h), NEW b \in h.blocks, PrevAt(h, b) # NULL
  PROVE  /\ PrevAt(h, b) \in h.blocks
         /\ NextAt(h, PrevAt(h, b)) = b
         /\ PrevAt(h, b) # b
<1> DEFINE p == PrevAt(h, b)
<1>1. p \in h.blocks /\ p + SizeAt(h, p) = b /\ p < b /\ b \in Nat /\ p \in Nat
  BY Zenon, Neighbours
<1> HIDE DEF p
<1>2. p # h.end
  <2>1. h.end + SizeAt(h, h.end) = Limit(h)
    BY Zenon DEF Tiles, Placed
  <2>2. b # Limit(h)
    BY Neighbours
  <2> QED
    BY Zenon, <1>1, <2>1, <2>2
<1>3. NextAt(h, p) = p + SizeAt(h, p)
  BY Zenon, <1>1, <1>2, Neighbours
<1> QED
  BY <1>1, <1>3 DEF p

\* What is left after merging with the block behind.
LEMMA MergeNextListed ==
  ASSUME NEW h, Listed(h), NEW b \in h.blocks, FreeAt(h, b),
         CoalescedBut(h, {b, PrevAt(h, b)})
  PROVE  Merged(h, MergeNext(h, b), b, {PrevAt(h, b)})
<1> DEFINE g == MergeNext(h, b)
           p == PrevAt(h, b)
           next == NextAt(h, b)
<1>1. Typed(h) /\ Tiles(h)
  BY Zenon DEF Listed
<1>2. CASE IsFree(h, next)
  <2>1. g = Absorb(h, b)
    BY Zenon, <1>2 DEF MergeNext
  <2>2. next # NULL /\ FreeAt(h, next)
    BY Zenon, <1>2 DEF IsFree
  <2>3. next # b /\ next # p
    <3>1. /\ b \in Nat /\ SizeAt(h, b) \in Nat /\ SizeAt(h, b) > BLOCK_HEADER_SIZE
          /\ next = b + SizeAt(h, b)
          /\ p # NULL => p < b /\ p \in Nat
      BY Zenon, <1>1, <2>2, Neighbours
    <3> QED
      BY <2>2, <3>1, Constants
  <2> DEFINE S == {b, p}
  <2>4. next \notin S /\ CoalescedBut(h, S)
    BY Zenon, <2>3
  <2>5. S \ {b} = {p} \/ S \ {b} = {}
    BY Zenon
  <2> HIDE DEF S, g
  <2>6. Merged(h, g, b, S \ {b})
    BY Zenon, <2>1, <2>2, <2>4, AbsorbListed
  <2>7. CoalescedBut(g, {p})
    BY Zenon, <2>5, <2>6 DEF Merged, CoalescedBut
  <2> QED
    BY Zenon, <2>6, <2>7 DEF g, Merged
<1>3. CASE ~ IsFree(h, next)
  <2>1. g = h
    BY Zenon, <1>3 DEF MergeNext
  <2>2. CoalescedBut(h, {p})
    BY Zenon, <1>3 DEF CoalescedBut
  <2> QED
    BY Zenon, <2>1, <2>2 DEF KeepsBusy, SameUse, Merged
<1> QED
  BY Zenon, <1>2, <1>3

\* And after merging with the block in front.
LEMMA MergePrevIntact ==
  ASSUME NEW h, Listed(h), NEW b \in h.blocks, FreeAt(h, b),
         CoalescedBut(h, {PrevAt(h, b)})
  PROVE  LET g == MergePrev(h, b)
         IN /\ Intact(g)
            /\ KeepsBusy(h, g) /\ SameUse(h, g)
            /\ DOMAIN g.hdr = DOMAIN h.hdr
            /\ \A x \in DOMAIN h.hdr : FreeAt(g, x) = FreeAt(h, x)
<1> DEFINE g == MergePrev(h, b)
           p == PrevAt(h, b)
<1>1. Typed(h) /\ Tiles(h)
  BY Zenon DEF Listed
<1>2. CASE IsFree(h, p)
  <2>1. g = Absorb(h, p)
    BY Zenon, <1>2 DEF MergePrev
  <2>2. p # NULL /\ FreeAt(h, p)
    BY Zenon, <1>2 DEF IsFree
  <2>3. p \in h.blocks /\ NextAt(h, p) = b /\ p # b /\ b # NULL
    BY Zenon, <1>1, <2>2, InFront, Neighbours
  <2> DEFINE S == {p}
  <2>4. CoalescedBut(h, S) /\ b \notin S /\ S \ {p} = {}
    BY Zenon, <2>3
  <2> HIDE DEF S, g, p
  <2>5. /\ NextAt(h, p) # NULL /\ FreeAt(h, NextAt(h, p)) /\ NextAt(h, p) \notin S
        /\ CoalescedBut(h, S) /\ p \in h.blocks /\ FreeAt(h, p)
    BY Zenon, <2>2, <2>3, <2>4
  <2>6. Merged(h, g, p, S \ {p})
    BY Zenon, <2>1, <2>5, AbsorbListed
  <2> QED
    BY Zenon, <2>4, <2>6 DEF g, Intact, Merged
<1>3. CASE ~ IsFree(h, p)
  <2>1. g = h
    BY Zenon, <1>3 DEF MergePrev
  <2>2. CoalescedBut(h, {})
    <3>1. p \notin h.blocks \/ ~ FreeAt(h, p)
      BY Zenon, <1>1, <1>3, Neighbours DEF IsFree
    <3> QED
      BY Zenon, <3>1 DEF CoalescedBut
  <2> QED
    BY Zenon, <2>1, <2>2 DEF KeepsBusy, SameUse, Intact
<1> QED
  BY Zenon, <1>2, <1>3
-----------------------------------------------------------------------------
(* Taking and releasing a block *)

\* The two lists differ at most in which of their blocks are free.
SameList(h, g) ==
  /\ g.blocks = h.blocks /\ g.end = h.end /\ g.size = h.size
  /\ \A c \in h.blocks : /\ SizeAt(g, c) = SizeAt(h, c)
                         /\ NextAt(g, c) = NextAt(h, c)
                         /\ PrevAt(g, c) = PrevAt(h, c)

LEMMA SameTiles ==
  ASSUME NEW h, NEW g, Tiles(h), SameList(h, g)
  PROVE  Tiles(g)
<1>1. HEAP_START \in g.blocks /\ g.end \in g.blocks
  BY Zenon DEF Tiles, SameList
<1>2. ASSUME NEW b \in g.blocks PROVE Placed(g, b)
  <2>1. Placed(h, b) /\ Limit(g) = Limit(h)
    BY Zenon DEF Tiles, SameList, Limit
  <2> QED
    BY Zenon, <2>1 DEF Placed, SameList
<1> QED
  BY Zenon, <1>1, <1>2 DEF Tiles

\* In g the block b is in use, in h it is free.
LEMMA InUseAdds ==
  ASSUME NEW h, NEW g, Typed(h), Typed(g), Tiles(h), SameList(h, g), NEW b \in h.blocks,
         FreeAt(h, b), ~ FreeAt(g, b),
         \A c \in h.blocks \ {b} : FreeAt(g, c) = FreeAt(h, c)
  PROVE  LET taken == b .. b + SizeAt(h, b) - 1
         IN InUse(h) \cap taken = {} /\ InUse(g) = InUse(h) \cup taken
<1> DEFINE taken == b .. b + SizeAt(h, b) - 1
<1>1. /\ b \in Nat /\ SizeAt(h, b) \in Nat /\ b >= HEAP_START /\ SizeAt(h, b) > 0
      /\ b + SizeAt(h, b) <= Limit(h) /\ Limit(h) \in Nat /\ Limit(g) = Limit(h)
  BY Neighbours, Constants DEF SameList, Limit
<1>2. \A c \in h.blocks : /\ c \in Nat /\ SizeAt(h, c) \in Nat
                          /\ c # b => c + SizeAt(h, c) <= b \/ b + SizeAt(h, b) <= c
  BY Zenon, Neighbours
<1>3. InUse(h) \cap taken = {}
  <2>1. ASSUME NEW x \in InUse(h), x \in taken PROVE FALSE
    <3>1. PICK c \in h.blocks : ~ FreeAt(h, c) /\ c <= x /\ x < c + SizeAt(h, c)
      BY Zenon DEF InUse
    <3>2. c # b
      BY Zenon, <3>1
    <3> QED
      BY <1>1, <1>2, <2>1, <3>1, <3>2
  <2> QED
    BY Zenon, <2>1
<1>4. InUse(g) = InUse(h) \cup taken
  <2>1. ASSUME NEW x \in InUse(g) PROVE x \in InUse(h) \cup taken
    <3>1. PICK c \in g.blocks : ~ FreeAt(g, c) /\ c <= x /\ x < c + SizeAt(g, c)
      BY Zenon DEF InUse
    <3>2. x \in HEAP_START .. Limit(h) - 1 /\ c \in h.blocks /\ SizeAt(g, c) = SizeAt(h, c)
      BY Zenon, <1>1, <3>1 DEF InUse, SameList
    <3>3. CASE c = b
      BY <1>1, <3>1, <3>2, <3>3, Constants
    <3>4. CASE c # b
      BY Zenon, <3>1, <3>2, <3>4 DEF InUse
    <3> QED
      BY Zenon, <3>3, <3>4
  <2>2. ASSUME NEW x \in InUse(h) PROVE x \in InUse(g)
    <3>1. PICK c \in h.blocks : ~ FreeAt(h, c) /\ c <= x /\ x < c + SizeAt(h, c)
      BY Zenon DEF InUse
    <3>2. c # b /\ c \in g.blocks /\ SizeAt(g, c) = SizeAt(h, c) /\ ~ FreeAt(g, c)
      BY Zenon, <3>1 DEF SameList
    <3>3. x \in HEAP_START .. Limit(g) - 1
      BY Zenon, <1>1 DEF InUse
    <3> QED
      BY Zenon, <3>1, <3>2, <3>3 DEF InUse
  <2>3. ASSUME NEW x \in taken PROVE x \in InUse(g)
    <3>1. x \in HEAP_START .. Limit(g) - 1 /\ b <= x /\ x < b + SizeAt(h, b)
      BY <1>1, Constants
    <3>2. b \in g.blocks /\ SizeAt(g, b) = SizeAt(h, b)
      BY Zenon DEF SameList
    <3> QED
      BY Zenon, <3>1, <3>2 DEF InUse
  <2> QED
    BY Zenon, <2>1, <2>2, <2>3
<1> QED
  BY Zenon, <1>3, <1>4

\* The free flag of a block and heap_used change together.
Flagged(h, b, flag, n) == [h EXCEPT !.hdr[b].is_free = flag, !.used = n]

LEMMA FlagFields ==
  ASSUME NEW h, Typed(h), NEW b \in h.blocks, NEW flag \in BOOLEAN, NEW n \in Int
  PROVE  LET g == Flagged(h, b, flag, n)
         IN /\ Typed(g) /\ SameList(h, g) /\ g.used = n
            /\ DOMAIN g.hdr = DOMAIN h.hdr
            /\ FreeAt(g, b) = flag
            /\ \A x \in DOMAIN h.hdr \ {b} : FreeAt(g, x) = FreeAt(h, x)
<1> USE DEF SizeAt, FreeAt, NextAt, PrevAt
<1> DEFINE hdr == [h.hdr EXCEPT ![b].is_free = flag]
           g == Flagged(h, b, flag, n)
<1>1. h.hdr \in [DOMAIN h.hdr -> Header] /\ b \in DOMAIN h.hdr
  BY Zenon DEF Typed
<1>2. /\ hdr \in [DOMAIN h.hdr -> Header]
      /\ \A x \in DOMAIN h.hdr \ {b} : hdr[x] = h.hdr[x]
      /\ hdr[b].size = SizeAt(h, b) /\ hdr[b].next = NextAt(h, b) /\ hdr[b].prev = PrevAt(h, b)
  BY Zenon, <1>1 DEF Header
<1>3. hdr[b].is_free = flag
  BY Zenon, <1>1 DEF Header
<1>4. g = [hdr |-> hdr, blocks |-> h.blocks, end |-> h.end, size |-> h.size, used |-> n]
  <2>1. g = [h EXCEPT !.hdr = hdr, !.used = n]
    BY Zenon DEF Flagged
  <2> HIDE DEF g, hdr
  <2> QED
    BY ZenonT(30), <2>1 DEF Typed
<1> HIDE DEF hdr, g
<1>5. /\ g.hdr = hdr /\ g.blocks = h.blocks /\ g.end = h.end /\ g.size = h.size /\ g.used = n
      /\ DOMAIN g.hdr = DOMAIN h.hdr /\ Limit(g) = Limit(h)
      /\ g = [hdr |-> g.hdr, blocks |-> g.blocks, end |-> g.end, size |-> g.size, used |-> g.used]
  BY Zenon, <1>2, <1>4 DEF Limit
<1>6. Typed(g)
  BY Zenon, <1>2, <1>5 DEF Typed
<1>7. SameList(h, g)
  BY Zenon, <1>1, <1>2, <1>5 DEF SameList, Typed
<1> QED
  BY Zenon, <1>2, <1>3, <1>5, <1>6, <1>7 DEF g

LEMMA ForgetFields ==
  ASSUME NEW h, Typed(h), NEW stale, stale \subseteq DOMAIN h.hdr
  PROVE  LET g == Forget(h, stale)
         IN /\ Typed(g) /\ SameList(h, g) /\ g.used = h.used
            /\ DOMAIN g.hdr = h.blocks \cup stale
            /\ \A x \in h.blocks \cup stale : FreeAt(g, x) = FreeAt(h, x)
<1> USE DEF SizeAt, FreeAt, NextAt, PrevAt
<1> DEFINE D == h.blocks \cup stale
           hdr == [a \in D |-> h.hdr[a]]
           g == Forget(h, stale)
<1>1. D \subseteq DOMAIN h.hdr
  BY Zenon DEF Typed
<1>2. hdr \in [D -> Header] /\ \A x \in D : hdr[x] = h.hdr[x]
  BY Zenon, <1>1 DEF Typed
<1>3. g = [hdr |-> hdr, blocks |-> h.blocks, end |-> h.end, size |-> h.size, used |-> h.used]
  BY DEF Typed, Forget
<1> HIDE DEF hdr, g
<1>4. /\ g.hdr = hdr /\ g.blocks = h.blocks /\ g.end = h.end /\ g.size = h.size /\ g.used = h.used
      /\ DOMAIN g.hdr = D /\ Limit(g) = Limit(h)
      /\ g = [hdr |-> g.hdr, blocks |-> g.blocks, end |-> g.end, size |-> g.size, used |-> g.used]
  BY Zenon, <1>2, <1>3 DEF Limit
<1>5. Typed(g)
  BY Zenon, <1>1, <1>2, <1>4 DEF Typed
<1>6. SameList(h, g)
  BY Zenon, <1>2, <1>4 DEF SameList
<1> QED
  BY Zenon, <1>2, <1>4, <1>5, <1>6 DEF g

\* A free block is taken; the pair that splitting left behind it is apart again.
LEMMA AllocateIntact ==
  ASSUME NEW h, Listed(h), NEW b \in h.blocks, FreeAt(h, b), CoalescedBut(h, {b})
  PROVE  LET g == Allocate(h, b)
         IN /\ Intact(g)
            /\ SameList(h, g) /\ Takes(h, g, b, SizeAt(h, b))
            /\ ~ FreeAt(g, b)
            /\ \A c \in h.blocks \ {b} : FreeAt(g, c) = FreeAt(h, c)
<1> DEFINE n == h.used + SizeAt(h, b)
           no == FALSE
           f == Flagged(h, b, no, n)
           g == Allocate(h, b)
<1>1. Typed(h) /\ Tiles(h)
  BY Zenon DEF Listed
<1>2. n \in Int /\ SizeAt(h, b) \in Nat /\ h.used \in Int /\ no \in BOOLEAN
  BY <1>1, Neighbours DEF Typed
<1> HIDE DEF n, no
<1>3. /\ Typed(f) /\ SameList(h, f) /\ f.used = n
      /\ DOMAIN f.hdr = DOMAIN h.hdr
      /\ FreeAt(f, b) = no
      /\ \A x \in DOMAIN h.hdr \ {b} : FreeAt(f, x) = FreeAt(h, x)
  BY <1>1, <1>2, FlagFields
<1>4. g = Forget(f, {})
  BY Zenon DEF Allocate, Flagged, n, no
<1> HIDE DEF f, g
<1>5. /\ Typed(g) /\ SameList(f, g) /\ g.used = n
      /\ \A x \in f.blocks : FreeAt(g, x) = FreeAt(f, x)
  BY <1>3, <1>4, ForgetFields
<1>6. SameList(h, g)
  BY Zenon, <1>3, <1>5 DEF SameList
<1>7. ~ FreeAt(g, b)
  BY Zenon, <1>3, <1>5 DEF SameList, no
<1>8. \A c \in h.blocks \ {b} : FreeAt(g, c) = FreeAt(h, c)
  BY Zenon, <1>1, <1>3, <1>5 DEF SameList, Typed
<1>9. Tiles(g)
  BY Zenon, <1>1, <1>6, SameTiles
<1>10. Takes(h, g, b, SizeAt(h, b))
  <2>1. LET taken == b .. b + SizeAt(h, b) - 1
        IN InUse(h) \cap taken = {} /\ InUse(g) = InUse(h) \cup taken
    BY Zenon, <1>1, <1>5, <1>6, <1>7, <1>8, InUseAdds
  <2> QED
    BY Zenon, <1>5, <2>1 DEF Takes, n
<1>11. CoalescedBut(g, {})
  <2>1. SUFFICES ASSUME NEW c \in g.blocks, FreeAt(g, c), IsFree(g, NextAt(g, c))
                 PROVE  Seam(NextAt(g, c))
    BY Zenon DEF CoalescedBut
  <2>2. c \in h.blocks \ {b} /\ FreeAt(h, c) /\ NextAt(g, c) = NextAt(h, c)
    BY Zenon, <1>6, <1>7, <1>8, <2>1 DEF SameList
  <2>3. NextAt(h, c) \in h.blocks \ {b}
    BY <1>1, <1>7, <2>1, <2>2, Neighbours DEF IsFree
  <2>4. IsFree(h, NextAt(h, c))
    BY Zenon, <1>8, <2>1, <2>2, <2>3 DEF IsFree
  <2> QED
    BY Zenon, <2>2, <2>4 DEF CoalescedBut
<1> QED
  BY Zenon, <1>5, <1>6, <1>7, <1>8, <1>9, <1>10, <1>11 DEF g, Intact, Listed

\* Freed: before the merge, the pairs on either side of b are exempt.
LEMMA FreeListed ==
  ASSUME NEW h, Intact(h), NEW b \in h.blocks, ~ FreeAt(h, b)
  PROVE  LET f == Flagged(h, b, TRUE, h.used - SizeAt(h, b))
         IN /\ Listed(f) /\ SameList(h, f) /\ Takes(f, h, b, SizeAt(h, b))
            /\ CoalescedBut(f, {b, PrevAt(h, b)})
            /\ DOMAIN f.hdr = DOMAIN h.hdr
            /\ FreeAt(f, b)
            /\ \A c \in h.blocks \ {b} : FreeAt(f, c) = FreeAt(h, c)
<1> DEFINE n == h.used - SizeAt(h, b)
           yes == TRUE
           f == Flagged(h, b, yes, n)
<1>1. Typed(h) /\ Tiles(h) /\ CoalescedBut(h, {})
  BY Zenon DEF Intact, Listed
<1>2. n \in Int /\ SizeAt(h, b) \in Nat /\ h.used \in Int /\ yes \in BOOLEAN
  BY <1>1, Neighbours DEF Typed
<1> HIDE DEF n, yes
<1>3. /\ Typed(f) /\ SameList(h, f) /\ f.used = n
      /\ DOMAIN f.hdr = DOMAIN h.hdr
      /\ FreeAt(f, b) = yes
      /\ \A x \in DOMAIN h.hdr \ {b} : FreeAt(f, x) = FreeAt(h, x)
  BY <1>1, <1>2, FlagFields
<1> HIDE DEF f
<1>4. FreeAt(f, b)
  BY Zenon, <1>3 DEF yes
<1>5. \A c \in h.blocks \ {b} : FreeAt(f, c) = FreeAt(h, c)
  BY Zenon, <1>1, <1>3 DEF Typed
<1>6. Tiles(f)
  BY Zenon, <1>1, <1>3, SameTiles
<1>7. Takes(f, h, b, SizeAt(h, b))
  <2>1. SameList(f, h) /\ b \in f.blocks /\ f.blocks = h.blocks /\ SizeAt(f, b) = SizeAt(h, b)
    BY Zenon, <1>3 DEF SameList
  <2>2. \A c \in f.blocks \ {b} : FreeAt(h, c) = FreeAt(f, c)
    BY Zenon, <1>5, <2>1
  <2>3. LET taken == b .. b + SizeAt(f, b) - 1
        IN InUse(f) \cap taken = {} /\ InUse(h) = InUse(f) \cup taken
    BY Zenon, <1>1, <1>3, <1>4, <1>6, <2>1, <2>2, InUseAdds
  <2>4. h.used = f.used + SizeAt(h, b)
    BY <1>2, <1>3 DEF n
  <2> QED
    BY Zenon, <2>1, <2>3, <2>4 DEF Takes
<1>8. CoalescedBut(f, {b, PrevAt(h, b)})
  <2>1. SUFFICES ASSUME NEW c \in f.blocks \ {b, PrevAt(h, b)},
                        FreeAt(f, c), IsFree(f, NextAt(f, c))
                 PROVE  Seam(NextAt(f, c))
    BY Zenon DEF CoalescedBut
  <2>2. c \in h.blocks /\ c # b /\ FreeAt(h, c) /\ NextAt(f, c) = NextAt(h, c)
    BY Zenon, <1>3, <1>5, <2>1 DEF SameList
  <2>3. NextAt(h, c) \in h.blocks /\ PrevAt(h, NextAt(h, c)) = c
    BY Zenon, <1>1, <2>1, <2>2, Neighbours DEF IsFree
  <2>4. NextAt(h, c) # b
    BY Zenon, <2>1, <2>3
  <2>5. IsFree(h, NextAt(h, c))
    BY Zenon, <1>5, <2>1, <2>2, <2>3, <2>4 DEF IsFree
  <2> QED
    BY Zenon, <1>1, <2>2, <2>5 DEF CoalescedBut
<1> QED
  BY ZenonT(30), <1>3, <1>4, <1>5, <1>6, <1>7, <1>8 DEF Listed, f, n, yes

\* kfree of a block in use, the merges included.
LEMMA ReleaseIntact ==
  ASSUME NEW h, Intact(h), NEW b \in h.blocks, ~ FreeAt(h, b)
  PROVE  LET g == Forget(Release(h, b), {b})
         IN /\ Intact(g)
            /\ b \in DOMAIN g.hdr /\ FreeAt(g, b)
            /\ Takes(g, h, b, SizeAt(h, b))
            /\ \A c \in h.blocks \ {b} : ~ FreeAt(h, c) =>
                 c \in g.blocks /\ ~ FreeAt(g, c) /\ SizeAt(g, c) = SizeAt(h, c)
<1> DEFINE f == Flagged(h, b, TRUE, h.used - SizeAt(h, b))
           m == MergeNext(f, b)
           r == MergePrev(m, b)
           g == Forget(r, {b})
<1>1. Typed(h) /\ Tiles(h)
  BY Zenon DEF Intact, Listed
<1>2. Release(h, b) = r
  <2>1. [h EXCEPT !.used = h.used - SizeAt(h, b), !.hdr[b].is_free = TRUE] = f
    BY ZenonT(30) DEF Flagged
  <2> QED
    BY Zenon, <2>1 DEF Release, merge_free_blocks
<1>3. /\ Listed(f) /\ SameList(h, f) /\ Takes(f, h, b, SizeAt(h, b))
      /\ CoalescedBut(f, {b, PrevAt(h, b)})
      /\ DOMAIN f.hdr = DOMAIN h.hdr
      /\ FreeAt(f, b)
      /\ \A c \in h.blocks \ {b} : FreeAt(f, c) = FreeAt(h, c)
  BY ZenonT(30), FreeListed
<1> HIDE DEF f
<1>4. b \in f.blocks /\ PrevAt(f, b) = PrevAt(h, b) /\ f.blocks = h.blocks
  BY Zenon, <1>3 DEF SameList
<1>5. /\ Listed(m)
      /\ CoalescedBut(m, {PrevAt(f, b)})
      /\ KeepsBusy(f, m) /\ SameUse(f, m)
      /\ DOMAIN m.hdr = DOMAIN f.hdr
      /\ \A x \in DOMAIN f.hdr : FreeAt(m, x) = FreeAt(f, x)
      /\ b \in m.blocks /\ PrevAt(m, b) = PrevAt(f, b)
  <2>1. Merged(f, m, b, {PrevAt(f, b)})
    BY Zenon, <1>3, <1>4, MergeNextListed
  <2> QED
    BY Zenon, <2>1 DEF Merged
<1> HIDE DEF m
<1>6. b \in DOMAIN h.hdr
  BY Zenon, <1>1 DEF Typed
<1>7. FreeAt(m, b) /\ CoalescedBut(m, {PrevAt(m, b)})
  BY Zenon, <1>3, <1>5, <1>6
<1>8. /\ Intact(r)
      /\ KeepsBusy(m, r) /\ SameUse(m, r)
      /\ DOMAIN r.hdr = DOMAIN m.hdr
      /\ \A x \in DOMAIN m.hdr : FreeAt(r, x) = FreeAt(m, x)
  BY Zenon, <1>5, <1>7, MergePrevIntact
<1> HIDE DEF r
<1>9. Typed(r) /\ Tiles(r) /\ CoalescedBut(r, {}) /\ {b} \subseteq DOMAIN r.hdr
  BY Zenon, <1>3, <1>5, <1>6, <1>8 DEF Intact, Listed
<1>10. /\ Typed(g) /\ SameList(r, g) /\ g.used = r.used
       /\ DOMAIN g.hdr = r.blocks \cup {b}
       /\ \A x \in r.blocks \cup {b} : FreeAt(g, x) = FreeAt(r, x)
  BY Zenon, <1>9, ForgetFields
<1> HIDE DEF g
<1>11. g.blocks = r.blocks /\ Limit(g) = Limit(r)
  BY Zenon, <1>10 DEF SameList, Limit
<1>12. Tiles(g)
  BY Zenon, <1>9, <1>10, SameTiles
<1>13. Takes(g, h, b, SizeAt(h, b))
  <2>1. InUse(g) = InUse(r)
    BY Zenon, <1>10, <1>11 DEF InUse, SameList
  <2> QED
    BY Zenon, <1>3, <1>5, <1>8, <1>10, <2>1 DEF Takes, SameUse
<1>14. CoalescedBut(g, {})
  <2>1. SUFFICES ASSUME NEW c \in g.blocks, FreeAt(g, c), IsFree(g, NextAt(g, c))
                 PROVE  Seam(NextAt(g, c))
    BY Zenon DEF CoalescedBut
  <2>2. c \in r.blocks /\ FreeAt(g, c) = FreeAt(r, c) /\ NextAt(g, c) = NextAt(r, c)
    BY ZenonT(30), <1>10, <1>11, <2>1 DEF SameList
  <2>3. NextAt(r, c) \in r.blocks
    BY Zenon, <1>9, <2>1, <2>2, Neighbours DEF IsFree
  <2>4. IsFree(r, NextAt(r, c))
    BY Zenon, <1>10, <2>1, <2>2, <2>3 DEF IsFree
  <2> QED
    BY Zenon, <1>9, <2>1, <2>2, <2>4 DEF CoalescedBut
<1>15. b \in DOMAIN g.hdr /\ FreeAt(g, b)
  BY Zenon, <1>5, <1>6, <1>7, <1>3, <1>8, <1>10
<1>16. ASSUME NEW c \in h.blocks \ {b}, ~ FreeAt(h, c)
       PROVE  c \in g.blocks /\ ~ FreeAt(g, c) /\ SizeAt(g, c) = SizeAt(h, c)
  <2>1. c \in f.blocks /\ ~ FreeAt(f, c) /\ SizeAt(f, c) = SizeAt(h, c)
    BY Zenon, <1>3, <1>16 DEF SameList
  <2>2. c \in m.blocks /\ ~ FreeAt(m, c) /\ SizeAt(m, c) = SizeAt(h, c)
    BY Zenon, <1>5, <2>1 DEF KeepsBusy
  <2>3. c \in r.blocks /\ ~ FreeAt(r, c) /\ SizeAt(r, c) = SizeAt(h, c)
    BY Zenon, <1>8, <2>2 DEF KeepsBusy
  <2> QED
    BY Zenon, <1>10, <1>11, <2>3 DEF SameList
<1> QED
  BY Zenon, <1>2, <1>10, <1>12, <1>13, <1>14, <1>15, <1>16 DEF Intact, Listed, g
-----------------------------------------------------------------------------
(* The calls *)

LEMMA AlignedUp ==
  ASSUME NEW request \in Nat, request > 0
  PROVE  Aligned(request) \in Nat /\ Aligned(request) >= request /\ Aligned(request) > 0
<1>1. Aligned(request) \in Nat /\ request <= Aligned(request)
  BY Zenon, Constants, RoundUp DEF Aligned
<1> QED
  BY <1>1

LEMMA CandidateIntact ==
  ASSUME HeapInv, NEW size \in Nat
  PROVE  LET h == Candidate(size)
         IN /\ Intact(h)
            /\ KeepsBusy(heap, h) /\ SameUse(heap, h)
            /\ \A x \in DOMAIN heap.hdr : x \in DOMAIN h.hdr /\ FreeAt(h, x) = FreeAt(heap, x)
            /\ Expands(size) => \E b \in h.blocks : FreeAt(h, b) /\ SizeAt(h, b) = PAGE_SIZE
<1>1. Intact(heap)
  BY Zenon DEF HeapInv
<1>2. CASE Expands(size)
  BY Zenon, <1>1, <1>2, ExpandIntact DEF Candidate
<1>3. CASE ~ Expands(size)
  BY Zenon, <1>1, <1>3 DEF Candidate, KeepsBusy, SameUse
<1> QED
  BY Zenon, <1>2, <1>3

\* Nothing fits, not even in a new page if there was a frame for one.
LEMMA FailsStep ==
  ASSUME HeapInv, NEW request \in Nat, request > 0, kmallocFails(request)
  PROVE  HeapInv' /\ Accounted
<1> DEFINE size == Aligned(request)
           h == Candidate(size)
<1>1. size \in Nat
  BY Zenon, AlignedUp
<1>2. /\ heap' = h /\ failed' = request /\ owned' = owned /\ freed' = freed
      /\ frames' = IF Expands(size) THEN frames - 1 ELSE frames
      /\ Fitting(h, size) = {}
  BY Zenon DEF kmallocFails
<1> HIDE DEF size
<1>3. /\ Intact(h)
      /\ KeepsBusy(heap, h) /\ SameUse(heap, h)
      /\ \A x \in DOMAIN heap.hdr : x \in DOMAIN h.hdr /\ FreeAt(h, x) = FreeAt(heap, x)
      /\ Expands(size) => \E b \in h.blocks : FreeAt(h, b) /\ SizeAt(h, b) = PAGE_SIZE
  BY Zenon, <1>1, CandidateIntact
<1> HIDE DEF h
<1>4. Intact(heap)'
  BY Zenon, <1>2, <1>3
<1>5. (frames \in Nat /\ freed \in Nat /\ failed \in Nat /\ owned \subseteq Region)'
  BY <1>2 DEF HeapInv, Expands
<1>6. AllocationsDisjoint'
  <2>1. AllocationsDisjoint
    BY Zenon DEF HeapInv
  <2> QED
    BY Zenon, <1>2, <1>3, <2>1 DEF AllocationsDisjoint, KeepsBusy
<1>7. FreedIsFree'
  <2>1. FreedIsFree
    BY Zenon DEF HeapInv
  <2> QED
    BY Zenon, <1>2, <1>3, <2>1 DEF FreedIsFree
<1>8. PageSizedSucceeds'
  <2>1. CASE Expands(size)
    <3>1. PICK b \in h.blocks : FreeAt(h, b) /\ SizeAt(h, b) = PAGE_SIZE
      BY Zenon, <1>3, <2>1
    <3>2. ~ (PAGE_SIZE >= size + BLOCK_HEADER_SIZE)
      BY Zenon, <1>2, <3>1 DEF Fitting
    <3>3. size + BLOCK_HEADER_SIZE > PAGE_SIZE
      BY <1>1, <3>2, Constants
    <3> QED
      BY Zenon, <1>2, <3>3 DEF PageSizedSucceeds, size
  <2>2. CASE ~ Expands(size)
    <3>1. h = heap
      BY Zenon, <2>2 DEF h, Candidate
    <3>2. frames = 0
      BY <1>2, <2>2, <3>1 DEF Expands, HeapInv
    <3> QED
      BY Zenon, <1>2, <2>2, <3>2 DEF PageSizedSucceeds
  <2> QED
    BY Zenon, <2>1, <2>2
<1>9. Accounted
  BY Zenon, <1>2, <1>3 DEF Accounted
<1> QED
  BY Zenon, <1>4, <1>5, <1>6, <1>7, <1>8, <1>9 DEF HeapInv

\* The caller uses length bytes of a block that was free.
LEMMA GivesStep ==
  ASSUME HeapInv, NEW request \in Nat, request > 0, NEW alignment, NEW length \in Nat,
         \A ptr \in Nat : /\ UsedFrom(ptr, alignment) \in Nat
                          /\ ptr <= UsedFrom(ptr, alignment)
                          /\ UsedFrom(ptr, alignment) + length <= ptr + Aligned(request),
         FindsFit(Aligned(request)),
         kmallocGives(request, alignment, length)
  PROVE  HeapInv' /\ Accounted
<1> DEFINE size == Aligned(request)
           h == Candidate(size)
           b == find_free_block(h, size)
           s == split_block(h, b, size)
           g == Allocate(s, b)
           ptr == b + BLOCK_HEADER_SIZE
           lo == UsedFrom(ptr, alignment)
           given == [ptr |-> ptr, lo |-> lo, hi |-> lo + length,
                     ret |-> IF alignment = 0 THEN ptr ELSE lo + POINTER]
<1>1. size \in Nat /\ size > 0
  BY Zenon, AlignedUp
<1>2. /\ heap' = g /\ failed' = 0 /\ owned' = owned \cup {given} /\ freed' = NULL
      /\ frames' = IF Expands(size) THEN frames - 1 ELSE frames
      /\ Fitting(h, size) # {}
  BY Zenon DEF kmallocGives
<1> HIDE DEF size
<1>3. Intact(h) /\ KeepsBusy(heap, h) /\ SameUse(heap, h)
  BY Zenon, <1>1, CandidateIntact
<1> HIDE DEF h
<1>4. Typed(h) /\ Tiles(h) /\ Listed(h) /\ CoalescedBut(h, {})
  BY Zenon, <1>3 DEF Intact, Listed
<1>5. b \in h.blocks /\ FreeAt(h, b) /\ SizeAt(h, b) >= size + BLOCK_HEADER_SIZE
  <2>1. b \in Fitting(h, size)
    BY Zenon, <1>2 DEF FindsFit, b, h, size
  <2> HIDE DEF b
  <2> QED
    BY Zenon, <2>1 DEF Fitting
<1>6. b \in Nat /\ ptr \in Nat /\ ptr - BLOCK_HEADER_SIZE = b
  <2> HIDE DEF b
  <2>1. b \in Nat
    BY Zenon, <1>4, <1>5, Neighbours
  <2> QED
    BY <2>1, Constants
<1> HIDE DEF b
<1>7. /\ Listed(s)
      /\ h.blocks \subseteq s.blocks
      /\ FreeAt(s, b) /\ SizeAt(s, b) >= size + BLOCK_HEADER_SIZE
      /\ CoalescedBut(s, {b})
      /\ KeepsBusy(h, s) /\ SameUse(h, s)
  BY ZenonT(30), <1>1, <1>4, <1>5, SplitListed
<1> HIDE DEF s
<1>8. /\ Intact(g)
      /\ SameList(s, g) /\ Takes(s, g, b, SizeAt(s, b))
      /\ ~ FreeAt(g, b)
      /\ \A c \in s.blocks \ {b} : FreeAt(g, c) = FreeAt(s, c)
  BY Zenon, <1>5, <1>7, AllocateIntact
<1> HIDE DEF g
<1>9. b \in g.blocks /\ SizeAt(g, b) = SizeAt(s, b) /\ SizeAt(g, b) \in Nat
  <2>1. b \in g.blocks /\ SizeAt(g, b) = SizeAt(s, b)
    BY Zenon, <1>5, <1>7, <1>8 DEF SameList
  <2> QED
    BY Zenon, <1>8, <2>1, Neighbours DEF Intact, Listed
<1>10. \A c \in heap.blocks : ~ FreeAt(heap, c) =>
         c # b /\ c \in g.blocks /\ ~ FreeAt(g, c) /\ SizeAt(g, c) = SizeAt(heap, c)
  <2> SUFFICES ASSUME NEW c \in heap.blocks, ~ FreeAt(heap, c)
               PROVE  /\ c # b /\ c \in g.blocks /\ ~ FreeAt(g, c)
                      /\ SizeAt(g, c) = SizeAt(heap, c)
    BY Zenon
  <2>1. c \in h.blocks /\ ~ FreeAt(h, c) /\ SizeAt(h, c) = SizeAt(heap, c)
    BY Zenon, <1>3 DEF KeepsBusy
  <2>2. c # b
    BY Zenon, <1>5, <2>1
  <2>3. c \in s.blocks /\ ~ FreeAt(s, c) /\ SizeAt(s, c) = SizeAt(heap, c)
    BY Zenon, <1>7, <2>1 DEF KeepsBusy
  <2> QED
    BY Zenon, <1>8, <2>2, <2>3 DEF SameList
<1>11. lo \in Nat /\ ptr <= lo /\ lo + length <= ptr + size /\ lo + length \in Nat
  BY <1>6 DEF size
<1> HIDE DEF lo
<1>12. lo + length <= b + SizeAt(g, b)
  BY <1>1, <1>6, <1>7, <1>9, <1>11, Constants
<1>13. Intact(heap)'
  BY Zenon, <1>2, <1>8
<1>14. given.ptr = ptr /\ given.lo = lo /\ given.hi = lo + length
       /\ given \in Region
  <2>1. (IF alignment = 0 THEN ptr ELSE lo + POINTER) \in Nat
    BY <1>6, <1>11, HeapAssumption
  <2> QED
    BY Zenon, <1>6, <1>11, <2>1 DEF Region
<1> HIDE DEF given, ptr
<1>15. (frames \in Nat /\ freed \in Nat /\ failed \in Nat /\ owned \subseteq Region)'
  BY <1>2, <1>14 DEF HeapInv, Expands, NULL
<1>16. AllocationsDisjoint'
  <2>1. AllocationsDisjoint
    BY Zenon DEF HeapInv
  <2>2. ASSUME NEW o \in owned
        PROVE  /\ o.ptr - BLOCK_HEADER_SIZE \in g.blocks
               /\ ~ FreeAt(g, o.ptr - BLOCK_HEADER_SIZE)
               /\ o.ptr <= o.lo
               /\ o.hi <= o.ptr - BLOCK_HEADER_SIZE + SizeAt(g, o.ptr - BLOCK_HEADER_SIZE)
               /\ o.ptr - BLOCK_HEADER_SIZE # b
    BY Zenon, <1>10, <2>1 DEF AllocationsDisjoint
  <2>3. /\ given.ptr - BLOCK_HEADER_SIZE = b /\ b \in g.blocks /\ ~ FreeAt(g, b)
        /\ given.ptr <= given.lo /\ given.hi <= b + SizeAt(g, b)
    BY Zenon, <1>6, <1>8, <1>9, <1>11, <1>12, <1>14
  <2>4. ASSUME NEW o \in owned' PROVE
          LET c == o.ptr - BLOCK_HEADER_SIZE
          IN /\ c \in g.blocks /\ ~ FreeAt(g, c) /\ o.ptr <= o.lo /\ o.hi <= c + SizeAt(g, c)
    BY Zenon, <1>2, <2>2, <2>3
  <2>5. ASSUME NEW o \in owned', NEW p \in owned', o.ptr = p.ptr PROVE o = p
    BY Zenon, <1>2, <2>1, <2>2, <2>3, <2>5 DEF AllocationsDisjoint
  <2> QED
    BY Zenon, <1>2, <2>4, <2>5 DEF AllocationsDisjoint
<1>17. FreedIsFree' /\ PageSizedSucceeds'
  BY Zenon, <1>2 DEF FreedIsFree, PageSizedSucceeds
<1>18. Accounted
  <2>1. b \in Nat /\ SizeAt(s, b) \in Nat \ {0}
    BY <1>1, <1>6, <1>7, <1>9, Constants
  <2>2. Takes(heap, heap', b, SizeAt(s, b))
    BY Zenon, <1>2, <1>3, <1>7, <1>8 DEF Takes, SameUse
  <2> QED
    BY Zenon, <2>1, <2>2 DEF Accounted
<1> QED
  BY Zenon, <1>13, <1>15, <1>16, <1>17, <1>18 DEF HeapInv

LEMMA FreeStep ==
  ASSUME HeapInv, NEW ptr, kfree(ptr)
  PROVE  HeapInv' /\ Accounted
<1> DEFINE b == ptr - BLOCK_HEADER_SIZE
           g == Forget(Release(heap, b), {b})
<1>1. /\ ptr \in {o.ptr : o \in owned} \cup ({freed} \ {NULL})
      /\ heap' = IF AlreadyFree(b) THEN heap ELSE g
      /\ owned' = {o \in owned : o.ptr # ptr} /\ freed' = ptr /\ failed' = 0 /\ frames' = frames
  BY Zenon DEF kfree, FromKmalloc
<1>2. Intact(heap) /\ AllocationsDisjoint /\ FreedIsFree
  BY Zenon DEF HeapInv
<1>3. (frames \in Nat /\ freed \in Nat /\ failed \in Nat /\ owned \subseteq Region)'
  BY Zenon, <1>1 DEF HeapInv, Region
<1>4. PageSizedSucceeds'
  BY Zenon, <1>1 DEF PageSizedSucceeds
<1>5. CASE AlreadyFree(b)
  <2>1. ptr \notin {o.ptr : o \in owned}
    BY Zenon, <1>2, <1>5 DEF AllocationsDisjoint, AlreadyFree
  <2>2. freed = ptr /\ ptr # NULL /\ heap' = heap
    BY Zenon, <1>1, <1>5, <2>1
  <2>3. AllocationsDisjoint'
    BY Zenon, <1>1, <1>2, <2>2 DEF AllocationsDisjoint
  <2>4. FreedIsFree'
    BY Zenon, <1>1, <1>2, <2>2 DEF FreedIsFree
  <2>5. Intact(heap)'
    BY Zenon, <1>2, <2>2
  <2>6. Accounted
    BY Zenon, <2>2 DEF Accounted, SameUse
  <2> QED
    BY Zenon, <1>3, <1>4, <2>3, <2>4, <2>5, <2>6 DEF HeapInv
<1>6. CASE ~ AlreadyFree(b)
  <2>1. ptr \in {o.ptr : o \in owned}
    BY Zenon, <1>1, <1>2, <1>6 DEF FreedIsFree, AlreadyFree
  <2>2. b \in heap.blocks /\ ~ FreeAt(heap, b)
    BY Zenon, <1>2, <2>1 DEF AllocationsDisjoint
  <2> HIDE DEF b, g
  <2>3. /\ Intact(g)
        /\ b \in DOMAIN g.hdr /\ FreeAt(g, b)
        /\ Takes(g, heap, b, SizeAt(heap, b))
        /\ \A c \in heap.blocks \ {b} : ~ FreeAt(heap, c) =>
             c \in g.blocks /\ ~ FreeAt(g, c) /\ SizeAt(g, c) = SizeAt(heap, c)
    BY Zenon, <1>2, <2>2, ReleaseIntact DEF g
  <2>4. heap' = g
    BY Zenon, <1>1, <1>6
  <2>5. \A o \in owned' : o \in owned /\ o.ptr - BLOCK_HEADER_SIZE # b
    <3>1. \A o \in owned : o.ptr \in Nat
      BY Zenon DEF HeapInv, Region
    <3>2. ptr \in Nat
      BY Zenon, <2>1, <3>1
    <3> QED
      BY <1>1, <3>1, <3>2, Constants DEF b
  <2>6. AllocationsDisjoint'
    BY Zenon, <1>2, <2>3, <2>4, <2>5 DEF AllocationsDisjoint
  <2>7. FreedIsFree'
    BY Zenon, <1>1, <2>3, <2>4 DEF FreedIsFree, b
  <2>8. Intact(heap)'
    BY Zenon, <2>3, <2>4
  <2>9. Accounted
    <3>1. b \in Nat /\ SizeAt(heap, b) \in Nat \ {0}
      BY <1>2, <2>2, Neighbours, Constants DEF Intact, Listed
    <3> QED
      BY Zenon, <2>3, <2>4, <3>1 DEF Accounted
  <2> QED
    BY Zenon, <1>3, <1>4, <2>6, <2>7, <2>8, <2>9 DEF HeapInv
<1> QED
  BY Zenon, <1>5, <1>6

LEMMA InitInv == Init => HeapInv /\ InUse(heap) = {} /\ heap.used = BLOCK_HEADER_SIZE
<1> USE DEF SizeAt, FreeAt, NextAt, PrevAt
<1> SUFFICES ASSUME Init PROVE HeapInv /\ InUse(heap) = {} /\ heap.used = BLOCK_HEADER_SIZE
  BY Zenon
<1> DEFINE only == Block(HEAP_SIZE, NULL, NULL)
           hdr == [a \in {HEAP_START} |-> only]
<1>1. /\ heap = [hdr |-> hdr, blocks |-> {HEAP_START}, end |-> HEAP_START,
                 size |-> HEAP_SIZE, used |-> BLOCK_HEADER_SIZE]
      /\ frames = FRAMES /\ owned = {} /\ freed = NULL /\ failed = 0
  BY Zenon DEF Init
<1>2. /\ only \in Header /\ only.size = HEAP_SIZE /\ only.is_free
      /\ only.next = NULL /\ only.prev = NULL
  BY Zenon, Constants DEF Block, Header, NULL
<1> HIDE DEF only
<1>3. /\ heap.hdr = hdr /\ heap.blocks = {HEAP_START} /\ heap.end = HEAP_START
      /\ heap.size = HEAP_SIZE /\ heap.used = BLOCK_HEADER_SIZE
      /\ heap.hdr[HEAP_START] = only /\ DOMAIN heap.hdr = {HEAP_START}
      /\ heap.hdr \in [{HEAP_START} -> Header]
      /\ heap = [hdr |-> heap.hdr, blocks |-> heap.blocks, end |-> heap.end,
                 size |-> heap.size, used |-> heap.used]
  BY Zenon, <1>1, <1>2
<1>4. Limit(heap) = HEAP_START + HEAP_SIZE
  BY Zenon, <1>3 DEF Limit
<1>5. Typed(heap)
  <2>1. HEAP_SIZE - HEAP_SIZE = 0 /\ 0 % PAGE_SIZE = 0
    BY Constants
  <2>2. {HEAP_START} \subseteq HEAP_START .. Limit(heap) - 1
    BY <1>4, Constants
  <2> QED
    BY <1>3, <2>1, <2>2, Constants DEF Typed
<1>6. Tiles(heap)
  BY <1>2, <1>3, <1>4, Constants DEF Tiles, Placed, NULL
<1>7. InUse(heap) = {}
  BY Zenon, <1>2, <1>3 DEF InUse
<1>8. CoalescedBut(heap, {})
  BY Zenon, <1>2, <1>3 DEF CoalescedBut, IsFree
<1>9. AllocationsDisjoint /\ FreedIsFree /\ PageSizedSucceeds
  BY Zenon, <1>1 DEF AllocationsDisjoint, FreedIsFree, PageSizedSucceeds
<1>10. frames \in Nat /\ freed \in Nat /\ failed \in Nat /\ owned \subseteq Region
  BY Zenon, <1>1, HeapAssumption DEF NULL
<1> QED
  BY Zenon, <1>3, <1>5, <1>6, <1>7, <1>8, <1>9, <1>10 DEF HeapInv, Intact, Listed
-----------------------------------------------------------------------------
(* Minimal elements and cardinalities *)

INSTANCE FiniteSetTheorems

\* The first fit is one of those that fit.
LEMMA Finds ==
  ASSUME NEW h, Typed(h), NEW size \in Nat, Fitting(h, size) # {}
  PROVE  find_free_block(h, size) \in Fitting(h, size)
<1> DEFINE T == Fitting(h, size)
           R == {nn \in Nat \X Nat : nn[1] < nn[2]}
<1>1. T \subseteq Nat
  BY Constants DEF Typed, Fitting, Limit
<1>2. IsWellFoundedOn(R, Nat)
  BY Zenon, NatLessThanWellFounded DEF OpToRel
<1> HIDE DEF R
<1>3. PICK b \in T : \A c \in T : ~ (<<c, b>> \in R)
  BY Zenon, <1>1, <1>2, WFMin
<1>4. \A c \in T : b <= c
  <2> SUFFICES ASSUME NEW c \in T, c < b PROVE FALSE
    BY <1>1
  <2>1. b \in Nat /\ c \in Nat
    BY Zenon, <1>1
  <2>2. <<c, b>> \in R
    BY Zenon, <2>1 DEF R
  <2> QED
    BY Zenon, <1>3, <2>2
<1> QED
  BY Zenon, <1>3, <1>4 DEF find_free_block

LEMMA FirstFit ==
  ASSUME HeapInv, NEW request \in Nat, request > 0
  PROVE  FindsFit(Aligned(request))
<1> DEFINE size == Aligned(request)
           h == Candidate(size)
<1>1. size \in Nat
  BY Zenon, AlignedUp
<1> HIDE DEF size
<1>2. Typed(h)
  BY Zenon, <1>1, CandidateIntact DEF Intact, Listed
<1> HIDE DEF h
<1>3. Fitting(h, size) # {} => find_free_block(h, size) \in Fitting(h, size)
  BY Zenon, <1>1, <1>2, Finds
<1> QED
  BY Zenon, <1>3 DEF FindsFit, h, size

LEMMA MallocStep ==
  ASSUME HeapInv, NEW size \in Sizes, kmalloc(size)
  PROVE  HeapInv' /\ Accounted
<1>1. size \in Nat /\ size > 0
  BY HeapAssumption DEF kmalloc
<1>2. CASE kmallocFails(size)
  BY Zenon, <1>1, <1>2, FailsStep
<1>3. CASE kmallocGives(size, 0, size)
  <2>1. \A ptr \in Nat : UsedFrom(ptr, 0) = ptr
    BY Zenon DEF UsedFrom
  <2>2. Aligned(size) \in Nat /\ Aligned(size) >= size
    BY Zenon, <1>1, AlignedUp
  <2>3. \A ptr \in Nat : /\ UsedFrom(ptr, 0) \in Nat
                         /\ ptr <= UsedFrom(ptr, 0)
                         /\ UsedFrom(ptr, 0) + size <= ptr + Aligned(size)
    BY <1>1, <2>1, <2>2
  <2> QED
    BY Zenon, <1>1, <1>3, <2>3, FirstFit, GivesStep
<1> QED
  BY Zenon, <1>2, <1>3 DEF kmalloc

LEMMA AlignedStep ==
  ASSUME HeapInv, NEW size \in Nat \ {0}, NEW alignment \in Nat \ {0},
         kmalloc_aligned(size, alignment)
  PROVE  HeapInv' /\ Accounted
<1> DEFINE total == TotalFor(size, alignment)
           length == POINTER + size
<1>1. total \in Nat /\ total > 0 /\ length \in Nat /\ total = length + alignment - 1
  BY Constants DEF TotalFor
<1>2. CASE kmallocFails(total)
  BY Zenon, <1>1, <1>2, FailsStep
<1>3. CASE kmallocGives(total, alignment, length)
  <2>1. Aligned(total) \in Nat /\ Aligned(total) >= total
    BY Zenon, <1>1, AlignedUp
  <2>2. ASSUME NEW ptr \in Nat
        PROVE  /\ UsedFrom(ptr, alignment) \in Nat
               /\ ptr <= UsedFrom(ptr, alignment)
               /\ UsedFrom(ptr, alignment) + length <= ptr + Aligned(total)
    <3> DEFINE n == ptr + POINTER
               up == ((n + alignment - 1) \div alignment) * alignment
    <3>1. n \in Nat
      BY Constants
    <3>2. UsedFrom(ptr, alignment) = up - POINTER
      BY Zenon DEF UsedFrom
    <3> HIDE DEF n
    <3>3. up \in Nat /\ n <= up /\ up <= n + alignment - 1
      BY <3>1, RoundUp
    <3> HIDE DEF up, total, length
    <3> QED
      BY <1>1, <2>1, <3>2, <3>3, Constants DEF n
  <2>3. FindsFit(Aligned(total))
    BY Zenon, <1>1, FirstFit
  <2> HIDE DEF total, length
  <2> QED
    BY Zenon, <1>1, <1>3, <2>2, <2>3, GivesStep
<1> QED
  BY Zenon, <1>2, <1>3 DEF kmalloc_aligned

LEMMA NextInv == HeapInv /\ [Next]_vars => HeapInv' /\ Accounted
<1> SUFFICES ASSUME HeapInv, [Next]_vars PROVE HeapInv' /\ Accounted
  BY Zenon
<1>1. ASSUME NEW size \in Sizes, kmalloc(size) PROVE HeapInv' /\ Accounted
  BY Zenon, <1>1, MallocStep
<1>2. ASSUME NEW s \in AlignedSizes, kmalloc_aligned(s[1], s[2]) PROVE HeapInv' /\ Accounted
  <2>1. s[1] \in Nat \ {0} /\ s[2] \in Nat \ {0}
    BY Zenon, HeapAssumption
  <2> QED
    BY Zenon, <1>2, <2>1, AlignedStep
<1>3. ASSUME NEW ptr, kfree(ptr) PROVE HeapInv' /\ Accounted
  BY Zenon, <1>3, FreeStep
<1>4. CASE UNCHANGED vars
  BY Zenon, <1>4 DEF vars, Accounted, SameUse, HeapInv, AllocationsDisjoint, FreedIsFree, PageSizedSucceeds
<1> QED
  BY Zenon, <1>1, <1>2, <1>3, <1>4 DEF Next

LEMMA InUseFinite ==
  ASSUME NEW h, Typed(h)
  PROVE  IsFiniteSet(InUse(h)) /\ Cardinality(InUse(h)) \in Nat
<1>1. IsFiniteSet(HEAP_START .. Limit(h) - 1)
  BY Constants, FS_Interval DEF Typed, Limit
<1>2. InUse(h) \in SUBSET (HEAP_START .. Limit(h) - 1)
  BY Zenon DEF InUse
<1> QED
  BY ZenonT(30), <1>1, <1>2, FS_Subset, FS_CardinalityType

\* heap_used moves by as many bytes as are taken.
LEMMA UsedMoves ==
  ASSUME NEW h, NEW g, Typed(h), NEW b \in Nat, NEW n \in Nat \ {0}, Takes(h, g, b, n)
  PROVE  UsedExact(h) <=> UsedExact(g)
<1> DEFINE last == b + n - 1
           taken == b .. last
<1>1. InUse(h) \cap taken = {} /\ InUse(g) = InUse(h) \cup taken /\ g.used = h.used + n
  BY Zenon DEF Takes
<1>2. IsFiniteSet(taken) /\ Cardinality(taken) = n
  <2>1. b \in Int /\ last \in Int /\ ~ (b > last) /\ last - b + 1 = n
    OBVIOUS
  <2> HIDE DEF last
  <2> QED
    BY Zenon, <2>1, FS_Interval
<1>3. Cardinality(InUse(h) \cap taken) = 0
  BY Zenon, <1>1, FS_EmptySet
<1>4. IsFiniteSet(InUse(h)) /\ Cardinality(InUse(h)) \in Nat
  BY Zenon, InUseFinite
<1> HIDE DEF taken
<1>5. Cardinality(InUse(h) \cup taken)
        = Cardinality(InUse(h)) + Cardinality(taken) - Cardinality(InUse(h) \cap taken)
  BY Zenon, <1>2, <1>4, FS_Union
<1>6. Cardinality(InUse(g)) = Cardinality(InUse(h)) + n
  BY <1>1, <1>2, <1>3, <1>4, <1>5
<1>7. h.used \in Int
  BY Zenon DEF Typed
<1> QED
  BY <1>1, <1>4, <1>6, <1>7, Constants DEF UsedExact

LEMMA UsedStep ==
  ASSUME HeapInv, HeapInv', Accounted, UsedExact(heap)
  PROVE  UsedExact(heap')
<1>1. Typed(heap) /\ Typed(heap')
  BY Zenon DEF HeapInv, Intact, Listed
<1>2. CASE SameUse(heap, heap')
  BY Zenon, <1>2 DEF SameUse, UsedExact
<1>3. ASSUME NEW b \in Nat, NEW n \in Nat \ {0},
             Takes(heap, heap', b, n) \/ Takes(heap', heap, b, n)
      PROVE  UsedExact(heap')
  BY Zenon, <1>1, <1>3, UsedMoves
<1> QED
  BY Zenon, <1>2, <1>3 DEF Accounted

LEMMA Invariant == Spec => [](HeapInv /\ UsedExact(heap))
<1>1. Init => HeapInv /\ UsedExact(heap)
  <2>1. Cardinality({}) = 0
    BY Zenon, FS_EmptySet
  <2> QED
    BY <2>1, InitInv, Constants DEF UsedExact
<1>2. HeapInv /\ UsedExact(heap) /\ [Next]_vars => HeapInv' /\ UsedExact(heap)'
  BY Zenon, NextInv, UsedStep
<1> QED
  BY <1>1, <1>2, PTL DEF Spec
-----------------------------------------------------------------------------
(* Theorems *)

(* kmalloc, kmalloc_aligned and kfree, in any order and even when a        *)
(* pointer is freed twice in a row, leave the block list of heap.c intact: *)
(* the blocks tile the heap, the links and heap_end agree with it, free    *)
(* blocks are coalesced, heap_used is exact.  The requests are any that do *)
(* not wrap around, and memory from kmalloc_aligned is never freed.        *)
THEOREM ListStaysIntact == Spec => []WellFormed
<1>1. HeapInv /\ UsedExact(heap) => WellFormed
  BY Zenon DEF HeapInv, Intact, Listed, WellFormed
<1> QED
  BY Invariant, <1>1, PTL

(* What kmalloc and kmalloc_aligned have given out, and was not freed, is  *)
(* memory of the caller's own: inside a block in use, and in no other      *)
(* allocation.  The requests are any that do not wrap around, and memory   *)
(* from kmalloc_aligned is never freed.                                    *)
THEOREM AllocationsNeverOverlap == Spec => []AllocationsDisjoint
<1>1. HeapInv => AllocationsDisjoint
  BY Zenon DEF HeapInv
<1> QED
  BY Invariant, <1>1, PTL

(* kmalloc returns NULL for a request that fits in one page only when      *)
(* pmm_alloc_page has no frame left, however fragmented the heap is.       *)
THEOREM PageSizedNeverFails == Spec => []PageSizedSucceeds
<1>1. HeapInv => PageSizedSucceeds
  BY Zenon DEF HeapInv
<1> QED
  BY Invariant, <1>1, PTL
=============================================================================
