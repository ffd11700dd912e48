----------------------------- MODULE Login_proofs ---------------------------
(***************************************************************************)
(* Proofs about modules Shell and Login, for any size of screen, buffers   *)
(* and fields and any number of keys: lines and credentials are what was   *)
(* typed, and the echo shows the line.                                     *)
(***************************************************************************)
EXTENDS Login, WellFoundedInduction, TLAPS
-----------------------------------------------------------------------------
(* Recursion over an initial segment of the naturals *)

LEMMA Induct ==
  ASSUME NEW S, 0 \in S, \A n \in Nat : n \in S => n + 1 \in S
  PROVE  Nat \subseteq S
<1> DEFINE T == Nat \ S
           R == {nn \in Nat \X Nat : nn[1] < nn[2]}
<1> SUFFICES ASSUME T # {} PROVE FALSE
  BY Zenon
<1>1. IsWellFoundedOn(R, Nat)
  BY Zenon, NatLessThanWellFounded DEF OpToRel
<1> HIDE DEF R
<1>2. PICK b \in T : \A c \in T : ~ (<<c, b>> \in R)
  BY Zenon, <1>1, WFMin
<1>3. b # 0 /\ b - 1 \in Nat /\ <<b - 1, b>> \in R
  BY DEF R
<1>4. b - 1 \in S
  BY Zenon, <1>2, <1>3
<1> QED
  BY <1>3, <1>4

Follows(f, b, n, g) == f[0] = b /\ \A k \in 1..n : f[k] = g[<<f[k - 1], k>>]

LEMMA Recursive ==
  ASSUME NEW T, NEW b \in T, NEW n \in Nat, NEW g \in [T \X (1..n) -> T]
  PROVE  \E f \in [0..n -> T] : Follows(f, b, n, g)
<1> USE DEF Follows
<1> DEFINE Upto(m, f) == Follows(f, b, m, g)
           S == {m \in Nat : m <= n => \E f \in [0..m -> T] : Upto(m, f)}
<1>1. 0 \in S
  <2> DEFINE f0 == [k \in 0..0 |-> b]
  <2>1. f0 \in [0..0 -> T] /\ Upto(0, f0)
    OBVIOUS
  <2> QED
    BY Zenon, <2>1
<1>2. ASSUME NEW m \in Nat, m \in S PROVE m + 1 \in S
  <2> SUFFICES ASSUME m + 1 <= n PROVE \E f \in [0..m + 1 -> T] : Upto(m + 1, f)
    OBVIOUS
  <2>1. PICK f \in [0..m -> T] : Upto(m, f)
    BY <1>2
  <2> DEFINE h == [k \in 0..m + 1 |-> IF k = m + 1 THEN g[<<f[m], m + 1>>] ELSE f[k]]
  <2>2. g[<<f[m], m + 1>>] \in T
    OBVIOUS
  <2>3. h \in [0..m + 1 -> T] /\ h[m + 1] = g[<<f[m], m + 1>>] /\ \A k \in 0..m : h[k] = f[k]
    BY <2>2
  <2> HIDE DEF h
  <2>4. h[0] = b
    BY <2>1, <2>3
  <2>5. ASSUME NEW k \in 1..m + 1 PROVE h[k] = g[<<h[k - 1], k>>]
    <3>1. k - 1 \in 0..m /\ h[k - 1] = f[k - 1]
      BY <2>3
    <3>2. CASE k = m + 1
      <4>1. (m + 1) - 1 = m
        OBVIOUS
      <4>2. h[k - 1] = f[m]
        BY Zenon, <3>1, <3>2, <4>1
      <4> QED
        BY Zenon, <2>3, <3>2, <4>2
    <3>3. CASE k \in 1..m
      BY <2>1, <2>3, <3>1, <3>3
    <3> QED
      BY <3>2, <3>3
  <2> QED
    BY Zenon, <2>3, <2>4, <2>5
<1> HIDE DEF S
<1>3. n \in S
  BY Zenon, <1>1, <1>2, Induct
<1> QED
  BY <1>3 DEF S

\* There is one such function only.
Repeats(h, T, b, m, g) ==
  h[0] = b /\ \A k \in 1..m : h[k - 1] \in T => h[k] = g[<<h[k - 1], k>>]
Agree(f, h, m) == f[m] = h[m]

LEMMA SameRun ==
  ASSUME NEW T, NEW b \in T, NEW n \in Nat, NEW g, NEW m \in 0..n,
         NEW f \in [0..n -> T], Follows(f, b, n, g),
         NEW h, Repeats(h, T, b, m, g)
  PROVE  Agree(f, h, m)
<1> DEFINE S == {k \in Nat : k <= m => h[k] = f[k]}
<1>1. 0 \in S
  BY Zenon DEF Follows, Repeats
<1>2. ASSUME NEW k \in Nat, k \in S PROVE k + 1 \in S
  <2> SUFFICES ASSUME k + 1 <= m PROVE h[k + 1] = f[k + 1]
    OBVIOUS
  <2>1. k + 1 \in 1..m /\ k + 1 \in 1..n /\ k \in 0..n /\ (k + 1) - 1 = k
    OBVIOUS
  <2>2. h[k] = f[k] /\ f[k] \in T
    BY <1>2, <2>1
  <2>3. f[k + 1] = g[<<f[k], k + 1>>]
    BY Zenon, <2>1 DEF Follows
  <2> QED
    BY <2>1, <2>2, <2>3 DEF Repeats
<1> HIDE DEF S
<1>3. Nat \subseteq S
  BY Zenon, <1>1, <1>2, Induct
<1> QED
  BY <1>3 DEF S, Agree
-----------------------------------------------------------------------------
(* Editing *)

LEMMA PressedType ==
  ASSUME NEW text \in Seq(Nat), NEW key \in Nat, NEW chars, NEW room
  PROVE  Pressed(text, key, chars, room) \in Seq(Nat)
<1>1. text # <<>> => Shorter(text) \in Seq(Nat)
  BY DEF Shorter
<1> QED
  BY <1>1 DEF Pressed

\* The texts that the beginnings of keys stand for, each from the one before.
Texts(f, keys, chars, room) ==
  /\ f[0] = <<>>
  /\ \A k \in 1..Len(keys) : f[k] = Pressed(f[k - 1], keys[k], chars, room)
  /\ \A k \in 0..Len(keys) : Edited(SubSeq(keys, 1, k), chars, room) = f[k]

LEMMA EditedSteps ==
  ASSUME NEW keys \in Seq(Nat), NEW chars, NEW room
  PROVE  \E f \in [0..Len(keys) -> Seq(Nat)] : Texts(f, keys, chars, room)
<1> DEFINE T == Seq(Nat)
           n == Len(keys)
           g == [x \in T \X (1..n) |-> Pressed(x[1], keys[x[2]], chars, room)]
<1>1. <<>> \in T /\ n \in Nat /\ \A k \in 1..n : keys[k] \in Nat
  OBVIOUS
<1>2. \A t \in T, k \in 1..n : g[<<t, k>>] = Pressed(t, keys[k], chars, room)
  BY Zenon
<1>3. g \in [T \X (1..n) -> T]
  BY Zenon, <1>1, PressedType
<1> HIDE DEF g, T, n
<1>4. PICK f \in [0..n -> T] : Follows(f, <<>>, n, g)
  BY Zenon, <1>1, <1>3, Recursive
<1>5. \A k \in 1..n : f[k - 1] \in T /\ f[k] = Pressed(f[k - 1], keys[k], chars, room)
  <2> SUFFICES ASSUME NEW k \in 1..n
               PROVE  f[k - 1] \in T /\ f[k] = Pressed(f[k - 1], keys[k], chars, room)
    BY Zenon
  <2>1. k - 1 \in 0..n
    BY <1>1
  <2> QED
    BY Zenon, <1>2, <1>4, <2>1 DEF Follows
<1>6. ASSUME NEW k \in 0..n PROVE Edited(SubSeq(keys, 1, k), chars, room) = f[k]
  <2> DEFINE s == SubSeq(keys, 1, k)
             Unfolds(h) == h = [j \in 0..Len(s) |-> IF j = 0 THEN <<>>
                                                    ELSE Pressed(h[j - 1], s[j], chars, room)]
             h == CHOOSE h : Unfolds(h)
             fk == [j \in 0..k |-> f[j]]
  <2>1. Len(s) = k /\ \A j \in 1..k : s[j] = keys[j]
    BY <1>1
  <2>2. Edited(s, chars, room) = h[Len(s)]
    BY Zenon DEF Edited
  <2> HIDE DEF s
  <2>3. Unfolds(fk)
    <3>1. ASSUME NEW j \in 0..k
          PROVE  f[j] = IF j = 0 THEN <<>> ELSE Pressed(fk[j - 1], s[j], chars, room)
      <4>1. j # 0 => j \in 1..n /\ j \in 1..k /\ fk[j - 1] = f[j - 1]
        BY <1>1
      <4> HIDE DEF fk
      <4> QED
        BY <1>4, <1>5, <2>1, <4>1 DEF Follows
    <3> QED
      BY Zenon, <2>1, <3>1
  <2>4. Unfolds(h)
    <3> HIDE DEF Unfolds
    <3> QED
      BY Zenon, <2>3
  <2> HIDE DEF h
  <2>5. h[0] = <<>>
    BY <2>1, <2>4
  <2>6. ASSUME NEW j \in 1..k, h[j - 1] \in T PROVE h[j] = g[<<h[j - 1], j>>]
    <3>1. j \in 1..n /\ j \in 0..Len(s) /\ j # 0
      BY <1>1, <2>1
    <3> QED
      BY ZenonT(30), <1>2, <2>1, <2>4, <2>6, <3>1
  <2>7. Repeats(h, T, <<>>, k, g)
    BY Zenon, <2>5, <2>6 DEF Repeats
  <2>8. Agree(f, h, k)
    BY Zenon, <1>1, <1>4, <2>7, SameRun
  <2> QED
    BY <2>1, <2>2, <2>8 DEF s, Agree
<1> QED
  BY Zenon, <1>4, <1>5, <1>6 DEF T, n, Follows, Texts

Continues(keys, key, chars, room) ==
  /\ Edited(<<>>, chars, room) = <<>>
  /\ Edited(keys, chars, room) \in Seq(Nat)
  /\ Edited(Append(keys, key), chars, room)
       = Pressed(Edited(keys, chars, room), key, chars, room)

LEMMA EditedAppend ==
  ASSUME NEW keys \in Seq(Nat), NEW key \in Nat, NEW chars, NEW room
  PROVE  Continues(keys, key, chars, room)
<1> DEFINE more == Append(keys, key)
           n == Len(keys)
           E(s) == Edited(s, chars, room)
<1>1. /\ more \in Seq(Nat) /\ Len(more) = n + 1 /\ more[n + 1] = key /\ n \in Nat
      /\ SubSeq(more, 1, 0) = <<>> /\ SubSeq(more, 1, n) = keys /\ SubSeq(more, 1, n + 1) = more
  OBVIOUS
<1> HIDE DEF more, n
<1>2. PICK f \in [0..Len(more) -> Seq(Nat)] : Texts(f, more, chars, room)
  BY Zenon, <1>1, EditedSteps
<1> HIDE DEF E
<1>3. 0 \in 0..n + 1 /\ n \in 0..n + 1 /\ n + 1 \in 0..n + 1 /\ n + 1 \in 1..n + 1 /\ (n + 1) - 1 = n
  BY <1>1
<1>4. E(<<>>) = <<>> /\ E(keys) = f[n] /\ E(more) = f[n + 1] /\ f[n] \in Seq(Nat)
  BY Zenon, <1>1, <1>2, <1>3 DEF E, Texts
<1>5. f[n + 1] = Pressed(f[n], key, chars, room)
  BY Zenon, <1>1, <1>2, <1>3 DEF Texts
<1> QED
  BY Zenon, <1>4, <1>5 DEF E, more, Continues
-----------------------------------------------------------------------------
(* The screen *)

Screen == [row : Row, col : Col, cell : [Row -> [Col -> Nat]]]

Wrote(c, d, x, ch) ==
  \A r \in Row, k \in Col :
    d.cell[r][k] = IF r = c.row /\ k = x THEN ch ELSE c.cell[r][k]

LEMMA Modulus ==
  ASSUME NEW a \in Nat, NEW n \in Nat \ {0}
  PROVE  a % n \in 0..n - 1 /\ (a < n => a % n = a)
OBVIOUS

LEMMA NextRowType ==
  ASSUME NEW r \in Row
  PROVE  NextRow(r) \in Row
  BY ConsoleAssumption DEF NextRow, Row

LEMMA Shown ==
  ASSUME NEW c \in Screen, NEW ch \in Nat
  PROVE  /\ Show(c, ch) \in Screen
         /\ Wrote(c, Show(c, ch), c.col, ch)
         /\ c.col + 1 < VGA_COLS => Show(c, ch).row = c.row /\ Show(c, ch).col = c.col + 1
<1>1. /\ c.row \in Row /\ c.col \in Col /\ c.cell \in [Row -> [Col -> Nat]]
      /\ VGA_COLS \in Nat \ {0}
  BY Zenon, ConsoleAssumption DEF Screen
<1>2. (c.col + 1) % VGA_COLS \in Col /\ (c.col + 1 < VGA_COLS => (c.col + 1) % VGA_COLS = c.col + 1)
  <2>1. c.col + 1 \in Nat
    BY <1>1 DEF Col
  <2> QED
    BY Zenon, <1>1, <2>1, Modulus DEF Col
<1>3. NextRow(c.row) \in Row
  BY Zenon, <1>1, NextRowType
<1>4. [c.cell EXCEPT ![c.row][c.col] = ch] \in [Row -> [Col -> Nat]]
  BY <1>1
<1>5. Show(c, ch) \in Screen
  BY Zenon, <1>1, <1>2, <1>3, <1>4 DEF Show, Screen
<1>6. Wrote(c, Show(c, ch), c.col, ch)
  BY Zenon, <1>1 DEF Show, Wrote
<1>7. c.col + 1 < VGA_COLS => ~ (c.col + 1 >= VGA_COLS)
  BY <1>1 DEF Col
<1> QED
  BY <1>2, <1>5, <1>6, <1>7 DEF Show

LEMMA Erased ==
  ASSUME NEW c \in Screen, c.col > 0
  PROVE  /\ Erase(c) \in Screen
         /\ Wrote(c, Erase(c), c.col - 1, Blank)
         /\ Erase(c).row = c.row /\ Erase(c).col = c.col - 1
<1>1. /\ c = [row |-> c.row, col |-> c.col, cell |-> c.cell]
      /\ c.row \in Row /\ c.col \in Col /\ c.cell \in [Row -> [Col -> Nat]]
      /\ VGA_COLS \in Nat \ {0} /\ Blank \in Nat
  BY Zenon, ConsoleAssumption DEF Screen
<1> DEFINE cells == [c.cell EXCEPT ![c.row][c.col - 1] = Blank]
<1>2. Erase(c) = [row |-> c.row, col |-> c.col - 1, cell |-> cells]
  BY Zenon DEF Erase
<1>3. c.col - 1 \in Col
  BY <1>1 DEF Col
<1>4. cells \in [Row -> [Col -> Nat]]
  BY Zenon, <1>1, <1>3
<1>5. Wrote(c, [row |-> c.row, col |-> c.col - 1, cell |-> cells], c.col - 1, Blank)
  BY Zenon, <1>1, <1>3 DEF Wrote
<1> HIDE DEF cells
<1> QED
  BY <1>1, <1>2, <1>3, <1>4, <1>5 DEF Screen

LEMMA PutType ==
  ASSUME NEW c \in Screen, NEW ch \in Nat
  PROVE  vga_put_char(c, ch) \in Screen
<1>1. [c EXCEPT !.col = 0, !.row = NextRow(@)] \in Screen
  <2>1. /\ c = [row |-> c.row, col |-> c.col, cell |-> c.cell]
        /\ c.row \in Row /\ c.cell \in [Row -> [Col -> Nat]] /\ 0 \in Col
    BY ConsoleAssumption DEF Screen, Col
  <2>2. NextRow(c.row) \in Row
    BY Zenon, <2>1, NextRowType
  <2> QED
    BY Zenon, <2>1, <2>2 DEF Screen
<1> QED
  BY Zenon, <1>1, Shown, Erased DEF vga_put_char

LEMMA PrintType ==
  ASSUME NEW c \in Screen, NEW str \in Seq(Nat)
  PROVE  print_vga(c, str) \in Screen
<1> DEFINE T == Screen
           n == Len(str)
           g == [x \in T \X (1..n) |-> vga_put_char(x[1], str[x[2]])]
           Unfolds(h) == h = [k \in 0..n |-> IF k = 0 THEN c ELSE vga_put_char(h[k - 1], str[k])]
           h == CHOOSE h : Unfolds(h)
<1>1. n \in Nat /\ \A k \in 1..n : str[k] \in Nat
  OBVIOUS
<1>2. \A d \in T, k \in 1..n : g[<<d, k>>] = vga_put_char(d, str[k])
  BY Zenon
<1>3. g \in [T \X (1..n) -> T]
  BY Zenon, <1>1, PutType
<1>4. print_vga(c, str) = h[n]
  BY Zenon DEF print_vga
<1> HIDE DEF g, T, n
<1>5. PICK f \in [0..n -> T] : Follows(f, c, n, g)
  BY Zenon, <1>1, <1>3, Recursive DEF T
<1>6. Unfolds(f)
  <2>1. ASSUME NEW k \in 0..n
        PROVE  f[k] = IF k = 0 THEN c ELSE vga_put_char(f[k - 1], str[k])
    <3>1. k # 0 => k \in 1..n /\ k - 1 \in 0..n
      BY <1>1
    <3> QED
      BY Zenon, <1>2, <1>5, <3>1 DEF Follows
  <2> QED
    BY Zenon, <2>1
<1>7. Unfolds(h)
  <2> HIDE DEF Unfolds
  <2> QED
    BY Zenon, <1>6
<1> HIDE DEF h
<1>8. Repeats(h, T, c, n, g)
  <2>1. h[0] = c
    BY <1>1, <1>7
  <2>2. ASSUME NEW k \in 1..n, h[k - 1] \in T PROVE h[k] = g[<<h[k - 1], k>>]
    <3>1. k \in 0..n /\ k # 0
      BY <1>1
    <3> QED
      BY Zenon, <1>2, <1>7, <2>2, <3>1
  <2> QED
    BY Zenon, <2>1, <2>2 DEF Repeats
<1>9. n \in 0..n
  BY <1>1
<1>10. Agree(f, h, n)
  BY Zenon, <1>1, <1>5, <1>8, <1>9, SameRun DEF T
<1> QED
  BY Zenon, <1>4, <1>5, <1>9, <1>10 DEF Agree, T

LEMMA LogType ==
  ASSUME NEW c \in Screen, NEW msg \in Seq(Nat)
  PROVE  log_info(c, msg) \in Screen
<1> DEFINE cleared == [c EXCEPT !.cell[VGA_ROWS - 1] = [k \in Col |-> Blank]]
<1>1. /\ VGA_ROWS - 1 \in Row /\ 0 \in Col /\ Len(Prefix) \in Col
      /\ Prefix \in Seq(Nat) /\ Blank \in Nat
  BY ConsoleAssumption, ShellAssumption DEF Row, Col
<1>2. cleared \in Screen
  BY Zenon, <1>1 DEF Screen
<1>3. ASSUME NEW d \in Screen, NEW x \in Col, NEW str \in Seq(Nat)
      PROVE  vga_write_at(d, VGA_ROWS - 1, x, str) \in Screen
  <2>1. [d EXCEPT !.row = VGA_ROWS - 1, !.col = x] \in Screen
    BY Zenon, <1>1 DEF Screen
  <2> QED
    BY Zenon, <2>1, PrintType DEF vga_write_at
<1> HIDE DEF cleared
<1>4. log_info(c, msg) = vga_write_at(vga_write_at(cleared, VGA_ROWS - 1, 0, Prefix),
                                      VGA_ROWS - 1, Len(Prefix), msg)
  BY Zenon DEF log_info, cleared
<1> QED
  BY Zenon, <1>1, <1>2, <1>3, <1>4
-----------------------------------------------------------------------------
(* The invariant of the shell *)

Typed ==
  /\ queue \in Seq(Key) /\ con \in Screen /\ out \in Seq(Seq(Nat))
  /\ line \in Seq(Nat) /\ taken \in Seq(Nat)
  /\ origin \in [row : Row, col : Col]

\* The prompt is written before SYS_READ starts, and Enter ends it.
Reading == pc = "read" => out = <<>> /\ \A k \in 1..Len(taken) : taken[k] # NL

ShellInv == Typed /\ Reading /\ LineIsEdit /\ EchoMatchesLine

LEMMA GetKey ==
  ASSUME Typed, Keyboard!Get
  PROVE  got' \in Key /\ got' \in Nat /\ queue' \in Seq(Key)
<1>1. queue \in Seq(Key) /\ queue # <<>> /\ got' = Head(queue) /\ queue' = Tail(queue)
  BY Zenon DEF Typed, Keyboard!Get
<1>2. Head(queue) \in Key /\ Tail(queue) \in Seq(Key)
  BY <1>1
<1> QED
  BY Zenon, <1>1, <1>2, ShellAssumption

LEMMA Longer ==
  ASSUME NEW keys \in Seq(Nat), NEW key \in Nat
  PROVE  /\ Append(keys, key) \in Seq(Nat) /\ Len(Append(keys, key)) = Len(keys) + 1
         /\ \A k \in 0..Len(keys) : SubSeq(Append(keys, key), 1, k) = SubSeq(keys, 1, k)
         /\ \A k \in 1..Len(keys) : Append(keys, key)[k] = keys[k]
         /\ SubSeq(keys, 1, Len(keys)) = keys /\ SubSeq(keys, 1, 0) = <<>>
         /\ SubSeq(Append(keys, key), 1, Len(keys) + 1) = Append(keys, key)
OBVIOUS

\* A turn of the loop of SYS_READ edits the line as its key says.
LEMMA ReadKeyEdits ==
  ASSUME Typed, LineIsEdit, ReadKey
  PROVE  /\ got' \in Key /\ got' \in Nat /\ queue' \in Seq(Key)
         /\ line' = Edit(taken') /\ line' \in Seq(Nat)
         /\ taken' \in Seq(Nat) /\ Len(taken') = Len(taken) + 1 /\ Len(taken) \in Nat
         /\ \A k \in 0..Len(taken) : Before(k)' = Before(k)
         /\ Before(Len(taken)) = line /\ Edit(SubSeq(taken', 1, Len(taken) + 1)) = line'
         /\ \A k \in 1..Len(taken) : taken'[k] = taken[k]
<1> DEFINE chars == Key \ {NL, BS}
<1>1. /\ got' \in Key /\ got' \in Nat /\ queue' \in Seq(Key) /\ taken' = Append(taken, got')
      /\ taken \in Seq(Nat) /\ line \in Seq(Nat) /\ line = Edit(taken) /\ Len(line) < max_len - 1
  BY Zenon, GetKey DEF ReadKey, Typed, LineIsEdit, Room
<1>2. Len(line) < max_len /\ max_len \in Nat
  BY <1>1, ShellAssumption
<1>3. line' = Pressed(line, got', chars, max_len)
  <2>1. CASE got' = NL
    <3>1. NL # BS /\ NL \notin chars /\ line' = line
      BY Zenon, <2>1, ConsoleAssumption DEF ReadKey
    <3> QED
      BY Zenon, <2>1, <3>1 DEF Pressed
  <2>2. CASE got' = BS
    <3>1. NL # BS
      BY Zenon, ConsoleAssumption
    <3> QED
      BY Zenon, <2>2, <3>1 DEF Pressed, ReadKey
  <2>3. CASE got' \notin {NL, BS}
    <3>1. got' # BS /\ got' \in chars /\ line' = Append(line, got')
      BY Zenon, <1>1, <2>3 DEF ReadKey
    <3> QED
      BY Zenon, <1>2, <3>1 DEF Pressed
  <2> QED
    BY Zenon, <2>1, <2>2, <2>3
<1>4. line' \in Seq(Nat)
  BY Zenon, <1>1, <1>3, PressedType
<1>5. line' = Edit(taken')
  <2> HIDE DEF chars
  <2>1. Continues(taken, got', chars, max_len)
    BY Zenon, <1>1, EditedAppend
  <2> QED
    BY Zenon, <1>1, <1>3, <2>1 DEF Continues, Edit, chars
<1>6. Len(taken) \in Nat
  BY <1>1
<1> HIDE DEF chars
<1>7. \A k \in 0..Len(taken) : SubSeq(taken', 1, k) = SubSeq(taken, 1, k)
  BY Zenon, <1>1, Longer
<1>8. /\ SubSeq(taken, 1, Len(taken)) = taken /\ SubSeq(taken', 1, Len(taken) + 1) = taken'
      /\ taken' \in Seq(Nat) /\ Len(taken') = Len(taken) + 1
      /\ \A k \in 1..Len(taken) : taken'[k] = taken[k]
  BY Zenon, <1>1, Longer
<1>9. \A k \in 0..Len(taken) : Before(k)' = Before(k)
  BY Zenon, <1>7 DEF Before, Edit
<1>10. Before(Len(taken)) = line
  BY Zenon, <1>1, <1>8 DEF Before
<1>11. Edit(SubSeq(taken', 1, Len(taken) + 1)) = line'
  BY Zenon, <1>5, <1>8
<1> QED
  BY Zenon, <1>1, <1>4, <1>5, <1>6, <1>8, <1>9, <1>10, <1>11 DEF Before, Edit

LEMMA ReadKeyLine ==
  ASSUME Typed, Reading, LineIsEdit, ReadKey
  PROVE  Reading' /\ LineIsEdit'
<1>1. /\ got' \in Nat /\ line' = Edit(taken') /\ line' \in Seq(Nat) /\ taken' = Append(taken, got')
      /\ taken' \in Seq(Nat) /\ Len(taken') = Len(taken) + 1 /\ Len(taken) \in Nat
      /\ \A k \in 0..Len(taken) : Before(k)' = Before(k)
      /\ Before(Len(taken)) = line
      /\ \A k \in 1..Len(taken) : taken'[k] = taken[k]
  BY Zenon, ReadKeyEdits DEF ReadKey
<1>2. /\ pc = "read" /\ out' = out /\ Len(line) < max_len - 1 /\ line \in Seq(Nat)
      /\ taken \in Seq(Nat) /\ max_len \in Nat
  BY Zenon, ShellAssumption DEF ReadKey, Room, Typed
<1>3. \A k \in 1..Len(taken) : taken[k] # NL
  BY Zenon, <1>2 DEF Reading
<1>4. Reading'
  <2> SUFFICES ASSUME pc' = "read", NEW k \in 1..Len(taken') PROVE taken'[k] # NL
    BY Zenon, <1>2 DEF Reading
  <2>1. got' # NL
    BY Zenon, ConsoleAssumption DEF ReadKey
  <2>2. k \in 1..Len(taken) \/ k = Len(taken) + 1
    BY <1>1
  <2>3. taken'[Len(taken) + 1] = got'
    BY <1>1, <1>2
  <2> QED
    BY Zenon, <1>1, <1>3, <2>1, <2>2, <2>3
<1>5. Len(line') <= max_len - 1
  <2>1. line' = line \/ (line # <<>> /\ line' = Shorter(line)) \/ line' = Append(line, got')
    BY Zenon DEF ReadKey
  <2> QED
    BY <1>1, <1>2, <2>1 DEF Shorter
<1>6. ASSUME NEW k \in 1..Len(taken)
      PROVE  taken'[k] # NL /\ Len(Before(k)') < max_len - 1
  <2>1. k \in 0..Len(taken) /\ (k = Len(taken) \/ k \in 1..Len(taken) - 1)
    BY <1>1
  <2> QED
    BY Zenon, <1>1, <1>2, <1>3, <2>1 DEF LineIsEdit
<1>7. Len(taken') - 1 = Len(taken)
  BY <1>1
<1> QED
  BY Zenon, <1>1, <1>4, <1>5, <1>6, <1>7 DEF LineIsEdit, Edit
-----------------------------------------------------------------------------
(* The echo *)

EchoAt(c, org, l, reached) ==
  /\ c.row = org.row /\ c.col = org.col + Len(l)
  /\ \A k \in 1..Len(l) : c.cell[org.row][org.col + k - 1] = l[k]
  /\ \A n \in reached : n > Len(l) => c.cell[org.row][org.col + n - 1] = Blank

Fits(org, reached) == \A n \in reached : org.col + n < VGA_COLS

Reached == {Len(Before(k)) : k \in 0..Len(taken)}

ByCell(c, org, l) ==
  ([k \in 1..Len(l) |-> c.cell[org.row][org.col + k - 1]] = l)
    <=> \A k \in 1..Len(l) : c.cell[org.row][org.col + k - 1] = l[k]

LEMMA ShownIsLine ==
  ASSUME NEW c, NEW org, NEW l \in Seq(Nat)
  PROVE  ByCell(c, org, l)
<1>1. l = [k \in 1..Len(l) |-> l[k]]
  OBVIOUS
<1> QED
  BY Zenon, <1>1 DEF ByCell

LEMMA EchoErases ==
  ASSUME NEW c \in Screen, NEW org \in [row : Row, col : Col], NEW l \in Seq(Nat), l # <<>>,
         NEW R \in SUBSET Nat, Fits(org, R), EchoAt(c, org, l, R)
  PROVE  EchoAt(vga_put_char(c, BS), org, Shorter(l), R \cup {Len(Shorter(l))})
<1> DEFINE d == vga_put_char(c, BS)
           l2 == Shorter(l)
           L == Len(l)
<1>1. /\ L \in Nat \ {0} /\ Len(l2) = L - 1 /\ \A k \in 1..L - 1 : l2[k] = l[k]
  <2>1. L \in Nat \ {0}
    OBVIOUS
  <2>2. l2 = SubSeq(l, 1, L - 1)
    BY Zenon DEF Shorter
  <2>3. ASSUME NEW m \in 0..L
        PROVE  Len(SubSeq(l, 1, m)) = m /\ \A k \in 1..m : SubSeq(l, 1, m)[k] = l[k]
    OBVIOUS
  <2>4. L - 1 \in 0..L
    BY <2>1
  <2> HIDE DEF l2, L
  <2> QED
    BY Zenon, <2>1, <2>2, <2>3, <2>4
<1>2. org.row \in Row /\ org.col \in Col /\ org.col \in Nat /\ c.row = org.row /\ c.col = org.col + L
  BY <1>1 DEF EchoAt, Col
<1>3. d = Erase(c)
  BY <1>1, <1>2, ConsoleAssumption DEF vga_put_char
<1> HIDE DEF d, l2, L
<1>4. Wrote(c, d, c.col - 1, Blank) /\ d.row = c.row /\ d.col = c.col - 1
  <2>1. c.col > 0
    BY <1>1, <1>2
  <2> QED
    BY Zenon, <1>3, <2>1, Erased
<1>5. /\ c.col \in Nat /\ c.col < VGA_COLS /\ VGA_COLS \in Nat /\ L \in Nat \ {0}
      /\ org.col \in Nat /\ c.col = org.col + L
  BY <1>1, <1>2, ConsoleAssumption DEF Screen, Col
<1>6. ASSUME NEW k \in 1..L - 1
      PROVE  d.cell[org.row][org.col + k - 1] = l2[k]
  <2>1. org.col + k - 1 \in Col /\ org.col + k - 1 # c.col - 1 /\ k \in 1..L
    BY SMTT(20), <1>5 DEF Col
  <2>2. c.cell[org.row][org.col + k - 1] = l[k]
    BY Zenon, <2>1 DEF EchoAt, L
  <2> QED
    BY Zenon, <1>1, <1>2, <1>4, <2>1, <2>2 DEF Wrote
<1>7. ASSUME NEW n \in R \cup {L - 1}, n > L - 1
      PROVE  d.cell[org.row][org.col + n - 1] = Blank
  <2>1. n \in R /\ n \in Nat /\ n >= L
    BY <1>1, <1>7
  <2>2. org.col + n - 1 \in Col
    <3>1. org.col + n < VGA_COLS
      BY Zenon, <2>1 DEF Fits
    <3> QED
      BY SMTT(20), <1>5, <2>1, <3>1 DEF Col
  <2>3. CASE n = L
    <3>1. org.col + n - 1 = c.col - 1
      BY <1>5, <2>3
    <3> QED
      BY Zenon, <1>2, <1>4, <2>2, <3>1 DEF Wrote
  <2>4. CASE n > L
    <3>1. org.col + n - 1 # c.col - 1
      BY <1>5, <2>1, <2>4
    <3>2. c.cell[org.row][org.col + n - 1] = Blank
      BY Zenon, <2>1, <2>4 DEF EchoAt, L
    <3> QED
      BY Zenon, <1>2, <1>4, <2>2, <3>1, <3>2 DEF Wrote
  <2> QED
    BY <1>5, <2>1, <2>3, <2>4
<1>8. d.col = org.col + Len(l2)
  BY <1>1, <1>2, <1>4
<1> QED
  BY Zenon, <1>1, <1>2, <1>4, <1>6, <1>7, <1>8 DEF EchoAt, d, l2

LEMMA EchoShows ==
  ASSUME NEW c \in Screen, NEW org \in [row : Row, col : Col], NEW l \in Seq(Nat),
         NEW ch \in Nat, ch \notin {NL, BS},
         NEW R \in SUBSET Nat, Fits(org, R \cup {Len(Append(l, ch))}), EchoAt(c, org, l, R)
  PROVE  EchoAt(vga_put_char(c, ch), org, Append(l, ch), R \cup {Len(Append(l, ch))})
<1> DEFINE d == vga_put_char(c, ch)
           l2 == Append(l, ch)
           L == Len(l)
<1>1. /\ L \in Nat /\ Len(l2) = L + 1 /\ \A k \in 1..L : l2[k] = l[k]
      /\ l2[L + 1] = ch
  OBVIOUS
<1>2. org.row \in Row /\ org.col \in Col /\ org.col \in Nat /\ c.row = org.row /\ c.col = org.col + L
  BY <1>1 DEF EchoAt, Col
<1>3. d = Show(c, ch)
  BY Zenon DEF vga_put_char
<1> HIDE DEF d, l2, L
<1>4. c.col + 1 < VGA_COLS
  BY <1>1, <1>2 DEF Fits, l2, L
<1>5. Wrote(c, d, c.col, ch) /\ d.row = c.row /\ d.col = c.col + 1
  BY Zenon, <1>3, <1>4, Shown
<1>6. /\ c.col \in Nat /\ c.col < VGA_COLS /\ VGA_COLS \in Nat /\ L \in Nat
      /\ org.col \in Nat /\ c.col = org.col + L
  BY <1>1, <1>2, ConsoleAssumption DEF Screen, Col
<1>7. ASSUME NEW k \in 1..L + 1
      PROVE  d.cell[org.row][org.col + k - 1] = l2[k]
  <2>1. org.col + k - 1 \in Col
    BY <1>6 DEF Col
  <2>2. CASE k = L + 1
    <3>1. org.col + k - 1 = c.col
      BY <1>6, <2>2
    <3> QED
      BY Zenon, <1>1, <1>2, <1>5, <2>1, <2>2, <3>1 DEF Wrote
  <2>3. CASE k \in 1..L
    <3>1. org.col + k - 1 # c.col
      BY <1>6, <2>3
    <3>2. c.cell[org.row][org.col + k - 1] = l[k]
      BY Zenon, <2>3 DEF EchoAt, L
    <3> QED
      BY Zenon, <1>1, <1>2, <1>5, <2>1, <2>3, <3>1, <3>2 DEF Wrote
  <2> QED
    BY <1>6, <2>2, <2>3
<1>8. ASSUME NEW n \in R \cup {L + 1}, n > L + 1
      PROVE  d.cell[org.row][org.col + n - 1] = Blank
  <2>1. n \in R /\ n \in Nat /\ n > L
    BY <1>1, <1>8
  <2>2. org.col + n - 1 \in Col
    <3>1. org.col + n < VGA_COLS
      BY Zenon, <2>1 DEF Fits
    <3> QED
      BY <1>6, <2>1, <3>1 DEF Col
  <2>3. org.col + n - 1 # c.col
    BY <1>6, <1>8, <2>1
  <2>4. c.cell[org.row][org.col + n - 1] = Blank
    BY <1>8, <2>1 DEF EchoAt, L
  <2> QED
    BY Zenon, <1>2, <1>5, <2>2, <2>3, <2>4 DEF Wrote
<1>9. d.col = org.col + Len(l2)
  BY <1>1, <1>2, <1>5
<1> QED
  BY Zenon, <1>1, <1>2, <1>5, <1>7, <1>8, <1>9 DEF EchoAt, d, l2

LEMMA EditType ==
  ASSUME NEW keys \in Seq(Nat)
  PROVE  Edit(keys) \in Seq(Nat) /\ Edit(<<>>) = <<>>
<1>1. 0 \in Nat
  BY Zenon
<1>2. Continues(keys, 0, Key \ {NL, BS}, max_len)
  BY Zenon, <1>1, EditedAppend
<1> QED
  BY Zenon, <1>2 DEF Continues, Edit

LEMMA ReachedGrows ==
  ASSUME Typed, LineIsEdit, ReadKey
  PROVE  Reached \in SUBSET Nat /\ Len(line) \in Reached /\ Reached' = Reached \cup {Len(line')}
<1>1. /\ Len(taken') = Len(taken) + 1 /\ Len(taken) \in Nat
      /\ \A k \in 0..Len(taken) : Before(k)' = Before(k)
      /\ Before(Len(taken)) = line /\ Edit(SubSeq(taken', 1, Len(taken) + 1)) = line'
  BY Zenon, ReadKeyEdits
<1>2. ASSUME NEW k \in 0..Len(taken) PROVE Len(Before(k)) \in Nat
  <2>1. SubSeq(taken, 1, k) \in Seq(Nat)
    BY DEF Typed
  <2>2. Before(k) \in Seq(Nat)
    BY Zenon, <2>1, EditType DEF Before
  <2> QED
    BY <2>2
<1>3. Len(taken) \in 0..Len(taken) /\ 0..Len(taken') = 0..Len(taken) \cup {Len(taken) + 1}
  BY <1>1
<1>4. Reached' = {Len(Edit(SubSeq(taken', 1, k))) : k \in 0..Len(taken')}
  BY Zenon DEF Reached, Before, Edit
<1>5. \A k \in 0..Len(taken) : Edit(SubSeq(taken', 1, k)) = Before(k)
  BY Zenon, <1>1 DEF Before, Edit
<1>6. Reached' = Reached \cup {Len(line')}
  <2>1. ASSUME NEW n \in Reached' PROVE n \in Reached \cup {Len(line')}
    <3>1. PICK k \in 0..Len(taken') : n = Len(Edit(SubSeq(taken', 1, k)))
      BY Zenon, <1>4
    <3>2. k \in 0..Len(taken) \/ k = Len(taken) + 1
      BY Zenon, <1>3
    <3> QED
      BY Zenon, <1>1, <1>5, <3>1, <3>2 DEF Reached
  <2>2. ASSUME NEW k \in 0..Len(taken) PROVE Len(Before(k)) \in Reached'
    BY Zenon, <1>3, <1>4, <1>5
  <2>3. Len(line') \in Reached'
    BY Zenon, <1>1, <1>3, <1>4
  <2>4. Reached \subseteq Reached'
    BY Zenon, <2>2 DEF Reached
  <2> HIDE DEF Reached
  <2> QED
    BY Zenon, <2>1, <2>3, <2>4
<1> QED
  BY Zenon, <1>1, <1>2, <1>3, <1>6 DEF Reached

LEMMA ReadKeyEcho ==
  ASSUME Typed, LineIsEdit, EchoMatchesLine, ReadKey
  PROVE  EchoMatchesLine'
<1>1. /\ got' \in Nat /\ line' \in Seq(Nat) /\ line \in Seq(Nat) /\ origin' = origin
      /\ pc = "read" /\ con \in Screen /\ origin \in [row : Row, col : Col]
  BY Zenon, ReadKeyEdits DEF ReadKey, Typed
<1>2. Reached \in SUBSET Nat /\ Len(line) \in Reached /\ Reached' = Reached \cup {Len(line')}
  BY Zenon, ReachedGrows
<1>3. ASSUME pc' = "read", Fits(origin, Reached') PROVE EchoAt(con', origin, line', Reached')
  <2>1. Fits(origin, Reached)
    BY Zenon, <1>2, <1>3 DEF Fits
  <2>2. EchoAt(con, origin, line, Reached)
    <3>1. ByCell(con, origin, line)
      BY Zenon, <1>1, ShownIsLine
    <3> QED
      BY Zenon, <1>1, <2>1, <3>1 DEF EchoMatchesLine, Reached, Fits, EchoAt, ByCell
  <2>3. CASE got' = NL
    BY Zenon, <1>3, <2>3, ConsoleAssumption DEF ReadKey
  <2>4. CASE got' = BS /\ line # <<>>
    <3>1. line' = Shorter(line) /\ con' = vga_put_char(con, BS)
      BY Zenon, <2>4, ConsoleAssumption DEF ReadKey
    <3> QED
      BY Zenon, <1>1, <1>2, <2>1, <2>2, <2>4, <3>1, EchoErases
  <2>5. CASE got' = BS /\ line = <<>>
    <3>1. line' = line /\ con' = con /\ Reached' = Reached
      BY Zenon, <1>2, <2>5, ConsoleAssumption DEF ReadKey
    <3> QED
      BY Zenon, <2>2, <3>1
  <2>6. CASE got' \notin {NL, BS}
    <3>1. line' = Append(line, got') /\ con' = vga_put_char(con, got')
      BY Zenon, <2>6 DEF ReadKey
    <3> QED
      BY Zenon, <1>1, <1>2, <1>3, <2>2, <2>6, <3>1, EchoShows
  <2> QED
    BY Zenon, <2>3, <2>4, <2>5, <2>6
<1>4. ByCell(con', origin', line')
  BY Zenon, <1>1, ShownIsLine
<1>5. pc' = "read" /\ Fits(origin', Reached') => EchoAt(con', origin', line', Reached')
  BY Zenon, <1>1, <1>3
<1> QED
  BY Zenon, <1>4, <1>5 DEF EchoMatchesLine, Reached, Fits, EchoAt, ByCell
-----------------------------------------------------------------------------
(* Every step of the shell *)

LEMMA Kept ==
  ASSUME ShellInv, UNCHANGED <<line, taken, origin>>,
         queue' \in Seq(Key), con' \in Screen, out' \in Seq(Seq(Nat)),
         pc' = "read" => pc = "read" /\ con' = con /\ out' = out
  PROVE  ShellInv'
<1>1. line' = line /\ taken' = taken /\ origin' = origin
  BY Zenon
<1>2. Typed'
  BY Zenon, <1>1 DEF ShellInv, Typed
<1>3. Reading'
  BY Zenon, <1>1 DEF ShellInv, Reading
<1>4. LineIsEdit'
  BY Zenon, <1>1 DEF ShellInv, LineIsEdit, Before, Edit
<1>5. EchoMatchesLine'
  BY Zenon, <1>1 DEF ShellInv, EchoMatchesLine, Before, Edit
<1> QED
  BY Zenon, <1>2, <1>3, <1>4, <1>5 DEF ShellInv

LEMMA Messages ==
  /\ Banner \in Seq(Nat) /\ Hint \in Seq(Nat) /\ Prompt \in Seq(Nat)
  /\ Bare \in Seq(Nat) /\ Text \in Seq(Nat) /\ <<NL>> \in Seq(Nat)
<1>1. NL \in Nat
  BY ShellAssumption
<1> QED
  BY <1>1 DEF Banner, Hint, Prompt, Bare, Text

LEMMA Answered ==
  ASSUME ShellInv, NEW msgs \in Seq(Seq(Nat)), NEW next, next # "read", Answer(msgs, next)
  PROVE  ShellInv'
<1>1. <<<<NL>>>> \o msgs \in Seq(Seq(Nat))
  BY Messages
<1>2. /\ out' = <<<<NL>>>> \o msgs /\ pc' # "read" /\ UNCHANGED <<line, taken, origin>>
      /\ queue' = queue /\ con' = con
  BY Zenon DEF Answer
<1> QED
  BY Zenon, <1>1, <1>2, Kept DEF ShellInv, Typed

LEMMA Prompted ==
  ASSUME ShellInv, PromptAndRead
  PROVE  ShellInv'
<1>1. /\ pc' = "read" /\ out' = out /\ out = <<>> /\ line' = <<>> /\ taken' = <<>> /\ queue' = queue
      /\ con' = log_info(con, Prompt) /\ origin' = [row |-> con'.row, col |-> con'.col]
      /\ Typed
  BY Zenon DEF PromptAndRead, ShellInv
<1>2. con' \in Screen
  BY Zenon, <1>1, Messages, LogType DEF Typed
<1>3. <<>> \in Seq(Nat) /\ Len(<<>>) = 0 /\ SubSeq(<<>>, 1, 0) = <<>>
  OBVIOUS
<1>4. Edit(<<>>) = <<>>
  BY Zenon, <1>3, EditType
<1>5. con'.row \in Row /\ con'.col \in Col
  BY <1>2 DEF Screen
<1>6. Typed'
  <2>1. origin' \in [row : Row, col : Col]
    BY Zenon, <1>1, <1>5
  <2> QED
    BY Zenon, <1>1, <1>2, <1>3, <2>1 DEF Typed
<1>7. Reading'
  BY <1>1 DEF Reading
<1>8. LineIsEdit'
  <2>1. 0 <= max_len - 1 /\ 1..0 - 1 = {}
    BY ShellAssumption
  <2>2. /\ line' = Edit(taken') /\ Len(line') <= max_len - 1 /\ 1..Len(taken') - 1 = {}
    BY Zenon, <1>1, <1>3, <1>4, <2>1
  <2> QED
    BY Zenon, <2>2 DEF LineIsEdit, Edit
<1>9. EchoMatchesLine'
  <2>1. \A k \in 0..0 : k = 0
    OBVIOUS
  <2>2. \A k \in 0..0 : Len(Edit(SubSeq(<<>>, 1, k))) = 0
    BY Zenon, <1>3, <1>4, <2>1
  <2>3. \A n \in Reached' : n = 0
    BY Zenon, <1>1, <1>3, <2>2 DEF Reached, Before, Edit
  <2>4. EchoAt(con', origin', line', Reached')
    <3>1. con'.row = origin'.row /\ con'.col = origin'.col + Len(line') /\ Len(line') = 0
      BY <1>1, <1>5 DEF Col
    <3>2. \A k \in 1..0 : FALSE
      OBVIOUS
    <3>3. ~ (0 > 0)
      OBVIOUS
    <3> QED
      BY Zenon, <2>3, <3>1, <3>2, <3>3 DEF EchoAt
  <2>5. ByCell(con', origin', line')
    BY Zenon, <1>1, <1>3, ShownIsLine
  <2> QED
    BY Zenon, <2>4, <2>5 DEF EchoMatchesLine, Reached, EchoAt, ByCell
<1> QED
  BY Zenon, <1>6, <1>7, <1>8, <1>9 DEF ShellInv

LEMMA ReadKeyInv ==
  ASSUME ShellInv, ReadKey
  PROVE  ShellInv'
<1>1. Typed /\ Reading /\ LineIsEdit /\ EchoMatchesLine
  BY Zenon DEF ShellInv
<1>2. /\ got' \in Nat /\ queue' \in Seq(Key) /\ line' \in Seq(Nat) /\ taken' \in Seq(Nat)
      /\ out' = out /\ origin' = origin
  BY Zenon, <1>1, ReadKeyEdits DEF ReadKey
<1>3. con' \in Screen
  <2>1. NL \in Nat /\ BS \in Nat
    BY ShellAssumption
  <2>2. con' = con \/ \E ch \in Nat : con' = vga_put_char(con, ch)
    BY Zenon, <1>2, <2>1 DEF ReadKey
  <2> QED
    BY Zenon, <1>1, <2>2, PutType DEF Typed
<1>4. Typed'
  BY Zenon, <1>1, <1>2, <1>3 DEF Typed
<1> QED
  BY Zenon, <1>1, <1>4, ReadKeyLine, ReadKeyEcho DEF ShellInv

LEMMA ShellStep ==
  ASSUME ShellInv, Next
  PROVE  ShellInv'
<1>0. /\ Typed /\ queue \in Seq(Key) /\ con \in Screen /\ out \in Seq(Seq(Nat)) /\ line \in Seq(Nat)
      /\ (pc = "read" => out = <<>>)
  BY Zenon DEF ShellInv, Typed, Reading
<1>1. CASE \E c \in Key : keyboard_callback(c)
  <2>1. PICK c \in Key : keyboard_callback(c)
    BY Zenon, <1>1
  <2>2. /\ con' = con /\ pc' = pc /\ out' = out /\ UNCHANGED <<line, taken, origin>>
        /\ queue' = queue \/ queue' = Append(queue, c)
    BY Zenon, <2>1 DEF keyboard_callback, Keyboard!Put
  <2>3. Append(queue, c) \in Seq(Key)
    BY <1>0
  <2> QED
    BY Zenon, <1>0, <2>2, <2>3, Kept
<1>2. CASE sys_write
  <2>1. /\ out # <<>> /\ con' = log_info(con, Head(out)) /\ out' = Tail(out) /\ pc' = pc
        /\ queue' = queue /\ UNCHANGED <<line, taken, origin>>
    BY Zenon, <1>2 DEF sys_write
  <2>2. Head(out) \in Seq(Nat) /\ Tail(out) \in Seq(Seq(Nat))
    BY <1>0, <2>1
  <2>3. con' \in Screen
    BY Zenon, <1>0, <2>1, <2>2, LogType
  <2> QED
    BY Zenon, <1>0, <2>1, <2>2, <2>3, Kept
<1>3. CASE ReadFull \/ EmptyLine
  <2>1. /\ pc' # "read" /\ con' = con /\ out' = out /\ queue' = queue
        /\ UNCHANGED <<line, taken, origin>>
    BY Zenon, <1>3 DEF ReadFull, EmptyLine
  <2> QED
    BY Zenon, <1>0, <2>1, Kept
<1>4. CASE help
  <2>1. [k \in 1..5 |-> Text] \in Seq(Seq(Nat))
    BY Messages
  <2> QED
    BY Zenon, <1>4, <2>1, Answered DEF help
<1>5. CASE clear
  <2>1. [k \in 1..VGA_ROWS |-> <<NL>>] \in Seq(Seq(Nat))
    BY Messages, ConsoleAssumption
  <2> QED
    BY Zenon, <1>5, <2>1, Answered DEF clear
<1>6. CASE exit
  <2>1. <<Text, Bare>> \in Seq(Seq(Nat))
    BY Messages
  <2> QED
    BY Zenon, <1>6, <2>1, Answered DEF exit
<1>7. CASE exec
  <2>1. <<Text, Bare, line, <<NL>>>> \in Seq(Seq(Nat)) /\ <<Text>> \in Seq(Seq(Nat))
    BY <1>0, Messages
  <2> QED
    BY Zenon, <1>7, <2>1, Answered DEF exec
<1> QED
  BY Zenon, <1>1, <1>2, <1>3, <1>4, <1>5, <1>6, <1>7, Prompted, ReadKeyInv DEF Next, Shell
-----------------------------------------------------------------------------
(* The login screen *)

Filled(b, p, ch) == SubSeq(b, 1, p) \o <<ch>> \o SubSeq(b, p + 2, Len(b))

LEMMA Beginning ==
  ASSUME NEW b \in Seq(Nat), NEW p \in Nat, p <= Len(b)
  PROVE  SubSeq(b, 1, p) \in Seq(Nat) /\ Len(SubSeq(b, 1, p)) = p
OBVIOUS

LEMMA StoreSeq ==
  ASSUME NEW b \in Seq(Nat), NEW p \in Nat, p <= Len(b), NEW ch \in Nat
  PROVE  /\ Filled(b, p, ch) \in Seq(Nat) /\ p + 1 <= Len(Filled(b, p, ch))
         /\ SubSeq(Filled(b, p, ch), 1, p + 1) = Append(SubSeq(b, 1, p), ch)
<1> DEFINE u == SubSeq(b, 1, p)
           v == u \o <<ch>>
           w == SubSeq(b, p + 2, Len(b))
           b2 == v \o w
<1>1. u \in Seq(Nat) /\ Len(u) = p
  BY Zenon, Beginning
<1>2. w \in Seq(Nat)
  OBVIOUS
<1> HIDE DEF u, w
<1>3. v \in Seq(Nat) /\ Len(v) = p + 1 /\ v = Append(u, ch)
  BY <1>1
<1> HIDE DEF v
<1>4. b2 \in Seq(Nat) /\ Len(b2) = (p + 1) + Len(w) /\ \A k \in 1..p + 1 : b2[k] = v[k]
  <2>0. v \in Seq(Nat) /\ w \in Seq(Nat)
    BY Zenon, <1>2, <1>3
  <2>1. b2 \in Seq(Nat) /\ Len(b2) = Len(v) + Len(w)
    BY <2>0
  <2>2. ASSUME NEW k \in 1..Len(v) PROVE b2[k] = v[k]
    <3>1. k \in 1..Len(v) + Len(w) /\ k <= Len(v)
      BY <1>2, <1>3
    <3> QED
      BY <1>2, <1>3, <3>1
  <2> QED
    BY Zenon, <1>3, <2>1, <2>2
<1> HIDE DEF b2
<1>5. SubSeq(b2, 1, p + 1) = v
  <2>1. p + 1 <= Len(b2)
    BY <1>2, <1>4
  <2>2. SubSeq(b2, 1, p + 1) \in Seq(Nat) /\ Len(SubSeq(b2, 1, p + 1)) = p + 1
    <3>1. p + 1 \in Nat
      OBVIOUS
    <3> QED
      BY Zenon, <1>4, <2>1, <3>1, Beginning
  <2>3. \A k \in 1..p + 1 : SubSeq(b2, 1, p + 1)[k] = v[k]
    BY <1>4, <2>1
  <2> QED
    BY SMTT(20), <1>3, <2>2, <2>3
<1>6. p + 1 <= Len(b2)
  BY <1>2, <1>4
<1> QED
  BY Zenon, <1>3, <1>4, <1>5, <1>6 DEF Filled, b2, u, v, w

LEMMA BackSeq ==
  ASSUME NEW b \in Seq(Nat), NEW p \in Nat \ {0}, p <= Len(b)
  PROVE  Shorter(SubSeq(b, 1, p)) = SubSeq(b, 1, p - 1) /\ SubSeq(b, 1, p) # <<>>
<1> DEFINE u == SubSeq(b, 1, p)
<1>1. u \in Seq(Nat) /\ Len(u) = p /\ \A k \in 1..p : u[k] = b[k]
  OBVIOUS
<1> HIDE DEF u
<1>2. SubSeq(u, 1, p - 1) = SubSeq(b, 1, p - 1)
  BY <1>1
<1>3. Shorter(u) = SubSeq(u, 1, p - 1)
  BY Zenon, <1>1 DEF Shorter
<1>4. u # <<>>
  BY Zenon, <1>1
<1> QED
  BY Zenon, <1>2, <1>3, <1>4 DEF u

LEMMA EmptySeq ==
  ASSUME NEW b \in Seq(Nat)
  PROVE  SubSeq(b, 1, 0) = <<>>
OBVIOUS

FieldInv(f) == pos <= Len(buffer[f]) /\ SubSeq(buffer[f], 1, pos) = FieldEdit(since[f])

LoginInv ==
  /\ buffer \in [Field -> Seq(Nat)] /\ since \in [Field -> Seq(Nat)] /\ pos \in Nat
  /\ \A f \in Field : at = f => FieldInv(f)
  /\ at = "username" => since["password"] = <<>>
  /\ at = "password" => buffer["username"] = FieldEdit(since["username"])
  /\ CredentialsAsTyped

\* The text before pos is edited as the key says.
LEMMA FieldKey ==
  ASSUME ShellInv, LoginInv, NEW f \in Field, read_input(f)
  PROVE  /\ buffer' \in [Field -> Seq(Nat)] /\ since' \in [Field -> Seq(Nat)] /\ pos' \in Nat
         /\ FieldInv(f)'
         /\ \A g \in Field \ {f} : buffer'[g] = buffer[g] /\ since'[g] = since[g]
<1> DEFINE chars == {ch \in Key : Printable(ch)}
           room == field_width - 1
           b == buffer[f]
           text == SubSeq(b, 1, pos)
<1>1. /\ at = f /\ got' # NL /\ since' = [since EXCEPT ![f] = Append(@, got')]
      /\ \/ got' = BS /\ pos' = (IF pos > 0 THEN pos - 1 ELSE 0) /\ buffer' = buffer
         \/ got' # BS /\ Accepts(got') /\ Store(f, got')
         \/ got' # BS /\ ~ Accepts(got') /\ buffer' = buffer /\ pos' = pos
  BY Zenon DEF read_input
<1>2. got' \in Key /\ got' \in Nat
  BY Zenon, GetKey DEF read_input, ShellInv
<1>3. /\ buffer \in [Field -> Seq(Nat)] /\ since \in [Field -> Seq(Nat)] /\ pos \in Nat
      /\ b \in Seq(Nat) /\ since[f] \in Seq(Nat) /\ pos <= Len(b) /\ text = FieldEdit(since[f])
  BY Zenon, <1>1 DEF LoginInv, FieldInv
<1>4. since'[f] = Append(since[f], got') /\ since' \in [Field -> Seq(Nat)]
  BY <1>1, <1>2, <1>3
<1> HIDE DEF chars, room
<1>5. FieldEdit(since'[f]) = Pressed(text, got', chars, room)
  <2>1. Continues(since[f], got', chars, room)
    BY Zenon, <1>2, <1>3, EditedAppend
  <2> QED
    BY Zenon, <1>3, <1>4, <2>1 DEF Continues, FieldEdit, chars, room
<1>6. text \in Seq(Nat) /\ Len(text) = pos
  BY Zenon, <1>3, Beginning
<1> HIDE DEF text, b
<1>7. CASE got' = BS
  <2>1. pos' = (IF pos > 0 THEN pos - 1 ELSE 0) /\ buffer' = buffer
    BY Zenon, <1>1, <1>7
  <2>2. CASE pos = 0
    <3>1. pos' = 0 /\ text = <<>>
      BY <1>6, <2>1, <2>2
    <3>2. SubSeq(b, 1, 0) = <<>> /\ 0 <= Len(b)
      BY <1>3
    <3>3. SubSeq(buffer'[f], 1, pos') = Pressed(text, got', chars, room)
      BY Zenon, <1>7, <2>1, <3>1, <3>2 DEF Pressed, b
    <3> QED
      BY Zenon, <1>3, <1>4, <1>5, <2>1, <2>2, <3>1, <3>2, <3>3, <1>1 DEF FieldInv, b, FieldEdit
  <2>3. CASE pos # 0
    <3>1. pos' = pos - 1 /\ pos' \in Nat /\ pos' <= Len(b) /\ pos \in Nat \ {0}
      BY <1>3, <2>1, <2>3
    <3>2. Shorter(text) = SubSeq(b, 1, pos') /\ text # <<>>
      BY Zenon, <1>3, <3>1, BackSeq DEF text
    <3>3. SubSeq(buffer'[f], 1, pos') = Pressed(text, got', chars, room)
      BY Zenon, <1>7, <2>1, <3>2 DEF Pressed, b
    <3> QED
      BY Zenon, <1>1, <1>3, <1>4, <1>5, <2>1, <3>1, <3>3 DEF FieldInv, b, FieldEdit
  <2> QED
    BY Zenon, <2>2, <2>3
<1>8. CASE got' # BS /\ Accepts(got') /\ Store(f, got')
  <2>1. pos' = pos + 1 /\ buffer' = [buffer EXCEPT ![f] = Filled(b, pos, got')]
    BY Zenon, <1>8 DEF Store, Filled, b
  <2>2. /\ Filled(b, pos, got') \in Seq(Nat) /\ pos + 1 <= Len(Filled(b, pos, got'))
        /\ SubSeq(Filled(b, pos, got'), 1, pos + 1) = Append(text, got')
    BY Zenon, <1>2, <1>3, StoreSeq DEF text
  <2>3. pos' \in Nat /\ buffer'[f] = Filled(b, pos, got') /\ buffer' \in [Field -> Seq(Nat)]
    BY <1>3, <2>1, <2>2
  <2>4. Pressed(text, got', chars, room) = Append(text, got')
    BY Zenon, <1>2, <1>6, <1>8 DEF Pressed, Accepts, chars, room
  <2>5. \A g \in Field \ {f} : buffer'[g] = buffer[g] /\ since'[g] = since[g]
    BY <1>1, <1>3, <2>1
  <2> QED
    BY Zenon, <1>4, <1>5, <2>1, <2>2, <2>3, <2>4, <2>5 DEF FieldInv, FieldEdit
<1>9. CASE got' # BS /\ ~ Accepts(got') /\ buffer' = buffer /\ pos' = pos
  <2>1. Pressed(text, got', chars, room) = text
    BY Zenon, <1>2, <1>6, <1>9 DEF Pressed, Accepts, chars, room
  <2> QED
    BY Zenon, <1>1, <1>3, <1>4, <1>5, <1>9, <2>1 DEF FieldInv, FieldEdit, b, text
<1> QED
  BY Zenon, <1>1, <1>7, <1>8, <1>9

LEMMA FieldEmpty == FieldEdit(<<>>) = <<>>
<1>1. 0 \in Nat /\ <<>> \in Seq(Nat)
  OBVIOUS
<1>2. Continues(<<>>, 0, {ch \in Key : Printable(ch)}, field_width - 1)
  BY Zenon, <1>1, EditedAppend
<1> QED
  BY Zenon, <1>2 DEF Continues, FieldEdit

LEMMA LoginStep ==
  ASSUME ShellInv, LoginInv, show_login_screen
  PROVE  LoginInv'
<1>1. /\ buffer \in [Field -> Seq(Nat)] /\ since \in [Field -> Seq(Nat)] /\ pos \in Nat
      /\ "username" \in Field /\ "password" \in Field /\ "username" # "password"
      /\ \A f \in Field : f = "username" \/ f = "password"
      /\ \A f \in Field : buffer[f] \in Seq(Nat)
  BY DEF LoginInv, Field
<1>2. CASE \E f \in Field : read_input(f)
  <2>1. PICK f \in Field : read_input(f)
    BY Zenon, <1>2
  <2>2. /\ buffer' \in [Field -> Seq(Nat)] /\ since' \in [Field -> Seq(Nat)] /\ pos' \in Nat
        /\ FieldInv(f)'
        /\ \A g \in Field \ {f} : buffer'[g] = buffer[g] /\ since'[g] = since[g]
    BY Zenon, <2>1, FieldKey
  <2>3. at' = f /\ at = f
    BY Zenon, <2>1 DEF read_input
  <2>4. \A g \in Field : at' = g => FieldInv(g)'
    BY Zenon, <2>2, <2>3
  <2>5. at' = "username" => since'["password"] = <<>>
    BY Zenon, <1>1, <2>2, <2>3 DEF LoginInv
  <2>6. at' = "password" => buffer'["username"] = FieldEdit(since'["username"])
    BY Zenon, <1>1, <2>2, <2>3 DEF LoginInv
  <2>7. at' # "welcome"
    BY Zenon, <2>3 DEF Field
  <2> QED
    BY Zenon, <2>2, <2>4, <2>5, <2>6, <2>7 DEF LoginInv, CredentialsAsTyped, FieldEdit
<1>3. CASE UsernameDone
  <2>1. /\ at = "username" /\ at' = "password" /\ pos' = 0 /\ since' = since
        /\ buffer' = [buffer EXCEPT !["username"] = SubSeq(@, 1, pos)]
    BY Zenon, <1>3 DEF UsernameDone, Terminate
  <2>2. /\ pos <= Len(buffer["username"]) /\ since["password"] = <<>>
        /\ SubSeq(buffer["username"], 1, pos) = FieldEdit(since["username"])
    BY Zenon, <1>1, <2>1 DEF LoginInv, FieldInv
  <2>3. SubSeq(buffer["username"], 1, pos) \in Seq(Nat)
    BY Zenon, <1>1, <2>2, Beginning
  <2>4. /\ buffer' \in [Field -> Seq(Nat)] /\ buffer'["password"] = buffer["password"]
        /\ buffer'["username"] = SubSeq(buffer["username"], 1, pos)
    BY Zenon, <1>1, <2>1, <2>3
  <2>5. 0 \in Nat /\ 0 <= Len(buffer["password"]) /\ SubSeq(buffer["password"], 1, 0) = <<>>
    BY <1>1
  <2>6. FieldInv("password")'
    BY Zenon, <2>1, <2>2, <2>4, <2>5, FieldEmpty DEF FieldInv, FieldEdit
  <2>7. /\ \A f \in Field : at' = f => f = "password"
        /\ at' # "username" /\ at' # "welcome"
    BY <2>1
  <2>8. buffer'["username"] = FieldEdit(since'["username"])
    BY Zenon, <2>1, <2>2, <2>4
  <2> QED
    BY Zenon, <1>1, <2>1, <2>4, <2>5, <2>6, <2>7, <2>8 DEF LoginInv, CredentialsAsTyped, FieldEdit
<1>4. CASE PasswordDone
  <2>1. /\ at = "password" /\ pos' = pos /\ since' = since
        /\ buffer' = [buffer EXCEPT !["password"] = SubSeq(@, 1, pos)]
        /\ at' = IF \E f \in Field : buffer'[f] = <<>> THEN "error" ELSE "welcome"
    BY Zenon, <1>4 DEF PasswordDone, Terminate
  <2>2. /\ pos <= Len(buffer["password"]) /\ buffer["username"] = FieldEdit(since["username"])
        /\ SubSeq(buffer["password"], 1, pos) = FieldEdit(since["password"])
    BY Zenon, <1>1, <2>1 DEF LoginInv, FieldInv
  <2>3. SubSeq(buffer["password"], 1, pos) \in Seq(Nat)
    BY Zenon, <1>1, <2>2, Beginning
  <2>4. /\ buffer' \in [Field -> Seq(Nat)] /\ buffer'["username"] = buffer["username"]
        /\ buffer'["password"] = SubSeq(buffer["password"], 1, pos)
    BY Zenon, <1>1, <2>1, <2>3
  <2>5. /\ at' \notin Field /\ at' # "username" /\ at' # "password"
        /\ at' = "welcome" => \A f \in Field : buffer'[f] # <<>>
    BY Zenon, <2>1 DEF Field
  <2>6. \A f \in Field : buffer'[f] = FieldEdit(since'[f])
    BY Zenon, <1>1, <2>1, <2>2, <2>4
  <2> QED
    BY Zenon, <1>1, <2>1, <2>4, <2>5, <2>6 DEF LoginInv, CredentialsAsTyped, FieldEdit
<1>5. CASE Retry
  <2>1. at' = "username" /\ pos' = 0 /\ since' = [f \in Field |-> <<>>] /\ buffer' = buffer
    BY Zenon, <1>5 DEF Retry
  <2>2. /\ since' \in [Field -> Seq(Nat)] /\ \A f \in Field : since'[f] = <<>>
        /\ at' # "password" /\ at' # "welcome"
    BY <2>1
  <2>3. 0 \in Nat /\ \A f \in Field : 0 <= Len(buffer[f]) /\ SubSeq(buffer[f], 1, 0) = <<>>
    BY <1>1
  <2>4. \A f \in Field : FieldInv(f)'
    BY Zenon, <2>1, <2>2, <2>3, FieldEmpty DEF FieldInv, FieldEdit
  <2> QED
    BY Zenon, <1>1, <2>1, <2>2, <2>3, <2>4 DEF LoginInv, CredentialsAsTyped
<1> QED
  BY Zenon, <1>2, <1>3, <1>4, <1>5 DEF show_login_screen

LEMMA LoginKept ==
  ASSUME LoginInv, UNCHANGED <<buffer, pos, since>>, at' = at \/ at' = "in"
  PROVE  LoginInv'
<1>1. buffer' = buffer /\ pos' = pos /\ since' = since
  BY Zenon
<1>2. "in" \notin Field /\ "in" # "username" /\ "in" # "password" /\ "in" # "welcome"
  BY DEF Field
<1> QED
  BY Zenon, <1>1, <1>2 DEF LoginInv, FieldInv, CredentialsAsTyped, FieldEdit
-----------------------------------------------------------------------------
(* The session *)

IInv == ShellInv /\ LoginInv

LEMMA SessionStart == SessionInit => IInv
<1> SUFFICES ASSUME SessionInit PROVE IInv
  BY Zenon
<1>1. /\ queue = <<>> /\ con = vga_clear /\ line = <<>> /\ taken = <<>> /\ pc # "read"
      /\ origin = [row |-> 0, col |-> 0] /\ out \in {<<>>, <<Banner, Hint>>}
      /\ buffer = [f \in Field |-> <<>>] /\ since = [f \in Field |-> <<>>] /\ pos = 0
      /\ at \in {"in", "username"}
  BY Zenon DEF SessionInit, Init, Keyboard!Init
<1>2. Typed
  <2>1. vga_clear \in Screen /\ [row |-> 0, col |-> 0] \in [row : Row, col : Col]
    BY ConsoleAssumption DEF vga_clear, Screen, Row, Col
  <2>2. <<>> \in Seq(Seq(Nat)) /\ <<Banner, Hint>> \in Seq(Seq(Nat))
    BY Messages
  <2>3. <<>> \in Seq(Nat) /\ <<>> \in Seq(Key)
    OBVIOUS
  <2> QED
    BY Zenon, <1>1, <2>1, <2>2, <2>3 DEF Typed
<1>3. LineIsEdit
  <2>1. <<>> \in Seq(Nat) /\ Len(<<>>) <= max_len - 1 /\ 1..Len(<<>>) - 1 = {}
    BY ShellAssumption
  <2>2. Edit(<<>>) = <<>>
    BY Zenon, <2>1, EditType
  <2> QED
    BY Zenon, <1>1, <2>1, <2>2 DEF LineIsEdit
<1>4. LoginInv
  <2>1. /\ buffer \in [Field -> Seq(Nat)] /\ since \in [Field -> Seq(Nat)] /\ pos \in Nat
        /\ \A f \in Field : buffer[f] = <<>> /\ since[f] = <<>>
        /\ "password" \in Field
    BY <1>1 DEF Field
  <2>2. 0 <= Len(<<>>) /\ SubSeq(<<>>, 1, 0) = <<>>
    OBVIOUS
  <2>3. \A f \in Field : FieldInv(f)
    BY Zenon, <1>1, <2>1, <2>2, FieldEmpty DEF FieldInv
  <2>4. at # "password" /\ at # "welcome"
    BY Zenon, <1>1
  <2> QED
    BY Zenon, <2>1, <2>3, <2>4 DEF LoginInv, CredentialsAsTyped
<1> QED
  BY Zenon, <1>1, <1>2, <1>3, <1>4 DEF IInv, ShellInv, Reading, EchoMatchesLine

LEMMA SessionStep == IInv /\ [SessionNext]_session => IInv'
<1> SUFFICES ASSUME IInv, [SessionNext]_session PROVE IInv'
  OBVIOUS
<1>0. ShellInv /\ LoginInv /\ Typed
  BY Zenon DEF IInv, ShellInv
<1>1. CASE Next /\ UNCHANGED login
  BY Zenon, <1>0, <1>1, ShellStep, LoginKept DEF IInv, login
<1>2. CASE show_login_screen
  <2>1. /\ con' = con /\ pc' = pc /\ out' = out /\ UNCHANGED <<line, taken, origin>>
        /\ queue' = queue \/ Keyboard!Get
    BY Zenon, <1>2 DEF show_login_screen, read_input, UsernameDone, PasswordDone, Retry, vars
  <2>2. queue' \in Seq(Key)
    BY Zenon, <1>0, <2>1, GetKey DEF Typed
  <2> QED
    BY Zenon, <1>0, <1>2, <2>1, <2>2, Kept, LoginStep DEF IInv, Typed
<1>3. CASE StartShell
  <2>1. /\ at' = "in" /\ con' = vga_clear /\ pc' # "read" /\ queue' = queue
        /\ out' \in {out, <<Banner, Hint>>}
        /\ UNCHANGED <<line, taken, origin>> /\ UNCHANGED <<buffer, pos, since>>
    BY Zenon, <1>3 DEF StartShell
  <2>2. vga_clear \in Screen
    BY ConsoleAssumption DEF vga_clear, Screen, Row, Col
  <2>3. <<Banner, Hint>> \in Seq(Seq(Nat))
    BY Messages
  <2> QED
    BY Zenon, <1>0, <2>1, <2>2, <2>3, Kept, LoginKept DEF IInv, Typed
<1>4. CASE UNCHANGED session
  <2>1. /\ con' = con /\ pc' = pc /\ out' = out /\ queue' = queue /\ at' = at
        /\ UNCHANGED <<line, taken, origin>> /\ UNCHANGED <<buffer, pos, since>>
    BY Zenon, <1>4 DEF session, vars, login
  <2> QED
    BY Zenon, <1>0, <2>1, Kept, LoginKept DEF IInv, Typed
<1> QED
  BY Zenon, <1>1, <1>2, <1>3, <1>4 DEF SessionNext

LEMMA SessionInvariant == SessionSpec => []IInv
  BY SessionStart, SessionStep, PTL DEF SessionSpec

(* sys_read: whatever is typed, and however long it is edited, the shell   *)
(* gets the text the keys stand for, within its buffer, after the first    *)
(* Enter or the last free byte and no key later.                           *)
THEOREM LineAlwaysEdited == SessionSpec => []LineIsEdit
<1>1. IInv => LineIsEdit
  BY Zenon DEF IInv, ShellInv
<1> QED
  BY <1>1, SessionInvariant, PTL

(* sys_read and vga_put_char: on a screen of any size the echo between the *)
(* prompt and the cursor is the line, and what was erased is blank, until  *)
(* the line reaches the right edge.                                        *)
THEOREM EchoAlwaysMatches == SessionSpec => []EchoMatchesLine
<1>1. IInv => EchoMatchesLine
  BY Zenon DEF IInv, ShellInv
<1> QED
  BY <1>1, SessionInvariant, PTL

(* show_login_screen and read_input: through any number of rejected        *)
(* attempts, the credentials the boot goes on with are not empty and are   *)
(* those typed in the last attempt, for every width of the fields.         *)
THEOREM CredentialsAlwaysTyped == SessionSpec => []CredentialsAsTyped
<1>1. IInv => CredentialsAsTyped
  BY Zenon DEF IInv, LoginInv
<1> QED
  BY <1>1, SessionInvariant, PTL
=============================================================================
