------------------------------ MODULE MCFat32 -------------------------------
(* Clusters of two bytes or two entries; names of two characters and an    *)
(* extension of one.  The root directory has one cluster (2) or two (2 and *)
(* 3), file A the chain 4, 5, 6, the other files cluster 7 or none.        *)
EXTENDS Fat32

File(name, first, length) ==
  [name |-> name, attr |-> {}, first |-> first, file_size |-> length]

A == File(<<65, SPACE, SPACE>>, 4, 5)
AX == File(<<65, SPACE, 88>>, 7, 2)
Empty == File(<<66, SPACE, SPACE>>, 0, 0)
ReadOnly == [File(<<67, SPACE, SPACE>>, 7, 2) EXCEPT !.attr = {"read_only"}]
Sub == [File(<<68, SPACE, SPACE>>, 7, 0) EXCEPT !.attr = {"directory"}]
Long == [File(<<65, SPACE, SPACE>>, 0, 0) EXCEPT !.attr = LONG_NAME]
Gone == File(<<DELETED, SPACE, SPACE>>, 4, 5)
Unused == File(<<END, SPACE, SPACE>>, 0, 0)

Fat(second) == [c \in 0..7 |-> CASE c = 2 -> second [] c = 4 -> 5 [] c = 5 -> 6
                                 [] OTHER -> EOC]

Volume(second, s) ==
  [fat |-> Fat(second),
   entries |-> [c \in {2, 3} |-> IF c = 2 THEN <<s[1], s[2]>> ELSE <<s[3], s[4]>>]]

MCEntry == {A, AX, Long, Gone, Unused}
MCVolumes ==
  {Volume(3, s) : s \in [1..4 -> MCEntry]}
    \cup {Volume(EOC, s \o <<Unused, Unused>>) : s \in [1..2 -> MCEntry]}
MCFileVolumes == {Volume(EOC, <<A, Empty, Unused, Unused>>),
                  Volume(EOC, <<ReadOnly, Sub, Unused, Unused>>)}
MCNames == {<<65>>, <<65, DOT, 88>>, <<66>>, <<67>>, <<68>>}
MCAll == MCVolumes \cup MCFileVolumes
=============================================================================
