------------------------------- MODULE MCElf --------------------------------
(* Pages of two bytes: text of a page and a half, data with a bss in the   *)
(* page after it, a note that is not loaded; the same with data in the     *)
(* last page of the text; no header at all; no executable.                 *)
EXTENDS Elf

Load(vaddr, filesz, memsz, offset) ==
  [load |-> TRUE, vaddr |-> vaddr, filesz |-> filesz, memsz |-> memsz, offset |-> offset]
Note == [Load(0, 1, 1, 9) EXCEPT !.load = FALSE]

Apart == [valid |-> TRUE, phdrs |-> <<Load(0, 3, 3, 1), Note, Load(5, 1, 3, 4)>>]
Shared == [valid |-> TRUE, phdrs |-> <<Load(0, 3, 3, 1), Load(3, 1, 1, 4)>>]
Headless == [valid |-> TRUE, phdrs |-> <<>>]
Invalid == [valid |-> FALSE, phdrs |-> <<>>]

MCPrograms == {Apart, Shared, Headless, Invalid}
=============================================================================
