---------------------------- MODULE MCInterrupts ----------------------------
(* Two keys with different characters, so that an exchange would show.  A  *)
(* release is left out: it does what a key does when the buffer is full.   *)
(* The masks are those that leave the most to happen: the two lines that   *)
(* the kernel opens are closed at first, the disk's is open.               *)
EXTENDS Interrupts

MCScancode == {30, 48}
MCAscii == [s \in 0..127 |-> IF s = 30 THEN 97 ELSE IF s = 48 THEN 98 ELSE 0]
MCMasks == {{TIMER, KEYBOARD}}
=============================================================================
