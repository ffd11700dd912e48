------------------------------ MODULE Keyboard ------------------------------
(***************************************************************************)
(* src/keyboard.c: the ring buffer that the keyboard interrupt fills and   *)
(* keyboard_get_char drains.                                               *)
(*                                                                         *)
(* The interrupt handler runs with interrupts disabled (the IDT installs   *)
(* interrupt gates), so it is one action.  The reader runs with interrupts *)
(* enabled: each of its accesses to the shared buffer is a step, and an    *)
(* interrupt may arrive between any two of them, in particular between its *)
(* test for an empty buffer and the hlt that follows.                      *)
(***************************************************************************)
EXTENDS Integers, Sequences

CONSTANTS KEYBOARD_BUFFER_SIZE,
          Scancode,           \* the scancodes the controller may deliver
          scancode_to_ascii   \* the translation table; 0 is "no character"

ASSUME KeyboardAssumption ==
  /\ KEYBOARD_BUFFER_SIZE \in Nat \ {0}
  /\ Scancode \subseteq 0..255
  /\ scancode_to_ascii \in [0..127 -> 0..127]

VARIABLES keyboard_buffer, buffer_start, buffer_end,
          reader,    \* where keyboard_get_char is; "caller" when it is not running
          c,         \* its local variable
          returned   \* the value it returned last

vars == <<keyboard_buffer, buffer_start, buffer_end, reader, c, returned>>

Index == 0 .. KEYBOARD_BUFFER_SIZE - 1
Char  == 1..127

Init == /\ keyboard_buffer = [i \in Index |-> 0]
        /\ buffer_start = 0
        /\ buffer_end = 0
        /\ reader = "caller"
        /\ c = 0
        /\ returned = 0
-----------------------------------------------------------------------------
(* The producer: IRQ 1. *)

Advance(i) == (i + 1) % KEYBOARD_BUFFER_SIZE

Full_Never == FALSE
Full == Advance(buffer_end) = buffer_start

IsRelease(scancode) == scancode >= 128     \* scancode & 0x80

Store(ch) == IF Full
             THEN UNCHANGED <<keyboard_buffer, buffer_end>>
             ELSE /\ keyboard_buffer' = [keyboard_buffer EXCEPT ![buffer_end] = ch]
                  /\ buffer_end' = Advance(buffer_end)

\* An interrupt ends a hlt: the reader goes back to its test.
EndHlt == reader' = IF reader = "halted" THEN "test" ELSE reader

keyboard_callback(scancode) ==
  /\ IF IsRelease(scancode) \/ scancode_to_ascii[scancode] = 0
     THEN UNCHANGED <<keyboard_buffer, buffer_end>>
     ELSE Store(scancode_to_ascii[scancode])
  /\ EndHlt
  /\ UNCHANGED <<buffer_start, c, returned>>

\* Any other interrupt, the timer's above all, also ends a hlt.
timer_irq == /\ reader = "halted"
             /\ EndHlt
             /\ UNCHANGED <<keyboard_buffer, buffer_start, buffer_end, c, returned>>
-----------------------------------------------------------------------------
(* The consumer: keyboard_get_char, one action per access to shared state. *)

Call == /\ reader = "caller"
        /\ reader' = "test"
        /\ UNCHANGED <<keyboard_buffer, buffer_start, buffer_end, c, returned>>

TestEmpty == /\ reader = "test"
             /\ reader' = IF buffer_start = buffer_end THEN "hlt" ELSE "load"
             /\ UNCHANGED <<keyboard_buffer, buffer_start, buffer_end, c, returned>>

Hlt == /\ reader = "hlt"
       /\ reader' = "halted"
       /\ UNCHANGED <<keyboard_buffer, buffer_start, buffer_end, c, returned>>

Load == /\ reader = "load"
        /\ c' = keyboard_buffer[buffer_start]
        /\ reader' = "advance"
        /\ UNCHANGED <<keyboard_buffer, buffer_start, buffer_end, returned>>

Return == /\ reader = "advance"
          /\ buffer_start' = Advance(buffer_start)
          /\ returned' = c
          /\ reader' = "caller"
          /\ UNCHANGED <<keyboard_buffer, buffer_end, c>>

keyboard_get_char == TestEmpty \/ Hlt \/ Load \/ Return

Next == \/ \E scancode \in Scancode : keyboard_callback(scancode)
        \/ timer_irq
        \/ Call
        \/ keyboard_get_char

Spec == Init /\ [][Next]_vars

(* The CPU executes the reader's instructions, and the timer, which is     *)
(* unmasked before keyboard_get_char is first called, keeps ticking.       *)
(* Nobody is obliged to type, or to call keyboard_get_char again.          *)
FairSpec == Spec /\ WF_vars(keyboard_get_char) /\ WF_vars(timer_irq)
-----------------------------------------------------------------------------
(* The character the reader has loaded and not yet consumed is still the   *)
(* oldest one in the buffer: the interrupt handler, which can run between  *)
(* the load and the update of buffer_start, never reuses that slot.        *)
LoadedIsOldest ==
  reader = "advance" => /\ buffer_start # buffer_end
                        /\ c = keyboard_buffer[buffer_start]

(* The characters waiting in the ring, oldest first. *)
Waiting == IF buffer_end >= buffer_start
           THEN buffer_end - buffer_start
           ELSE buffer_end - buffer_start + KEYBOARD_BUFFER_SIZE
Slot(i) == IF buffer_start + i - 1 < KEYBOARD_BUFFER_SIZE
           THEN buffer_start + i - 1
           ELSE buffer_start + i - 1 - KEYBOARD_BUFFER_SIZE
Contents == [i \in 1..Waiting |-> keyboard_buffer[Slot(i)]]

KQ == INSTANCE KeyQueue WITH Capacity <- KEYBOARD_BUFFER_SIZE - 1,
                             queue <- Contents, got <- returned

(* The ring buffer implements the abstract queue: no interleaving of the   *)
(* interrupt with keyboard_get_char reorders, duplicates, invents or loses *)
(* a character, except that a key is dropped when all slots but one are    *)
(* taken.                                                                  *)
ImplementsKeyQueue == KQ!Spec

(* No lost wakeup: a reader that is about to halt, or has halted, with a   *)
(* character in the buffer returns.  The key may have arrived between the  *)
(* test and the hlt, so that its own interrupt wakes nobody.               *)
HaltedReaderReturns ==
  (reader \in {"hlt", "halted"} /\ buffer_start # buffer_end) ~> (reader = "caller")
=============================================================================
