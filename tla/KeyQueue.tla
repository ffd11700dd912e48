------------------------------ MODULE KeyQueue ------------------------------
(***************************************************************************)
(* What the keyboard driver promises its reader: a FIFO queue of at most   *)
(* Capacity characters.  A key typed while the queue is full is lost, every *)
(* other key is returned exactly once and in the order it was typed.       *)
(***************************************************************************)
EXTENDS Naturals, Sequences

CONSTANTS Char,      \* the characters the keyboard can produce
          Capacity   \* how many of them can wait for the reader

VARIABLES queue,     \* characters typed and not yet returned
          got        \* the character the last read returned

vars == <<queue, got>>

Init == queue = <<>> /\ got = 0

Put(c) == /\ Len(queue) < Capacity
          /\ queue' = Append(queue, c)
          /\ UNCHANGED got

Get == /\ queue # <<>>
       /\ got' = Head(queue)
       /\ queue' = Tail(queue)

Next == (\E c \in Char : Put(c)) \/ Get

Spec == Init /\ [][Next]_vars
=============================================================================
