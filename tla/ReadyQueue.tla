----------------------------- MODULE ReadyQueue -----------------------------
(***************************************************************************)
(* src/process.c: the ready queue as the code keeps it, a singly linked    *)
(* list through process.next with a head and a tail pointer.  Beside it,   *)
(* the sequence that module Process uses in its place, updated as Process  *)
(* updates it; the invariant says that the pointers represent it.          *)
(*                                                                         *)
(* scheduler_add has a precondition the code does not test: the process is *)
(* not in the queue already.  Process!ReadyIffQueued is what grants it.    *)
(***************************************************************************)
EXTENDS Integers, Sequences

CONSTANTS Proc,   \* the entries of process_table
          NULL

ASSUME ReadyQueueAssumption == NULL \notin Proc

VARIABLES ready_queue_head, ready_queue_tail,
          next,         \* process.next
          ready_queue   \* the sequence of module Process

queue_vars == <<ready_queue_head, ready_queue_tail, next, ready_queue>>

Queued == {ready_queue[i] : i \in DOMAIN ready_queue}

QueueInit == /\ ready_queue_head = NULL
             /\ ready_queue_tail = NULL
             /\ next = [p \in Proc |-> NULL]
             /\ ready_queue = <<>>

scheduler_add(proc) ==
  /\ proc \notin Queued
  /\ next' = [p \in Proc |-> IF p = ready_queue_tail THEN proc
                             ELSE IF p = proc THEN NULL ELSE next[p]]
  /\ ready_queue_head' = IF ready_queue_tail = NULL THEN proc ELSE ready_queue_head
  /\ ready_queue_tail' = proc
  /\ ready_queue' = Append(ready_queue, proc)

\* Take the first process off the list: in schedule(), and in scheduler_remove
\* when it is the one to remove.
Unlink(proc) ==
  /\ ready_queue_head' = next[proc]
  /\ ready_queue_tail' = IF next[proc] = NULL THEN NULL ELSE ready_queue_tail
  /\ next' = [next EXCEPT ![proc] = NULL]

schedule == /\ ready_queue_head # NULL
            /\ Unlink(ready_queue_head)
            /\ ready_queue' = Tail(ready_queue)

\* The search of scheduler_remove: from the head along next, up to the end of
\* the list or to the entry before proc.
Search(proc) ==
  LET walk[prev \in Proc] == IF next[prev] \in {NULL, proc} THEN prev ELSE walk[next[prev]]
  IN walk[ready_queue_head]

TailAfter_Kept(prev, proc) == ready_queue_tail
TailAfter(prev, proc) == IF ready_queue_tail = proc THEN prev ELSE ready_queue_tail

RemoveInner(proc) ==
  LET prev == Search(proc)
  IN IF next[prev] = proc
     THEN /\ next' = [next EXCEPT ![prev] = next[proc], ![proc] = NULL]
          /\ ready_queue_tail' = TailAfter(prev, proc)
          /\ UNCHANGED ready_queue_head
     ELSE UNCHANGED <<ready_queue_head, ready_queue_tail, next>>

\* The sequence s without its i-th element.
Without(s, i) == [k \in 1 .. Len(s) - 1 |-> IF k < i THEN s[k] ELSE s[k + 1]]

\* A process that is not in the queue is left alone.
scheduler_remove(proc) ==
  /\ ready_queue_head # NULL
  /\ IF proc = ready_queue_head THEN Unlink(proc) ELSE RemoveInner(proc)
  /\ \/ proc \notin Queued /\ UNCHANGED ready_queue
     \/ \E i \in DOMAIN ready_queue : /\ ready_queue[i] = proc
                                      /\ ready_queue' = Without(ready_queue, i)

QueueNext == \/ \E proc \in Proc : scheduler_add(proc)
             \/ \E proc \in Proc : scheduler_remove(proc)
             \/ schedule

QueueSpec == QueueInit /\ [][QueueNext]_queue_vars
-----------------------------------------------------------------------------
(* The pointers are the sequence: whatever scheduler_add, schedule and     *)
(* scheduler_remove do and in whatever order, head and tail are the ends   *)
(* of ready_queue, next leads from each process in it to the following     *)
(* one, and a process outside it has no stale link into it.                *)
Represents ==
  /\ \A i, j \in DOMAIN ready_queue : ready_queue[i] = ready_queue[j] => i = j
  /\ ready_queue = <<>> => ready_queue_head = NULL /\ ready_queue_tail = NULL
  /\ ready_queue # <<>> => /\ ready_queue_head = ready_queue[1]
                           /\ ready_queue_tail = ready_queue[Len(ready_queue)]
  /\ \A i \in 1 .. Len(ready_queue) - 1 : next[ready_queue[i]] = ready_queue[i + 1]
  /\ \A p \in Proc : p \notin Queued \/ p = ready_queue_tail => next[p] = NULL
=============================================================================
