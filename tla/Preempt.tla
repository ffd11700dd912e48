------------------------------ MODULE Preempt -------------------------------
(***************************************************************************)
(* src/process.c and src/timer.c with preemption enabled, one step per     *)
(* access to the shared variables: the timer interrupt may come between    *)
(* any two of them and call process_yield itself.  Module Process takes a  *)
(* call as one step, which is exact only while preemption is disabled.     *)
(*                                                                         *)
(* Nobody sleeps or exits here and there is memory for every process, so   *)
(* that wake_sleeping_processes finds nothing to do; every slice is one    *)
(* tick.                                                                   *)
(***************************************************************************)
EXTENDS Integers, Sequences, FiniteSets

CONSTANTS Proc,     \* the entries of process_table
          Idle,     \* &process_table[0]
          NULL

VARIABLES ready_queue_head, ready_queue_tail, next,
          state, current_process,
          esp,      \* whose kernel stack the saved stack pointer of a process points into
          stack,    \* whose kernel stack the CPU uses
          calls,    \* what is left to execute on each kernel stack, innermost first
          iflag     \* the CPU's interrupt flag

list == <<ready_queue_head, ready_queue_tail, next>>
vars == <<list, state, current_process, esp, stack, calls, iflag>>

\* A place in the code with its locals: the process at hand and another pointer.
At(place, proc, reg) == [place |-> place, proc |-> proc, reg |-> reg]
Entry == At("entry", NULL, NULL)         \* the process's own code
here == Head(calls[stack])
Continue(frames) == calls' = [calls EXCEPT ![stack] = frames \o Tail(@)]
Call(frames) == calls' = [calls EXCEPT ![stack] = frames \o @]

Init ==    \* after process_init, timer_enable_preemption and a first schedule()
  /\ ready_queue_head = NULL /\ ready_queue_tail = NULL
  /\ next = [p \in Proc |-> NULL]
  /\ state = [p \in Proc |-> IF p = Idle THEN "RUNNING" ELSE "UNUSED"]
  /\ current_process = Idle
  /\ esp = [p \in Proc |-> p]
  /\ stack = Idle
  /\ calls = [p \in Proc |-> <<Entry>>]
  /\ iflag = TRUE
-----------------------------------------------------------------------------
AddSteps(proc) == <<At("terminate", proc, NULL)>>

process_create ==
  /\ here = Entry
  /\ \E proc \in Proc : /\ state[proc] = "UNUSED"
                        /\ state' = [state EXCEPT ![proc] = "READY"]
                        /\ Call(AddSteps(proc))
  /\ UNCHANGED <<list, current_process, esp, stack, iflag>>

\* process_yield of a RUNNING process, followed by the frames of its caller.
process_yield(caller) ==
  /\ state[current_process] = "RUNNING"
  /\ state' = [state EXCEPT ![current_process] = "READY"]
  /\ Call(AddSteps(current_process) \o <<At("schedule", NULL, NULL)>> \o caller)
  /\ UNCHANGED <<list, current_process, esp, stack>>

Yield == here = Entry /\ process_yield(<<>>) /\ UNCHANGED iflag

\* Wherever the CPU is; if the process is not RUNNING only the tick is counted.
timer_callback == iflag /\ process_yield(<<At("iret", NULL, NULL)>>) /\ iflag' = FALSE

Iret == /\ here.place = "iret"
        /\ Continue(<<>>)
        /\ iflag' = TRUE
        /\ UNCHANGED <<list, state, current_process, esp, stack>>

\* scheduler_add: proc->next = NULL and the read of the tail, the link, the tail.
scheduler_add ==
  /\ \/ /\ here.place = "terminate"
        /\ next' = [next EXCEPT ![here.proc] = NULL]
        /\ Continue(<<At("link", here.proc, ready_queue_tail)>>)
        /\ UNCHANGED <<ready_queue_head, ready_queue_tail>>
     \/ /\ here.place = "link"
        /\ IF here.reg = NULL
           THEN ready_queue_head' = here.proc /\ UNCHANGED next
           ELSE next' = [next EXCEPT ![here.reg] = here.proc] /\ UNCHANGED ready_queue_head
        /\ Continue(<<At("tail", here.proc, NULL)>>)
        /\ UNCHANGED ready_queue_tail
     \/ /\ here.place = "tail"
        /\ ready_queue_tail' = here.proc
        /\ Continue(<<>>)
        /\ UNCHANGED <<ready_queue_head, next>>
  /\ UNCHANGED <<state, current_process, esp, stack, iflag>>

\* The process is not RUNNING, so that no interrupt reschedules meanwhile.
Dequeue ==
  /\ here.place = "schedule"
  /\ IF ready_queue_head = NULL
     THEN UNCHANGED list /\ Continue(<<At("choose", NULL, Idle)>>)
     ELSE /\ ready_queue_head' = next[ready_queue_head]
          /\ ready_queue_tail' = IF ready_queue_head' = NULL THEN NULL ELSE ready_queue_tail
          /\ next' = [next EXCEPT ![ready_queue_head] = NULL]
          /\ Continue(<<At("choose", NULL, ready_queue_head)>>)
  /\ UNCHANGED <<state, current_process, esp, stack, iflag>>

Choose ==
  /\ here.place = "choose"
  /\ current_process' = here.reg
  /\ state' = [state EXCEPT ![here.reg] = "RUNNING"]
  /\ Continue(IF here.reg = current_process THEN <<>>
              ELSE <<At("switch", current_process, here.reg)>>)
  /\ UNCHANGED <<list, esp, stack, iflag>>

context_switch ==
  /\ here.place = "switch"
  /\ esp' = [esp EXCEPT ![here.proc] = stack]
  /\ stack' = esp[here.reg]
  /\ Continue(<<>>)
  /\ UNCHANGED <<list, state, current_process, iflag>>

Next == \/ process_create \/ Yield
        \/ timer_callback \/ Iret
        \/ scheduler_add
        \/ Dequeue \/ Choose \/ context_switch

Spec == Init /\ [][Next]_vars
-----------------------------------------------------------------------------
\* The processes that are k links or fewer from the head of the list.
Within(k) ==
  LET reach[n \in 0..k] == IF n = 0 THEN {ready_queue_head}
                           ELSE reach[n - 1] \cup {next[p] : p \in reach[n - 1] \cap Proc}
  IN reach[k]
Linked == Within(Cardinality(Proc))

\* The processes that code in progress holds a pointer to.
InHand == {p \in Proc : \/ p = current_process
                        \/ \E s \in Proc : \E i \in DOMAIN calls[s] :
                             p \in {calls[s][i].proc, calls[s][i].reg}}

(* process.c, process_create: "Add to ready queue", and switch.asm,        *)
(* context_switch: "Save previous context".  A process that is READY and   *)
(* that no call has in hand is linked into the ready queue, and its saved  *)
(* stack pointer points into its own kernel stack; what is not in the      *)
(* queue never runs again.                                                 *)
ReadyCanRun ==
  \A p \in Proc : state[p] = "READY" /\ p \notin InHand => p \in Linked /\ esp[p] = p
=============================================================================
