------------------------------- MODULE Process -------------------------------
(***************************************************************************)
(* src/process.c and src/timer.c: the process table, the round-robin       *)
(* scheduler, sleeping, the timer interrupt and its time slices, and what  *)
(* context_switch (src/switch.asm) does to the interrupt flag.             *)
(*                                                                         *)
(* One action per call that the running process may make, and one for the  *)
(* timer interrupt.  The interrupt arrives between two calls, and between  *)
(* the two reads of the tick counter that process_sleep makes.  That is    *)
(* every interleaving there is while preemption is disabled, the state the *)
(* kernel boots into: the interrupt then only counts ticks.                *)
(*                                                                         *)
(* The ready queue is the sequence of the slots linked through             *)
(* process.next; module ReadyQueue has the pointers.                       *)
(***************************************************************************)
EXTENDS Integers, Sequences, FiniteSets

CONSTANTS MAX_PROCESSES,
          TIME_SLICE,     \* time_slice, in ticks
          STACKS,         \* how many kernel stacks fit in the heap
          PD_FRAMES,      \* how many frames there are for page directories
          SleepMs,        \* arguments of process_sleep
          UINT32,         \* the range of a uint32_t: 2^32 on the machine
          PREEMPT,        \* may anyone call timer_enable_preemption?
          MAX_TICKS       \* bound: time saturates here

ASSUME ProcessAssumption ==
  /\ MAX_PROCESSES \in Nat \ {0}
  /\ TIME_SLICE \in Nat \ {0}
  /\ STACKS \in Nat \ {0}
  /\ PD_FRAMES \in Nat \ {0}
  /\ SleepMs \subseteq Nat
  /\ UINT32 \in Nat \ {0}
  /\ PREEMPT \in BOOLEAN
  /\ MAX_TICKS \in Nat

VARIABLES state, sleep_until, kernel_stack, page_directory,   \* process_table
          current_process, ready_queue,
          now,                 \* timer interrupts since boot
          preemption_enabled, slice_remaining,
          iflag,               \* the CPU's interrupt flag
          in_irq,              \* processes switched away from inside the timer interrupt
          current_pd,          \* the page directory the CPU uses
          free_stacks,         \* blocks the heap can give out as kernel stacks
          frames,              \* frames used for page directories so far
          deadline             \* when a sleeper asked to be woken, in real time

table == <<state, sleep_until, kernel_stack, page_directory>>
cpu   == <<current_process, iflag, in_irq, current_pd>>
timer == <<now, preemption_enabled, slice_remaining>>
memory == <<free_stacks, frames>>
vars == <<table, cpu, timer, memory, ready_queue, deadline>>

Slot == 0 .. MAX_PROCESSES - 1
Idle == 0                      \* &process_table[0]
States == {"UNUSED", "READY", "RUNNING", "SLEEPING", "TERMINATED"}
NULL == 0                      \* no kernel stack, no page directory
KernelPd == 1
ticks == now % UINT32

Init ==    \* process_init and scheduler_init
  /\ state = [p \in Slot |-> IF p = Idle THEN "READY" ELSE "UNUSED"]
  /\ sleep_until = [p \in Slot |-> 0]
  /\ kernel_stack = [p \in Slot |-> IF p = Idle THEN 1 ELSE NULL]
  /\ page_directory = [p \in Slot |-> IF p = Idle THEN KernelPd ELSE NULL]
  /\ current_process = Idle
  /\ ready_queue = <<>>
  /\ now = 0
  /\ preemption_enabled = FALSE
  /\ slice_remaining = 0
  /\ iflag = TRUE
  /\ in_irq = {}
  /\ current_pd = KernelPd
  /\ free_stacks = 2..STACKS
  /\ frames = KernelPd
  /\ deadline = [p \in Slot |-> 0]
-----------------------------------------------------------------------------
(* The scheduler *)

scheduler_add_Front(q, p) == <<p>> \o q
scheduler_add(q, p) == Append(q, p)

Due(p, st, until, t) == st[p] = "SLEEPING" /\ t >= until[p]

\* The sequences that list the set S once, in slot order (there is one).
InSlotOrder(S) == {s \in [1..Cardinality(S) -> S] :
                     /\ \A p \in S : \E i \in DOMAIN s : s[i] = p
                     /\ \A i, j \in DOMAIN s : i < j => s[i] < s[j]}

\* What context_switch leaves in the interrupt flag: it saves and restores no
\* EFLAGS, so only a process that was switched away from inside the interrupt
\* gets the flag back, from the iret at the end of that interrupt.
ResumedFlag(next, irq) == next \in in_irq \/ (iflag /\ ~irq)

\* The page directory that paging_switch loads, if it is called at all.
Loaded_Stale(next) == IF page_directory[current_process] = KernelPd
                      THEN current_pd ELSE page_directory[next]
Loaded(next) == IF page_directory[current_process] = page_directory[next]
                THEN current_pd ELSE page_directory[next]

context_switch(next, irq) ==
  /\ current_process' = next
  /\ iflag' = ResumedFlag(next, irq)
  /\ in_irq' = (in_irq \ {next}) \cup (IF irq THEN {current_process} ELSE {})
  /\ current_pd' = Loaded(next)

Rest_Keep(queue) == queue
Rest(queue) == IF queue = <<>> THEN <<>> ELSE Tail(queue)

\* schedule(), entered with process states st, wake-up times until, ready queue
\* q and tick count t; irq says whether it runs inside the timer interrupt.
schedule(st, until, q, t, irq) ==
  LET woken == {p \in Slot : Due(p, st, until, t)}
  IN \E w \in InSlotOrder(woken) :
       LET queue == q \o w
           next  == IF queue = <<>> THEN Idle ELSE Head(queue)
       IN /\ ready_queue' = Rest(queue)
          /\ state' = [p \in Slot |-> IF p = next THEN "RUNNING"
                                      ELSE IF p \in woken THEN "READY" ELSE st[p]]
          /\ IF next = current_process
             THEN UNCHANGED cpu
             ELSE context_switch(next, irq)

process_yield_Lost(irq, t) ==
  IF state[current_process] = "RUNNING"
  THEN schedule([state EXCEPT ![current_process] = "READY"], sleep_until, ready_queue, t, irq)
  ELSE schedule(state, sleep_until, ready_queue, t, irq)
process_yield(irq, t) ==
  IF state[current_process] = "RUNNING"
  THEN schedule([state EXCEPT ![current_process] = "READY"], sleep_until,
                scheduler_add(ready_queue, current_process), t, irq)
  ELSE schedule(state, sleep_until, ready_queue, t, irq)
-----------------------------------------------------------------------------
(* The timer interrupt *)

Expired == preemption_enabled /\ slice_remaining <= 1

\* The part of timer_callback that does not reschedule.
CountTick_NoReload ==
  /\ now' = IF now < MAX_TICKS THEN now + 1 ELSE now
  /\ slice_remaining' = IF preemption_enabled THEN slice_remaining - 1 ELSE slice_remaining
CountTick ==
  /\ now' = IF now < MAX_TICKS THEN now + 1 ELSE now
  /\ slice_remaining' = IF ~preemption_enabled THEN slice_remaining
                        ELSE IF Expired THEN TIME_SLICE
                        ELSE slice_remaining - 1

Preempts == Expired /\ state[current_process] = "RUNNING"

timer_callback ==
  /\ iflag
  /\ CountTick
  /\ IF Preempts
     THEN process_yield(TRUE, now' % UINT32)
     ELSE UNCHANGED <<state, cpu, ready_queue>>
  /\ UNCHANGED <<sleep_until, kernel_stack, page_directory, preemption_enabled,
                 memory, deadline>>

timer_enable_preemption ==
  /\ PREEMPT /\ ~preemption_enabled
  /\ slice_remaining' = TIME_SLICE
  /\ preemption_enabled' = TRUE
  /\ UNCHANGED <<table, cpu, now, memory, ready_queue, deadline>>

timer_disable_preemption ==
  /\ preemption_enabled
  /\ preemption_enabled' = FALSE
  /\ UNCHANGED <<table, cpu, now, slice_remaining, memory, ready_queue, deadline>>
-----------------------------------------------------------------------------
(* Calls of the running process *)

FreeSlots_Terminated == {p \in Slot \ {Idle} : state[p] \in {"UNUSED", "TERMINATED"}}
FreeSlots == {p \in Slot \ {Idle} : state[p] = "UNUSED"}
find_free_slot(p) == p \in FreeSlots /\ \A q \in FreeSlots : p <= q

\* kfree of a kernel stack; the pointer of a process that has none lies outside
\* the heap and kfree ignores it.
kfree(stack) == free_stacks' = free_stacks \cup ({stack} \ {NULL})

\* paging_clone_pd finds no frame: nothing has been allocated yet.
CreateFailsClone_Caller(p) ==
  /\ frames = PD_FRAMES
  /\ page_directory' = [page_directory EXCEPT ![p] = NULL]
  /\ kfree(kernel_stack[current_process])
  /\ UNCHANGED <<state, kernel_stack, ready_queue, frames>>
CreateFailsClone(p) ==
  /\ frames = PD_FRAMES
  /\ page_directory' = [page_directory EXCEPT ![p] = NULL]
  /\ kfree(kernel_stack[p])
  /\ UNCHANGED <<state, kernel_stack, ready_queue, frames>>

\* kmalloc finds no stack: the page directory stays allocated.
CreateFailsStack(p) ==
  /\ frames < PD_FRAMES /\ free_stacks = {}
  /\ frames' = frames + 1
  /\ page_directory' = [page_directory EXCEPT ![p] = frames + 1]
  /\ kernel_stack' = [kernel_stack EXCEPT ![p] = NULL]
  /\ UNCHANGED <<state, ready_queue, free_stacks>>

CreateSucceeds(p) ==
  /\ frames < PD_FRAMES /\ free_stacks # {}
  /\ frames' = frames + 1
  /\ page_directory' = [page_directory EXCEPT ![p] = frames + 1]
  /\ \E stack \in free_stacks :
       /\ \A other \in free_stacks : stack <= other
       /\ free_stacks' = free_stacks \ {stack}
       /\ kernel_stack' = [kernel_stack EXCEPT ![p] = stack]
  /\ state' = [state EXCEPT ![p] = "READY"]
  /\ ready_queue' = scheduler_add(ready_queue, p)

process_create ==
  /\ \E p \in Slot :
       /\ find_free_slot(p)
       /\ sleep_until' = [sleep_until EXCEPT ![p] = 0]
       /\ CreateFailsClone(p) \/ CreateFailsStack(p) \/ CreateSucceeds(p)
  /\ UNCHANGED <<cpu, timer, deadline>>

process_exit ==
  /\ current_process # Idle
  /\ kfree(kernel_stack[current_process])
  /\ schedule([state EXCEPT ![current_process] = "TERMINATED"], sleep_until,
              ready_queue, ticks, FALSE)
  /\ UNCHANGED <<sleep_until, kernel_stack, page_directory, timer, frames, deadline>>

Yield == /\ process_yield(FALSE, ticks)
         /\ UNCHANGED <<sleep_until, kernel_stack, page_directory, timer, memory, deadline>>

AtLeast1(n) == IF n = 0 THEN 1 ELSE n
SleepTicks_MayBe0(ms) == ((ms * 100) % UINT32) \div 1000
SleepTicks(ms) == AtLeast1(((ms * 100) % UINT32) \div 1000)

\* A timer interrupt between the two reads of the tick counter does not
\* reschedule: by then the process is SLEEPING.
process_sleep(ms) ==
  /\ now + AtLeast1(ms \div 10) <= MAX_TICKS
  /\ sleep_until' = [sleep_until EXCEPT ![current_process] = (ticks + SleepTicks(ms)) % UINT32]
  /\ deadline' = [deadline EXCEPT ![current_process] = now + AtLeast1(ms \div 10)]
  /\ \/ UNCHANGED <<now, slice_remaining>>
     \/ iflag /\ CountTick
  /\ schedule([state EXCEPT ![current_process] = "SLEEPING"], sleep_until',
              ready_queue, now' % UINT32, FALSE)
  /\ UNCHANGED <<kernel_stack, page_directory, preemption_enabled, memory>>
-----------------------------------------------------------------------------
Next == \/ timer_callback
        \/ timer_enable_preemption
        \/ timer_disable_preemption
        \/ process_create
        \/ process_exit
        \/ Yield
        \/ \E ms \in SleepMs : process_sleep(ms)

Spec == Init /\ [][Next]_vars

(* The timer keeps interrupting as long as the CPU lets it. *)
TimerSpec == Spec /\ WF_vars(timer_callback)

(* In addition, a process that runs gives up the CPU sooner or later.  The *)
(* idle process need not: idle_process, and the loop at the end of         *)
(* kernel_main that runs in its slot, only halt.                           *)
CooperativeSpec == TimerSpec /\ WF_vars(current_process # Idle /\ Yield)
-----------------------------------------------------------------------------
(* Safety *)

Live == {p \in Slot : state[p] \in {"READY", "RUNNING", "SLEEPING"}}
Queued == {ready_queue[i] : i \in DOMAIN ready_queue}

TypeOK ==
  /\ state \in [Slot -> States]
  /\ sleep_until \in [Slot -> Nat]
  /\ kernel_stack \in [Slot -> NULL..STACKS]
  /\ page_directory \in [Slot -> NULL..PD_FRAMES]
  /\ current_process \in Slot
  /\ ready_queue \in Seq(Slot)
  /\ now \in 0..MAX_TICKS
  /\ preemption_enabled \in BOOLEAN
  /\ slice_remaining \in 0..TIME_SLICE
  /\ iflag \in BOOLEAN
  /\ in_irq \subseteq Slot
  /\ current_pd \in KernelPd..PD_FRAMES
  /\ free_stacks \subseteq 1..STACKS
  /\ frames \in KernelPd..PD_FRAMES
  /\ deadline \in [Slot -> Nat]

(* No process is lost or queued twice: the ready queue holds every READY   *)
(* process exactly once, and no other; only the idle process may be READY  *)
(* outside the queue, as the fallback of schedule().                       *)
ReadyIffQueued ==
  /\ \A i, j \in DOMAIN ready_queue : ready_queue[i] = ready_queue[j] => i = j
  /\ \A p \in Queued : state[p] = "READY"
  /\ \A p \in Slot \ {Idle} : state[p] = "READY" => p \in Queued

(* One process runs, and it is current_process, never one that sleeps, has *)
(* exited or waits in the ready queue.  Before its first schedule() the    *)
(* idle process runs marked READY, as process_init leaves it.              *)
CurrentRuns ==
  /\ \A p \in Slot : state[p] = "RUNNING" => p = current_process
  /\ state[current_process] # "RUNNING" => /\ current_process = Idle
                                            /\ state[Idle] = "READY"
  /\ current_process \notin Queued

(* Every process that can run again owns its kernel stack alone, although  *)
(* process_exit frees a stack that is still in use and a failed            *)
(* process_create frees whatever kernel_stack it finds in the slot.        *)
StacksExclusive ==
  \A p \in Live : /\ kernel_stack[p] # NULL
                  /\ kernel_stack[p] \notin free_stacks
                  /\ \A q \in Live : kernel_stack[p] = kernel_stack[q] => p = q

(* The CPU uses the page directory of the process that runs, although      *)
(* schedule() loads it only when it seems to differ.                       *)
RunsInOwnAddressSpace == current_pd = page_directory[current_process]

(* No process that called process_sleep is READY or runs again before the  *)
(* time it asked for; except the idle process, which schedule() runs for   *)
(* want of another.                                                        *)
SleepsLongEnough ==
  \A p \in Slot \ {Idle} : state[p] \in {"READY", "RUNNING"} => now >= deadline[p]

(* A process that has exited never runs again and its slot is never reused, *)
(* so the parent pointers and exit codes of the table stay valid.          *)
ExitIsFinal ==
  [][\A p \in Slot : state[p] = "TERMINATED" => state'[p] = "TERMINATED"]_vars

(* As long as processes yield, every READY process runs in the end and     *)
(* every sleeper runs again, although sleepers are woken only inside       *)
(* schedule(); preemption, and processes that it leaves with interrupts    *)
(* disabled, do not prevent it.  One thing does: once the idle process     *)
(* runs it halts, and only preemption takes the CPU from it.  So the       *)
(* property excepts the behaviours in which the idle process keeps the CPU *)
(* and is not left preemptible; there a lone sleeper never wakes up.       *)
Preemptible == preemption_enabled /\ iflag /\ state[Idle] = "RUNNING"
IdleHalts == <>[](current_process = Idle) /\ []<>(~Preemptible)
EveryoneRuns ==
  \/ IdleHalts
  \/ \A p \in Slot \ {Idle} : (state[p] \in {"READY", "SLEEPING"}) ~> (state[p] = "RUNNING")
=============================================================================
