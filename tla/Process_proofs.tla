--------------------------- MODULE Process_proofs ---------------------------
(***************************************************************************)
(* Proofs about module Process, for any number of processes, stacks and    *)
(* frames and any time slice, with preemption allowed or not.              *)
(***************************************************************************)
EXTENDS Process, FiniteSetTheorems, TLAPS

(* What ReadyIffQueued, CurrentRuns and StacksExclusive need besides each  *)
(* other: the idle process never ends, a slot that was never used has no   *)
(* stack that a failed process_create could free, and whoever can run has  *)
(* a page directory.                                                       *)
Support ==
  /\ state[Idle] \in {"READY", "RUNNING", "SLEEPING"}
  /\ \A p \in Slot : state[p] = "UNUSED" => kernel_stack[p] = NULL
  /\ \A p \in Live : page_directory[p] # NULL

IInv == /\ TypeOK
        /\ ReadyIffQueued
        /\ CurrentRuns
        /\ StacksExclusive
        /\ RunsInOwnAddressSpace
        /\ Support

USE DEF Idle, NULL, KernelPd

LEMMA IdleIsSlot == Idle \in Slot
  BY ProcessAssumption DEF Slot

LEMMA InitInv == Init => IInv
<1> SUFFICES ASSUME Init PROVE IInv
  BY Zenon
<1> USE ProcessAssumption, IdleIsSlot
<1>1. TypeOK
  BY DEF Init, TypeOK, States, Slot
<1>2. ReadyIffQueued
  BY DEF Init, ReadyIffQueued, Queued
<1>3. CurrentRuns
  BY DEF Init, CurrentRuns, Queued
<1>4. StacksExclusive
  BY DEF Init, StacksExclusive, Live
<1>5. RunsInOwnAddressSpace
  BY Zenon DEF Init, RunsInOwnAddressSpace
<1>6. Support
  BY DEF Init, Support, Live
<1> QED
  BY Zenon, <1>1, <1>2, <1>3, <1>4, <1>5, <1>6 DEF IInv
-----------------------------------------------------------------------------
(* A queue that lists, once each, the processes marked READY in st; only   *)
(* the idle process may be READY and not in it.                            *)
Lists(q, st) ==
  /\ q \in Seq(Slot)
  /\ \A i, j \in DOMAIN q : q[i] = q[j] => i = j
  /\ \A i \in DOMAIN q : st[q[i]] = "READY"
  /\ \A p \in Slot \ {Idle} : st[p] = "READY" => \E i \in DOMAIN q : q[i] = p

Woken(st, until, t) == {p \in Slot : Due(p, st, until, t)}

Wake(st, W) == [p \in Slot |-> IF p \in W THEN "READY" ELSE st[p]]

(* wake_sleeping_processes appends each process it wakes once.             *)
LEMMA WakeLists ==
  ASSUME NEW st \in [Slot -> States], NEW q, Lists(q, st),
         NEW W \in SUBSET Slot, \A p \in W : st[p] = "SLEEPING",
         NEW w \in InSlotOrder(W)
  PROVE  Lists(q \o w, Wake(st, W))
<1> DEFINE n == Cardinality(W)
           queue == q \o w
<1>1. n \in Nat
  <2>1. IsFiniteSet(Slot)
    BY ProcessAssumption, FS_Interval DEF Slot
  <2> QED
    BY Zenon, <2>1, FS_Subset, FS_CardinalityType
<1>2. /\ w \in [1..n -> W]
      /\ \A p \in W : \E i \in 1..n : w[i] = p
      /\ \A i, j \in 1..n : i < j => w[i] < w[j]
  BY Zenon DEF InSlotOrder
<1>3. /\ w \in Seq(Slot) /\ Len(w) = n
      /\ q \in Seq(Slot) /\ Len(q) \in Nat /\ DOMAIN q = 1..Len(q)
  BY <1>1, <1>2 DEF Lists
<1>4. /\ queue \in Seq(Slot) /\ Len(queue) = Len(q) + n
      /\ DOMAIN queue = 1 .. Len(q) + n
      /\ \A i \in 1 .. Len(q) : queue[i] = q[i]
      /\ \A i \in 1 .. n : queue[Len(q) + i] = w[i]
  BY <1>1, <1>3
<1>5. \A i \in DOMAIN queue : \/ i \in 1 .. Len(q)
                              \/ i - Len(q) \in 1 .. n /\ queue[i] = w[i - Len(q)]
  BY <1>1, <1>3, <1>4
<1>6. \A i \in 1 .. Len(q) : queue[i] \in Slot /\ st[queue[i]] = "READY"
  BY <1>3, <1>4 DEF Lists
<1>7. \A i \in DOMAIN queue : i - Len(q) \in 1 .. n => queue[i] \in W
  BY <1>1, <1>2, <1>3, <1>4, <1>5
<1>8. ASSUME NEW i \in DOMAIN queue, NEW j \in DOMAIN queue, queue[i] = queue[j]
      PROVE  i = j
  <2>1. CASE i \in 1 .. Len(q) /\ j \in 1 .. Len(q)
    BY <1>8, <2>1, <1>3, <1>4 DEF Lists
  <2>2. CASE i - Len(q) \in 1 .. n /\ j - Len(q) \in 1 .. n
    <3> DEFINE k == i - Len(q)
               l == j - Len(q)
    <3>1. w[k] = w[l]
      BY <1>8, <2>2, <1>1, <1>3, <1>4
    <3>2. w[k] \in Int /\ w[l] \in Int
      <4>1. w[k] \in Slot /\ w[l] \in Slot
        BY Zenon, <2>2, <1>2
      <4> QED
        BY <4>1, ProcessAssumption DEF Slot
    <3>3. ~ (k < l) /\ ~ (l < k)
      BY <3>1, <3>2, <2>2, <1>2
    <3> QED
      BY <3>3, <2>2, <1>1, <1>3, <1>4
  <2>3. CASE \/ i \in 1 .. Len(q) /\ j - Len(q) \in 1 .. n
             \/ j \in 1 .. Len(q) /\ i - Len(q) \in 1 .. n
    BY Zenon, <1>8, <2>3, <1>6, <1>7
  <2> QED
    BY Zenon, <1>5, <2>1, <2>2, <2>3
<1>9. \A i \in DOMAIN queue : Wake(st, W)[queue[i]] = "READY"
  BY Zenon, <1>4, <1>5, <1>6, <1>7 DEF Wake
<1>10. ASSUME NEW p \in Slot \ {Idle}, Wake(st, W)[p] = "READY"
       PROVE  \E i \in DOMAIN queue : queue[i] = p
  <2>1. CASE p \in W
    <3>1. PICK i \in 1 .. n : w[i] = p
      BY Zenon, <2>1, <1>2
    <3>2. Len(q) + i \in DOMAIN queue /\ queue[Len(q) + i] = p
      BY <3>1, <1>1, <1>3, <1>4
    <3> QED
      BY Zenon, <3>2
  <2>2. CASE p \notin W
    <3>1. PICK i \in DOMAIN q : q[i] = p
      BY Zenon, <1>10, <2>2 DEF Wake, Lists
    <3> QED
      BY <3>1, <1>1, <1>3, <1>4
  <2> QED
    BY Zenon, <2>1, <2>2
<1> QED
  BY Zenon, <1>4, <1>8, <1>9, <1>10 DEF Lists

(* schedule(), called by whoever no longer counts as RUNNING.              *)
LEMMA ScheduleStep ==
  ASSUME NEW st \in [Slot -> States], NEW until, NEW q, NEW t, NEW irq \in BOOLEAN,
         TypeOK, RunsInOwnAddressSpace,
         Lists(q, st),
         \A p \in Slot : st[p] # "RUNNING",
         st[Idle] \in {"READY", "SLEEPING"},
         schedule(st, until, q, t, irq)
  PROVE  /\ state' \in [Slot -> States]
         /\ \A p \in Slot : \/ state'[p] = st[p]
                            \/ /\ st[p] \in {"READY", "SLEEPING"}
                               /\ state'[p] \in {"READY", "RUNNING"}
         /\ current_process' \in Slot /\ state'[current_process'] = "RUNNING"
         /\ ready_queue' \in Seq(Slot)
         /\ ReadyIffQueued'
         /\ CurrentRuns'
         /\ iflag' \in BOOLEAN /\ in_irq' \subseteq Slot
         /\ current_pd' = page_directory[current_process']
<1> DEFINE W == Woken(st, until, t)
<1>1. PICK w \in InSlotOrder(W) :
        LET queue == q \o w
            next  == IF queue = <<>> THEN Idle ELSE Head(queue)
        IN /\ ready_queue' = Rest(queue)
           /\ state' = [p \in Slot |-> IF p = next THEN "RUNNING"
                                       ELSE IF p \in W THEN "READY" ELSE st[p]]
           /\ IF next = current_process
              THEN UNCHANGED cpu
              ELSE context_switch(next, irq)
  BY Zenon DEF schedule, Woken
<1> DEFINE queue == q \o w
           next  == IF queue = <<>> THEN Idle ELSE Head(queue)
           woken == Wake(st, W)
<1>2. W \subseteq Slot /\ \A p \in W : st[p] = "SLEEPING"
  BY Zenon DEF Woken, Due
<1>3. Lists(queue, woken)
  BY Zenon, <1>2, WakeLists
<1>4. /\ woken \in [Slot -> States]
      /\ \A p \in Slot : woken[p] # "RUNNING"
      /\ \A p \in Slot : woken[p] = st[p] \/ (st[p] = "SLEEPING" /\ woken[p] = "READY")
  BY Zenon, <1>2 DEF Wake, States
<1>5. /\ queue \in Seq(Slot) /\ DOMAIN queue = 1 .. Len(queue) /\ Len(queue) \in Nat
      /\ queue # <<>> => Len(queue) > 0 /\ Head(queue) = queue[1]
  BY <1>3 DEF Lists
<1>6. next \in Slot /\ woken[next] \in {"READY", "SLEEPING"}
  <2>1. CASE queue = <<>>
    BY Zenon, <2>1, <1>4, IdleIsSlot
  <2>2. CASE queue # <<>>
    BY <2>2, <1>3, <1>5 DEF Lists
  <2> QED
    BY Zenon, <2>1, <2>2
<1>7. state' = [p \in Slot |-> IF p = next THEN "RUNNING" ELSE woken[p]]
  BY Zenon, <1>1 DEF Wake
<1>8. /\ ready_queue' \in Seq(Slot)
      /\ DOMAIN ready_queue' = 1 .. Len(queue) - 1
      /\ \A i \in DOMAIN ready_queue' : i + 1 \in DOMAIN queue /\ ready_queue'[i] = queue[i + 1]
  <2>1. CASE queue = <<>>
    BY <2>1, <1>1, <1>5 DEF Rest
  <2>2. CASE queue # <<>>
    <3>1. ready_queue' = Tail(queue)
      BY Zenon, <2>2, <1>1 DEF Rest
    <3> QED
      BY <3>1, <2>2, <1>5
  <2> QED
    BY Zenon, <2>1, <2>2
<1>9. current_process' = next /\ current_pd' = page_directory[next]
      /\ iflag' \in BOOLEAN /\ in_irq' \subseteq Slot
  <2>1. CASE next = current_process
    BY Zenon, <2>1, <1>1 DEF cpu, TypeOK, RunsInOwnAddressSpace
  <2>2. CASE next # current_process
    BY <2>2, <1>1, <1>6, Zenon
       DEF context_switch, ResumedFlag, Loaded, TypeOK, RunsInOwnAddressSpace
  <2> QED
    BY Zenon, <2>1, <2>2
<1>10. \A i \in DOMAIN ready_queue' : ready_queue'[i] \in Slot /\ ready_queue'[i] # next
  <2> SUFFICES ASSUME NEW i \in DOMAIN ready_queue'
               PROVE  ready_queue'[i] \in Slot /\ ready_queue'[i] # next
    BY Zenon
  <2>1. i \in Nat /\ i + 1 # 1 /\ queue # <<>> /\ 1 \in DOMAIN queue
    BY <1>5, <1>8
  <2>2. queue[i + 1] # queue[1]
    BY <2>1, <1>3, <1>8, SMTT(20) DEF Lists
  <2> QED
    BY <2>1, <2>2, <1>5, <1>8
<1>11. ReadyIffQueued'
  <2>1. \A i, j \in DOMAIN ready_queue' : ready_queue'[i] = ready_queue'[j] => i = j
    <3> SUFFICES ASSUME NEW i \in DOMAIN ready_queue', NEW j \in DOMAIN ready_queue',
                        ready_queue'[i] = ready_queue'[j]
                 PROVE  i = j
      BY Zenon
    <3>1. /\ i + 1 \in DOMAIN queue /\ j + 1 \in DOMAIN queue
          /\ queue[i + 1] = queue[j + 1]
      BY <1>8, SMTT(20)
    <3>2. i + 1 = j + 1
      BY <3>1, <1>3 DEF Lists
    <3> QED
      BY <3>2, <1>5, <1>8
  <2>2. \A i \in DOMAIN ready_queue' : state'[ready_queue'[i]] = "READY"
    BY <1>3, <1>7, <1>8, <1>10, SMTT(20) DEF Lists
  <2>3. ASSUME NEW p \in Slot \ {Idle}, state'[p] = "READY"
        PROVE  \E i \in DOMAIN ready_queue' : ready_queue'[i] = p
    <3>1. p # next /\ woken[p] = "READY"
      BY Zenon, <2>3, <1>7
    <3>2. PICK i \in DOMAIN queue : queue[i] = p
      BY Zenon, <3>1, <1>3 DEF Lists
    <3>3. i # 1
      BY <3>1, <3>2, <1>5
    <3>4. i - 1 \in DOMAIN ready_queue' /\ ready_queue'[i - 1] = p
      BY <3>2, <3>3, <1>5, <1>8
    <3> QED
      BY Zenon, <3>4
  <2> QED
    BY <2>1, <2>2, <2>3 DEF ReadyIffQueued, Queued
<1>12. CurrentRuns'
  <2>1. \A p \in Slot : state'[p] = "RUNNING" => p = current_process'
    BY Zenon, <1>4, <1>7, <1>9
  <2>2. state'[current_process'] = "RUNNING"
    BY Zenon, <1>6, <1>7, <1>9
  <2>3. current_process' \notin Queued'
    BY Zenon, <1>9, <1>10 DEF Queued
  <2> QED
    BY Zenon, <2>1, <2>2, <2>3 DEF CurrentRuns
<1>13. /\ state' \in [Slot -> States]
       /\ \A p \in Slot : \/ state'[p] = st[p]
                          \/ /\ st[p] \in {"READY", "SLEEPING"}
                             /\ state'[p] \in {"READY", "RUNNING"}
  <2>1. st[next] \in {"READY", "SLEEPING"}
    BY Zenon, <1>4, <1>6
  <2> QED
    BY Zenon, <2>1, <1>4, <1>6, <1>7 DEF States
<1> QED
  BY Zenon, <1>6, <1>7, <1>8, <1>9, <1>11, <1>12, <1>13
-----------------------------------------------------------------------------
(* What no step may do besides breaking the invariant: revive a process.   *)
ExitStays == \A p \in Slot : state[p] = "TERMINATED" => state'[p] = "TERMINATED"

(* What a call that ends in schedule() has to establish before it: the     *)
(* process states st and the queue q with which it enters schedule().      *)
LEMMA RescheduleStep ==
  ASSUME IInv,
         NEW st \in [Slot -> States], NEW until, NEW q, NEW t, NEW irq \in BOOLEAN,
         Lists(q, st),
         \A p \in Slot : st[p] # "RUNNING",
         st[Idle] \in {"READY", "SLEEPING"},
         \A p \in Slot : \/ st[p] = state[p]
                         \/ p = current_process /\ st[p] \in {"READY", "SLEEPING"}
                         \/ p = current_process /\ st[p] = "TERMINATED",
         schedule(st, until, q, t, irq),
         kernel_stack' = kernel_stack, page_directory' = page_directory,
         frames' = frames,
         \/ free_stacks' = free_stacks
         \/ /\ st[current_process] = "TERMINATED"
            /\ free_stacks' = free_stacks \cup ({kernel_stack[current_process]} \ {NULL}),
         sleep_until' \in [Slot -> Nat], deadline' \in [Slot -> Nat],
         now' \in 0..MAX_TICKS, slice_remaining' \in 0..TIME_SLICE,
         preemption_enabled' \in BOOLEAN
  PROVE  IInv' /\ ExitStays
<1>1. /\ state' \in [Slot -> States]
      /\ \A p \in Slot : \/ state'[p] = st[p]
                         \/ /\ st[p] \in {"READY", "SLEEPING"}
                            /\ state'[p] \in {"READY", "RUNNING"}
      /\ current_process' \in Slot /\ state'[current_process'] = "RUNNING"
      /\ ready_queue' \in Seq(Slot)
      /\ ReadyIffQueued'
      /\ CurrentRuns'
      /\ iflag' \in BOOLEAN /\ in_irq' \subseteq Slot
      /\ current_pd' = page_directory[current_process']
  <2>1. TypeOK /\ RunsInOwnAddressSpace
    BY Zenon DEF IInv
  <2> QED
    BY <2>1, ScheduleStep, SMTT(20)
<1>2. state[current_process] \in {"READY", "RUNNING"} /\ current_process \in Live
  BY Zenon DEF IInv, CurrentRuns, TypeOK, Live
<1>3. /\ \A p \in Slot : p \in Live' => p \in Live
      /\ st[current_process] = "TERMINATED" => current_process \notin Live'
  BY <1>1, <1>2, Zenon DEF Live, IInv, TypeOK
<1>4. Support'
  <2>1. state'[Idle] \in {"READY", "RUNNING", "SLEEPING"}
    BY Zenon, <1>1, IdleIsSlot
  <2>2. \A p \in Slot : state'[p] = "UNUSED" => state[p] = "UNUSED"
    BY <1>1, Zenon
  <2>3. \A p \in Live' : page_directory'[p] # NULL
    BY Zenon, <1>3 DEF IInv, Support, Live
  <2> QED
    BY Zenon, <2>1, <2>2, <2>3 DEF Support, IInv
<1>5. current_process' \in Live'
  BY Zenon, <1>1 DEF Live
<1>6. current_pd' \in KernelPd..PD_FRAMES
  <2>1. page_directory[current_process'] # NULL
    BY Zenon, <1>3, <1>5, <1>1 DEF IInv, Support
  <2> QED
    BY <2>1, <1>1 DEF IInv, TypeOK
<1>7. free_stacks' \subseteq 1..STACKS
  <2>1. {kernel_stack[current_process]} \ {NULL} \subseteq 1..STACKS
    BY ProcessAssumption DEF IInv, TypeOK
  <2> QED
    BY <2>1, Zenon DEF IInv, TypeOK
<1>8. TypeOK'
  BY <1>1, <1>6, <1>7, Zenon DEF IInv, TypeOK
<1>9. StacksExclusive'
  BY Zenon, <1>3, <1>2 DEF IInv, StacksExclusive, Live
<1>10. RunsInOwnAddressSpace'
  BY Zenon, <1>1 DEF RunsInOwnAddressSpace
<1>11. ExitStays
  BY <1>1, <1>2, Zenon DEF ExitStays
<1> QED
  BY Zenon, <1>1, <1>4, <1>8, <1>9, <1>10, <1>11 DEF IInv
-----------------------------------------------------------------------------
(* A process that yields goes to the end of the queue.                     *)
LEMMA YieldLists ==
  ASSUME IInv, Lists(ready_queue, state), current_process \in Slot,
         state \in [Slot -> States]
  PROVE  Lists(Append(ready_queue, current_process),
               [state EXCEPT ![current_process] = "READY"])
<1> DEFINE st == [state EXCEPT ![current_process] = "READY"]
           q  == Append(ready_queue, current_process)
<1>1. \A i \in DOMAIN ready_queue : ready_queue[i] # current_process
  BY Zenon DEF IInv, CurrentRuns, Queued
<1>2. /\ q \in Seq(Slot) /\ Len(q) = Len(ready_queue) + 1
      /\ DOMAIN q = 1..Len(q) /\ DOMAIN ready_queue = 1..Len(ready_queue)
      /\ Len(ready_queue) \in Nat
      /\ q[Len(q)] = current_process
      /\ \A i \in DOMAIN ready_queue : q[i] = ready_queue[i]
  BY SMTT(20) DEF Lists
<1>3. \A i, j \in DOMAIN q : q[i] = q[j] => i = j
  BY <1>1, <1>2, SMTT(20) DEF Lists
<1>4. \A i \in DOMAIN q : st[q[i]] = "READY"
  <2>1. \A i \in DOMAIN ready_queue : ready_queue[i] \in Slot
    BY DEF Lists
  <2> QED
    BY <2>1, <1>2 DEF Lists
<1>5. ASSUME NEW p \in Slot \ {Idle}, st[p] = "READY"
      PROVE  \E i \in DOMAIN q : q[i] = p
  <2>1. CASE p = current_process
    <3>1. Len(q) \in DOMAIN q
      BY <1>2
    <3> QED
      BY Zenon, <3>1, <2>1, <1>2
  <2>2. CASE p # current_process
    <3>1. state[p] = "READY"
      BY Zenon, <2>2, <1>5
    <3>2. PICK i \in DOMAIN ready_queue : ready_queue[i] = p
      BY Zenon, <3>1 DEF Lists
    <3>3. i \in DOMAIN q /\ q[i] = p
      BY <3>2, <1>2
    <3> QED
      BY Zenon, <3>3
  <2> QED
    BY Zenon, <2>1, <2>2
<1> QED
  BY <1>2, <1>3, <1>4, <1>5, SMTT(20) DEF Lists

(* Entering schedule() from a call: the process that runs is queued again, *)
(* sleeps or has exited.                                                   *)
LEMMA YieldStep ==
  ASSUME IInv, NEW t, NEW irq \in BOOLEAN, process_yield(irq, t),
         kernel_stack' = kernel_stack, page_directory' = page_directory,
         frames' = frames, free_stacks' = free_stacks,
         sleep_until' = sleep_until, deadline' = deadline,
         now' \in 0..MAX_TICKS, slice_remaining' \in 0..TIME_SLICE,
         preemption_enabled' \in BOOLEAN
  PROVE  IInv' /\ ExitStays
<1>1. /\ state \in [Slot -> States] /\ current_process \in Slot
      /\ sleep_until \in [Slot -> Nat] /\ deadline \in [Slot -> Nat]
      /\ Lists(ready_queue, state)
  BY Zenon DEF IInv, TypeOK, ReadyIffQueued, Queued, Lists
<1>2. CASE state[current_process] = "RUNNING"
  <2> DEFINE st == [state EXCEPT ![current_process] = "READY"]
             q  == Append(ready_queue, current_process)
  <2>1. st \in [Slot -> States] /\ \A p \in Slot : st[p] # "RUNNING"
    BY Zenon, <1>1 DEF IInv, CurrentRuns, States
  <2>2. st[Idle] \in {"READY", "SLEEPING"}
    BY Zenon, <1>1, IdleIsSlot DEF IInv, CurrentRuns, Support
  <2>3. Lists(q, st)
    BY Zenon, <1>1, <1>2, YieldLists
  <2>4. schedule(st, sleep_until, q, t, irq)
    BY Zenon, <1>2 DEF process_yield, scheduler_add
  <2>5. \A p \in Slot : \/ st[p] = state[p]
                        \/ p = current_process /\ st[p] \in {"READY", "SLEEPING"}
    BY Zenon, <1>1
  <2> HIDE DEF st, q
  <2> QED
    BY Zenon, <2>1, <2>2, <2>3, <2>4, <2>5, <1>1, RescheduleStep
<1>3. CASE state[current_process] # "RUNNING"
  <2>1. \A p \in Slot : state[p] # "RUNNING"
    BY Zenon, <1>3 DEF IInv, CurrentRuns
  <2>2. state[Idle] \in {"READY", "SLEEPING"}
    BY Zenon, <2>1, IdleIsSlot DEF IInv, Support
  <2>3. schedule(state, sleep_until, ready_queue, t, irq)
    BY Zenon, <1>3 DEF process_yield
  <2> QED
    BY Zenon, <2>1, <2>2, <2>3, <1>1, RescheduleStep
<1> QED
  BY Zenon, <1>2, <1>3
-----------------------------------------------------------------------------
(* process_exit and process_sleep enter schedule() with the process that   *)
(* runs in neither READY nor RUNNING; it was not queued, so the queue      *)
(* still lists the READY processes.                                        *)
LEMMA LeaveReady ==
  ASSUME IInv, NEW s \in {"SLEEPING", "TERMINATED"},
         s = "TERMINATED" => current_process # Idle
  PROVE  LET st == [state EXCEPT ![current_process] = s] IN
         /\ st \in [Slot -> States]
         /\ Lists(ready_queue, st)
         /\ \A p \in Slot : st[p] # "RUNNING"
         /\ st[Idle] \in {"READY", "SLEEPING"}
         /\ \A p \in Slot : st[p] = IF p = current_process THEN s ELSE state[p]
<1> DEFINE st == [state EXCEPT ![current_process] = s]
<1>1. /\ state \in [Slot -> States] /\ current_process \in Slot
      /\ Lists(ready_queue, state)
      /\ \A i \in DOMAIN ready_queue : ready_queue[i] # current_process
  BY DEF IInv, TypeOK, ReadyIffQueued, Queued, Lists, CurrentRuns
<1>2. \A p \in Slot : st[p] = IF p = current_process THEN s ELSE state[p]
  BY Zenon, <1>1
<1>3. st \in [Slot -> States]
  BY Zenon, <1>1 DEF States
<1>4. \A i \in DOMAIN ready_queue : ready_queue[i] \in Slot
  BY <1>1 DEF Lists
<1>5. Lists(ready_queue, st)
  BY Zenon, <1>1, <1>2, <1>4 DEF Lists
<1>6. \A p \in Slot : st[p] # "RUNNING"
  BY Zenon, <1>2 DEF IInv, CurrentRuns
<1>7. st[Idle] \in {"READY", "SLEEPING"}
  BY Zenon, <1>2, <1>6, IdleIsSlot DEF IInv, Support
<1> HIDE DEF st
<1> QED
  BY Zenon, <1>2, <1>3, <1>5, <1>6, <1>7 DEF st

LEMMA CountTickType ==
  ASSUME TypeOK, CountTick
  PROVE  now' \in 0..MAX_TICKS /\ slice_remaining' \in 0..TIME_SLICE
  BY ProcessAssumption DEF TypeOK, CountTick, Expired

LEMMA ExitStep ==
  ASSUME IInv, process_exit
  PROVE  IInv' /\ ExitStays
<1> DEFINE st == [state EXCEPT ![current_process] = "TERMINATED"]
<1>1. /\ st \in [Slot -> States] /\ Lists(ready_queue, st)
      /\ \A p \in Slot : st[p] # "RUNNING"
      /\ st[Idle] \in {"READY", "SLEEPING"}
      /\ \A p \in Slot : st[p] = IF p = current_process THEN "TERMINATED" ELSE state[p]
  BY Zenon, LeaveReady DEF process_exit
<1>2. schedule(st, sleep_until, ready_queue, ticks, FALSE)
  BY Zenon DEF process_exit
<1>3. /\ kernel_stack' = kernel_stack /\ page_directory' = page_directory
      /\ frames' = frames /\ sleep_until' = sleep_until /\ deadline' = deadline
      /\ now' = now /\ slice_remaining' = slice_remaining
      /\ preemption_enabled' = preemption_enabled
      /\ free_stacks' = free_stacks \cup ({kernel_stack[current_process]} \ {NULL})
  BY Zenon DEF process_exit, kfree, timer
<1>4. /\ sleep_until \in [Slot -> Nat] /\ deadline \in [Slot -> Nat]
      /\ now \in 0..MAX_TICKS /\ slice_remaining \in 0..TIME_SLICE
      /\ preemption_enabled \in BOOLEAN /\ current_process \in Slot
  BY Zenon DEF IInv, TypeOK
<1>5. st[current_process] = "TERMINATED"
  BY Zenon, <1>1, <1>4
<1> HIDE DEF st
<1> QED
  BY <1>1, <1>2, <1>3, <1>4, <1>5, RescheduleStep, Zenon

LEMMA SleepStep ==
  ASSUME IInv, NEW ms \in SleepMs, process_sleep(ms)
  PROVE  IInv' /\ ExitStays
<1> DEFINE st == [state EXCEPT ![current_process] = "SLEEPING"]
<1>1. /\ st \in [Slot -> States] /\ Lists(ready_queue, st)
      /\ \A p \in Slot : st[p] # "RUNNING"
      /\ st[Idle] \in {"READY", "SLEEPING"}
      /\ \A p \in Slot : st[p] = IF p = current_process THEN "SLEEPING" ELSE state[p]
  BY Zenon, LeaveReady
<1>2. schedule(st, sleep_until', ready_queue, now' % UINT32, FALSE)
  BY Zenon DEF process_sleep
<1>3. /\ kernel_stack' = kernel_stack /\ page_directory' = page_directory
      /\ frames' = frames /\ free_stacks' = free_stacks
      /\ preemption_enabled' = preemption_enabled
  BY Zenon DEF process_sleep, memory
<1>4. now' \in 0..MAX_TICKS /\ slice_remaining' \in 0..TIME_SLICE
  BY CountTickType, Zenon DEF process_sleep, IInv, TypeOK
<1>5. sleep_until' \in [Slot -> Nat]
  <2>1. \A n \in Int : n % UINT32 \in Nat
    BY ProcessAssumption
  <2>2. ticks + SleepTicks(ms) \in Int
    <3>1. (ms * 100) % UINT32 \in Nat
      BY <2>1, ProcessAssumption
    <3>2. ((ms * 100) % UINT32) \div 1000 \in Int
      BY <3>1
    <3>3. SleepTicks(ms) \in Int
      BY <3>2 DEF SleepTicks, AtLeast1
    <3>4. ticks \in Int
      BY <2>1 DEF ticks, IInv, TypeOK
    <3> QED
      BY <3>3, <3>4
  <2>3. (ticks + SleepTicks(ms)) % UINT32 \in Nat
    BY Zenon, <2>1, <2>2
  <2> HIDE DEF ticks, SleepTicks
  <2> QED
    BY Zenon, <2>3 DEF process_sleep, IInv, TypeOK
<1>6. deadline' \in [Slot -> Nat]
  <2>1. now + AtLeast1(ms \div 10) \in Nat
    BY ProcessAssumption DEF AtLeast1, IInv, TypeOK
  <2> QED
    BY Zenon, <2>1 DEF process_sleep, IInv, TypeOK
<1>7. preemption_enabled \in BOOLEAN
  BY Zenon DEF IInv, TypeOK
<1> HIDE DEF st
<1> QED
  BY <1>1, <1>2, <1>3, <1>4, <1>5, <1>6, <1>7, RescheduleStep, Zenon
-----------------------------------------------------------------------------
(* A step that touches the timer alone. *)
LEMMA TablesKept ==
  ASSUME IInv, UNCHANGED <<table, cpu, now, memory, ready_queue, deadline>>,
         slice_remaining' \in 0..TIME_SLICE, preemption_enabled' \in BOOLEAN
  PROVE  IInv' /\ ExitStays
<1>1. /\ state' = state /\ sleep_until' = sleep_until /\ kernel_stack' = kernel_stack
      /\ page_directory' = page_directory /\ current_process' = current_process
      /\ iflag' = iflag /\ in_irq' = in_irq /\ current_pd' = current_pd
      /\ free_stacks' = free_stacks /\ frames' = frames
      /\ now' = now /\ ready_queue' = ready_queue /\ deadline' = deadline
  BY Zenon DEF table, cpu, memory
<1>2. TypeOK'
  BY <1>1, SMTT(20) DEF IInv, TypeOK
<1>3. ReadyIffQueued' /\ CurrentRuns' /\ RunsInOwnAddressSpace'
  BY <1>1 DEF IInv, ReadyIffQueued, CurrentRuns, RunsInOwnAddressSpace, Queued
<1>4. StacksExclusive' /\ Support'
  BY Zenon, <1>1 DEF IInv, StacksExclusive, Support, Live
<1> QED
  BY Zenon, <1>1, <1>2, <1>3, <1>4 DEF IInv, ExitStays

LEMMA TimerStep ==
  ASSUME IInv, timer_callback
  PROVE  IInv' /\ ExitStays
<1>1. now' \in 0..MAX_TICKS /\ slice_remaining' \in 0..TIME_SLICE
  BY Zenon, CountTickType DEF timer_callback, IInv
<1>2. /\ kernel_stack' = kernel_stack /\ page_directory' = page_directory
      /\ frames' = frames /\ free_stacks' = free_stacks
      /\ sleep_until' = sleep_until /\ deadline' = deadline
      /\ preemption_enabled' = preemption_enabled
  BY Zenon DEF timer_callback, memory
<1>3. CASE Preempts
  <2>1. process_yield(TRUE, now' % UINT32)
    BY <1>3, Zenon DEF timer_callback
  <2>2. preemption_enabled \in BOOLEAN
    BY Zenon DEF IInv, TypeOK
  <2> QED
    BY <2>1, <2>2, <1>1, <1>2, YieldStep, Zenon
<1>4. CASE ~Preempts
  <2>1. UNCHANGED <<state, cpu, ready_queue>>
    BY Zenon, <1>4 DEF timer_callback
  <2>2. /\ state' = state /\ ready_queue' = ready_queue /\ iflag' = iflag
        /\ current_process' = current_process /\ in_irq' = in_irq
        /\ current_pd' = current_pd
    BY Zenon, <2>1 DEF cpu
  <2>3. TypeOK'
    BY <2>2, <1>1, <1>2, SMTT(20) DEF IInv, TypeOK
  <2>4. ReadyIffQueued' /\ CurrentRuns' /\ RunsInOwnAddressSpace'
    BY <2>2, <1>2 DEF IInv, ReadyIffQueued, CurrentRuns, RunsInOwnAddressSpace, Queued
  <2>5. StacksExclusive' /\ Support'
    BY Zenon, <2>2, <1>2 DEF IInv, StacksExclusive, Support, Live
  <2> QED
    BY Zenon, <2>2, <2>3, <2>4, <2>5 DEF IInv, ExitStays
<1> QED
  BY Zenon, <1>3, <1>4

(* A new process takes an UNUSED slot: it is not the one that runs, it is  *)
(* in no queue, and it had no stack.                                       *)
LEMMA CreateStep ==
  ASSUME IInv, process_create
  PROVE  IInv' /\ ExitStays
<1>1. PICK p \in Slot :
             /\ find_free_slot(p)
             /\ sleep_until' = [sleep_until EXCEPT ![p] = 0]
             /\ CreateFailsClone(p) \/ CreateFailsStack(p) \/ CreateSucceeds(p)
  BY Zenon DEF process_create
<1>2. UNCHANGED <<cpu, timer, deadline>>
  BY Zenon DEF process_create
<1>3. /\ p \in Slot \ {Idle} /\ state[p] = "UNUSED" /\ kernel_stack[p] = NULL
      /\ p # current_process /\ p \notin Queued /\ p \notin Live
  BY Zenon, <1>1 DEF find_free_slot, FreeSlots, IInv, Support, CurrentRuns, ReadyIffQueued, Live
<1>4. /\ current_process' = current_process /\ iflag' = iflag /\ in_irq' = in_irq
      /\ current_pd' = current_pd /\ now' = now /\ deadline' = deadline
      /\ preemption_enabled' = preemption_enabled
      /\ slice_remaining' = slice_remaining
      /\ sleep_until' \in [Slot -> Nat]
  BY Zenon, <1>1, <1>2 DEF cpu, timer, IInv, TypeOK
<1>5. CASE CreateFailsClone(p) \/ CreateFailsStack(p)
  <2>1. /\ state' = state /\ ready_queue' = ready_queue
        /\ free_stacks' = free_stacks /\ kernel_stack' = kernel_stack
    <3>1. [kernel_stack EXCEPT ![p] = NULL] = kernel_stack
      BY Zenon, <1>3 DEF IInv, TypeOK
    <3>2. free_stacks \cup ({kernel_stack[p]} \ {NULL}) = free_stacks
      BY Zenon, <1>3
    <3> QED
      BY Zenon, <1>5, <3>1, <3>2 DEF CreateFailsClone, CreateFailsStack, kfree
  <2>2. /\ page_directory' \in [Slot -> NULL..PD_FRAMES]
        /\ \A r \in Slot \ {p} : page_directory'[r] = page_directory[r]
        /\ frames' \in KernelPd..PD_FRAMES
    <3>1. PICK pd \in NULL..PD_FRAMES :
                 /\ page_directory' = [page_directory EXCEPT ![p] = pd]
                 /\ frames' \in KernelPd..PD_FRAMES
      <4>1. /\ NULL \in NULL..PD_FRAMES
            /\ frames < PD_FRAMES => /\ frames + 1 \in NULL..PD_FRAMES
                                     /\ frames + 1 \in KernelPd..PD_FRAMES
        BY ProcessAssumption DEF IInv, TypeOK
      <4>2. CASE CreateFailsClone(p)
        BY <4>1, <4>2, Zenon DEF CreateFailsClone, IInv, TypeOK
      <4>3. CASE CreateFailsStack(p)
        BY <4>1, <4>3, Zenon DEF CreateFailsStack
      <4> QED
        BY Zenon, <1>5, <4>2, <4>3
    <3> QED
      BY Zenon, <3>1 DEF IInv, TypeOK
  <2>3. TypeOK'
    BY <2>1, <2>2, <1>4, Zenon DEF IInv, TypeOK
  <2>4. ReadyIffQueued' /\ CurrentRuns' /\ StacksExclusive'
    BY <2>1, <1>4 DEF IInv, ReadyIffQueued, CurrentRuns, StacksExclusive, Live, Queued
  <2>5. RunsInOwnAddressSpace' /\ Support'
    BY <2>1, <2>2, <1>3, <1>4, Zenon
       DEF IInv, TypeOK, RunsInOwnAddressSpace, Support, Live
  <2> QED
    BY Zenon, <2>1, <2>3, <2>4, <2>5 DEF IInv, ExitStays
<1>6. CASE CreateSucceeds(p)
  <2>1. PICK stack \in free_stacks :
               /\ free_stacks' = free_stacks \ {stack}
               /\ kernel_stack' = [kernel_stack EXCEPT ![p] = stack]
    BY <1>6, Zenon DEF CreateSucceeds
  <2>2. /\ state' = [state EXCEPT ![p] = "READY"]
        /\ ready_queue' = Append(ready_queue, p)
        /\ page_directory' = [page_directory EXCEPT ![p] = frames + 1]
        /\ frames' = frames + 1 /\ frames < PD_FRAMES
    BY Zenon, <1>6 DEF CreateSucceeds, scheduler_add
  <2>3. /\ frames + 1 \in KernelPd..PD_FRAMES /\ frames + 1 # NULL
        /\ frames + 1 \in NULL..PD_FRAMES
        /\ stack \in 1..STACKS /\ stack \in NULL..STACKS /\ stack # NULL
    BY <2>2, ProcessAssumption, SMTT(20) DEF IInv, TypeOK
  <2>4. TypeOK'
    <3>1. state' \in [Slot -> States] /\ kernel_stack' \in [Slot -> NULL..STACKS]
      BY <2>1, <2>2, <2>3, SMTT(20) DEF IInv, TypeOK, States
    <3>2. page_directory' \in [Slot -> NULL..PD_FRAMES] /\ frames' \in KernelPd..PD_FRAMES
      BY Zenon, <2>2, <2>3 DEF IInv, TypeOK
    <3>3. ready_queue' \in Seq(Slot) /\ free_stacks' \subseteq 1..STACKS
      BY <2>1, <2>2 DEF IInv, TypeOK
    <3> QED
      BY <3>1, <3>2, <3>3, <1>4, Zenon DEF IInv, TypeOK
  <2>5. \A r \in Slot : /\ state'[r] = IF r = p THEN "READY" ELSE state[r]
                        /\ kernel_stack'[r] = IF r = p THEN stack ELSE kernel_stack[r]
                        /\ page_directory'[r] = IF r = p THEN frames + 1
                                                ELSE page_directory[r]
    BY Zenon, <2>1, <2>2, <1>3 DEF IInv, TypeOK
  <2>6. ready_queue \in Seq(Slot) /\ \A i \in DOMAIN ready_queue : ready_queue[i] \in Slot
    BY SMTT(20) DEF IInv, TypeOK
  <2>7. /\ Len(ready_queue') = Len(ready_queue) + 1 /\ Len(ready_queue) \in Nat
        /\ DOMAIN ready_queue' = 1..Len(ready_queue')
        /\ DOMAIN ready_queue = 1..Len(ready_queue)
        /\ ready_queue'[Len(ready_queue')] = p
        /\ \A i \in DOMAIN ready_queue : ready_queue'[i] = ready_queue[i]
    BY <2>2, <2>6, <1>3
  <2>8. Queued' = Queued \cup {p}
    BY <2>7 DEF Queued
  <2>9. ReadyIffQueued'
    <3>1. \A i, j \in DOMAIN ready_queue' : ready_queue'[i] = ready_queue'[j] => i = j
      BY <2>7, <1>3 DEF Queued, IInv, ReadyIffQueued
    <3>2. Queued \subseteq Slot
      BY Zenon, <2>6 DEF Queued
    <3> QED
      BY <3>1, <3>2, <2>5, <2>8, <1>3, SMTT(20) DEF IInv, ReadyIffQueued
  <2>10. CurrentRuns'
    BY <2>5, <2>8, <1>3, <1>4, IdleIsSlot, ZenonT(30) DEF IInv, TypeOK, CurrentRuns
  <2>11. Live' = Live \cup {p}
    BY <2>5, <1>3 DEF Live
  <2>12. StacksExclusive'
    BY <2>1, <2>3, <2>5, <2>11, <1>3 DEF IInv, StacksExclusive, Live
  <2>13. RunsInOwnAddressSpace' /\ Support'
    BY <2>3, <2>5, <2>11, <1>3, <1>4, IdleIsSlot, ZenonT(30)
       DEF IInv, TypeOK, RunsInOwnAddressSpace, Support, Live
  <2>14. ExitStays
    BY <2>5, <1>3 DEF ExitStays
  <2> QED
    BY Zenon, <2>4, <2>9, <2>10, <2>12, <2>13, <2>14 DEF IInv
<1> QED
  BY Zenon, <1>1, <1>5, <1>6
-----------------------------------------------------------------------------
LEMMA StepInv == IInv /\ [Next]_vars => IInv' /\ ExitStays
<1> SUFFICES ASSUME IInv, [Next]_vars PROVE IInv' /\ ExitStays
  BY Zenon
<1>1. CASE timer_callback
  BY Zenon, <1>1, TimerStep
<1>2. CASE timer_enable_preemption
  <2>1. UNCHANGED <<table, cpu, now, memory, ready_queue, deadline>>
    BY Zenon, <1>2 DEF timer_enable_preemption
  <2>2. slice_remaining' \in 0..TIME_SLICE /\ preemption_enabled' \in BOOLEAN
    BY <1>2, ProcessAssumption DEF timer_enable_preemption
  <2> QED
    BY Zenon, <2>1, <2>2, TablesKept
<1>3. CASE timer_disable_preemption
  <2>1. UNCHANGED <<table, cpu, now, memory, ready_queue, deadline>>
    BY Zenon, <1>3 DEF timer_disable_preemption
  <2>2. slice_remaining' \in 0..TIME_SLICE /\ preemption_enabled' \in BOOLEAN
    BY <1>3, Zenon DEF timer_disable_preemption, IInv, TypeOK
  <2> QED
    BY Zenon, <2>1, <2>2, TablesKept
<1>4. CASE process_create
  BY Zenon, <1>4, CreateStep
<1>5. CASE process_exit
  BY Zenon, <1>5, ExitStep
<1>6. CASE Yield
  <2>1. /\ kernel_stack' = kernel_stack /\ page_directory' = page_directory
        /\ frames' = frames /\ free_stacks' = free_stacks
        /\ sleep_until' = sleep_until /\ deadline' = deadline
        /\ now' = now /\ slice_remaining' = slice_remaining
        /\ preemption_enabled' = preemption_enabled
    BY Zenon, <1>6 DEF Yield, timer, memory
  <2>2. process_yield(FALSE, ticks)
    BY <1>6, Zenon DEF Yield
  <2>3. now \in 0..MAX_TICKS /\ slice_remaining \in 0..TIME_SLICE /\ preemption_enabled \in BOOLEAN
    BY Zenon DEF IInv, TypeOK
  <2> QED
    BY <2>1, <2>2, <2>3, YieldStep, Zenon
<1>7. CASE \E ms \in SleepMs : process_sleep(ms)
  BY Zenon, <1>7, SleepStep
<1>8. CASE UNCHANGED vars
  <2>1. UNCHANGED <<table, cpu, now, memory, ready_queue, deadline>>
    BY Zenon, <1>8 DEF vars, timer
  <2>2. slice_remaining' \in 0..TIME_SLICE /\ preemption_enabled' \in BOOLEAN
    BY Zenon, <1>8 DEF vars, timer, IInv, TypeOK
  <2> QED
    BY Zenon, <2>1, <2>2, TablesKept
<1> QED
  BY Zenon, <1>1, <1>2, <1>3, <1>4, <1>5, <1>6, <1>7, <1>8 DEF Next

LEMMA Invariance == Spec => []IInv
  BY InitInv, StepInv, PTL DEF Spec

(* Every variable keeps its type, whatever the processes do and whenever   *)
(* the timer interrupts.                                                   *)
THEOREM TypeCorrect == Spec => []TypeOK
<1>1. IInv => TypeOK
  BY Zenon DEF IInv
<1> QED
  BY <1>1, Invariance, PTL

(* scheduler_add, schedule and wake_sleeping_processes never lose a        *)
(* process and never queue one twice, for any number of processes.         *)
THEOREM NoProcessLost == Spec => []ReadyIffQueued
<1>1. IInv => ReadyIffQueued
  BY Zenon DEF IInv
<1> QED
  BY <1>1, Invariance, PTL

(* At most one process is RUNNING, it is current_process, and it is not    *)
(* in the ready queue.                                                     *)
THEOREM OneRuns == Spec => []CurrentRuns
<1>1. IInv => CurrentRuns
  BY Zenon DEF IInv
<1> QED
  BY <1>1, Invariance, PTL

(* process_create, when it fails too, and process_exit never put the       *)
(* kernel stack of a process that can run again back into the heap, nor    *)
(* give it to a second process.                                            *)
THEOREM StacksNeverShared == Spec => []StacksExclusive
<1>1. IInv => StacksExclusive
  BY Zenon DEF IInv
<1> QED
  BY <1>1, Invariance, PTL

(* After every switch the CPU uses the page directory of the process that  *)
(* runs, although schedule() skips paging_switch when the two pointers     *)
(* agree.                                                                  *)
THEOREM AddressSpaceFollows == Spec => []RunsInOwnAddressSpace
<1>1. IInv => RunsInOwnAddressSpace
  BY Zenon DEF IInv
<1> QED
  BY <1>1, Invariance, PTL

(* No step takes a process out of TERMINATED: an exited process never runs *)
(* again and process_create never reuses its slot.                         *)
THEOREM ExitStaysFinal == Spec => ExitIsFinal
<1>1. IInv /\ [Next]_vars =>
        [\A p \in Slot : state[p] = "TERMINATED" => state'[p] = "TERMINATED"]_vars
  BY Zenon, StepInv DEF ExitStays
<1> QED
  BY <1>1, Invariance, PTL DEF Spec, ExitIsFinal
-----------------------------------------------------------------------------
(* Sleeping, while the tick counter does not wrap *)

(* The time that SleepsLongEnough is about: the tick counter and the       *)
(* conversion of milliseconds to ticks stay within 32 bits.                *)
NoWrap == MAX_TICKS < UINT32 /\ \A ms \in SleepMs : ms * 100 < UINT32

(* A sleeper will be woken at its deadline.  A process that has not been   *)
(* created has no deadline left from an earlier one.                       *)
InTime ==
  \A p \in Slot \ {Idle} :
    /\ state[p] \in {"READY", "RUNNING"} => now >= deadline[p]
    /\ state[p] = "SLEEPING" => sleep_until[p] = deadline[p]
    /\ state[p] = "UNUSED" => deadline[p] = 0

(* schedule() makes no process READY or RUNNING that was not READY or due, *)
(* except the idle process.                                                *)
LEMMA OnlyDueWake ==
  ASSUME NEW st \in [Slot -> States], NEW until, NEW q, NEW t, NEW irq,
         Lists(q, st), \A p \in Slot : st[p] # "RUNNING",
         schedule(st, until, q, t, irq)
  PROVE  \A p \in Slot \ {Idle} :
           /\ state'[p] \in {"READY", "RUNNING"} => st[p] = "READY" \/ Due(p, st, until, t)
           /\ state'[p] \in {"SLEEPING", "UNUSED"} => st[p] = state'[p]
<1> DEFINE W == Woken(st, until, t)
<1>1. PICK w \in InSlotOrder(W) :
        LET queue == q \o w
            next  == IF queue = <<>> THEN Idle ELSE Head(queue)
        IN state' = [p \in Slot |-> IF p = next THEN "RUNNING"
                                    ELSE IF p \in W THEN "READY" ELSE st[p]]
  BY Zenon DEF schedule, Woken
<1> DEFINE queue == q \o w
           next  == IF queue = <<>> THEN Idle ELSE Head(queue)
<1>2. W \subseteq Slot /\ \A p \in W : st[p] = "SLEEPING" /\ Due(p, st, until, t)
  BY Zenon DEF Woken, Due
<1>3. Lists(queue, Wake(st, W))
  BY Zenon, <1>2, WakeLists
<1>4. queue # <<>> => Head(queue) \in Slot /\ Wake(st, W)[Head(queue)] = "READY"
  BY <1>3 DEF Lists
<1>5. next = Idle \/ (next \in Slot /\ (next \in W \/ st[next] = "READY"))
  BY Zenon, <1>4 DEF Wake
<1>6. state' = [p \in Slot |-> IF p = next THEN "RUNNING"
                               ELSE IF p \in W THEN "READY" ELSE st[p]]
  BY Zenon, <1>1
<1> HIDE DEF queue, next, W
<1> QED
  BY Zenon, <1>2, <1>5, <1>6

LEMMA ScheduleInTime ==
  ASSUME IInv, NoWrap, now' \in 0..MAX_TICKS,
         NEW st \in [Slot -> States], NEW q, NEW irq,
         Lists(q, st), \A p \in Slot : st[p] # "RUNNING",
         schedule(st, sleep_until', q, now' % UINT32, irq),
         \A p \in Slot \ {Idle} : /\ st[p] = "READY" => now' >= deadline'[p]
                                  /\ st[p] = "SLEEPING" => sleep_until'[p] = deadline'[p]
                                  /\ st[p] = "UNUSED" => deadline'[p] = 0
  PROVE  InTime'
<1>1. now' % UINT32 = now'
  <2>1. \A n \in 0..MAX_TICKS : n % UINT32 = n
    BY ProcessAssumption DEF NoWrap
  <2> QED
    BY Zenon, <2>1
<1>2. \A p \in Slot \ {Idle} :
        /\ state'[p] \in {"READY", "RUNNING"}
             => st[p] = "READY" \/ Due(p, st, sleep_until', now')
        /\ state'[p] \in {"SLEEPING", "UNUSED"} => st[p] = state'[p]
  BY <1>1, OnlyDueWake, Zenon
<1> QED
  BY Zenon, <1>2 DEF InTime, Due

(* The deadline that process_sleep sets is the one its caller asked for.   *)
LEMMA SleepSets ==
  ASSUME TypeOK, NoWrap, NEW ms \in SleepMs, now + AtLeast1(ms \div 10) <= MAX_TICKS
  PROVE  (ticks + SleepTicks(ms)) % UINT32 = now + AtLeast1(ms \div 10)
<1>1. /\ ms \in Nat /\ ms * 100 \in Nat /\ ms * 100 < UINT32 /\ now \in Nat
      /\ now <= MAX_TICKS /\ MAX_TICKS < UINT32 /\ UINT32 \in Nat /\ MAX_TICKS \in Nat
  BY ProcessAssumption DEF TypeOK, NoWrap
<1>2. (ms * 100) % UINT32 = ms * 100 /\ now % UINT32 = now
  BY <1>1
<1>3. (ms * 100) \div 1000 = ms \div 10
  BY <1>1
<1>4. SleepTicks(ms) = AtLeast1(ms \div 10)
  BY <1>2, <1>3 DEF SleepTicks
<1>5. now + AtLeast1(ms \div 10) \in Nat
  BY <1>1 DEF AtLeast1
<1>6. (now + AtLeast1(ms \div 10)) % UINT32 = now + AtLeast1(ms \div 10)
  BY <1>1, <1>5
<1> QED
  BY Zenon, <1>2, <1>4, <1>6 DEF ticks

LEMMA YieldInTime ==
  ASSUME IInv, NoWrap, InTime, NEW irq, process_yield(irq, now' % UINT32),
         sleep_until' = sleep_until, deadline' = deadline,
         now' \in 0..MAX_TICKS, now <= now'
  PROVE  InTime'
<1>1. /\ state \in [Slot -> States] /\ current_process \in Slot
      /\ deadline \in [Slot -> Nat] /\ now \in Nat /\ now' \in Nat
      /\ Lists(ready_queue, state)
  BY ProcessAssumption DEF IInv, TypeOK, ReadyIffQueued, Queued, Lists
<1>2. \A p \in Slot \ {Idle} : state[p] \in {"READY", "RUNNING"} => now' >= deadline[p]
  BY <1>1 DEF InTime
<1>3. CASE state[current_process] = "RUNNING"
  <2> DEFINE st == [state EXCEPT ![current_process] = "READY"]
             q  == Append(ready_queue, current_process)
  <2>1. st \in [Slot -> States] /\ \A p \in Slot : st[p] # "RUNNING"
    BY Zenon, <1>1 DEF IInv, CurrentRuns, States
  <2>2. Lists(q, st)
    BY Zenon, <1>1, <1>3, YieldLists
  <2>3. schedule(st, sleep_until', q, now' % UINT32, irq)
    BY <1>3, Zenon DEF process_yield, scheduler_add
  <2>4. \A p \in Slot \ {Idle} : /\ st[p] = "READY" => now' >= deadline'[p]
                                 /\ st[p] = "SLEEPING" => sleep_until'[p] = deadline'[p]
                                 /\ st[p] = "UNUSED" => deadline'[p] = 0
    BY Zenon, <1>1, <1>2, <1>3 DEF InTime
  <2> HIDE DEF st, q
  <2> QED
    BY <2>1, <2>2, <2>3, <2>4, ScheduleInTime, Zenon
<1>4. CASE state[current_process] # "RUNNING"
  <2>1. \A p \in Slot : state[p] # "RUNNING"
    BY Zenon, <1>4 DEF IInv, CurrentRuns
  <2>2. schedule(state, sleep_until', ready_queue, now' % UINT32, irq)
    BY <1>4, Zenon DEF process_yield
  <2>3. \A p \in Slot \ {Idle} : /\ state[p] = "READY" => now' >= deadline'[p]
                                 /\ state[p] = "SLEEPING" => sleep_until'[p] = deadline'[p]
                                 /\ state[p] = "UNUSED" => deadline'[p] = 0
    BY Zenon, <1>2 DEF InTime
  <2> QED
    BY <2>1, <2>2, <2>3, <1>1, ScheduleInTime, Zenon
<1> QED
  BY Zenon, <1>3, <1>4

LEMMA InTimeStep ==
  ASSUME IInv, NoWrap, InTime, [Next]_vars
  PROVE  InTime'
<1>1. /\ state \in [Slot -> States] /\ current_process \in Slot
      /\ sleep_until \in [Slot -> Nat] /\ deadline \in [Slot -> Nat]
      /\ now \in 0..MAX_TICKS /\ now \in Nat /\ MAX_TICKS \in Nat
      /\ Lists(ready_queue, state)
  BY ProcessAssumption DEF IInv, TypeOK, ReadyIffQueued, Queued, Lists
<1>2. ASSUME state' = state, sleep_until' = sleep_until, deadline' = deadline,
             now' \in Nat, now <= now'
      PROVE  InTime'
  BY <1>1, <1>2 DEF InTime
<1>3. CountTick => now' \in 0..MAX_TICKS /\ now' \in Nat /\ now <= now'
  BY <1>1 DEF CountTick
<1>4. CASE timer_callback
  <2>1. /\ now' \in 0..MAX_TICKS /\ now' \in Nat /\ now <= now'
        /\ sleep_until' = sleep_until /\ deadline' = deadline
    BY Zenon, <1>3, <1>4 DEF timer_callback
  <2>2. CASE Preempts
    <3>1. process_yield(TRUE, now' % UINT32)
      BY <2>2, <1>4, Zenon DEF timer_callback
    <3> QED
      BY <3>1, <2>1, YieldInTime, Zenon
  <2>3. CASE ~Preempts
    BY Zenon, <2>1, <2>3, <1>2, <1>4 DEF timer_callback
  <2> QED
    BY Zenon, <2>2, <2>3
<1>5. CASE timer_enable_preemption \/ timer_disable_preemption
  BY <1>1, <1>2, <1>5 DEF timer_enable_preemption, timer_disable_preemption, table
<1>6. CASE process_create
  <2>1. PICK p \in Slot :
             /\ find_free_slot(p)
             /\ sleep_until' = [sleep_until EXCEPT ![p] = 0]
             /\ CreateFailsClone(p) \/ CreateFailsStack(p) \/ CreateSucceeds(p)
    BY <1>6, Zenon DEF process_create
  <2>2. now' = now /\ deadline' = deadline /\ state[p] = "UNUSED"
    BY Zenon, <1>6, <2>1 DEF process_create, timer, find_free_slot, FreeSlots
  <2>3. state' = state \/ state' = [state EXCEPT ![p] = "READY"]
    BY Zenon, <2>1 DEF CreateFailsClone, CreateFailsStack, CreateSucceeds
  <2>4. \A r \in Slot \ {p} : state'[r] = state[r] /\ sleep_until'[r] = sleep_until[r]
    BY Zenon, <1>1, <2>1, <2>3
  <2>5. state'[p] \in {"UNUSED", "READY"}
    BY Zenon, <1>1, <2>2, <2>3
  <2> QED
    BY <1>1, <2>2, <2>4, <2>5 DEF InTime
<1>7. CASE process_exit
  <2> DEFINE st == [state EXCEPT ![current_process] = "TERMINATED"]
  <2>1. /\ st \in [Slot -> States] /\ Lists(ready_queue, st)
        /\ \A p \in Slot : st[p] # "RUNNING"
        /\ \A p \in Slot : st[p] = IF p = current_process THEN "TERMINATED" ELSE state[p]
    BY Zenon, <1>7, LeaveReady DEF process_exit
  <2>2. now' = now /\ sleep_until' = sleep_until /\ deadline' = deadline
    BY Zenon, <1>7 DEF process_exit, timer
  <2>3. schedule(st, sleep_until', ready_queue, now' % UINT32, FALSE)
    BY <1>7, <2>2, Zenon DEF process_exit, ticks
  <2>4. \A p \in Slot \ {Idle} : /\ st[p] = "READY" => now' >= deadline'[p]
                                 /\ st[p] = "SLEEPING" => sleep_until'[p] = deadline'[p]
                                 /\ st[p] = "UNUSED" => deadline'[p] = 0
    BY Zenon, <2>1, <2>2 DEF InTime
  <2> HIDE DEF st
  <2> QED
    BY <2>1, <2>2, <2>3, <2>4, <1>1, ScheduleInTime, Zenon
<1>8. CASE Yield
  <2>1. now' = now /\ sleep_until' = sleep_until /\ deadline' = deadline
    BY Zenon, <1>8 DEF Yield, timer
  <2>2. process_yield(FALSE, now' % UINT32)
    BY <1>8, <2>1, Zenon DEF Yield, ticks
  <2>3. now' \in 0..MAX_TICKS /\ now <= now'
    BY <1>1, <2>1
  <2> QED
    BY <2>1, <2>2, <2>3, YieldInTime, Zenon
<1>9. ASSUME NEW ms \in SleepMs, process_sleep(ms) PROVE InTime'
  <2> DEFINE st == [state EXCEPT ![current_process] = "SLEEPING"]
  <2>1. /\ st \in [Slot -> States] /\ Lists(ready_queue, st)
        /\ \A p \in Slot : st[p] # "RUNNING"
        /\ \A p \in Slot : st[p] = IF p = current_process THEN "SLEEPING" ELSE state[p]
    BY Zenon, LeaveReady
  <2>2. now' \in 0..MAX_TICKS /\ now' \in Nat /\ now <= now'
    BY <1>1, <1>3, <1>9 DEF process_sleep
  <2>3. schedule(st, sleep_until', ready_queue, now' % UINT32, FALSE)
    BY <1>9, Zenon DEF process_sleep
  <2> DEFINE until == (ticks + SleepTicks(ms)) % UINT32
             asked == now + AtLeast1(ms \div 10)
  <2>4. until = asked
    BY Zenon, <1>9, SleepSets DEF process_sleep, IInv
  <2>5. /\ sleep_until' = [sleep_until EXCEPT ![current_process] = until]
        /\ deadline' = [deadline EXCEPT ![current_process] = asked]
    BY Zenon, <1>9 DEF process_sleep
  <2> HIDE DEF st, until, asked
  <2>6. \A p \in Slot \ {Idle} : /\ st[p] = "READY" => now' >= deadline'[p]
                                 /\ st[p] = "SLEEPING" => sleep_until'[p] = deadline'[p]
                                 /\ st[p] = "UNUSED" => deadline'[p] = 0
    BY <1>1, <2>1, <2>2, <2>4, <2>5 DEF InTime
  <2> QED
    BY <2>1, <2>2, <2>3, <2>6, ScheduleInTime, Zenon
<1>10. CASE UNCHANGED vars
  BY <1>1, <1>2, <1>10 DEF vars, table, timer
<1> QED
  BY Zenon, <1>4, <1>5, <1>6, <1>7, <1>8, <1>9, <1>10 DEF Next

(* While the tick counter does not wrap, no process that called            *)
(* process_sleep is made READY or runs before the time it asked for,       *)
(* whatever the conversion to ticks rounds and although an interrupt may   *)
(* come between the two reads of the counter.                              *)
THEOREM SleepersWakeInTime ==
  ASSUME NoWrap
  PROVE  Spec => []SleepsLongEnough
<1>1. Init => InTime
  BY Zenon, ProcessAssumption DEF Init, InTime
<1>2. IInv /\ InTime /\ [Next]_vars => InTime'
  BY Zenon, InTimeStep
<1>3. InTime => SleepsLongEnough
  BY Zenon DEF InTime, SleepsLongEnough
<1> QED
  BY <1>1, <1>2, <1>3, Invariance, PTL DEF Spec
=============================================================================
