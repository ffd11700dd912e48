---------------------------- MODULE MCStructures ----------------------------
(* The page bitmap and the ready queue side by side: they share no state,  *)
(* so their calls interleave.  Pages of 4 bytes; 1MB is byte 4, the kernel *)
(* ends at byte 6.                                                         *)
EXTENDS Pmm, ReadyQueue, TLC

E(addr, len, type) == [addr |-> addr, len |-> len, type |-> type]

MCMaps ==
  { \* unaligned ends, a reserved hole, a last entry that crosses the limit
    {E(0, 3, 1), E(5, 14, 1), E(19, 1, 2), E(20, 20, 1)},
    \* one entry up to the limit, and memory above it
    {E(0, 2, 1), E(4, 28, 1), E(40, 8, 1)},
    \* an entry smaller than a page
    {E(9, 3, 1), E(13, 12, 1)} }

MCSymmetry == Permutations(Proc)

StructuresInit == Init /\ QueueInit
StructuresSpec ==
  /\ StructuresInit
  /\ [][\/ Next /\ UNCHANGED queue_vars
        \/ QueueNext /\ UNCHANGED vars]_<<vars, queue_vars>>
=============================================================================
