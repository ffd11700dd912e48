------------------------------- MODULE MCHeap -------------------------------
(* One-page heap; headers of 4 bytes and pages of 16. *)
EXTENDS Heap

MCAlignedSizes == {<<3, 8>>}
=============================================================================
