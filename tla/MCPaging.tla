------------------------------ MODULE MCPaging ------------------------------
(* Frames 1..3 hold the kernel's tables and 4 kernel_pd; the pages have   *)
(* a table each.  A write of the user and a read of the kernel.            *)
EXTENDS Paging

MCUserPages == {12, 16}
MCAccesses == {[page |-> 12, write |-> TRUE, user |-> TRUE],
               [page |-> 16, write |-> FALSE, user |-> FALSE]}
=============================================================================
