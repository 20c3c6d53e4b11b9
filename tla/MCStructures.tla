---------------------------- MODULE MCStructures ----------------------------
(* The kernel's data structures for TLC: the ready queue with five PCBs,   *)
(* the page bitmap, and a heap of 184 bytes with the real header (requests *)
(* need padding, leave a rest too small to split, or fail).  They share no *)
(* state but the panic that halts the machine, so a behaviour works on one *)
(* of them while the other two stay as they are after start-up.            *)
EXTENDS Pmm, ReadyQueue, Kmalloc

VARIABLE part  \* the structure this behaviour is about

MCInit ==
  /\ Init /\ InitQueue /\ InitHeap
  /\ part \in {"queue", "pages", "heap"}

MCNext ==
  \/ part = "queue" /\ NextQueue /\ UNCHANGED <<vars, heapVars, part>>
  \/ part = "pages" /\ Next /\ UNCHANGED <<queueVars, heap, live, part>>
  \/ part = "heap" /\ NextHeap /\ UNCHANGED <<used, free, last, queueVars, part>>

MCSpec == MCInit /\ [][MCNext]_<<vars, queueVars, heapVars, part>>
=============================================================================
