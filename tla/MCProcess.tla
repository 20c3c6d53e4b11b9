----------------------------- MODULE MCProcess -----------------------------
(* Process with every operation.  A table of 4 slots fills up and 4 pids   *)
(* are enough for a child, a grandchild and a preempted process_create.    *)
EXTENDS Process
=============================================================================
