--------------------------- MODULE PreemptedPush ---------------------------
(***************************************************************************)
(* ready_queue_push as the loop of kernel_main executes it: process_create *)
(* is called there with interrupts enabled, so a timer interrupt can come  *)
(* between two stores of the push, and schedule() then pushes and pops.    *)
(***************************************************************************)
EXTENDS ReadyQueue

VARIABLE pushing  \* the push in progress: its PCB, the tail it loaded,
                  \* whether lines 35-39 are done; or NULL

InitPreempted == InitQueue /\ pushing = NULL

(* Lines 32-33: the new PCB's own links. *)
PushStart(p) ==
  /\ pushing = NULL
  /\ ~ Queued(p)
  /\ next' = [next EXCEPT ![p] = NULL]
  /\ prev' = [prev EXCEPT ![p] = tail]
  /\ pushing' = [proc |-> p, seen |-> tail, linked |-> FALSE]
  /\ UNCHANGED <<head, tail, order>>

(* Lines 35-39.  ready_queue_tail is a plain static: the compiler may load *)
(* it again, or use the value it loaded for line 33.                       *)
PushLink ==
  /\ pushing # NULL
  /\ ~ pushing.linked
  /\ \E t \in {tail, pushing.seen} :
       IF t # NULL
       THEN next' = [next EXCEPT ![t] = pushing.proc] /\ UNCHANGED head
       ELSE head' = pushing.proc /\ UNCHANGED next
  /\ pushing' = [pushing EXCEPT !.linked = TRUE]
  /\ UNCHANGED <<tail, prev, order>>

(* Line 40, and the push is complete. *)
PushTail ==
  /\ pushing # NULL
  /\ pushing.linked
  /\ tail' = pushing.proc
  /\ order' = Append(order, pushing.proc)
  /\ pushing' = NULL
  /\ UNCHANGED <<head, next, prev>>

(* What interrupt handlers and system calls do meanwhile: whole pushes of  *)
(* other processes, and pops.                                              *)
Interrupt ==
  /\ \/ ready_queue_pop
     \/ \E p \in Procs : Push(p) /\ (pushing # NULL => p # pushing.proc)
  /\ UNCHANGED pushing

NextPreempted ==
  \/ \E p \in Procs : PushStart(p)
  \/ PushLink
  \/ PushTail
  \/ Interrupt

SpecPreempted == InitPreempted /\ [][NextPreempted]_<<queueVars, pushing>>

-----------------------------------------------------------------------------
(* "Add process to ready queue": when no push is under way, a process that *)
(* was pushed last (the tail) is in a list ready_queue_pop can take from.  *)
PushAddsToQueue == pushing = NULL => (tail # NULL => head # NULL)
=============================================================================
