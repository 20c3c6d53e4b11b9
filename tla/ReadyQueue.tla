----------------------------- MODULE ReadyQueue -----------------------------
(***************************************************************************)
(* The ready queue of process.c as it is in memory: a doubly linked list   *)
(* threaded through the PCBs.  order is a history variable, the processes  *)
(* in the order they were pushed; Process uses it as the queue.  Callers   *)
(* push what is not queued and remove what is: QueueDiscipline of Process. *)
(***************************************************************************)
EXTENDS Naturals, Sequences

CONSTANTS Procs,  \* the PCBs
          NULL

ASSUME NullAssumption == NULL \notin Procs

VARIABLES head, tail,  \* ready_queue_head, ready_queue_tail
          next, prev,  \* the link fields of each PCB
          order

queueVars == <<head, tail, next, prev, order>>

Pointers == Procs \cup {NULL}

QueueTypeOK ==
  /\ head \in Pointers
  /\ tail \in Pointers
  /\ next \in [Procs -> Pointers]
  /\ prev \in [Procs -> Pointers]
  /\ order \in Seq(Procs)

Queued(p) == \E i \in 1 .. Len(order) : order[i] = p

(* PCBs are zeroed by kzalloc. *)
InitQueue ==
  /\ head = NULL
  /\ tail = NULL
  /\ next = [p \in Procs |-> NULL]
  /\ prev = [p \in Procs |-> NULL]
  /\ order = <<>>

(* s without its i-th element. *)
Without(s, i) ==
  [j \in 1 .. Len(s) - 1 |-> IF j < i THEN s[j] ELSE s[j + 1]]

MutPush_NoBackLink(p) ==
  /\ prev' = [prev EXCEPT ![p] = NULL]
  /\ next' = IF tail # NULL THEN [next EXCEPT ![p] = NULL, ![tail] = p]
                            ELSE [next EXCEPT ![p] = NULL]
  /\ head' = IF tail # NULL THEN head ELSE p
  /\ tail' = p

ready_queue_push(p) ==
  /\ prev' = [prev EXCEPT ![p] = tail]
  /\ next' = IF tail # NULL THEN [next EXCEPT ![p] = NULL, ![tail] = p]
                            ELSE [next EXCEPT ![p] = NULL]
  /\ head' = IF tail # NULL THEN head ELSE p
  /\ tail' = p

MutRemove_KeepsLinks(p) ==
  LET n == next[p]
      b == prev[p]
  IN  /\ next' = IF b # NULL THEN [next EXCEPT ![b] = n] ELSE next
      /\ head' = IF b # NULL THEN head ELSE n
      /\ prev' = IF n # NULL THEN [prev EXCEPT ![n] = b] ELSE prev
      /\ tail' = IF n # NULL THEN tail ELSE b

ready_queue_remove(p) ==
  LET n == next[p]
      b == prev[p]
  IN  /\ next' = IF b # NULL THEN [next EXCEPT ![b] = n, ![p] = NULL]
                             ELSE [next EXCEPT ![p] = NULL]
      /\ head' = IF b # NULL THEN head ELSE n
      /\ prev' = IF n # NULL THEN [prev EXCEPT ![n] = b, ![p] = NULL]
                             ELSE [prev EXCEPT ![p] = NULL]
      /\ tail' = IF n # NULL THEN tail ELSE b

-----------------------------------------------------------------------------
Push(p) ==
  /\ ~ Queued(p)
  /\ ready_queue_push(p)
  /\ order' = Append(order, p)

(* ready_queue_pop on a queue that is not empty; the caller runs the head. *)
ready_queue_pop ==
  /\ head # NULL
  /\ ready_queue_remove(head)
  /\ order' = Without(order, 1)

(* process_destroy of a READY process that is in the queue. *)
Destroy(p) ==
  \E i \in 1 .. Len(order) :
    /\ order[i] = p
    /\ ready_queue_remove(p)
    /\ order' = Without(order, i)

NextQueue == ready_queue_pop \/ \E p \in Procs : Push(p) \/ Destroy(p)

SpecQueue == InitQueue /\ [][NextQueue]_queueVars

-----------------------------------------------------------------------------
(* The pointers spell out order, in both directions: ready_queue_pop takes *)
(* the process that was pushed first, and ready_queue_remove in the middle *)
(* of the list loses nobody.                                               *)
Linked ==
  /\ head = IF order = <<>> THEN NULL ELSE order[1]
  /\ tail = IF order = <<>> THEN NULL ELSE order[Len(order)]
  /\ \A i \in 1 .. Len(order) :
       /\ next[order[i]] = IF i = Len(order) THEN NULL ELSE order[i + 1]
       /\ prev[order[i]] = IF i = 1 THEN NULL ELSE order[i - 1]

(* A PCB outside the queue keeps no pointer into it, so a process that is  *)
(* pushed again or freed leaves nothing stale behind.                      *)
NoStaleLinks == \A p \in Procs : ~ Queued(p) => next[p] = NULL /\ prev[p] = NULL
=============================================================================
