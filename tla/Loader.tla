------------------------------- MODULE Loader -------------------------------
(***************************************************************************)
(* elf_create_process (elf.c), called from the loop of kernel_main: it     *)
(* makes the process with process_create, loads the file into its address  *)
(* space, and destroys it again if that fails.  All this runs with         *)
(* interrupts enabled, and process_create has queued the process already.  *)
(***************************************************************************)
EXTENDS Process

VARIABLE loading  \* the process elf_load works on

InitLoader == Init /\ loading = NoProc

(* process_create has returned the process: elf_load is next. *)
LoadBegins ==
  /\ CreateEnd
  /\ loading = NoProc
  /\ loading' = creating.pid

LoadSucceeds ==
  /\ process_get_current = Idle
  /\ loading # NoProc
  /\ loading' = NoProc
  /\ UNCHANGED vars

(* Unlinks p wherever it stands in the queue.  A PCB that is in no queue   *)
(* has no neighbours, as if it were alone: head and tail are cleared.      *)
ready_queue_remove(q, p) ==
  IF \E i \in 1 .. Len(q) : q[i] = p
  THEN LET i == CHOOSE i \in 1 .. Len(q) : q[i] = p
       IN  [j \in 1 .. Len(q) - 1 |-> IF j < i THEN q[j] ELSE q[j + 1]]
  ELSE <<>>

MutDestroy_StaysQueued(p) ==
  /\ table' = [s \in Slots |-> IF table[s] = p THEN NoProc ELSE table[s]]
  /\ state' = [state EXCEPT ![p] = "NONE"]
  /\ UNCHANGED <<queue, parent, ticks, current, next_pid, enabled, pc, creating, exited>>

(* Only a READY process is taken out of the ready queue. *)
process_destroy(p) ==
  /\ queue' = IF state[p] = "READY" THEN ready_queue_remove(queue, p) ELSE queue
  /\ table' = [s \in Slots |-> IF table[s] = p THEN NoProc ELSE table[s]]
  /\ state' = [state EXCEPT ![p] = "NONE"]
  /\ UNCHANGED <<parent, ticks, current, next_pid, enabled, pc, creating, exited>>

LoadFails ==
  /\ process_get_current = Idle
  /\ loading # NoProc
  /\ process_destroy(loading)
  /\ loading' = NoProc

(* Everything else, except that the loop is busy while it loads. *)
Others ==
  /\ Next
  /\ loading # NoProc => creating' = NoProc
  /\ UNCHANGED loading

NextLoader == LoadBegins \/ LoadSucceeds \/ LoadFails \/ Others

SpecLoader == InitLoader /\ [][NextLoader]_<<vars, loading>>

-----------------------------------------------------------------------------
(* NoDanglingPcb of Process is the property here: process_destroy skips    *)
(* the ready queue when the process is not READY, and a signal makes a     *)
(* queued process BLOCKED or TERMINATED without taking it out.  It holds   *)
(* by the order of the queue alone: whoever sends the signal runs after    *)
(* the loop of kernel_main was queued behind the new process, so that one  *)
(* has been taken out before the loop goes on to destroy it.               *)

-----------------------------------------------------------------------------
(* What follows is said by comments of the code and refuted by TLC for the *)
(* code as it is (README, section 4).                                      *)

(* "Create process with a dummy entry point first": a process does not run *)
(* before its file is loaded.                                              *)
LoadedBeforeRun == loading # NoProc => loading # current

(* "Remove from queues": process_destroy takes its own process out of the  *)
(* ready queue and no other.  A process that stopped itself is not queued; *)
(* once continued it is READY, and unlinking it empties the queue.         *)
OthersStayQueued ==
  [][LoadFails => \A p \in Pids \ {loading} : Queued(p) => Queued(p)']_<<vars, loading>>
=============================================================================
