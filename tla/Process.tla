------------------------------ MODULE Process ------------------------------
(***************************************************************************)
(* Process table, ready queue, round-robin scheduler, signals and the      *)
(* system calls exit, fork, wait and kill (process.c, scheduler.c,         *)
(* signal.c, syscall.c).                                                   *)
(*                                                                         *)
(* One CPU.  INT 0x80 and the IRQs enter through interrupt gates and their *)
(* stubs execute cli, so a system call or an interrupt handler is one      *)
(* step.  Kernel code that runs with interrupts enabled is the loop of     *)
(* kernel_main, which continues as the idle process: its process_create    *)
(* can be preempted, and is two steps.  ready_queue_push is one step here; *)
(* ReadyQueue is about the preemption inside it.                           *)
(*                                                                         *)
(* A PCB is named by its pid; pids are never reused (next_pid only grows). *)
(* The linked ready queue is a sequence here; ReadyQueue has the pointers. *)
(***************************************************************************)
EXTENDS Naturals, Sequences

CONSTANTS MaxProcesses,  \* MAX_PROCESSES, the slots of process_table
          MaxPid,        \* bound: the pids handed out in a behaviour
          BootProcs,     \* processes kernel_main creates before scheduling
          Quantum,       \* DEFAULT_QUANTUM
          NoProc         \* NULL

Pids == 0 .. MaxPid
Slots == 0 .. MaxProcesses - 1
Idle == 0

ASSUME SizeAssumption ==
  /\ MaxProcesses \in Nat \ {0}
  /\ MaxPid \in Nat
  /\ BootProcs \in 1 .. MaxPid
  /\ BootProcs < MaxProcesses
  /\ Quantum \in Nat \ {0}

ASSUME NoProcAssumption == NoProc \notin Pids

VARIABLES table,     \* process_table
          state,     \* PCB state; "NONE" when the PCB is not allocated
          parent,    \* parent_pid
          ticks,     \* ticks_remaining
          queue,     \* the ready queue, head first
          current,   \* current_process
          next_pid,
          enabled,   \* scheduler_enabled
          pc,        \* "wait" while suspended in the loop of sys_wait
          creating,  \* slot and PCB of a process_create in progress
          exited     \* history: processes that executed sys_exit/process_exit

vars == <<table, state, parent, ticks, queue, current, next_pid, enabled, pc,
          creating, exited>>

States == {"NONE", "READY", "RUNNING", "BLOCKED", "WAITING", "ZOMBIE",
           "TERMINATED"}
Terminating == {"SIGKILL", "SIGTERM", "SIGINT"}
Signals == Terminating \cup {"SIGSTOP", "SIGCONT"}

Creations == [slot : Slots, pid : Pids]

TypeOK ==
  /\ table \in [Slots -> Pids \cup {NoProc}]
  /\ state \in [Pids -> States]
  /\ parent \in [Pids -> Pids]
  /\ ticks \in [Pids -> 0 .. Quantum]
  /\ queue \in Seq(Pids)
  /\ current \in Pids \cup {NoProc}
  /\ next_pid \in 1 .. MaxPid + 1
  /\ enabled \in BOOLEAN
  /\ pc \in [Pids -> {"run", "wait"}]
  /\ creating \in Creations \cup {NoProc}
  /\ exited \subseteq Pids

-----------------------------------------------------------------------------
(* process_get_current: a NULL current_process stands for the idle process. *)
process_get_current == IF current = NoProc THEN Idle ELSE current

Queued(p) == \E i \in 1 .. Len(queue) : queue[i] = p

InTable(p) == \E s \in Slots : table[s] = p

FreeSlots == {s \in Slots \ {0} : table[s] = NoProc}

(* The scan for the first free slot; slot 0 belongs to the idle process. *)
IsFirstFree(s) == s \in FreeSlots /\ \A t \in FreeSlots : s <= t

(* A signal reaches what process_find_by_pid returns.  That function has no *)
(* definition under src/; its use in signal_send asks for the table's entry *)
(* with the pid.                                                            *)
process_find_by_pid(p) == InTable(p)

(* ready_queue_push, ready_queue_pop: links at the tail, unlinks the head.  *)
MutPush_Front(q, p) == <<p>> \o q

ready_queue_push(q, p) == Append(q, p)

MutPop_Keeps(q) == q

ready_queue_pop(q) == IF q = <<>> THEN q ELSE Tail(q)

(* The process schedule() picks: the head, or the idle process. *)
Picked(q) == IF q = <<>> THEN Idle ELSE Head(q)

(* Whether schedule() puts the current process back: only while RUNNING. *)
StillRunnable(s) == s = "RUNNING"

(***************************************************************************)
(* schedule(), entered with PCB states st and ready queue q.  A runnable   *)
(* current process goes to the tail and the head is taken; only a switch   *)
(* to another process marks that one RUNNING.                              *)
(***************************************************************************)
MutSchedule_StaysRunning(st, q) ==
  LET cur  == process_get_current
      q1   == IF StillRunnable(st[cur]) THEN ready_queue_push(q, cur) ELSE q
      next == Picked(q1)
  IN  /\ queue' = ready_queue_pop(q1)
      /\ state' = IF next = cur THEN st ELSE [st EXCEPT ![next] = "RUNNING"]
      /\ current' = IF next = cur THEN current ELSE next

schedule(st, q) ==
  LET cur  == process_get_current
      runs == StillRunnable(st[cur])
      q1   == IF runs THEN ready_queue_push(q, cur) ELSE q
      st1  == IF runs THEN [st EXCEPT ![cur] = "READY"] ELSE st
      next == Picked(q1)
  IN  /\ queue' = ready_queue_pop(q1)
      /\ state' = IF next = cur THEN st1 ELSE [st1 EXCEPT ![next] = "RUNNING"]
      /\ current' = IF next = cur THEN current ELSE next

-----------------------------------------------------------------------------
(* process_init: the idle process holds slot 0 and is not queued. *)
Init ==
  /\ table = [s \in Slots |-> IF s = 0 THEN Idle ELSE NoProc]
  /\ state = [p \in Pids |-> IF p = Idle THEN "READY" ELSE "NONE"]
  /\ parent = [p \in Pids |-> 0]
  /\ ticks = [p \in Pids |-> IF p = Idle THEN 1 ELSE 0]
  /\ queue = <<>>
  /\ current = NoProc
  /\ next_pid = 1
  /\ enabled = FALSE
  /\ pc = [p \in Pids |-> "run"]
  /\ creating = NoProc
  /\ exited = {}

(* ticks_remaining of a new process. *)
MutQuantum_OffByOne == Quantum + 1

FreshQuantum == Quantum

(* A PCB with the next pid: READY (0 in the enumeration, so kzalloc's too). *)
NewPcb ==
  /\ next_pid <= MaxPid
  /\ next_pid' = next_pid + 1
  /\ state' = [state EXCEPT ![next_pid] = "READY"]
  /\ ticks' = [ticks EXCEPT ![next_pid] = FreshQuantum]

(* process_create called by kernel_main before the scheduler is enabled. *)
BootCreate ==
  /\ ~enabled
  /\ next_pid <= BootProcs
  /\ NewPcb
  /\ \E s \in Slots : /\ IsFirstFree(s)
                      /\ table' = [table EXCEPT ![s] = next_pid]
  /\ queue' = ready_queue_push(queue, next_pid)
  /\ UNCHANGED <<parent, current, enabled, pc, creating, exited>>

(* kernel_main continues as the idle process inside schedule(). *)
scheduler_enable ==
  /\ ~enabled
  /\ next_pid > BootProcs
  /\ enabled' = TRUE
  /\ schedule(state, queue)
  /\ UNCHANGED <<table, parent, ticks, next_pid, pc, creating, exited>>

(* process_create from the idle loop, lines up to the table update: the    *)
(* slot is chosen and the PCB built, with interrupts enabled.              *)
CreateBegin ==
  /\ enabled
  /\ process_get_current = Idle
  /\ creating = NoProc
  /\ NewPcb
  /\ \E s \in Slots : /\ IsFirstFree(s)
                      /\ creating' = [slot |-> s, pid |-> next_pid]
  /\ UNCHANGED <<table, parent, queue, current, enabled, pc, exited>>

(* ... and the rest: the slot is written and the process enters the queue. *)
CreateEnd ==
  /\ process_get_current = Idle
  /\ creating # NoProc
  /\ table' = [table EXCEPT ![creating.slot] = creating.pid]
  /\ queue' = ready_queue_push(queue, creating.pid)
  /\ creating' = NoProc
  /\ UNCHANGED <<state, parent, ticks, current, next_pid, enabled, pc,
                 exited>>

(* What a tick leaves of a quantum. *)
MutTicks_NotCounted(t) == t

TicksLeft(t) == IF t > 0 THEN t - 1 ELSE 0

(* timer_callback and scheduler_tick. *)
scheduler_tick ==
  /\ enabled
  /\ LET cur  == process_get_current
         left == TicksLeft(ticks[cur])
     IN  /\ ticks' = [ticks EXCEPT ![cur] = IF left = 0 THEN Quantum ELSE left]
         /\ IF left = 0 THEN schedule(state, queue)
                        ELSE UNCHANGED <<state, queue, current>>
  /\ UNCHANGED <<table, parent, next_pid, enabled, pc, creating, exited>>

-----------------------------------------------------------------------------
(* System calls, made by the current process. *)
Calls(p) == enabled /\ p = current /\ p # Idle

(* sys_exit leaves a ZOMBIE for a parent to reap; with parent_pid 0 it goes *)
(* on to process_exit, TERMINATED.                                          *)
MutExit_Yields(p) == "RUNNING"

ExitState(p) == IF parent[p] = 0 THEN "TERMINATED" ELSE "ZOMBIE"

sys_exit(p) ==
  /\ Calls(p)
  /\ pc[p] = "run"
  /\ exited' = exited \cup {p}
  /\ schedule([state EXCEPT ![p] = ExitState(p)], queue)
  /\ UNCHANGED <<table, parent, ticks, next_pid, enabled, pc, creating>>

(* process_entry_trampoline: the entry point returned, process_exit. *)
process_exit(p) ==
  /\ Calls(p)
  /\ pc[p] = "run"
  /\ exited' = exited \cup {p}
  /\ schedule([state EXCEPT ![p] = "TERMINATED"], queue)
  /\ UNCHANGED <<table, parent, ticks, next_pid, enabled, pc, creating>>

(* sys_fork: the child takes the first free slot and joins the queue. *)
sys_fork(p) ==
  /\ Calls(p)
  /\ pc[p] = "run"
  /\ NewPcb
  /\ \E s \in Slots : /\ IsFirstFree(s)
                      /\ table' = [table EXCEPT ![s] = next_pid]
  /\ parent' = [parent EXCEPT ![next_pid] = p]
  /\ queue' = ready_queue_push(queue, next_pid)
  /\ UNCHANGED <<current, enabled, pc, creating, exited>>

(* sys_fork when vmm_clone_address_space fails: free_process_struct takes  *)
(* the child back out of the table, its pid is spent.                      *)
ForkFails(p) ==
  /\ Calls(p)
  /\ pc[p] = "run"
  /\ next_pid <= MaxPid
  /\ FreeSlots # {}
  /\ next_pid' = next_pid + 1
  /\ UNCHANGED <<table, state, parent, ticks, queue, current, enabled, pc,
                 creating, exited>>

(* The test of find_zombie_child on a table entry c. *)
MutZombie_AnyParent(c, p) == state[c] = "ZOMBIE"

IsZombieChild(c, p) == parent[c] = p /\ state[c] = "ZOMBIE"

(* The first slot that holds a zombie child of p. *)
find_zombie_child(p, s) ==
  LET zombies == {t \in Slots : table[t] # NoProc /\ IsZombieChild(table[t], p)}
  IN  s \in zombies /\ \A t \in zombies : s <= t

(* sys_wait, one turn of its loop: reap a zombie child ... *)
WaitReaps(p) ==
  /\ Calls(p)
  /\ \E s \in Slots :
       /\ find_zombie_child(p, s)
       /\ LET c == table[s]
          IN  /\ table' = [table EXCEPT ![s] = NoProc]
              /\ state' = [state EXCEPT ![c] = "NONE"]
  /\ pc' = [pc EXCEPT ![p] = "run"]
  /\ UNCHANGED <<parent, ticks, queue, current, next_pid, enabled, creating,
                 exited>>

(* ... or become WAITING and switch away. *)
WaitBlocks(p) ==
  /\ Calls(p)
  /\ ~ \E s \in Slots : find_zombie_child(p, s)
  /\ pc' = [pc EXCEPT ![p] = "wait"]
  /\ schedule([state EXCEPT ![p] = "WAITING"], queue)
  /\ UNCHANGED <<table, parent, ticks, next_pid, enabled, creating, exited>>

-----------------------------------------------------------------------------
(* What signal_send makes of a PCB in state s. *)
SignalledState(sig, s) ==
  CASE sig \in Terminating -> "TERMINATED"
    [] sig = "SIGSTOP" /\ s \in {"RUNNING", "READY"} -> "BLOCKED"
    [] sig = "SIGCONT" /\ s = "BLOCKED" -> "READY"
    [] OTHER -> s

(* signal_send changes the state alone; the ready queue is not touched. *)
signal_send(p, sig) ==
  /\ process_find_by_pid(p)
  /\ state' = [state EXCEPT ![p] = SignalledState(sig, state[p])]
  /\ UNCHANGED <<table, parent, ticks, queue, current, next_pid, enabled, pc,
                 creating, exited>>

(* sys_kill by the current process. *)
sys_kill(p) ==
  /\ Calls(p)
  /\ pc[p] = "run"
  /\ \E t \in Pids, sig \in Signals : signal_send(t, sig)

(* Ctrl+C in keyboard_callback: SIGINT to the current process unless pid 1. *)
CtrlC ==
  /\ process_get_current # 1
  /\ signal_send(process_get_current, "SIGINT")

-----------------------------------------------------------------------------
Next ==
  \/ BootCreate
  \/ scheduler_enable
  \/ CreateBegin
  \/ CreateEnd
  \/ scheduler_tick
  \/ CtrlC
  \/ \E p \in Pids : \/ sys_exit(p)
                     \/ process_exit(p)
                     \/ sys_fork(p)
                     \/ ForkFails(p)
                     \/ WaitReaps(p)
                     \/ WaitBlocks(p)
                     \/ sys_kill(p)

Spec == Init /\ [][Next]_vars

(* The PIT raises IRQ0 periodically, whatever runs. *)
FairSpec == Spec /\ WF_vars(scheduler_tick) /\ WF_vars(BootCreate)
                 /\ WF_vars(scheduler_enable)

-----------------------------------------------------------------------------
(* schedule() never leaves the process it chose in the ready queue, and no *)
(* process is linked twice: what ready_queue_push and ready_queue_remove   *)
(* need to keep the list a list.  Signals rewrite the state of queued and  *)
(* of current processes at any moment without touching the queue.          *)
QueueDiscipline ==
  /\ \A i, j \in 1 .. Len(queue) : queue[i] = queue[j] => i = j
  /\ ~ Queued(process_get_current)

(* One CPU: a PCB marked RUNNING is the one current_process points to.     *)
OnlyCurrentRuns == \A p \in Pids : state[p] = "RUNNING" => p = process_get_current

(* "Should never return": a process that went through sys_exit or          *)
(* process_exit is never again current and never in the ready queue, so    *)
(* the panic at the end of process_exit is unreachable.                    *)
ExitedNeverRuns == \A p \in exited : p # process_get_current /\ ~ Queued(p)

(* sys_wait frees the PCB of a child (free_process_struct): nothing still  *)
(* points to a freed PCB, neither the table, nor the ready queue, nor      *)
(* current_process, nor a process_create that was preempted.               *)
NoDanglingPcb ==
  \A p \in Pids : state[p] = "NONE" =>
    /\ ~ InTable(p)
    /\ ~ Queued(p)
    /\ p # process_get_current
    /\ creating # NoProc => creating.pid # p

(* sys_wait frees only what it may: when a PCB goes away in a system call, *)
(* it is a child of the process that runs, and that child called sys_exit  *)
(* itself.  (The idle loop also destroys what it could not load.)          *)
ReapsOwnExitedChild ==
  [][process_get_current # Idle =>
       \A c \in Pids : state[c] # "NONE" /\ state'[c] = "NONE" =>
          parent[c] = current /\ c \in exited]_vars

(* Round robin: no step of anyone (a preemption, a fork, a signal) moves a *)
(* process that stays in the ready queue further from the head.            *)
NoOvertaking ==
  [][\A i \in 1 .. Len(queue), j \in 1 .. Len(queue') :
        queue[i] = queue'[j] => j <= i]_vars

(* As long as timer interrupts arrive, every process in the ready queue is *)
(* given the CPU, whatever the others do.                                  *)
QueuedRuns == \A p \in Pids : Queued(p) ~> process_get_current = p

-----------------------------------------------------------------------------
(* What follows is said by comments of the code and refuted by TLC for the *)
(* code as it is (README, section 4).                                      *)

(* "If current process is still runnable, put it back in ready queue": a   *)
(* process that loses the CPU while it is READY or RUNNING is in the queue. *)
Runnable(s) == s \in {"READY", "RUNNING"}
RunnableIsPutBack ==
  [][\A p \in Pids \ {Idle} :
        p = current /\ Runnable(state[p]) /\ Runnable(state'[p]) =>
          p = current' \/ Queued(p)']_vars

(* "Force terminate": a terminated process is not given the CPU again.     *)
KilledNeverScheduled ==
  [][\A p \in Pids \ {Idle} :
        state[p] = "TERMINATED" /\ current' = p => current = p]_vars

(* "When we get here, we've been woken up - check again": a process in the *)
(* loop of sys_wait that has a zombie child does not stay there for ever.  *)
WaiterWakes ==
  \A p \in Pids :
    (pc[p] = "wait" /\ state[p] = "WAITING"
       /\ \E s \in Slots : find_zombie_child(p, s)) ~> state[p] # "WAITING"

(* "This code only runs when no other process is ready": schedule() turns  *)
(* to the idle process only when the ready queue is empty.                 *)
IdleOnlyWhenNoneReady ==
  [][process_get_current # Idle /\ current' = Idle => queue' = <<>>]_vars

(* "Clean up will happen later": the slot of a process that went through   *)
(* process_exit is free again at some time.                                *)
CleanedUpLater ==
  \A p \in Pids \ {Idle} :
    (p \in exited /\ state[p] = "TERMINATED" /\ InTable(p)) ~> ~ InTable(p)
=============================================================================
