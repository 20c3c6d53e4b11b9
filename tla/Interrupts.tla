----------------------------- MODULE Interrupts -----------------------------
(***************************************************************************)
(* Interrupt delivery: the 8259 as init_pic sets it up (timer and keyboard *)
(* unmasked, end of interrupt by software), the interrupt flag, and the    *)
(* code between an interrupt and its EOI: isr_common_stub, timer_callback, *)
(* scheduler_tick, schedule, keyboard_callback; and the places where the   *)
(* kernel halts to wait: sleep_ms, sys_sleep, sys_read of stdin and the    *)
(* loop of kernel_main.  What a switch restores is where the process was:  *)
(* its first instruction, schedule() called from timer_callback (an EOI is *)
(* still to be sent), or schedule() called from scheduler_enable.          *)
(***************************************************************************)
EXTENDS Naturals, Sequences

CONSTANTS N,         \* processes created by kernel_main before it enables the scheduler
          Does,      \* process -> what its program does, of the Calls below
          Quantum,   \* DEFAULT_QUANTUM
          SleepTicks,\* bound: ticks a sleep lasts
          MaxKeys    \* bound: characters in the keyboard buffer

Idle == 0
Procs == 1 .. N  \* in the order of their creation
All == Procs \cup {Idle}
Calls == {"nap", "sleep", "read", "exit"}

ASSUME ConstantsAssumption ==
  /\ N \in Nat \ {0} /\ Quantum \in Nat \ {0} /\ SleepTicks \in Nat /\ MaxKeys \in Nat
  /\ Does \in [Procs -> SUBSET Calls]

Timer == 0       \* IRQ0
Keyboard == 1    \* IRQ1

VARIABLES irr,        \* interrupt requests raised and not yet delivered
          inService,  \* the in-service bits of the PIC
          IF_,        \* the interrupt flag
          current, queue, state, remaining,  \* as in scheduler.c
          resume,     \* where a switched-out process continues
          where,      \* what the process itself is doing
          left,       \* ticks until its sleep is over
          keys,       \* characters in the keyboard buffer
          parity      \* timer_ticks modulo 2

sched == <<current, queue, state, remaining, resume>>
vars == <<irr, inService, IF_, sched, where, left, keys, parity>>

TypeOK ==
  /\ irr \subseteq {Timer, Keyboard} /\ inService \subseteq {Timer, Keyboard}
  /\ IF_ \in BOOLEAN
  /\ current \in All /\ queue \in Seq(All)
  /\ state \in [All -> {"READY", "RUNNING", "TERMINATED"}]
  /\ remaining \in [All -> 0 .. Quantum]
  /\ resume \in [All -> {"entry", "tick", "enable"}]
  /\ where \in [All -> {"program", "nap", "sleep", "read"}]
  /\ left \in [All -> 0 .. SleepTicks]
  /\ keys \in 0 .. MaxKeys /\ parity \in 0 .. 1

-----------------------------------------------------------------------------
(* outb(0x20, 0x20), a non-specific EOI: it ends the highest-priority      *)
(* interrupt in service, whichever that is.                                *)
EOI(s) == IF Timer \in s THEN s \ {Timer} ELSE s \ {Keyboard}

(* The PIC delivers a request when nothing of its priority or above is in  *)
(* service and the processor accepts interrupts.                           *)
Deliverable(irq) == irq \in irr /\ IF_ /\ \A i \in inService : i > irq

(* schedule(), called with what the caller continues with.  `served` is    *)
(* the in-service set at the call.  A process resumed in timer_callback    *)
(* sends the EOI it still owes; one that continues anywhere else does not. *)
Resumed(next, served) == IF resume[next] = "tick" THEN EOI(served) ELSE served

SwitchTo(next, q, from, served) ==
  /\ current' = next
  /\ queue' = q
  /\ state' = [state EXCEPT ![current] = IF @ = "RUNNING" THEN "READY" ELSE @,
                            ![next] = "RUNNING"]
  /\ resume' = [resume EXCEPT ![current] = from]
  /\ inService' = Resumed(next, served)
  /\ IF_' = (where[next] \in {"program", "nap"})

(* The queue after the current process has been put back, if it was RUNNING. *)
PutBack == IF state[current] = "RUNNING" THEN Append(queue, current) ELSE queue

Chosen == IF PutBack = <<>> THEN Idle ELSE Head(PutBack)
Rest == IF PutBack = <<>> THEN <<>> ELSE Tail(PutBack)

MutStayOn_NoEOI(served) ==
  /\ queue' = Rest
  /\ state' = [state EXCEPT ![current] = IF @ = "RUNNING" THEN "READY" ELSE @]
  /\ inService' = served
  /\ UNCHANGED <<current, resume, IF_>>

(* The same process again: no switch, no change back to RUNNING, and on to *)
(* the EOI.                                                                *)
StayOn(served) ==
  /\ queue' = Rest
  /\ state' = [state EXCEPT ![current] = IF @ = "RUNNING" THEN "READY" ELSE @]
  /\ inService' = EOI(served)
  /\ UNCHANGED <<current, resume, IF_>>

-----------------------------------------------------------------------------
(* The hardware. *)
TimerFires ==
  /\ irr' = irr \cup {Timer}
  /\ UNCHANGED <<inService, IF_, sched, where, left, keys, parity>>

KeyPressed ==
  /\ irr' = irr \cup {Keyboard}
  /\ UNCHANGED <<inService, IF_, sched, where, left, keys, parity>>

(* irq0: timer_callback counts the tick, calls scheduler_tick, sends EOI.  *)
(* When the quantum is over scheduler_tick calls schedule(), and the EOI   *)
(* waits until this process is resumed.                                    *)
TimerInterrupt ==
  /\ Deliverable(Timer)
  /\ irr' = irr \ {Timer}
  /\ parity' = 1 - parity
  /\ left' = [p \in All |-> IF left[p] > 0 THEN left[p] - 1 ELSE 0]
  /\ LET n == IF remaining[current] > 0 THEN remaining[current] - 1 ELSE 0
         served == inService \cup {Timer}
     IN IF n # 0
        THEN /\ remaining' = [remaining EXCEPT ![current] = n]
             /\ inService' = EOI(served)
             /\ UNCHANGED <<current, queue, state, resume, IF_>>
        ELSE /\ remaining' = [remaining EXCEPT ![current] = Quantum]
             /\ IF Chosen = current
                THEN StayOn(served)
                ELSE SwitchTo(Chosen, Rest, "tick", served)
  /\ UNCHANGED <<where, keys>>

(* irq1: keyboard_callback stores the character and sends no EOI. *)
KeyboardInterrupt ==
  /\ Deliverable(Keyboard)
  /\ irr' = irr \ {Keyboard}
  /\ inService' = inService \cup {Keyboard}
  /\ keys' = IF keys < MaxKeys THEN keys + 1 ELSE keys
  /\ UNCHANGED <<IF_, sched, where, left, parity>>

-----------------------------------------------------------------------------
(* Programs.  A system call runs with IF clear until it returns; sleep_ms  *)
(* called by the kernel's own test processes leaves it set.                *)
May(p, call) == p = current /\ p \in Procs /\ where[p] = "program" /\ call \in Does[p]

sleep_ms(p, how) ==
  /\ where' = [where EXCEPT ![p] = how]
  /\ left' = [left EXCEPT ![p] = SleepTicks]
  /\ UNCHANGED <<irr, inService, sched, keys, parity>>

Nap(p) == May(p, "nap") /\ sleep_ms(p, "nap") /\ UNCHANGED IF_

MutSleep_FlagSet(p) == May(p, "sleep") /\ sleep_ms(p, "sleep") /\ UNCHANGED IF_

sys_sleep(p) == May(p, "sleep") /\ sleep_ms(p, "sleep") /\ IF_' = FALSE

(* The loop of sleep_ms ends when the clock has advanced. *)
SleepOver(p) ==
  /\ p = current /\ where[p] \in {"nap", "sleep"} /\ left[p] = 0
  /\ where' = [where EXCEPT ![p] = "program"]
  /\ IF_' = TRUE
  /\ UNCHANGED <<irr, inService, sched, left, keys, parity>>

sys_read(p) ==
  /\ May(p, "read")
  /\ where' = [where EXCEPT ![p] = "read"]
  /\ IF_' = FALSE
  /\ UNCHANGED <<irr, inService, sched, left, keys, parity>>

ReadOver(p) ==
  /\ p = current /\ where[p] = "read" /\ keys > 0
  /\ keys' = keys - 1
  /\ where' = [where EXCEPT ![p] = "program"]
  /\ IF_' = TRUE
  /\ UNCHANGED <<irr, inService, sched, left, parity>>

(* process_exit: schedule() from outside an interrupt. *)
process_exit(p) ==
  /\ May(p, "exit")
  /\ LET next == IF queue = <<>> THEN Idle ELSE Head(queue)
     IN /\ current' = next
        /\ queue' = IF queue = <<>> THEN <<>> ELSE Tail(queue)
        /\ state' = [state EXCEPT ![p] = "TERMINATED", ![next] = "RUNNING"]
        /\ inService' = Resumed(next, inService)
        /\ IF_' = (where[next] \in {"program", "nap"})
  /\ UNCHANGED <<irr, remaining, resume, where, left, keys, parity>>

(* The loop of kernel_main takes the characters nobody reads. *)
IdleLoop ==
  /\ current = Idle /\ keys > 0
  /\ keys' = keys - 1
  /\ UNCHANGED <<irr, inService, IF_, sched, where, left, parity>>

Program(p) ==
  Nap(p) \/ sys_sleep(p) \/ SleepOver(p) \/ sys_read(p) \/ ReadOver(p) \/ process_exit(p)

Next ==
  \/ TimerFires \/ KeyPressed
  \/ TimerInterrupt \/ KeyboardInterrupt
  \/ IdleLoop
  \/ \E p \in Procs : Program(p)

(* scheduler_enable has switched from kernel_main to the first process. *)
Init ==
  /\ irr = {} /\ inService = {} /\ IF_ = TRUE
  /\ current = 1 /\ queue = [i \in 1 .. N - 1 |-> i + 1]
  /\ state = [p \in All |-> IF p = 1 THEN "RUNNING" ELSE "READY"]
  /\ remaining = [p \in All |-> IF p = Idle THEN 1 ELSE Quantum]
  /\ resume = [p \in All |-> IF p = Idle THEN "enable" ELSE "entry"]
  /\ where = [p \in All |-> "program"]
  /\ left = [p \in All |-> 0]
  /\ keys = 0 /\ parity = 0

(* The PIT runs, the PIC delivers what it may, and a running program that  *)
(* can go on does.  Key presses are up to the user.                        *)
Fairness ==
  /\ WF_vars(TimerFires) /\ WF_vars(TimerInterrupt) /\ WF_vars(KeyboardInterrupt)
  /\ WF_vars(IdleLoop)
  /\ \A p \in Procs : WF_vars(SleepOver(p)) /\ WF_vars(ReadOver(p))

Spec == Init /\ [][Next]_vars /\ Fairness

-----------------------------------------------------------------------------
(* IRQ0 is in service exactly while one other process is suspended inside  *)
(* timer_callback ahead of its outb, and there is never a second one: a    *)
(* process that a tick preempts takes the timer with it until it runs      *)
(* again, which only an exit can bring about.                              *)
Owing == {p \in All \ {current} : resume[p] = "tick" /\ state[p] = "READY"}

EoiIsOwed ==
  /\ Timer \in inService <=> Owing # {}
  /\ \A p, q \in Owing : p = q

(* A process runs with interrupts off only in a system call, and only the  *)
(* running process can be in one: no switch leaves a half-done call behind *)
(* or carries a cleared flag into another process.                         *)
FlagMatchesCall ==
  /\ IF_ <=> where[current] \in {"program", "nap"}
  /\ \A p \in All \ {current} : where[p] \in {"program", "nap"}

-----------------------------------------------------------------------------
(* What follows is said by comments of the code and refuted by TLC for the *)
(* code as it is (README, section 4).                                      *)

(* "Send End of Interrupt to PIC": the clock goes on, so that time passes  *)
(* and processes are preempted.                                            *)
TicksContinue == []<>(parity = 0) /\ []<>(parity = 1)

(* "Enable IRQ0 (timer) and IRQ1 (keyboard)": while the timer goes on, a   *)
(* key that is pressed is delivered to keyboard_callback.                  *)
KeysDelivered == TicksContinue => (Keyboard \in irr ~> Keyboard \notin irr)

(* "Sleep for specified milliseconds": a sleeping process goes on.         *)
SleepReturns == \A p \in Procs : where[p] = "sleep" ~> where[p] = "program"

(* "Block until we have input": a reader goes on once a key is pressed.    *)
ReadReturns ==
  \A p \in Procs : (where[p] = "read" /\ Keyboard \in irr) ~> where[p] = "program"
=============================================================================
