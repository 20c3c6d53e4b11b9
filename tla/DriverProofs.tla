---------------------------- MODULE DriverProofs ----------------------------
(***************************************************************************)
(* The drivers, for every number of processes and every size of buffer and *)
(* screen: interrupts, the keyboard ring and the terminals.                *)
(***************************************************************************)
EXTENDS Interrupts, Keyboard, Terminal, Vt, SequenceTheorems, TLAPS

(* Interrupts, the PIC and the scheduler. *)

(* What the queue holds: ready processes, each once, never the running one. *)
QueueOK ==
  /\ \A i \in 1 .. Len(queue) : queue[i] # current /\ state[queue[i]] = "READY"
  /\ \A i, j \in 1 .. Len(queue) : queue[i] = queue[j] => i = j
  /\ state[current] # "TERMINATED"
  /\ current # Idle => state[Idle] = "READY"

InterruptInv == TypeOK /\ QueueOK /\ EoiIsOwed /\ FlagMatchesCall

-----------------------------------------------------------------------------
(* The queue with the running process put back holds no process twice. *)
LEMMA PutBackFacts ==
  ASSUME InterruptInv
  PROVE  /\ PutBack \in Seq(All)
         /\ \A i \in 1 .. Len(PutBack) :
              \/ PutBack[i] = current /\ state[current] = "RUNNING"
              \/ PutBack[i] # current /\ state[PutBack[i]] = "READY"
         /\ \A i, j \in 1 .. Len(PutBack) : PutBack[i] = PutBack[j] => i = j
<1>1. queue \in Seq(All) /\ current \in All
  BY DEF InterruptInv, TypeOK
<1>2. CASE state[current] = "RUNNING"
  <2> DEFINE q == Append(queue, current)
  <2>1. PutBack = q
    BY <1>2 DEF PutBack
  <2>2. /\ q \in Seq(All) /\ Len(q) = Len(queue) + 1 /\ Len(queue) \in Nat
        /\ \A i \in 1 .. Len(queue) : q[i] = queue[i]
        /\ q[Len(queue) + 1] = current
    BY <1>1
  <2> HIDE DEF q
  <2>3. \A i \in 1 .. Len(q) : i \in 1 .. Len(queue) \/ i = Len(queue) + 1
    BY <2>2
  <2>4. \A i \in 1 .. Len(q) :
          \/ q[i] = current /\ i = Len(queue) + 1
          \/ q[i] # current /\ state[q[i]] = "READY" /\ i \in 1 .. Len(queue) /\ q[i] = queue[i]
    BY <2>2, <2>3 DEF InterruptInv, QueueOK
  <2>5. \A i, j \in 1 .. Len(q) : q[i] = q[j] => i = j
    BY <2>4 DEF InterruptInv, QueueOK
  <2> QED BY <1>2, <2>1, <2>2, <2>4, <2>5
<1>3. CASE state[current] # "RUNNING"
  BY <1>1, <1>3 DEF PutBack, InterruptInv, QueueOK
<1> QED BY <1>2, <1>3

(* The chosen process, and what stays in the queue. *)
LEMMA ChosenFacts ==
  ASSUME InterruptInv
  PROVE  /\ Chosen \in All /\ Rest \in Seq(All)
         /\ Chosen # current => state[Chosen] = "READY"
         /\ \A i \in 1 .. Len(Rest) :
              /\ Rest[i] # Chosen
              /\ \/ Rest[i] = current /\ state[current] = "RUNNING"
                 \/ Rest[i] # current /\ state[Rest[i]] = "READY"
         /\ \A i, j \in 1 .. Len(Rest) : Rest[i] = Rest[j] => i = j
<1> DEFINE q == PutBack
<1>1. /\ q \in Seq(All)
      /\ \A i \in 1 .. Len(q) :
              \/ q[i] = current /\ state[current] = "RUNNING"
              \/ q[i] # current /\ state[q[i]] = "READY"
      /\ \A i, j \in 1 .. Len(q) : q[i] = q[j] => i = j
  BY PutBackFacts
<1> HIDE DEF q
<1>2. CASE q = <<>>
  <2>1. Chosen = Idle /\ Rest = <<>>
    BY <1>2 DEF Chosen, Rest, q
  <2>2. Idle \in All /\ (current # Idle => state[Idle] = "READY")
    BY DEF All, InterruptInv, QueueOK
  <2> QED BY <2>1, <2>2
<1>3. CASE q # <<>>
  <2>1. Chosen = Head(q) /\ Rest = Tail(q)
    BY <1>3 DEF Chosen, Rest, q
  <2>2. /\ Head(q) = q[1] /\ q[1] \in All /\ Tail(q) \in Seq(All)
        /\ Len(q) \in Nat \ {0} /\ Len(Tail(q)) = Len(q) - 1
        /\ \A i \in 1 .. Len(Tail(q)) : Tail(q)[i] = q[i + 1]
    BY <1>1, <1>3
  <2>3. 1 \in 1 .. Len(q) /\ \A i \in 1 .. Len(Tail(q)) : i \in Nat /\ i + 1 \in 1 .. Len(q) /\ i + 1 # 1
    BY <2>2
  <2>4. \A i, j \in 1 .. Len(Tail(q)) : Tail(q)[i] = Tail(q)[j] => i = j
    <3> SUFFICES ASSUME NEW i \in 1 .. Len(Tail(q)), NEW j \in 1 .. Len(Tail(q)),
                        Tail(q)[i] = Tail(q)[j]
                 PROVE  i = j
      OBVIOUS
    <3>1. q[i + 1] = q[j + 1]
      BY <2>2
    <3>2. i + 1 = j + 1
      BY <1>1, <2>3, <3>1
    <3> QED BY <2>3, <3>2
  <2>5. \A i \in 1 .. Len(Tail(q)) : Tail(q)[i] # q[1]
    BY <1>1, <2>2, <2>3
  <2> QED BY <1>1, <2>1, <2>2, <2>3, <2>4, <2>5
<1> QED BY <1>2, <1>3

-----------------------------------------------------------------------------
LEMMA InitInterruptInv ==
  ASSUME Init
  PROVE  InterruptInv
<1> USE ConstantsAssumption
<1>1. /\ Idle \in All /\ 1 \in All /\ 1 # Idle
      /\ \A i \in 1 .. N - 1 : i + 1 \in All /\ i + 1 # 1
  BY DEF All, Procs, Idle
<1>2. /\ queue \in Seq(All) /\ Len(queue) = N - 1
      /\ \A i \in 1 .. N - 1 : queue[i] = i + 1
  BY <1>1 DEF Init
<1>3. TypeOK
  BY <1>1, <1>2 DEF Init, TypeOK, Timer, Keyboard
<1>4. QueueOK
  <2>1. \A i \in 1 .. N - 1 : queue[i] # current /\ state[queue[i]] = "READY"
    BY <1>1, <1>2 DEF Init
  <2>2. \A i, j \in 1 .. N - 1 : queue[i] = queue[j] => i = j
    BY <1>2
  <2>3. state[current] # "TERMINATED" /\ state[Idle] = "READY"
    BY <1>1 DEF Init
  <2> QED BY <1>2, <2>1, <2>2, <2>3 DEF QueueOK
<1>5. EoiIsOwed
  <2>1. Owing = {}
    BY DEF Init, Owing
  <2> QED BY <2>1 DEF Init, EoiIsOwed
<1>6. FlagMatchesCall
  BY <1>1 DEF Init, FlagMatchesCall
<1> QED BY <1>3, <1>4, <1>5, <1>6 DEF InterruptInv

(* Steps that neither switch nor touch the timer's in-service bit. *)
LEMMA NoSwitchInterruptInv ==
  ASSUME InterruptInv, UNCHANGED sched, TypeOK',
         Timer \in inService' <=> Timer \in inService,
         FlagMatchesCall'
  PROVE  InterruptInv'
<1>1. QueueOK'
  BY DEF InterruptInv, QueueOK, sched
<1>2. Owing' = Owing
  BY DEF Owing, sched
<1> QED BY <1>1, <1>2 DEF InterruptInv, EoiIsOwed

LEMMA TimerInterruptInv ==
  ASSUME InterruptInv, TimerInterrupt
  PROVE  InterruptInv'
<1> USE ConstantsAssumption
<1> DEFINE served == inService \cup {Timer}
           n == IF remaining[current] > 0 THEN remaining[current] - 1 ELSE 0
<1>1. /\ TypeOK /\ QueueOK /\ FlagMatchesCall
      /\ current \in All
      /\ IF_ /\ where[current] \in {"program", "nap"}
      /\ \A p \in All : where[p] \in {"program", "nap"}
      /\ n \in 0 .. Quantum
  BY DEF InterruptInv, TypeOK, TimerInterrupt, Deliverable, FlagMatchesCall
<1>2. Timer \notin inService /\ Owing = {}
  BY DEF InterruptInv, TypeOK, EoiIsOwed, TimerInterrupt, Deliverable, Timer, Keyboard
<1>3. /\ irr' \subseteq {Timer, Keyboard} /\ parity' \in 0 .. 1
      /\ left' \in [All -> 0 .. SleepTicks]
      /\ where' = where /\ keys' = keys
  BY <1>1 DEF TypeOK, TimerInterrupt
<1>4. EOI(served) = inService /\ served \subseteq {Timer, Keyboard} /\ Timer \in served
  BY <1>1, <1>2 DEF EOI, TypeOK
<1>5. CASE n # 0
  <2>1. /\ remaining' = [remaining EXCEPT ![current] = n]
        /\ inService' = inService
        /\ UNCHANGED <<current, queue, state, resume, IF_>>
    BY <1>4, <1>5 DEF TimerInterrupt
  <2>2. TypeOK'
    BY <1>1, <1>3, <2>1 DEF TypeOK
  <2>3. Owing' = Owing
    BY <2>1 DEF Owing
  <2> QED BY <1>1, <1>3, <2>1, <2>2, <2>3 DEF InterruptInv, QueueOK, EoiIsOwed, FlagMatchesCall
<1>6. CASE n = 0 /\ Chosen = current
  <2>1. /\ remaining' = [remaining EXCEPT ![current] = Quantum]
        /\ queue' = Rest
        /\ state' = [state EXCEPT ![current] = IF @ = "RUNNING" THEN "READY" ELSE @]
        /\ inService' = inService
        /\ UNCHANGED <<current, resume, IF_>>
    BY <1>4, <1>6 DEF TimerInterrupt, StayOn
  <2>2. TypeOK'
    BY <1>1, <1>3, <2>1, ChosenFacts DEF TypeOK
  <2>3. Owing' = Owing
    BY <1>1, <2>1 DEF Owing, TypeOK
  <2>4. QueueOK'
    BY <1>1, <1>6, <2>1, ChosenFacts DEF QueueOK, TypeOK
  <2> QED BY <1>1, <1>3, <2>1, <2>2, <2>3, <2>4 DEF InterruptInv, EoiIsOwed, FlagMatchesCall
<1>7. CASE n = 0 /\ Chosen # current
  <2>1. /\ remaining' = [remaining EXCEPT ![current] = Quantum]
        /\ current' = Chosen
        /\ queue' = Rest
        /\ state' = [state EXCEPT ![current] = IF @ = "RUNNING" THEN "READY" ELSE @,
                                  ![Chosen] = "RUNNING"]
        /\ resume' = [resume EXCEPT ![current] = "tick"]
        /\ inService' = Resumed(Chosen, served)
        /\ IF_' = (where[Chosen] \in {"program", "nap"})
    BY <1>7 DEF TimerInterrupt, SwitchTo
  <2>2. Chosen \in All /\ Rest \in Seq(All) /\ state[Chosen] = "READY"
    BY <1>7, ChosenFacts
  <2>3. resume[Chosen] # "tick"
    BY <1>2, <1>7, <2>2 DEF Owing
  <2>4. inService' = served
    BY <2>1, <2>3 DEF Resumed
  <2>5. IF_' = TRUE
    BY <1>1, <2>1, <2>2, Zenon
  <2>6. TypeOK'
    <3>1. state' \in [All -> {"READY", "RUNNING", "TERMINATED"}]
      <4>1. state[current] \in {"READY", "RUNNING", "TERMINATED"}
        BY <1>1 DEF TypeOK
      <4> QED BY <1>1, <2>1, <2>2, <4>1, Zenon DEF TypeOK
    <3>3. remaining' \in [All -> 0 .. Quantum]
      BY <1>1, <2>1 DEF TypeOK
    <3>2. resume' \in [All -> {"entry", "tick", "enable"}]
      BY <1>1, <2>1 DEF TypeOK
    <3> QED BY <1>1, <1>3, <1>4, <2>1, <2>2, <2>4, <2>5, <3>1, <3>2, <3>3, Zenon DEF TypeOK
  <2>7. state[current] # "TERMINATED" /\ state[current] \in {"READY", "RUNNING", "TERMINATED"}
    BY <1>1 DEF TypeOK, QueueOK
  <2>8. /\ state'[current] = "READY" /\ state'[Chosen] = "RUNNING"
        /\ \A p \in All \ {current, Chosen} : state'[p] = state[p] /\ resume'[p] = resume[p]
        /\ resume'[current] = "tick"
    BY <1>1, <1>7, <2>1, <2>2, <2>7 DEF TypeOK
  <2>9. QueueOK'
    <3>1. \A i \in 1 .. Len(Rest) : Rest[i] \in All /\ Rest[i] # Chosen /\ state'[Rest[i]] = "READY"
      BY <2>2, <2>8, ChosenFacts
    <3>2. Idle \in All /\ (Chosen # Idle => state'[Idle] = "READY")
      BY <1>1, <2>8 DEF QueueOK, All
    <3> QED BY <2>1, <2>8, <3>1, <3>2, ChosenFacts, ZenonT(30) DEF QueueOK
  <2>10. Owing' = {current}
    <3>1. \A p \in All \ {current, Chosen} : ~ (resume'[p] = "tick" /\ state'[p] = "READY")
      BY <1>2, <2>8 DEF Owing
    <3>2. Owing' = {p \in All \ {Chosen} : resume'[p] = "tick" /\ state'[p] = "READY"}
      BY <2>1 DEF Owing
    <3> QED BY <1>1, <1>7, <2>8, <3>1, <3>2
  <2>11. EoiIsOwed'
    BY <1>4, <2>4, <2>10 DEF EoiIsOwed
  <2>12. FlagMatchesCall'
    BY <1>1, <1>3, <2>1, <2>2, <2>5 DEF FlagMatchesCall
  <2> QED BY <2>6, <2>9, <2>11, <2>12 DEF InterruptInv
<1> QED BY <1>5, <1>6, <1>7

LEMMA ExitInterruptInv ==
  ASSUME InterruptInv, NEW p \in Procs, process_exit(p)
  PROVE  InterruptInv'
<1> DEFINE next == IF queue = <<>> THEN Idle ELSE Head(queue)
           rest == IF queue = <<>> THEN <<>> ELSE Tail(queue)
<1>1. /\ p = current /\ p \in All /\ p # Idle /\ where[p] = "program"
      /\ current' = next /\ queue' = rest
      /\ state' = [state EXCEPT ![p] = "TERMINATED", ![next] = "RUNNING"]
      /\ inService' = Resumed(next, inService)
      /\ IF_' = (where[next] \in {"program", "nap"})
      /\ UNCHANGED <<irr, remaining, resume, where, left, keys, parity>>
  BY DEF process_exit, May, All, Procs, Idle
<1>2. TypeOK /\ QueueOK /\ FlagMatchesCall /\ EoiIsOwed
  BY DEF InterruptInv
<1>3. /\ next \in All /\ next # p /\ state[next] = "READY"
      /\ rest \in Seq(All)
      /\ \A i \in 1 .. Len(rest) : rest[i] \in All /\ rest[i] # next /\ rest[i] # p /\ state[rest[i]] = "READY"
      /\ \A i, j \in 1 .. Len(rest) : rest[i] = rest[j] => i = j
  <2>1. CASE queue = <<>>
    BY <1>1, <1>2, <2>1 DEF QueueOK, All
  <2>2. CASE queue # <<>>
    <3>1. /\ queue \in Seq(All) /\ Len(queue) \in Nat \ {0}
          /\ next = queue[1] /\ queue[1] \in All
          /\ rest = Tail(queue) /\ rest \in Seq(All) /\ Len(rest) = Len(queue) - 1
          /\ \A i \in 1 .. Len(rest) : rest[i] = queue[i + 1] /\ queue[i + 1] \in All
      BY <1>2, <2>2 DEF TypeOK
    <3>2. 1 \in 1 .. Len(queue) /\ \A i \in 1 .. Len(rest) : i \in Nat /\ i + 1 \in 1 .. Len(queue) /\ i + 1 # 1
      BY <3>1
    <3>3. \A i, j \in 1 .. Len(rest) : rest[i] = rest[j] => i = j
      <4> SUFFICES ASSUME NEW i \in 1 .. Len(rest), NEW j \in 1 .. Len(rest), rest[i] = rest[j]
                   PROVE  i = j
        BY Zenon
      <4>1. i + 1 = j + 1
        BY <1>2, <3>1, <3>2 DEF QueueOK
      <4> QED BY <3>2, <4>1
    <3>4. \A i \in 1 .. Len(rest) : rest[i] # next /\ rest[i] # p /\ state[rest[i]] = "READY"
      BY <1>1, <1>2, <3>1, <3>2 DEF QueueOK
    <3>5. next # p /\ state[next] = "READY"
      BY <1>1, <1>2, <3>1, <3>2 DEF QueueOK
    <3> QED BY <3>1, <3>3, <3>4, <3>5
  <2> QED BY <2>1, <2>2, Zenon
<1> HIDE DEF next, rest
<1>4. IF_' = TRUE /\ where[next] \in {"program", "nap"}
  BY <1>1, <1>2, <1>3, Zenon DEF FlagMatchesCall
<1>5. inService' \subseteq {Timer, Keyboard}
  BY <1>1, <1>2 DEF TypeOK, Resumed, EOI
<1>6. TypeOK'
  BY <1>1, <1>2, <1>3, <1>4, <1>5, Zenon DEF TypeOK
<1>7. /\ state'[p] = "TERMINATED" /\ state'[next] = "RUNNING"
      /\ \A q \in All \ {p, next} : state'[q] = state[q]
  BY <1>1, <1>2, <1>3 DEF TypeOK
<1>8. QueueOK'
  <2>1. \A i \in 1 .. Len(rest) : rest[i] # next /\ state'[rest[i]] = "READY"
    BY <1>3, <1>7
  <2>2. Idle \in All /\ (next # Idle => state'[Idle] = "READY")
    BY <1>1, <1>2, <1>7, Zenon DEF QueueOK, All
  <2> QED BY <1>1, <1>3, <1>7, <2>1, <2>2, Zenon DEF QueueOK
<1>9. Owing' = Owing \ {next}
  BY <1>1, <1>3, <1>7, Zenon DEF Owing
<1>10. EoiIsOwed'
  <2>1. CASE resume[next] = "tick"
    <3>1. next \in Owing
      BY <1>1, <1>3, <2>1 DEF Owing
    <3>2. Owing = {next} /\ Timer \in inService
      BY <1>2, <3>1 DEF EoiIsOwed
    <3>3. inService' = inService \ {Timer}
      BY <1>1, <2>1, <3>2 DEF Resumed, EOI
    <3> QED BY <1>9, <3>2, <3>3 DEF EoiIsOwed
  <2>2. CASE resume[next] # "tick"
    <3>1. Owing' = Owing /\ inService' = inService
      BY <1>1, <1>9, <2>2, Zenon DEF Owing, Resumed
    <3> QED BY <1>2, <3>1 DEF EoiIsOwed
  <2> QED BY <2>1, <2>2
<1>11. FlagMatchesCall'
  BY <1>1, <1>2, <1>4 DEF FlagMatchesCall
<1> QED BY <1>6, <1>8, <1>10, <1>11 DEF InterruptInv

LEMMA NextInterruptInv ==
  ASSUME InterruptInv, [Next]_vars
  PROVE  InterruptInv'
<1> USE ConstantsAssumption
<1>0. TypeOK /\ FlagMatchesCall
  BY DEF InterruptInv
<1>1. CASE TimerFires
  BY <1>0, <1>1, NoSwitchInterruptInv DEF TimerFires, TypeOK, FlagMatchesCall, sched
<1>2. CASE KeyPressed
  BY <1>0, <1>2, NoSwitchInterruptInv DEF KeyPressed, TypeOK, FlagMatchesCall, sched
<1>3. CASE TimerInterrupt
  BY <1>3, TimerInterruptInv
<1>4. CASE KeyboardInterrupt
  <2>1. TypeOK' /\ FlagMatchesCall' /\ UNCHANGED sched
    BY <1>0, <1>4 DEF KeyboardInterrupt, TypeOK, FlagMatchesCall, sched
  <2>2. Timer \in inService' <=> Timer \in inService
    BY <1>4 DEF KeyboardInterrupt, Timer, Keyboard
  <2> QED BY <2>1, <2>2, NoSwitchInterruptInv
<1>5. CASE IdleLoop
  BY <1>0, <1>5, NoSwitchInterruptInv DEF IdleLoop, TypeOK, FlagMatchesCall, sched
<1>6. ASSUME NEW p \in Procs, Program(p)
      PROVE  InterruptInv'
  <2>0. p \in All
    BY DEF All
  <2>1. CASE Nap(p)
    BY <1>0, <2>0, <2>1, NoSwitchInterruptInv DEF Nap, May, sleep_ms, TypeOK, FlagMatchesCall, sched
  <2>2. CASE sys_sleep(p)
    <3>0. /\ IF_' = FALSE /\ where' = [where EXCEPT ![p] = "sleep"]
          /\ left' = [left EXCEPT ![p] = SleepTicks]
          /\ UNCHANGED <<irr, inService, sched, keys, parity>>
      BY <2>2 DEF sys_sleep, sleep_ms
    <3>1. TypeOK' /\ UNCHANGED <<sched, inService>>
      <4>1. where' \in [All -> {"program", "nap", "sleep", "read"}]
        BY <1>0, <3>0, Zenon DEF TypeOK
      <4>0. SleepTicks \in 0 .. SleepTicks
        OBVIOUS
      <4>2. left' \in [All -> 0 .. SleepTicks]
        BY <1>0, <3>0, <4>0, Zenon DEF TypeOK
      <4>3. UNCHANGED <<irr, inService, current, queue, state, remaining, resume, keys, parity>>
        BY <3>0 DEF sched
      <4>4. IF_' \in BOOLEAN
        BY <3>0, Zenon
      <4> QED BY <1>0, <3>0, <4>1, <4>2, <4>3, <4>4 DEF TypeOK
    <3>2. FlagMatchesCall'
      BY <1>0, <2>0, <2>2 DEF sys_sleep, May, sleep_ms, TypeOK, FlagMatchesCall, sched
    <3> QED BY <3>1, <3>2, NoSwitchInterruptInv
  <2>3. CASE SleepOver(p)
    BY <1>0, <2>0, <2>3, NoSwitchInterruptInv DEF SleepOver, TypeOK, FlagMatchesCall, sched
  <2>4. CASE sys_read(p)
    BY <1>0, <2>0, <2>4, NoSwitchInterruptInv, Zenon DEF sys_read, May, TypeOK, FlagMatchesCall, sched
  <2>5. CASE ReadOver(p)
    BY <1>0, <2>0, <2>5, NoSwitchInterruptInv DEF ReadOver, TypeOK, FlagMatchesCall, sched
  <2>6. CASE process_exit(p)
    BY <2>6, ExitInterruptInv
  <2> QED BY <1>6, <2>1, <2>2, <2>3, <2>4, <2>5, <2>6 DEF Program
<1>7. CASE UNCHANGED vars
  BY <1>0, <1>7, NoSwitchInterruptInv DEF vars, TypeOK, FlagMatchesCall, sched
<1> QED BY <1>1, <1>2, <1>3, <1>4, <1>5, <1>6, <1>7 DEF Next

(* For any number of processes and any programs: the timer interrupt is in *)
(* service exactly while one suspended process owes its EOI.               *)
THEOREM TimerBlockedByOne == Spec => []EoiIsOwed
<1>1. InterruptInv => EoiIsOwed
  BY DEF InterruptInv
<1> QED BY <1>1, InitInterruptInv, NextInterruptInv, PTL DEF Spec

(* Interrupts are off exactly while the running process is in a system     *)
(* call, and no other process is ever left inside one.                     *)
THEOREM FlagFollowsCalls == Spec => []FlagMatchesCall
<1>1. InterruptInv => FlagMatchesCall
  BY DEF InterruptInv
<1> QED BY <1>1, InitInterruptInv, NextInterruptInv, PTL DEF Spec

-----------------------------------------------------------------------------
(* The keyboard ring. *)

(* A position advances by one and wraps at the end of the buffer. *)
LEMMA AdvanceWraps ==
  ASSUME NEW i \in Cells
  PROVE  /\ Advance(i) \in Cells
         /\ i < Size - 1 => Advance(i) = i + 1
         /\ i = Size - 1 => Advance(i) = 0
<1>1. CASE i < Size - 1
  BY <1>1, SizeAssumption DEF Advance, Cells
<1>2. CASE i = Size - 1
  <2>1. Size % Size = 0
    BY SizeAssumption
  <2>2. i + 1 = Size
    BY <1>2, SizeAssumption
  <2>3. Advance(i) = 0
    BY <2>1, <2>2 DEF Advance
  <2> QED
    BY <1>2, <2>3, SizeAssumption DEF Cells
<1> QED
  BY <1>1, <1>2, SizeAssumption DEF Cells

(* The characters a key can store. *)
LEMMA CodesAreChars ==
  /\ ESC \in Chars /\ "[" \in Chars /\ "tab" \in Chars /\ NoChar \in Chars
  /\ \A k \in Arrows : Letter[k] \in Chars
  /\ Letters \subseteq Chars
  BY DEF Chars, Letter, Arrows

(* The buffer holds fewer characters than it has cells. *)
LEMMA CountType ==
  ASSUME NEW b \in Rings
  PROVE  Count(b) \in 0 .. Size - 1
  BY SizeAssumption DEF Rings, Cells, Count

(* The cells between the two positions are cells of the buffer. *)
LEMMA ContentsType ==
  ASSUME NEW b \in Rings
  PROVE  /\ Contents(b) \in Seq(Chars)
         /\ Len(Contents(b)) = Count(b)
         /\ \A i \in 1 .. Count(b) : Contents(b)[i] = b.buffer[Cell(b, i - 1)]
<1>1. Count(b) \in Nat
  BY CountType, SizeAssumption
<1>2. \A i \in 1 .. Count(b) : Cell(b, i - 1) \in Cells
  BY SizeAssumption DEF Rings, Cells, Count, Cell
<1>3. \A j \in Cells : b.buffer[j] \in Chars
  BY DEF Rings
<1>4. \A i \in 1 .. Count(b) : b.buffer[Cell(b, i - 1)] \in Chars
  BY <1>2, <1>3
<1> QED
  BY <1>1, <1>4 DEF Contents

(* A full buffer is the one where the write position is just behind. *)
LEMMA FullTest ==
  ASSUME NEW b \in Rings
  PROVE  Advance(b.write) # b.read <=> Count(b) < Size - 1
<1>1. b.read \in Cells /\ b.write \in Cells
  BY DEF Rings
<1> QED
  BY <1>1, AdvanceWraps, SizeAssumption DEF Cells, Count

LEMMA PutType ==
  ASSUME NEW b \in Rings, NEW c \in Chars
  PROVE  Put(b, c) \in Rings
<1>1. b.write \in Cells /\ Advance(b.write) \in Cells
  BY AdvanceWraps DEF Rings
<1> QED
  BY <1>1, Zenon DEF Put, Rings

(* Put appends when there is room, and changes nothing when there is not. *)
LEMMA PutAppends ==
  ASSUME NEW b \in Rings, NEW c \in Chars, Count(b) < Size - 1
  PROVE  /\ Contents(Put(b, c)) = Append(Contents(b), c)
         /\ Count(Put(b, c)) = Count(b) + 1
<1> DEFINE d == Put(b, c)
<1>1. d = [b EXCEPT !.buffer[b.write] = c, !.write = Advance(@)]
  BY FullTest DEF Put
<1>2. d \in Rings
  BY PutType
<1>3. b.read \in Cells /\ b.write \in Cells /\ b.buffer \in [Cells -> Chars]
  BY DEF Rings
<1>4. /\ d.read = b.read /\ d.write = Advance(b.write)
      /\ d.buffer = [b.buffer EXCEPT ![b.write] = c]
  BY <1>1 DEF Rings
<1>5. Count(d) = Count(b) + 1
  <2> DEFINE w == Advance(b.write)
  <2>1. /\ w \in Cells
        /\ b.write < Size - 1 => w = b.write + 1
        /\ b.write = Size - 1 => w = 0
    BY <1>3, AdvanceWraps
  <2>2. w # b.read
    BY FullTest
  <2>3. Count(d) = IF w >= b.read THEN w - b.read ELSE w + Size - b.read
    BY <1>4 DEF Count
  <2> HIDE DEF w, d
  <2> QED
    BY <1>3, <2>1, <2>2, <2>3, SizeAssumption DEF Count, Cells
<1>6. \A i \in 1 .. Count(b) : Cell(d, i - 1) = Cell(b, i - 1) /\ Cell(b, i - 1) \in Cells /\ Cell(b, i - 1) # b.write
  BY <1>3, <1>4, SizeAssumption DEF Count, Cell, Cells
<1>7. Cell(d, Count(b)) = b.write
  BY <1>3, <1>4, SizeAssumption DEF Count, Cell, Cells
<1>8. \A i \in 1 .. Count(b) : d.buffer[Cell(d, i - 1)] = b.buffer[Cell(b, i - 1)]
  BY <1>3, <1>4, <1>6
<1>9. d.buffer[Cell(d, Count(b))] = c
  BY <1>3, <1>4, <1>7
<1> HIDE DEF d
<1>10. /\ Contents(b) \in Seq(Chars) /\ Contents(d) \in Seq(Chars)
       /\ Len(Contents(b)) = Count(b) /\ Len(Contents(d)) = Count(b) + 1
  BY <1>2, <1>5, ContentsType
<1>11. Count(b) \in Nat
  BY CountType, SizeAssumption
<1>12. \A i \in 1 .. Count(b) : Contents(d)[i] = Contents(b)[i]
  BY <1>2, <1>5, <1>8, <1>11, ContentsType
<1>13. Contents(d)[Count(b) + 1] = c
  BY <1>2, <1>5, <1>9, <1>11, ContentsType
<1>14. Contents(d) = Append(Contents(b), c)
  BY <1>10, <1>11, <1>12, <1>13
<1> QED
  BY <1>5, <1>14 DEF d

LEMMA PutFull ==
  ASSUME NEW b \in Rings, NEW c \in Chars, ~(Count(b) < Size - 1)
  PROVE  Put(b, c) = b
  BY FullTest DEF Put

(* The prefixes of a sequence of three, appended one by one. *)
LEMMA AppendPrefix ==
  ASSUME NEW S, NEW q \in Seq(S), NEW x \in S, NEW y \in S, NEW z \in S
  PROVE  /\ q \o SubSeq(<<x, y, z>>, 1, 0) = q
         /\ q \o SubSeq(<<x, y, z>>, 1, 1) = Append(q, x)
         /\ q \o SubSeq(<<x, y, z>>, 1, 2) = Append(Append(q, x), y)
         /\ q \o SubSeq(<<x, y, z>>, 1, 3) = Append(Append(Append(q, x), y), z)
<1>1. /\ SubSeq(<<x, y, z>>, 1, 0) = << >>
      /\ SubSeq(<<x, y, z>>, 1, 1) = <<x>>
      /\ SubSeq(<<x, y, z>>, 1, 2) = <<x, y>>
      /\ SubSeq(<<x, y, z>>, 1, 3) = <<x, y, z>>
  <2> DEFINE t == <<x, y, z>>
  <2>1. t \in Seq(S) /\ Len(t) = 3 /\ t[1] = x /\ t[2] = y /\ t[3] = z
    OBVIOUS
  <2> HIDE DEF t
  <2>2. SubSeq(t, 1, 0) = << >>
    BY <2>1
  <2>3. SubSeq(t, 1, 1) = <<x>>
    <3> DEFINE u == SubSeq(t, 1, 1)
    <3>1. u \in Seq(S) /\ Len(u) = 1 /\ \A i \in 1 .. 1 : u[i] = t[i]
      BY <2>1, SubSeqProperties
    <3> HIDE DEF u
    <3>2. u = <<x>>
      BY <2>1, <3>1
    <3> QED
      BY <3>2 DEF u
  <2>4. SubSeq(t, 1, 2) = <<x, y>>
    <3> DEFINE u == SubSeq(t, 1, 2)
    <3>1. u \in Seq(S) /\ Len(u) = 2 /\ \A i \in 1 .. 2 : u[i] = t[i]
      BY <2>1, SubSeqProperties
    <3> HIDE DEF u
    <3>2. u = <<x, y>>
      BY <2>1, <3>1
    <3> QED
      BY <3>2 DEF u
  <2>5. SubSeq(t, 1, 3) = <<x, y, z>>
    <3> DEFINE u == SubSeq(t, 1, 3)
    <3>1. u \in Seq(S) /\ Len(u) = 3 /\ \A i \in 1 .. 3 : u[i] = t[i]
      BY <2>1, SubSeqProperties
    <3> HIDE DEF u
    <3>2. u = <<x, y, z>>
      BY <2>1, <3>1
    <3> QED
      BY <3>2 DEF u
  <2> QED
    BY <2>2, <2>3, <2>4, <2>5 DEF t
<1>2. q \o << >> = q
  OBVIOUS
<1>3. q \o <<x>> = Append(q, x)
  OBVIOUS
<1>4. q \o <<x, y>> = Append(Append(q, x), y)
  OBVIOUS
<1>5. q \o <<x, y, z>> = Append(Append(Append(q, x), y), z)
  OBVIOUS
<1> QED
  BY <1>1, <1>2, <1>3, <1>4, <1>5, Zenon

(* An arrow key stores the prefix of its sequence that fits. *)
LEMMA ArrowPrefix ==
  ASSUME NEW b \in Rings, NEW k \in Arrows
  PROVE  /\ PutArrow(b, k) \in Rings
         /\ LET s == <<ESC, "[", Letter[k]>>
                room == Size - 1 - Count(b)
            IN Contents(PutArrow(b, k))
                 = Contents(b) \o SubSeq(s, 1, IF 3 <= room THEN 3 ELSE room)
<1> DEFINE b1 == Put(b, ESC)
           b2 == Put(b1, "[")
           b3 == Put(b2, Letter[k])
           room == Size - 1 - Count(b)
           s == <<ESC, "[", Letter[k]>>
           q == Contents(b)
           n == IF 3 <= room THEN 3 ELSE room
<1>1. ESC \in Chars /\ "[" \in Chars /\ Letter[k] \in Chars
  BY CodesAreChars
<1>2. b1 \in Rings /\ b2 \in Rings /\ b3 \in Rings
  BY <1>1, PutType
<1>3. Count(b) \in Nat /\ room \in Nat /\ q \in Seq(Chars)
  BY CountType, ContentsType, SizeAssumption
<1>4. PutArrow(b, k) = b3
  BY DEF PutArrow
<1>5. CASE room = 0
  <2>1. b1 = b
    BY <1>1, <1>3, <1>5, PutFull, SizeAssumption
  <2>2. b2 = b
    BY <1>1, <1>3, <1>5, <2>1, PutFull, SizeAssumption
  <2>3. b3 = b
    BY <1>1, <1>3, <1>5, <2>2, PutFull, SizeAssumption
  <2>4. Contents(b3) = q \o SubSeq(s, 1, n)
    BY <1>1, <1>3, <1>5, <2>3, AppendPrefix
  <2> QED
    BY <1>2, <1>4, <2>4, Zenon
<1>6. CASE room = 1
  <2>1. Contents(b1) = Append(q, ESC) /\ Count(b1) = Count(b) + 1
    BY <1>1, <1>3, <1>6, PutAppends, SizeAssumption
  <2>2. ~(Count(b1) < Size - 1)
    BY <1>3, <1>6, <2>1, SizeAssumption
  <2>3. b2 = b1
    BY <1>1, <1>2, <2>2, PutFull
  <2>4. b3 = b1
    BY <1>1, <1>2, <2>2, <2>3, PutFull
  <2>5. n = 1
    BY <1>6
  <2>6. q \o SubSeq(s, 1, 1) = Append(q, ESC)
    BY <1>1, <1>3, AppendPrefix
  <2> HIDE DEF b1, b2, b3, n, s, q
  <2>7. Contents(b3) = q \o SubSeq(s, 1, n)
    BY <2>1, <2>4, <2>5, <2>6
  <2> QED
    BY <1>2, <1>4, <2>7 DEF n, s, q
<1>7. room >= 2 => /\ Contents(b1) = Append(q, ESC) /\ Count(b1) = Count(b) + 1
                   /\ Contents(b2) = Append(Append(q, ESC), "[") /\ Count(b2) = Count(b) + 2
  <2> HAVE room >= 2
  <2>1. Contents(b1) = Append(q, ESC) /\ Count(b1) = Count(b) + 1
    BY <1>1, <1>3, PutAppends, SizeAssumption
  <2>2. Count(b1) < Size - 1
    BY <1>3, <2>1, SizeAssumption
  <2> HIDE DEF b1
  <2>3. Contents(b2) = Append(Contents(b1), "[") /\ Count(b2) = Count(b1) + 1
    BY <1>1, <1>2, <2>2, PutAppends
  <2> QED
    BY <1>3, <2>1, <2>3, SizeAssumption
<1>8. CASE room = 2
  <2>0. Contents(b2) = Append(Append(q, ESC), "[")
    BY <1>3, <1>7, <1>8
  <2>1. ~(Count(b2) < Size - 1)
    BY <1>3, <1>7, <1>8, SizeAssumption
  <2>2. b3 = b2
    BY <1>1, <1>2, <2>1, PutFull
  <2>3. n = 2
    BY <1>8
  <2>4. q \o SubSeq(s, 1, 2) = Append(Append(q, ESC), "[")
    BY <1>1, <1>3, AppendPrefix
  <2> HIDE DEF b1, b2, b3, n, s, q
  <2>5. Contents(b3) = q \o SubSeq(s, 1, n)
    BY <2>0, <2>2, <2>3, <2>4, Zenon
  <2> QED
    BY <1>2, <1>4, <2>5 DEF n, s, q
<1>9. CASE room >= 3
  <2>1. Count(b2) < Size - 1
    BY <1>3, <1>7, <1>9, SizeAssumption
  <2>2. Contents(b2) = Append(Append(q, ESC), "[")
    BY <1>3, <1>7, <1>9
  <2>3. n = 3
    BY <1>3, <1>9
  <2>4. q \o SubSeq(s, 1, 3) = Append(Append(Append(q, ESC), "["), Letter[k])
    <3> HIDE DEF q
    <3> QED
      BY <1>1, <1>3, AppendPrefix
  <2> HIDE DEF b1, b2
  <2>5. Contents(b3) = Append(Contents(b2), Letter[k])
    BY <1>1, <1>2, <2>1, PutAppends
  <2> HIDE DEF b3, n, s, q
  <2>6. Contents(b3) = q \o SubSeq(s, 1, n)
    BY <2>2, <2>3, <2>4, <2>5, Zenon
  <2> QED
    BY <1>2, <1>4, <2>6 DEF n, s, q
<1> HIDE DEF b1, b2, b3, q, s
<1>10. room = 0 \/ room = 1 \/ room = 2 \/ room >= 3
  BY <1>3
<1> QED
  BY <1>5, <1>6, <1>8, <1>9, <1>10

(* A read takes the oldest character. *)
LEMMA ReadTakesHead ==
  ASSUME NEW b \in Rings, b.read # b.write
  PROVE  LET d == [b EXCEPT !.read = Advance(@)]
         IN  /\ d \in Rings
             /\ Contents(b) # << >>
             /\ Head(Contents(b)) = b.buffer[b.read]
             /\ Tail(Contents(b)) = Contents(d)
<1> DEFINE d == [b EXCEPT !.read = Advance(@)]
<1>1. b.read \in Cells /\ b.write \in Cells /\ b.buffer \in [Cells -> Chars]
  BY DEF Rings
<1>2. /\ Advance(b.read) \in Cells
      /\ b.read < Size - 1 => Advance(b.read) = b.read + 1
      /\ b.read = Size - 1 => Advance(b.read) = 0
  BY <1>1, AdvanceWraps
<1>3. d \in Rings
  BY <1>2 DEF Rings
<1>4. d.read = Advance(b.read) /\ d.write = b.write /\ d.buffer = b.buffer
  BY DEF Rings
<1> HIDE DEF d
<1>5. Count(b) = Count(d) + 1 /\ Count(d) \in Nat
  BY <1>1, <1>2, <1>4, SizeAssumption, SMTT(20) DEF Count, Cells
<1>6. \A i \in 1 .. Count(d) : Cell(d, i - 1) = Cell(b, i)
  BY <1>1, <1>2, <1>4, SizeAssumption DEF Count, Cell, Cells
<1>7. Cell(b, 0) = b.read
  BY <1>1, SizeAssumption DEF Cell, Cells
<1>8. /\ Contents(b) \in Seq(Chars) /\ Len(Contents(b)) = Count(d) + 1
      /\ Contents(d) \in Seq(Chars) /\ Len(Contents(d)) = Count(d)
  BY <1>3, <1>5, ContentsType
<1>9. Contents(b)[1] = b.buffer[b.read]
  BY <1>5, <1>7, ContentsType
<1>10. \A i \in 1 .. Count(d) : Contents(d)[i] = Contents(b)[i + 1]
  <2> TAKE i \in 1 .. Count(d)
  <2>1. Contents(d)[i] = b.buffer[Cell(b, i)]
    BY <1>3, <1>4, <1>6, ContentsType
  <2>2. i + 1 \in 1 .. Count(b) /\ (i + 1) - 1 = i
    BY <1>5
  <2>3. Contents(b)[i + 1] = b.buffer[Cell(b, (i + 1) - 1)]
    BY <2>2, ContentsType
  <2> QED
    BY <2>1, <2>2, <2>3
<1>11. Contents(b) # << >> /\ Head(Contents(b)) = b.buffer[b.read]
  BY <1>5, <1>8, <1>9
<1>12. Tail(Contents(b)) = Contents(d)
  <2> DEFINE t == Tail(Contents(b))
  <2>1. t \in Seq(Chars) /\ Len(t) = Count(d)
    BY <1>5, <1>8, <1>11
  <2>2. \A i \in 1 .. Count(d) : t[i] = Contents(b)[i + 1]
    BY <1>5, <1>8, <1>11
  <2> HIDE DEF t
  <2>3. \A i \in 1 .. Count(d) : t[i] = Contents(d)[i]
    BY <1>10, <2>2
  <2>4. t = Contents(d)
    BY <1>5, <1>8, <2>1, <2>3
  <2> QED
    BY <2>4 DEF t
<1> QED
  BY <1>3, <1>11, <1>12 DEF d

LEMMA EmptyTest ==
  ASSUME NEW b \in Rings
  PROVE  b.read = b.write <=> Contents(b) = << >>
<1>1. b.read = b.write <=> Count(b) = 0
  BY SizeAssumption DEF Rings, Cells, Count
<1> QED
  BY <1>1, ContentsType

(* Storing one character of a key is a Press of the abstract queue. *)
LEMMA PutIsPress ==
  ASSUME NEW c \in Chars, KeyTypeOK, ring' = Put(ring, c), got' = got
  PROVE  Queue!Press(<<c>>) /\ ring' \in Rings
<1>1. ring \in Rings /\ ring' \in Rings
  BY PutType DEF KeyTypeOK
<1>2. /\ Contents(ring) \in Seq(Chars) /\ Len(Contents(ring)) = Count(ring)
      /\ Count(ring) \in 0 .. Size - 1
  BY <1>1, ContentsType, CountType
<1>3. Len(<<c>>) = 1
  OBVIOUS
<1>4. CASE Count(ring) < Size - 1
  <2>1. Contents(ring') = Append(Contents(ring), c)
    BY <1>1, <1>4, PutAppends
  <2>2. Queue!Room(<<c>>) = 1
    BY <1>2, <1>3, <1>4, SizeAssumption DEF Queue!Room
  <2>3. SubSeq(<<c>>, 1, 1) = <<c>>
    <3> DEFINE t == <<c>>
               u == SubSeq(t, 1, 1)
    <3>1. t[1] = c
      OBVIOUS
    <3>2. u \in Seq(Chars) /\ Len(u) = 1 /\ u[1] = t[1]
      BY SubSeqProperties
    <3> HIDE DEF u
    <3>3. u = <<c>>
      BY <3>1, <3>2
    <3> QED
      BY <3>3 DEF u
  <2>4. Contents(ring) \o <<c>> = Append(Contents(ring), c)
    BY <1>2
  <2> QED
    BY <1>1, <2>1, <2>2, <2>3, <2>4 DEF Queue!Press
<1>5. CASE ~(Count(ring) < Size - 1)
  <2>1. ring' = ring
    BY <1>1, <1>5, PutFull
  <2>2. Queue!Room(<<c>>) = 0
    BY <1>2, <1>3, <1>5, SizeAssumption DEF Queue!Room
  <2>3. SubSeq(<<c>>, 1, 0) = << >> /\ Contents(ring) \o << >> = Contents(ring)
    BY <1>2
  <2> QED
    BY <1>1, <2>1, <2>2, <2>3, Zenon DEF Queue!Press
<1> QED
  BY <1>4, <1>5

(* Every step of the driver keeps the types and is a step of the abstract  *)
(* queue: a Press of the key's sequence, a read, or a stutter.             *)
LEMMA StepImplements ==
  ASSUME KeyTypeOK, [NextKey]_keyVars
  PROVE  /\ KeyTypeOK'
         /\ [Queue!Next]_<<Contents(ring), got>>
<1> USE DEF KeyTypeOK
<1>1. ASSUME NEW k \in CtrlKeys \cup AltKeys, Modifier(k)
      PROVE  KeyTypeOK' /\ UNCHANGED <<Contents(ring), got>>
  BY <1>1, Zenon DEF Modifier, Effects
<1>2. ASSUME NEW f \in FKeys, Function(f)
      PROVE  KeyTypeOK' /\ UNCHANGED <<Contents(ring), got>>
  BY <1>2 DEF Function, Effects
<1>3. ASSUME NEW k \in Arrows, Arrow(k)
      PROVE  KeyTypeOK' /\ Queue!Next
  <2> DEFINE s == <<ESC, "[", Letter[k]>>
             room == Size - 1 - Count(ring)
  <2>1. /\ PutArrow(ring, k) \in Rings
        /\ Contents(PutArrow(ring, k))
             = Contents(ring) \o SubSeq(s, 1, IF 3 <= room THEN 3 ELSE room)
    BY ArrowPrefix, Zenon
  <2>2. Len(s) = 3 /\ Len(Contents(ring)) = Count(ring)
    BY ContentsType
  <2>3. s \in Codes
    BY DEF Codes
  <2> HIDE DEF s
  <2>4. Queue!Room(s) = IF 3 <= room THEN 3 ELSE room
    BY <2>2 DEF Queue!Room
  <2>5. ring' = PutArrow(ring, k) /\ got' = got
    BY <1>3 DEF Arrow
  <2>6. Queue!Press(s)
    BY <2>1, <2>4, <2>5, Zenon DEF Queue!Press
  <2>7. KeyTypeOK'
    BY <1>3, <2>1 DEF Arrow, Effects
  <2> QED
    BY <2>3, <2>6, <2>7 DEF Queue!Next
<1>4. ASSUME Tab
      PROVE  KeyTypeOK' /\ Queue!Next
  <2>1. Queue!Press(<<"tab">>) /\ ring' \in Rings
    BY <1>4, PutIsPress, CodesAreChars DEF Tab
  <2>2. <<"tab">> \in Codes
    BY DEF Codes
  <2>3. KeyTypeOK'
    BY <1>4, <2>1 DEF Tab, Effects
  <2> QED
    BY <2>1, <2>2, <2>3 DEF Queue!Next
<1>5. ASSUME CtrlC
      PROVE  KeyTypeOK' /\ UNCHANGED <<Contents(ring), got>>
  BY <1>5 DEF CtrlC, Effects
<1>6. ASSUME NEW k \in Letters, Character(k)
      PROVE  KeyTypeOK' /\ Queue!Next
  <2>1. Queue!Press(<<k>>) /\ ring' \in Rings
    BY <1>6, PutIsPress, CodesAreChars DEF Character
  <2>2. <<k>> \in Codes
    BY DEF Codes
  <2>3. KeyTypeOK'
    BY <1>6, <2>1, CodesAreChars DEF Character, Effects
  <2> QED
    BY <2>1, <2>2, <2>3 DEF Queue!Next
<1>7. ASSUME Ignored
      PROVE  KeyTypeOK' /\ UNCHANGED <<Contents(ring), got>>
  BY <1>7 DEF Ignored, Effects
<1>8. ASSUME keyboard_getchar
      PROVE  KeyTypeOK' /\ Queue!Next
  <2>1. CASE keyboard_has_char
    <3>1. ring' = [ring EXCEPT !.read = Advance(@)] /\ got' = ring.buffer[ring.read]
      BY <1>8, <2>1 DEF keyboard_getchar
    <3>2. /\ ring' \in Rings
          /\ Contents(ring) # << >>
          /\ Head(Contents(ring)) = ring.buffer[ring.read]
          /\ Tail(Contents(ring)) = Contents(ring')
      BY <2>1, <3>1, ReadTakesHead DEF keyboard_has_char
    <3>3. Queue!Read
      BY <3>1, <3>2 DEF Queue!Read
    <3>4. ring.buffer[ring.read] \in Chars
      BY DEF Rings
    <3> QED
      BY <1>8, <3>1, <3>2, <3>3, <3>4 DEF Queue!Next, keyboard_getchar
  <2>2. CASE ~keyboard_has_char
    <3>1. ring' = ring /\ got' = NoChar
      BY <1>8, <2>2 DEF keyboard_getchar
    <3>2. Contents(ring) = << >>
      BY <2>2, EmptyTest DEF keyboard_has_char
    <3>3. Queue!ReadNothing
      BY <3>1, <3>2 DEF Queue!ReadNothing, Queue!NoChar, NoChar
    <3> QED
      BY <1>8, <3>1, <3>3, CodesAreChars DEF Queue!Next, keyboard_getchar
  <2> QED
    BY <2>1, <2>2
<1>9. CASE UNCHANGED keyVars
  BY <1>9 DEF keyVars
<1> QED
  BY <1>1, <1>2, <1>3, <1>4, <1>5, <1>6, <1>7, <1>8, <1>9 DEF NextKey, keyboard_callback

(* The buffer starts empty. *)
LEMMA InitImplements ==
  ASSUME InitKeyboard
  PROVE  KeyTypeOK /\ Queue!Init
<1>1. ring = [buffer |-> [i \in Cells |-> NoChar], read |-> 0, write |-> 0]
  BY DEF InitKeyboard
<1>2. 0 \in Cells
  BY SizeAssumption DEF Cells
<1>3. ring \in Rings
  BY <1>1, <1>2, CodesAreChars DEF Rings
<1>4. KeyTypeOK
  BY <1>3, CodesAreChars, Zenon DEF InitKeyboard, KeyTypeOK, Effects
<1>5. Contents(ring) = << >>
  BY <1>1, <1>3, EmptyTest
<1> QED
  BY <1>4, <1>5 DEF InitKeyboard, Queue!Init, Queue!NoChar, NoChar

(* The keyboard driver implements a first-in first-out queue of Size - 1   *)
(* characters, for every buffer size and every set of keys: the positions  *)
(* kbd_read_pos and kbd_write_pos, which wrap, never lose, repeat or       *)
(* reorder a stored character.                                             *)
THEOREM KeyboardImplementsQueue == SpecKeyboard => ImplementsKeySpec
<1>1. InitKeyboard => KeyTypeOK /\ Queue!Init
  BY InitImplements
<1>2. KeyTypeOK /\ [NextKey]_keyVars => KeyTypeOK' /\ [Queue!Next]_<<Contents(ring), got>>
  BY StepImplements
<1> QED
  BY <1>1, <1>2, PTL DEF SpecKeyboard, ImplementsKeySpec, Queue!Spec

-----------------------------------------------------------------------------
(* The early screen. *)
Columns == 0 .. VGA_WIDTH - 1
Lines == 0 .. VGA_HEIGHT - 1
At(y, x) == y * VGA_WIDTH + x
EarlyChars == EarlyGlyphs \cup {Space}

(* ShowsLastRows for a screen v with the cursor in line row, and rows r.    *)
FirstOf(r) == IF Len(r) > VGA_HEIGHT THEN Len(r) - VGA_HEIGHT ELSE 0

Shows(v, row, r) ==
  /\ FirstOf(r) + row + 1 = Len(r)
  /\ \A y \in Lines, x \in Columns :
       v[At(y, x)] = IF FirstOf(r) + y + 1 <= Len(r) THEN r[FirstOf(r) + y + 1][x] ELSE Space

ScreenInv ==
  /\ ScreenTypeOK
  /\ rows \in Seq([Columns -> EarlyChars])
  /\ Shows(screen, terminal_row, rows)

LEMMA Times ==
  ASSUME NEW a \in Nat, NEW b \in Nat, NEW w \in Nat, a < b
  PROVE  a * w + w <= b * w
<1>1. PICK d \in Nat : b = a + 1 + d
  <2>1. b - a - 1 \in Nat /\ b = a + 1 + (b - a - 1)
    OBVIOUS
  <2> QED BY <2>1
<1>2. b * w = a * w + w + d * w
  BY <1>1
<1>3. d * w \in Nat /\ a * w \in Nat
  OBVIOUS
<1> QED BY <1>2, <1>3

(* Cells are numbered by line, and by column within a line. *)
LEMMA CellFacts ==
  /\ \A y \in Lines, x \in Columns : At(y, x) \in ScreenCells
  /\ \A y, z \in Lines, x, u \in Columns : At(y, x) = At(z, u) => y = z /\ x = u
  /\ \A y \in Lines, x \in Columns :
       /\ At(y, x) < (VGA_HEIGHT - 1) * VGA_WIDTH <=> y # VGA_HEIGHT - 1
       /\ y # VGA_HEIGHT - 1 => y + 1 \in Lines /\ At(y, x) + VGA_WIDTH = At(y + 1, x)
<1>0. VGA_WIDTH \in Nat /\ VGA_HEIGHT \in Nat /\ VGA_HEIGHT > 0 /\ VGA_HEIGHT - 1 \in Nat
  BY ScreenAssumption
<1>1. ASSUME NEW y \in Lines, NEW x \in Columns PROVE At(y, x) \in ScreenCells
  <2>1. y \in Nat /\ y < VGA_HEIGHT /\ x \in Nat /\ x < VGA_WIDTH
    BY <1>0 DEF Lines, Columns
  <2>2. y * VGA_WIDTH + VGA_WIDTH <= VGA_HEIGHT * VGA_WIDTH
    BY <1>0, <2>1, Times
  <2>3. y * VGA_WIDTH \in Nat /\ VGA_HEIGHT * VGA_WIDTH = VGA_WIDTH * VGA_HEIGHT /\ VGA_WIDTH * VGA_HEIGHT \in Nat
    BY <1>0, <2>1
  <2> QED BY <1>0, <2>1, <2>2, <2>3 DEF At, ScreenCells
<1>2. ASSUME NEW y \in Lines, NEW z \in Lines, NEW x \in Columns, NEW u \in Columns,
             At(y, x) = At(z, u)
      PROVE  y = z /\ x = u
  <2>1. /\ y \in Nat /\ z \in Nat
        /\ x \in Nat /\ x < VGA_WIDTH /\ u \in Nat /\ u < VGA_WIDTH
        /\ y * VGA_WIDTH \in Nat /\ z * VGA_WIDTH \in Nat
    BY <1>0 DEF Lines, Columns
  <2>2. ~ (y < z)
    <3> SUFFICES ASSUME y < z PROVE FALSE
      OBVIOUS
    <3>1. y * VGA_WIDTH + VGA_WIDTH <= z * VGA_WIDTH
      BY <1>0, <2>1, Times
    <3> QED BY <1>0, <1>2, <2>1, <3>1 DEF At
  <2>3. ~ (z < y)
    <3> SUFFICES ASSUME z < y PROVE FALSE
      OBVIOUS
    <3>1. z * VGA_WIDTH + VGA_WIDTH <= y * VGA_WIDTH
      BY <1>0, <2>1, Times
    <3> QED BY <1>0, <1>2, <2>1, <3>1 DEF At
  <2>4. y = z
    BY <2>1, <2>2, <2>3
  <2> QED BY <1>2, <2>1, <2>4 DEF At
<1>3. ASSUME NEW y \in Lines, NEW x \in Columns
      PROVE  /\ At(y, x) < (VGA_HEIGHT - 1) * VGA_WIDTH <=> y # VGA_HEIGHT - 1
             /\ y # VGA_HEIGHT - 1 => y + 1 \in Lines /\ At(y, x) + VGA_WIDTH = At(y + 1, x)
  <2>1. y \in Nat /\ y < VGA_HEIGHT /\ x \in Nat /\ x < VGA_WIDTH /\ y * VGA_WIDTH \in Nat
    BY <1>0 DEF Lines, Columns
  <2>2. CASE y = VGA_HEIGHT - 1
    BY <1>0, <2>1, <2>2 DEF At
  <2>3. CASE y # VGA_HEIGHT - 1
    <3>1. y < VGA_HEIGHT - 1
      BY <1>0, <2>1, <2>3
    <3>2. y * VGA_WIDTH + VGA_WIDTH <= (VGA_HEIGHT - 1) * VGA_WIDTH
      BY <1>0, <2>1, <3>1, Times
    <3>3. (VGA_HEIGHT - 1) * VGA_WIDTH \in Nat
      BY <1>0
    <3>4. At(y, x) < (VGA_HEIGHT - 1) * VGA_WIDTH
      BY <1>0, <2>1, <3>2, <3>3 DEF At
    <3>5. y + 1 \in Lines
      BY <1>0, <2>1, <3>1 DEF Lines
    <3>6. (y + 1) * VGA_WIDTH = y * VGA_WIDTH + VGA_WIDTH
      BY <1>0, <2>1
    <3> QED BY <1>0, <2>1, <2>3, <3>4, <3>5, <3>6 DEF At
  <2> QED BY <2>2, <2>3
<1> QED BY <1>1, <1>2, <1>3

LEMMA ScrollFacts ==
  ASSUME NEW v, NEW y \in Lines, NEW x \in Columns
  PROVE  terminal_scroll(v)[At(y, x)] = IF y = VGA_HEIGHT - 1 THEN Space ELSE v[At(y + 1, x)]
BY CellFacts DEF terminal_scroll

(* A character put where the cursor is, or just before it, by columns. *)
LEMMA PutCell ==
  ASSUME NEW v \in [ScreenCells -> EarlyChars], NEW r \in Seq([Columns -> EarlyChars]),
         NEW row \in Lines, NEW col \in Columns, NEW c \in EarlyChars,
         Shows(v, row, r)
  PROVE  /\ [v EXCEPT ![At(row, col)] = c] \in [ScreenCells -> EarlyChars]
         /\ [r EXCEPT ![Len(r)][col] = c] \in Seq([Columns -> EarlyChars])
         /\ Len([r EXCEPT ![Len(r)][col] = c]) = Len(r)
         /\ Shows([v EXCEPT ![At(row, col)] = c], row, [r EXCEPT ![Len(r)][col] = c])
<1> DEFINE w == [v EXCEPT ![At(row, col)] = c]
           s == [r EXCEPT ![Len(r)][col] = c]
<1>1. Len(r) \in Nat /\ FirstOf(r) \in Nat /\ FirstOf(r) + row + 1 = Len(r) /\ Len(r) \in 1 .. Len(r)
      /\ row \in Nat
  BY ScreenAssumption DEF Shows, FirstOf, Lines
<1>2. w \in [ScreenCells -> EarlyChars] /\ At(row, col) \in ScreenCells
  BY CellFacts
<1>3. r[Len(r)] \in [Columns -> EarlyChars]
  BY <1>1
<1>4. /\ s \in Seq([Columns -> EarlyChars]) /\ Len(s) = Len(r)
      /\ s[Len(r)] = [r[Len(r)] EXCEPT ![col] = c]
      /\ \A i \in 1 .. Len(r) : i # Len(r) => s[i] = r[i]
  <2> DEFINE e == [r[Len(r)] EXCEPT ![col] = c]
  <2>1. s = [r EXCEPT ![Len(r)] = e] /\ e \in [Columns -> EarlyChars]
    BY <1>1, <1>3
  <2> HIDE DEF s, e
  <2>2. /\ s \in Seq([Columns -> EarlyChars]) /\ Len(s) = Len(r)
        /\ \A j \in 1 .. Len(r) : s[j] = IF j = Len(r) THEN e ELSE r[j]
    BY <1>1, <2>1, ExceptSeq
  <2> QED BY <1>1, <2>2, Zenon DEF e
<1> HIDE DEF s
<1>5. ASSUME NEW y \in Lines, NEW x \in Columns
      PROVE  w[At(y, x)] = IF FirstOf(r) + y + 1 <= Len(r) THEN s[FirstOf(r) + y + 1][x] ELSE Space
  <2>0. y \in Nat /\ At(y, x) \in ScreenCells
    BY ScreenAssumption, CellFacts DEF Lines
  <2>1. v[At(y, x)] = IF FirstOf(r) + y + 1 <= Len(r) THEN r[FirstOf(r) + y + 1][x] ELSE Space
    BY DEF Shows
  <2>2. CASE y = row /\ x = col
    BY <1>1, <1>2, <1>3, <1>4, <2>2
  <2>3. CASE y # row
    <3>1. At(y, x) # At(row, col)
      BY <2>3, CellFacts
    <3>2. w[At(y, x)] = v[At(y, x)]
      BY <2>0, <3>1
    <3>3. FirstOf(r) + y + 1 # Len(r)
      BY <1>1, <2>0, <2>3
    <3>4. FirstOf(r) + y + 1 <= Len(r) => s[FirstOf(r) + y + 1] = r[FirstOf(r) + y + 1]
      BY <1>1, <1>4, <2>0, <3>3
    <3> QED BY <2>1, <3>2, <3>4
  <2>4. CASE y = row /\ x # col
    <3>1. At(y, x) # At(row, col)
      BY <2>4, CellFacts
    <3>2. w[At(y, x)] = v[At(y, x)]
      BY <2>0, <3>1
    <3>3. s[Len(r)][x] = r[Len(r)][x]
      BY <1>3, <1>4, <2>4, SMTT(20)
    <3> QED BY <1>1, <2>1, <2>4, <3>2, <3>3
  <2> QED BY <2>2, <2>3, <2>4
<1>6. Shows(w, row, s)
  <2>1. FirstOf(s) = FirstOf(r)
    BY <1>4, Zenon DEF FirstOf
  <2> HIDE DEF w
  <2> QED BY <1>1, <1>4, <1>5, <2>1, SMTT(20) DEF Shows
<1> QED BY <1>2, <1>4, <1>6 DEF s

(* A line break: down by one line, or everything up by one. *)
LEMMA LineBreak ==
  ASSUME NEW v \in [ScreenCells -> EarlyChars], NEW r \in Seq([Columns -> EarlyChars]),
         terminal_row \in Lines, Shows(v, terminal_row, r),
         NextLine(v), rows' = Append(r, EmptyRow)
  PROVE  /\ screen' \in [ScreenCells -> EarlyChars] /\ terminal_row' \in Lines
         /\ rows' \in Seq([Columns -> EarlyChars])
         /\ Shows(screen', terminal_row', rows')
<1>0. VGA_WIDTH \in Nat /\ VGA_HEIGHT \in Nat /\ VGA_HEIGHT > 0 /\ terminal_row \in Nat /\ terminal_row < VGA_HEIGHT
      /\ Len(r) \in Nat
  BY ScreenAssumption DEF Lines
<1>1. EmptyRow \in [Columns -> EarlyChars] /\ \A x \in Columns : EmptyRow[x] = Space
  BY SMTT(20) DEF EmptyRow, Columns, EarlyChars
<1>2. /\ rows' \in Seq([Columns -> EarlyChars]) /\ Len(rows') = Len(r) + 1
      /\ \A i \in 1 .. Len(r) : rows'[i] = r[i]
      /\ rows'[Len(r) + 1] = EmptyRow
  <2>1. PICK T, er : T = [Columns -> EarlyChars] /\ er = EmptyRow
    BY Zenon
  <2>2. r \in Seq(T) /\ er \in T /\ rows' = Append(r, er)
    BY <1>1, <2>1
  <2>3. /\ rows' \in Seq(T) /\ Len(rows') = Len(r) + 1
        /\ \A i \in 1 .. Len(r) : rows'[i] = r[i]
        /\ rows'[Len(r) + 1] = er
    BY <2>2, AppendProperties, SMTT(20)
  <2> QED BY <2>1, <2>3
<1>3. FirstOf(r) + terminal_row + 1 = Len(r) /\ FirstOf(r) \in Nat
  BY <1>0 DEF Shows, FirstOf
<1>4. \A y \in Lines, x \in Columns :
        v[At(y, x)] = IF FirstOf(r) + y + 1 <= Len(r) THEN r[FirstOf(r) + y + 1][x] ELSE Space
  BY DEF Shows
<1>5. CASE terminal_row + 1 = VGA_HEIGHT
  <2>1. screen' = terminal_scroll(v) /\ terminal_row' = VGA_HEIGHT - 1
    BY <1>5 DEF NextLine
  <2>2. FirstOf(rows') = FirstOf(r) + 1
    <3>1. Len(rows') > VGA_HEIGHT /\ Len(rows') - VGA_HEIGHT = FirstOf(r) + 1
      BY <1>0, <1>2, <1>3, <1>5
    <3>2. FirstOf(rows') = Len(rows') - VGA_HEIGHT
      BY <3>1 DEF FirstOf
    <3> QED BY <3>1, <3>2
  <2>3. screen' \in [ScreenCells -> EarlyChars]
    <3>1. \A i \in ScreenCells : i < (VGA_HEIGHT - 1) * VGA_WIDTH => i + VGA_WIDTH \in ScreenCells
      <4>1. (VGA_HEIGHT - 1) * VGA_WIDTH = VGA_WIDTH * VGA_HEIGHT - VGA_WIDTH /\ VGA_WIDTH * VGA_HEIGHT \in Nat
        BY <1>0
      <4> QED BY <1>0, <4>1 DEF ScreenCells
    <3> QED BY <2>1, <3>1 DEF terminal_scroll, EarlyChars
  <2>4. ASSUME NEW y \in Lines, NEW x \in Columns
        PROVE  screen'[At(y, x)] = IF FirstOf(rows') + y + 1 <= Len(rows')
                                   THEN rows'[FirstOf(rows') + y + 1][x] ELSE Space
    <3>0. y \in Nat /\ y < VGA_HEIGHT
      BY <1>0 DEF Lines
    <3>1. FirstOf(rows') + y + 1 <= Len(rows')
      BY <1>2, <1>3, <1>5, <2>2, <3>0, <1>0
    <3>2. screen'[At(y, x)] = IF y = VGA_HEIGHT - 1 THEN Space ELSE v[At(y + 1, x)]
      BY <2>1, ScrollFacts
    <3>3. CASE y = VGA_HEIGHT - 1
      <4>1. FirstOf(rows') + y + 1 = Len(r) + 1
        BY <1>0, <1>3, <1>5, <2>2, <3>3
      <4> QED BY <1>1, <1>2, <3>1, <3>2, <3>3, <4>1
    <3>4. CASE y # VGA_HEIGHT - 1
      <4>1. y + 1 \in Lines
        BY <3>4, CellFacts
      <4>2. FirstOf(r) + (y + 1) + 1 = FirstOf(rows') + y + 1
        BY <1>3, <2>2, <3>0
      <4>3. FirstOf(rows') + y + 1 \in 1 .. Len(r)
        BY <1>0, <1>3, <1>5, <2>2, <3>0, <3>4
      <4>4. v[At(y + 1, x)] = r[FirstOf(rows') + y + 1][x]
        BY <1>0, <1>4, <4>1, <4>2, <4>3
      <4> QED BY <1>2, <3>1, <3>2, <3>4, <4>3, <4>4
    <3> QED BY <3>3, <3>4, Zenon
  <2>5. terminal_row' \in Lines
    BY <1>0, <2>1 DEF Lines
  <2>6. FirstOf(rows') + terminal_row' + 1 = Len(rows')
    BY <1>0, <1>2, <1>3, <1>5, <2>1, <2>2
  <2> QED BY <1>2, <2>3, <2>4, <2>5, <2>6, Zenon DEF Shows
<1>6. CASE terminal_row + 1 # VGA_HEIGHT
  <2>1. screen' = v /\ terminal_row' = terminal_row + 1
    BY <1>6 DEF NextLine
  <2>2. FirstOf(rows') = 0 /\ FirstOf(r) = 0
    <3>1. terminal_row + 1 < VGA_HEIGHT
      BY <1>0, <1>6
    <3>2. ~ (Len(r) > VGA_HEIGHT)
      <4> SUFFICES ASSUME Len(r) > VGA_HEIGHT PROVE FALSE
        OBVIOUS
      <4>1. FirstOf(r) = Len(r) - VGA_HEIGHT
        BY DEF FirstOf
      <4> QED BY <1>0, <1>3, <3>1, <4>1
    <3>3. FirstOf(r) = 0
      BY <3>2 DEF FirstOf
    <3>4. ~ (Len(rows') > VGA_HEIGHT)
      BY <1>0, <1>2, <1>3, <3>1, <3>3
    <3> QED BY <3>3, <3>4 DEF FirstOf
  <2>3. terminal_row' \in Lines
    BY <1>0, <1>6, <2>1 DEF Lines
  <2>4. FirstOf(rows') + terminal_row' + 1 = Len(rows')
    BY <1>0, <1>2, <1>3, <2>1, <2>2
  <2>5. ASSUME NEW y \in Lines, NEW x \in Columns
        PROVE  screen'[At(y, x)] = IF FirstOf(rows') + y + 1 <= Len(rows')
                                   THEN rows'[FirstOf(rows') + y + 1][x] ELSE Space
    <3>0. y \in Nat /\ y < VGA_HEIGHT
      BY <1>0 DEF Lines
    <3>1. v[At(y, x)] = IF y + 1 <= Len(r) THEN r[y + 1][x] ELSE Space
      BY <1>4, <2>2, <3>0
    <3>2. CASE y + 1 <= Len(r)
      <4>1. FirstOf(rows') + y + 1 = y + 1 /\ y + 1 \in 1 .. Len(r) /\ y + 1 <= Len(r) + 1
        BY <1>0, <2>2, <3>0, <3>2, SMTT(20)
      <4> QED BY <1>2, <2>1, <3>1, <3>2, <4>1
    <3>3. CASE y + 1 = Len(r) + 1
      <4>1. v[At(y, x)] = Space
        BY <1>0, <3>0, <3>1, <3>3
      <4>2. FirstOf(rows') + y + 1 = Len(r) + 1
        BY <2>2, <3>0, <3>3
      <4> QED BY <1>0, <1>1, <1>2, <2>1, <4>1, <4>2
    <3>4. CASE y + 1 > Len(r) + 1
      BY <1>0, <1>2, <2>1, <2>2, <3>0, <3>1, <3>4
    <3>5. y + 1 <= Len(r) \/ y + 1 = Len(r) + 1 \/ y + 1 > Len(r) + 1
      BY <1>0, <3>0
    <3> QED BY <3>2, <3>3, <3>4, <3>5, Zenon
  <2> QED BY <1>2, <2>1, <2>3, <2>4, <2>5, Zenon DEF Shows
<1> QED BY <1>5, <1>6

LEMMA InitScreenInv == InitScreen => ScreenInv
<1> SUFFICES ASSUME InitScreen PROVE ScreenInv
  OBVIOUS
<1>0. VGA_WIDTH \in Nat /\ VGA_WIDTH > 0 /\ VGA_HEIGHT \in Nat /\ VGA_HEIGHT > 0
  BY ScreenAssumption
<1>1. EmptyRow \in [Columns -> EarlyChars] /\ \A x \in Columns : EmptyRow[x] = Space
  BY DEF EmptyRow, Columns, EarlyChars
<1>2. rows \in Seq([Columns -> EarlyChars]) /\ Len(rows) = 1 /\ rows[1] = EmptyRow
  BY <1>1 DEF InitScreen
<1>3. ScreenTypeOK
  BY <1>0 DEF InitScreen, init_vga, ScreenTypeOK
<1>4. FirstOf(rows) = 0
  BY <1>0, <1>2 DEF FirstOf
<1>5. ASSUME NEW y \in Lines, NEW x \in Columns
      PROVE  screen[At(y, x)] = IF FirstOf(rows) + y + 1 <= Len(rows)
                                THEN rows[FirstOf(rows) + y + 1][x] ELSE Space
  <2>1. screen[At(y, x)] = Space
    BY CellFacts DEF InitScreen, init_vga
  <2>2. y \in Nat
    BY <1>0 DEF Lines
  <2> QED BY <1>1, <1>2, <1>4, <2>1, <2>2
<1> QED BY <1>2, <1>3, <1>4, <1>5 DEF ScreenInv, Shows, InitScreen, init_vga

LEMMA StepScreenInv == ScreenInv /\ [terminal_putchar]_screenVars => ScreenInv'
<1> SUFFICES ASSUME ScreenInv, [terminal_putchar]_screenVars PROVE ScreenInv'
  OBVIOUS
<1>0. VGA_WIDTH \in Nat /\ VGA_WIDTH > 0 /\ VGA_HEIGHT \in Nat /\ VGA_HEIGHT > 0
  BY ScreenAssumption
<1>1. /\ screen \in [ScreenCells -> EarlyChars] /\ terminal_row \in Lines /\ terminal_column \in Columns
      /\ rows \in Seq([Columns -> EarlyChars]) /\ Shows(screen, terminal_row, rows)
  BY DEF ScreenInv, ScreenTypeOK, Lines, Columns, EarlyChars
<1>2. SUFFICES /\ screen' \in [ScreenCells -> EarlyChars] /\ terminal_row' \in Lines
               /\ terminal_column' \in Columns
               /\ rows' \in Seq([Columns -> EarlyChars]) /\ Shows(screen', terminal_row', rows')
  BY DEF ScreenInv, ScreenTypeOK, Lines, Columns, EarlyChars
<1>3. 0 \in Columns
  BY <1>0 DEF Columns
<1>4. CASE PutNewline
  BY <1>1, <1>3, <1>4, LineBreak DEF PutNewline
<1>5. CASE PutReturn
  BY <1>1, <1>3, <1>5 DEF PutReturn
<1>6. CASE PutBackspace
  <2>1. CASE terminal_column > 0
    <3>1. /\ terminal_column - 1 \in Columns /\ Space \in EarlyChars
          /\ ScreenCursor - 1 = At(terminal_row, terminal_column - 1)
      BY <1>0, <1>1, <2>1 DEF Columns, Lines, EarlyChars, ScreenCursor, At
    <3>2. /\ terminal_column' = terminal_column - 1 /\ terminal_row' = terminal_row
          /\ screen' = [screen EXCEPT ![At(terminal_row, terminal_column - 1)] = Space]
          /\ rows' = [rows EXCEPT ![Len(rows)][terminal_column - 1] = Space]
      BY <1>6, <2>1, <3>1 DEF PutBackspace
    <3> QED BY <1>1, <3>1, <3>2, PutCell, Zenon
  <2>2. CASE ~ (terminal_column > 0)
    BY <1>1, <1>6, <2>2 DEF PutBackspace, screenVars
  <2> QED BY <2>1, <2>2
<1>7. ASSUME NEW c \in EarlyGlyphs, PutGlyph(c)
      PROVE  /\ screen' \in [ScreenCells -> EarlyChars] /\ terminal_row' \in Lines
             /\ terminal_column' \in Columns
             /\ rows' \in Seq([Columns -> EarlyChars]) /\ Shows(screen', terminal_row', rows')
  <2> DEFINE v == [screen EXCEPT ![At(terminal_row, terminal_column)] = c]
             r == [rows EXCEPT ![Len(rows)][terminal_column] = c]
  <2>1. c \in EarlyChars
    BY DEF EarlyChars
  <2>2. /\ v \in [ScreenCells -> EarlyChars] /\ r \in Seq([Columns -> EarlyChars])
        /\ Shows(v, terminal_row, r)
    BY <1>1, <2>1, PutCell, Zenon
  <2>3. /\ terminal_column + 1 = VGA_WIDTH =>
             terminal_column' = 0 /\ NextLine(v) /\ rows' = Append(r, EmptyRow)
        /\ terminal_column + 1 # VGA_WIDTH =>
             /\ terminal_column' = terminal_column + 1
             /\ screen' = v /\ rows' = r /\ UNCHANGED terminal_row
    BY <1>7 DEF PutGlyph, ScreenCursor, At
  <2> HIDE DEF v, r
  <2>4. CASE terminal_column + 1 = VGA_WIDTH
    BY <1>1, <1>3, <2>2, <2>3, <2>4, LineBreak, SMTT(20)
  <2>5. CASE terminal_column + 1 # VGA_WIDTH
    <3>1. terminal_column + 1 \in Columns
      BY <1>0, <1>1, <2>5 DEF Columns
    <3> QED BY <1>1, <2>2, <2>3, <2>5, <3>1
  <2> QED BY <2>4, <2>5
<1>8. CASE UNCHANGED screenVars
  BY <1>1, <1>8 DEF screenVars
<1> QED BY <1>4, <1>5, <1>6, <1>7, <1>8 DEF terminal_putchar

(* terminal_putchar loses, repeats and leaves over no row of what is        *)
(* written, on a screen of any size: VGA memory is the last VGA_HEIGHT      *)
(* rows, the cursor in the last of them, through every wrap and scroll.     *)
THEOREM OutputKeepsRows == SpecScreen => []ShowsLastRows
<1>1. ScreenInv => ShowsLastRows
  BY DEF ScreenInv, Shows, FirstOf, ShowsLastRows, FirstShown, At, Lines, Columns
<1>2. SpecScreen => []ScreenInv
  BY InitScreenInv, StepScreenInv, PTL DEF SpecScreen
<1> QED BY <1>1, <1>2, PTL

-----------------------------------------------------------------------------
(* vt_putchar and vt_switch leave VGA memory as the buffer of the current   *)
(* terminal under its indicator, the hardware cursor where that terminal    *)
(* writes next, wherever earlier output went.                               *)
THEOREM CurrentTerminalShown == SpecVt => []ScreenShowsCurrent
<1>1. InitVt => ScreenShowsCurrent
  <2>1. 0 \in Vts
    BY VtAssumption DEF Vts
  <2>2. 0 * Width + 0 = 0
    BY VtAssumption
  <2> QED BY <2>1, <2>2 DEF InitVt, vt_init, ScreenShowsCurrent, CursorOf
<1>2. ScreenShowsCurrent /\ [NextVt]_vtVars => ScreenShowsCurrent'
  <2> SUFFICES ASSUME ScreenShowsCurrent, [NextVt]_vtVars PROVE ScreenShowsCurrent'
    OBVIOUS
  <2>1. CASE vt_putchar
    BY <2>1, SMTT(20) DEF vt_putchar, Show, ScreenShowsCurrent, CursorOf, Refreshed
  <2>2. ASSUME NEW t \in Vts, vt_switch(t) PROVE ScreenShowsCurrent'
    BY <2>2 DEF vt_switch, terms, ScreenShowsCurrent, CursorOf, Refreshed
  <2>3. CASE UNCHANGED vtVars
    BY <2>3 DEF vtVars, terms, ScreenShowsCurrent, CursorOf, Refreshed
  <2> QED BY <2>1, <2>2, <2>3, SMTT(20) DEF NextVt
<1> QED BY <1>1, <1>2, PTL DEF SpecVt
=============================================================================
