--------------------------- MODULE ProcessProofs ---------------------------
(***************************************************************************)
(* The safety properties of Process, and of the whole process system, for  *)
(* every table size, number of pids and quantum.                           *)
(*                                                                         *)
(* Those of Process are proved together, from one inductive invariant,     *)
(* IInv.  The system adds the loader, which destroys what it could not     *)
(* load, and init, which keeps one shell: IInv is kept by every step of    *)
(* theirs too; what is new is where the process being loaded stands in the *)
(* queue, and whose children are in the table (ReaperInv).                 *)
(***************************************************************************)
EXTENDS Reaper, TLAPS

(* Every pid in use was handed out by next_pid++. *)
Allocated ==
  /\ \A s \in Slots : table[s] # NoProc => table[s] < next_pid
  /\ \A i \in 1 .. Len(queue) : queue[i] < next_pid
  /\ process_get_current < next_pid
  /\ \A p \in exited : p < next_pid
  /\ creating # NoProc => creating.pid < next_pid

(* No PCB is in two slots; a PCB that process_create is still building is   *)
(* reachable from nowhere else.                                             *)
TableOnce == \A s, t \in Slots : table[s] = table[t] /\ table[s] # NoProc => s = t

StillCreating ==
  creating # NoProc =>
    /\ creating.pid # Idle
    /\ creating.pid \notin exited
    /\ creating.pid # process_get_current
    /\ ~ Queued(creating.pid)
    /\ ~ InTable(creating.pid)

(* Only sys_exit makes a ZOMBIE, and the idle process never exits. *)
ZombiesExited ==
  /\ \A p \in Pids : state[p] = "ZOMBIE" => p \in exited
  /\ Idle \notin exited
  /\ state[Idle] # "NONE"

IInv ==
  /\ TypeOK
  /\ QueueDiscipline
  /\ OnlyCurrentRuns
  /\ ExitedNeverRuns
  /\ NoDanglingPcb
  /\ Allocated
  /\ TableOnce
  /\ StillCreating
  /\ ZombiesExited

-----------------------------------------------------------------------------
(* What ready_queue_push leaves in the queue.                               *)
LEMMA PushFacts ==
  ASSUME NEW q \in Seq(Pids), NEW p \in Pids
  PROVE  LET r == ready_queue_push(q, p)
         IN  /\ r \in Seq(Pids)
             /\ Len(r) = Len(q) + 1
             /\ \A i \in 1 .. Len(q) : r[i] = q[i]
             /\ r[Len(q) + 1] = p
BY DEF ready_queue_push

(* What ready_queue_pop leaves, and which process schedule() then runs.     *)
LEMMA PopFacts ==
  ASSUME NEW q \in Seq(Pids), q # <<>>
  PROVE  /\ ready_queue_pop(q) \in Seq(Pids)
         /\ Len(q) >= 1
         /\ Len(ready_queue_pop(q)) = Len(q) - 1
         /\ \A i \in 1 .. Len(q) - 1 : ready_queue_pop(q)[i] = q[i + 1]
         /\ Picked(q) = q[1]
         /\ Picked(q) \in Pids
BY DEF ready_queue_pop, Picked

LEMMA IdleIsPid == Idle \in Pids /\ Idle # NoProc
BY SizeAssumption, NoProcAssumption DEF Idle, Pids

(* process_get_current is a pid. *)
LEMMA CurrentIsPid ==
  ASSUME TypeOK
  PROVE  process_get_current \in Pids
BY IdleIsPid DEF TypeOK, process_get_current

(* schedule() keeps the queue a list without the current process in it,     *)
(* whatever it was entered with.                                            *)
LEMMA ScheduleQueue ==
  ASSUME TypeOK, QueueDiscipline, NEW st \in [Pids -> States], schedule(st, queue)
  PROVE  /\ queue' \in Seq(Pids)
         /\ current' \in Pids \cup {NoProc}
         /\ QueueDiscipline'
         /\ \A j \in 1 .. Len(queue') :
              \/ j + 1 \in 1 .. Len(queue) /\ queue'[j] = queue[j + 1]
              \/ queue'[j] = process_get_current /\ st[process_get_current] = "RUNNING"
         /\ \/ process_get_current' = Idle
            \/ \E i \in 1 .. Len(queue) : process_get_current' = queue[i]
            \/ process_get_current' = process_get_current
               /\ st[process_get_current] = "RUNNING"
<1> DEFINE cur == process_get_current
           runs == StillRunnable(st[cur])
           q1 == IF runs THEN ready_queue_push(queue, cur) ELSE queue
           next == Picked(q1)
<1> HIDE DEF cur
<1>1. cur \in Pids
  BY CurrentIsPid DEF cur
<1>2. /\ q1 \in Seq(Pids)
      /\ \A i \in 1 .. Len(q1) :
           \/ i \in 1 .. Len(queue) /\ q1[i] = queue[i]
           \/ i = Len(queue) + 1 /\ q1[i] = cur /\ runs
      /\ Len(queue) \in Nat
  <2>1. queue \in Seq(Pids)
    BY DEF TypeOK
  <2>2. LET r == ready_queue_push(queue, cur)
        IN  /\ r \in Seq(Pids)
            /\ Len(r) = Len(queue) + 1
            /\ \A i \in 1 .. Len(queue) : r[i] = queue[i]
            /\ r[Len(queue) + 1] = cur
    BY <2>1, <1>1, PushFacts
  <2> HIDE DEF runs
  <2> QED BY <2>1, <2>2
<1>3. \A i, j \in 1 .. Len(q1) : q1[i] = q1[j] => i = j
  BY <1>2 DEF QueueDiscipline, Queued, cur
<1>4. queue' = ready_queue_pop(q1) /\ process_get_current' = next
  <2>1. queue' = ready_queue_pop(q1)
        /\ current' = IF next = cur THEN current ELSE next
    BY DEF schedule, cur
  <2>2. next # NoProc
    BY <1>2, PopFacts, IdleIsPid, NoProcAssumption DEF Picked
  <2> QED BY <2>1, <2>2 DEF process_get_current, cur
<1>5. current' \in Pids \cup {NoProc}
  BY <1>2, PopFacts, IdleIsPid DEF schedule, cur, TypeOK, Picked
<1> HIDE DEF q1, next
<1>6. CASE q1 = <<>>
  <2>1. queue' = <<>> /\ next = Idle
    BY <1>4, <1>6 DEF ready_queue_pop, Picked, next
  <2> QED BY <2>1, <1>4, <1>5 DEF QueueDiscipline, Queued
<1>7. CASE q1 # <<>>
  <2>1. /\ queue' \in Seq(Pids)
        /\ Len(q1) >= 1
        /\ Len(queue') = Len(q1) - 1
        /\ \A i \in 1 .. Len(q1) - 1 : queue'[i] = q1[i + 1]
        /\ next = q1[1]
    BY <1>2, <1>4, <1>7, PopFacts DEF next
  <2>2. Len(q1) \in Nat
    BY <1>2
  <2>3. QueueDiscipline'
    <3>1. \A i, j \in 1 .. Len(queue') : queue'[i] = queue'[j] => i = j
      BY <2>1, <2>2, <1>3
    <3>2. \A i \in 1 .. Len(queue') : queue'[i] # next
      BY <2>1, <2>2, <1>3
    <3> QED BY <3>1, <3>2, <1>4 DEF QueueDiscipline, Queued
  <2>4. \A j \in 1 .. Len(queue') :
          \/ j + 1 \in 1 .. Len(queue) /\ queue'[j] = queue[j + 1]
          \/ queue'[j] = cur /\ runs
    BY <2>1, <2>2, <1>2
  <2>5. \/ \E i \in 1 .. Len(queue) : next = queue[i]
        \/ next = cur /\ runs
    BY <2>1, <2>2, <1>2
  <2> QED BY <2>1, <2>3, <2>4, <2>5, <1>4, <1>5 DEF StillRunnable, cur
<1> QED BY <1>6, <1>7

(* schedule() marks nobody RUNNING but the process it switches to, and      *)
(* neither frees a PCB nor makes a zombie.                                  *)
LEMMA ScheduleState ==
  ASSUME TypeOK, NEW st \in [Pids -> States], schedule(st, queue),
         \A p \in Pids : st[p] = "RUNNING" => p = process_get_current
  PROVE  /\ state' \in [Pids -> States]
         /\ OnlyCurrentRuns'
         /\ \A p \in Pids : state'[p] = "NONE" => st[p] = "NONE"
         /\ \A p \in Pids : state'[p] = "ZOMBIE" => st[p] = "ZOMBIE"
<1> DEFINE cur == process_get_current
           runs == StillRunnable(st[cur])
           q1 == IF runs THEN ready_queue_push(queue, cur) ELSE queue
           st1 == IF runs THEN [st EXCEPT ![cur] = "READY"] ELSE st
           next == Picked(q1)
<1> HIDE DEF cur
<1>1. cur \in Pids
  BY CurrentIsPid DEF cur
<1>2. next \in Pids
  BY <1>1, PushFacts, PopFacts, IdleIsPid DEF TypeOK, Picked
<1>3. /\ state' = IF next = cur THEN st1 ELSE [st1 EXCEPT ![next] = "RUNNING"]
      /\ current' = IF next = cur THEN current ELSE next
  BY DEF schedule, cur
<1>4. process_get_current' = next
  BY <1>2, <1>3, NoProcAssumption DEF process_get_current, cur
<1>5. /\ st1 \in [Pids -> States]
      /\ \A p \in Pids : st1[p] # "RUNNING"
      /\ \A p \in Pids : st1[p] = "NONE" => st[p] = "NONE"
      /\ \A p \in Pids : st1[p] = "ZOMBIE" => st[p] = "ZOMBIE"
  BY <1>1 DEF States, StillRunnable, cur
<1> HIDE DEF st1, next
<1> QED BY <1>2, <1>3, <1>4, <1>5 DEF States, OnlyCurrentRuns

-----------------------------------------------------------------------------
(* The part of IInv that the scheduler and the queue can disturb.           *)
Links ==
  /\ QueueDiscipline
  /\ OnlyCurrentRuns
  /\ ExitedNeverRuns
  /\ NoDanglingPcb
  /\ Allocated
  /\ TableOnce
  /\ StillCreating
  /\ ZombiesExited

(* A handler that ends in schedule() keeps the invariant when it entered it *)
(* with states st that free nobody, and when a process that exits is the    *)
(* current one and no longer RUNNING.                                       *)
LEMMA ScheduleKeeps ==
  ASSUME IInv, NEW st \in [Pids -> States], schedule(st, queue),
         UNCHANGED <<table, next_pid, creating>>,
         \A p \in Pids : st[p] = "RUNNING" => p = process_get_current,
         \A p \in Pids : st[p] = "NONE" => state[p] = "NONE",
         \A p \in Pids : st[p] = "ZOMBIE" => p \in exited',
         \/ exited' = exited
         \/ /\ exited' = exited \cup {process_get_current}
            /\ st[process_get_current] # "RUNNING"
            /\ process_get_current # Idle
  PROVE  /\ state' \in [Pids -> States]
         /\ queue' \in Seq(Pids)
         /\ current' \in Pids \cup {NoProc}
         /\ exited' \subseteq Pids
         /\ Links'
<1> DEFINE cur == process_get_current
<1>1. cur \in Pids
  BY CurrentIsPid DEF IInv
<1>2. /\ queue' \in Seq(Pids)
      /\ current' \in Pids \cup {NoProc}
      /\ QueueDiscipline'
      /\ \A j \in 1 .. Len(queue') :
           \/ j + 1 \in 1 .. Len(queue) /\ queue'[j] = queue[j + 1]
           \/ queue'[j] = cur /\ st[cur] = "RUNNING"
      /\ \/ process_get_current' = Idle
         \/ \E i \in 1 .. Len(queue) : process_get_current' = queue[i]
         \/ process_get_current' = cur /\ st[cur] = "RUNNING"
  BY ScheduleQueue DEF IInv
<1>3. /\ state' \in [Pids -> States]
      /\ OnlyCurrentRuns'
      /\ \A p \in Pids : state'[p] = "NONE" => state[p] = "NONE"
      /\ \A p \in Pids : state'[p] = "ZOMBIE" => p \in exited'
  BY ScheduleState DEF IInv
<1>4. exited' \subseteq Pids
  BY <1>1 DEF IInv, TypeOK
<1>5. \A p \in Pids : Queued(p)' => Queued(p) \/ (p = cur /\ st[cur] = "RUNNING")
  BY <1>2 DEF Queued
<1>6. \/ process_get_current' = Idle
      \/ Queued(process_get_current')
      \/ process_get_current' = cur /\ st[cur] = "RUNNING"
  BY <1>2 DEF Queued
<1>7. process_get_current' \in Pids
  BY <1>2, IdleIsPid DEF process_get_current
<1> HIDE DEF cur
<1>8. ExitedNeverRuns'
  <2> SUFFICES ASSUME NEW p \in exited'
               PROVE  p # process_get_current' /\ ~ Queued(p)'
    BY DEF ExitedNeverRuns
  <2>1. ~ Queued(p) /\ p # Idle
    BY DEF IInv, ExitedNeverRuns, QueueDiscipline, ZombiesExited
  <2>2. p = cur => st[cur] # "RUNNING"
    BY DEF IInv, ExitedNeverRuns, cur
  <2> QED BY <2>1, <2>2, <1>4, <1>5, <1>6
<1>9. NoDanglingPcb'
  <2> SUFFICES ASSUME NEW p \in Pids, state'[p] = "NONE"
               PROVE  /\ ~ InTable(p)'
                      /\ ~ Queued(p)'
                      /\ p # process_get_current'
                      /\ creating' # NoProc => creating'.pid # p
    BY DEF NoDanglingPcb
  <2>1. state[p] = "NONE"
    BY <1>3
  <2>2. /\ ~ InTable(p)
        /\ ~ Queued(p)
        /\ p # cur
        /\ creating # NoProc => creating.pid # p
    BY <2>1 DEF IInv, NoDanglingPcb, cur
  <2>3. p # Idle
    BY <2>1 DEF IInv, ZombiesExited
  <2> QED BY <2>2, <2>3, <1>5, <1>6 DEF InTable
<1>10. Allocated'
  <2>1. \A i \in 1 .. Len(queue') : queue'[i] < next_pid
    BY <1>2 DEF IInv, Allocated, cur
  <2>2. process_get_current' < next_pid
    BY <1>2 DEF IInv, TypeOK, Allocated, cur, Idle
  <2>3. \A p \in exited' : p < next_pid
    BY DEF IInv, Allocated
  <2> QED BY <2>1, <2>2, <2>3 DEF IInv, Allocated
<1>11. StillCreating'
  <2> SUFFICES ASSUME creating # NoProc
               PROVE  /\ creating.pid # Idle
                      /\ creating.pid \notin exited'
                      /\ creating.pid # process_get_current'
                      /\ ~ Queued(creating.pid)'
                      /\ ~ InTable(creating.pid)
    BY DEF StillCreating, InTable, Queued
  <2>1. creating.pid \in Pids
    BY DEF IInv, TypeOK, Creations
  <2>2. /\ creating.pid # Idle
        /\ creating.pid \notin exited
        /\ creating.pid # cur
        /\ ~ Queued(creating.pid)
        /\ ~ InTable(creating.pid)
    BY DEF IInv, StillCreating, cur
  <2> QED BY <2>1, <2>2, <1>5, <1>6 DEF cur
<1>12. TableOnce'
  BY DEF IInv, TableOnce
<1>13. ZombiesExited'
  BY <1>3, IdleIsPid DEF IInv, ZombiesExited
<1> QED BY <1>2, <1>3, <1>4, <1>8, <1>9, <1>10, <1>11, <1>12, <1>13 DEF Links

-----------------------------------------------------------------------------
(* ready_queue_push of a process that is neither queued nor current.        *)
LEMMA PushKeeps ==
  ASSUME TypeOK, QueueDiscipline, NEW p \in Pids, ~ Queued(p),
         p # process_get_current,
         queue' = ready_queue_push(queue, p), current' = current
  PROVE  /\ queue' \in Seq(Pids)
         /\ QueueDiscipline'
         /\ process_get_current' = process_get_current
         /\ \A t \in Pids : Queued(t)' => Queued(t) \/ t = p
         /\ \A i \in 1 .. Len(queue') :
              (i \in 1 .. Len(queue) /\ queue'[i] = queue[i]) \/ queue'[i] = p
<1>1. queue \in Seq(Pids) /\ Len(queue) \in Nat
  BY DEF TypeOK
<1>2. /\ queue' \in Seq(Pids)
      /\ Len(queue') = Len(queue) + 1
      /\ \A i \in 1 .. Len(queue) : queue'[i] = queue[i]
      /\ queue'[Len(queue) + 1] = p
  BY <1>1, PushFacts, Zenon
<1>3. \A i \in 1 .. Len(queue') :
        \/ i \in 1 .. Len(queue) /\ queue'[i] = queue[i]
        \/ i = Len(queue) + 1 /\ queue'[i] = p
  BY <1>1, <1>2
<1>4. process_get_current' = process_get_current
  BY DEF process_get_current
<1>5. \A i, j \in 1 .. Len(queue') : queue'[i] = queue'[j] => i = j
  BY <1>3 DEF QueueDiscipline, Queued
<1>6. \A t \in Pids : Queued(t)' => Queued(t) \/ t = p
  BY <1>3 DEF Queued
<1>7. ~ Queued(process_get_current)'
  BY <1>4, <1>6, CurrentIsPid DEF QueueDiscipline
<1> QED BY <1>2, <1>3, <1>4, <1>5, <1>6, <1>7 DEF QueueDiscipline

LEMMA InitIInv ==
  ASSUME Init
  PROVE  IInv
<1>1. process_get_current = Idle /\ 0 \in Slots /\ Idle \in Pids
  BY IdleIsPid, SizeAssumption DEF Init, process_get_current, Slots
<1>2. TypeOK
  <2>1. table \in [Slots -> Pids \cup {NoProc}]
    BY <1>1 DEF Init
  <2>2. state \in [Pids -> States] /\ pc \in [Pids -> {"run", "wait"}]
    BY DEF Init, States
  <2>3. parent \in [Pids -> Pids] /\ ticks \in [Pids -> 0 .. Quantum]
    BY <1>1, SizeAssumption DEF Init, Idle
  <2>4. queue \in Seq(Pids) /\ exited \subseteq Pids
    BY DEF Init
  <2>5. next_pid \in 1 .. MaxPid + 1
    BY SizeAssumption DEF Init
  <2> QED BY <2>1, <2>2, <2>3, <2>4, <2>5, Zenon DEF Init, TypeOK
<1>3. Len(queue) = 0
  BY DEF Init
<1>4. NoDanglingPcb
  BY <1>1, <1>3, NoProcAssumption DEF Init, NoDanglingPcb, InTable, Queued
<1>5. Allocated
  BY <1>1, <1>3 DEF Init, Allocated, Idle
<1>6. TableOnce
  BY DEF Init, TableOnce
<1>7. OnlyCurrentRuns /\ ZombiesExited
  BY <1>1 DEF Init, OnlyCurrentRuns, ZombiesExited
<1>8. QueueDiscipline /\ ExitedNeverRuns /\ StillCreating
  BY <1>3 DEF Init, QueueDiscipline, ExitedNeverRuns, StillCreating, Queued
<1> QED BY <1>2, <1>4, <1>5, <1>6, <1>7, <1>8 DEF IInv

(* The pid that next_pid++ hands out. *)
LEMMA NewPidFacts ==
  ASSUME IInv, NewPcb
  PROVE  /\ next_pid \in Pids
         /\ next_pid # Idle
         /\ next_pid # NoProc
         /\ next_pid' = next_pid + 1
         /\ next_pid \in Nat
         /\ next_pid + 1 \in 1 .. MaxPid + 1
<1>1. next_pid \in 1 .. MaxPid + 1 /\ next_pid <= MaxPid
  BY DEF IInv, TypeOK, NewPcb
<1>2. next_pid \in Pids
  BY <1>1, SizeAssumption DEF Pids
<1> QED BY <1>1, <1>2, SizeAssumption, NoProcAssumption DEF NewPcb, Idle

(* A handler that puts a new PCB into a free slot and into the queue, as    *)
(* process_create does at boot and sys_fork always.                         *)
LEMMA InsertKeeps ==
  ASSUME IInv, NewPcb, NEW s \in Slots, IsFirstFree(s),
         table' = [table EXCEPT ![s] = next_pid],
         queue' = ready_queue_push(queue, next_pid),
         UNCHANGED <<current, enabled, pc, creating, exited>>,
         parent' \in [Pids -> Pids]
  PROVE  IInv'
<1> DEFINE n == next_pid
<1>1. /\ n \in Pids /\ n # Idle /\ n # NoProc
      /\ next_pid' = n + 1 /\ n \in Nat
      /\ n + 1 \in 1 .. MaxPid + 1
      /\ table[s] = NoProc
  BY NewPidFacts DEF IsFirstFree, FreeSlots
<1>2. /\ ~ Queued(n) /\ n # process_get_current /\ n \notin exited
      /\ \A t \in Slots : table[t] # n
      /\ creating # NoProc => creating.pid # n
  BY <1>1 DEF IInv, Allocated, Queued
<1>3. /\ queue' \in Seq(Pids)
      /\ QueueDiscipline'
      /\ process_get_current' = process_get_current
      /\ \A t \in Pids : Queued(t)' => Queued(t) \/ t = n
      /\ \A i \in 1 .. Len(queue') :
           (i \in 1 .. Len(queue) /\ queue'[i] = queue[i]) \/ queue'[i] = n
  BY <1>1, <1>2, PushKeeps, Zenon DEF IInv
<1>4. state' = [state EXCEPT ![n] = "READY"] /\ state \in [Pids -> States]
  BY DEF NewPcb, IInv, TypeOK
<1>5. TypeOK'
  BY <1>1, <1>3, <1>4, SizeAssumption
     DEF IInv, TypeOK, NewPcb, FreshQuantum, States
<1>6. OnlyCurrentRuns'
  BY <1>1, <1>3, <1>4 DEF IInv, OnlyCurrentRuns
<1>7. ExitedNeverRuns'
  BY <1>2, <1>3 DEF IInv, TypeOK, ExitedNeverRuns
<1>8. \A t \in Pids : InTable(t)' => InTable(t) \/ t = n
  BY DEF InTable, IInv, TypeOK
<1>9. NoDanglingPcb'
  BY <1>1, <1>2, <1>3, <1>4, <1>8 DEF IInv, NoDanglingPcb
<1>10. Allocated'
  <2>1. \A t \in Slots : table'[t] # NoProc => table'[t] < n + 1
    BY <1>1, NoProcAssumption DEF IInv, TypeOK, Allocated, Pids
  <2>2. \A i \in 1 .. Len(queue') : queue'[i] < n + 1
    <3>1. \A i \in 1 .. Len(queue) : queue[i] < n /\ queue[i] \in Nat
      <4>1. queue \in Seq(Pids)
        BY DEF IInv, TypeOK
      <4>2. \A i \in 1 .. Len(queue) : queue[i] \in Pids
        BY <4>1
      <4> QED BY <4>2 DEF IInv, Allocated, Pids
    <3> QED BY <3>1, <1>1, <1>3
  <2>3. process_get_current' < n + 1
    BY <1>1, <1>3, CurrentIsPid DEF IInv, Allocated, Pids
  <2>4. \A p \in exited : p < n + 1
    BY <1>1 DEF IInv, TypeOK, Allocated, Pids
  <2>5. creating # NoProc => creating.pid < n + 1
    BY <1>1 DEF IInv, TypeOK, Allocated, Creations, Pids
  <2> QED BY <1>1, <2>1, <2>2, <2>3, <2>4, <2>5 DEF Allocated
<1>11. TableOnce'
  BY <1>1, <1>2 DEF IInv, TypeOK, TableOnce
<1>12. StillCreating'
  <2> SUFFICES ASSUME creating # NoProc
               PROVE  StillCreating'
    BY DEF StillCreating
  <2>1. creating.pid \in Pids
    BY DEF IInv, TypeOK, Creations
  <2> QED BY <2>1, <1>2, <1>3, <1>8 DEF IInv, StillCreating
<1>13. ZombiesExited'
  BY <1>1, <1>4, IdleIsPid DEF IInv, ZombiesExited
<1> QED BY <1>3, <1>5, <1>6, <1>7, <1>9, <1>10, <1>11, <1>12, <1>13 DEF IInv

-----------------------------------------------------------------------------
(* process_create preempted before its table update changes nothing that    *)
(* the others see.                                                          *)
LEMMA CreateBeginKeeps ==
  ASSUME IInv, CreateBegin
  PROVE  IInv'
<1> DEFINE n == next_pid
<1>1. /\ n \in Pids /\ n # Idle /\ n # NoProc
      /\ next_pid' = n + 1 /\ n \in Nat
      /\ n + 1 \in 1 .. MaxPid + 1
  BY NewPidFacts DEF CreateBegin
<1>2. PICK s \in Slots : creating' = [slot |-> s, pid |-> n]
  BY DEF CreateBegin
<1>3. /\ UNCHANGED <<table, parent, queue, current, enabled, pc, exited>>
      /\ state' = [state EXCEPT ![n] = "READY"]
      /\ ticks' = [ticks EXCEPT ![n] = Quantum]
      /\ process_get_current' = process_get_current
  BY DEF CreateBegin, NewPcb, FreshQuantum, process_get_current
<1>4. \A t : (Queued(t)' <=> Queued(t)) /\ (InTable(t)' <=> InTable(t))
  BY <1>3 DEF Queued, InTable
<1>5. TypeOK'
  BY <1>1, <1>2, <1>3, SizeAssumption DEF IInv, TypeOK, States, Creations
<1>6. /\ ~ Queued(n) /\ n # process_get_current /\ n \notin exited
      /\ ~ InTable(n)
  BY <1>1 DEF IInv, Allocated, Queued, InTable
<1>7. creating' # NoProc => creating'.pid = n
  BY <1>2
<1>8. QueueDiscipline' /\ TableOnce' /\ ExitedNeverRuns'
  BY <1>3, <1>4
     DEF IInv, QueueDiscipline, TableOnce, ExitedNeverRuns
<1>9. OnlyCurrentRuns' /\ ZombiesExited'
  BY <1>1, <1>3, IdleIsPid DEF IInv, TypeOK, OnlyCurrentRuns, ZombiesExited
<1>10. NoDanglingPcb'
  BY <1>1, <1>3, <1>4, <1>7 DEF IInv, TypeOK, NoDanglingPcb
<1>11. StillCreating'
  BY <1>1, <1>3, <1>4, <1>6, <1>7 DEF StillCreating
<1>12. Allocated'
  <2>1. \A t \in Slots : table[t] # NoProc => table[t] < n + 1
    <3>1. \A t \in Slots : table[t] # NoProc => table[t] \in Pids
      BY DEF IInv, TypeOK
    <3> QED BY <3>1, <1>1 DEF IInv, Allocated, Pids
  <2>2. \A i \in 1 .. Len(queue) : queue[i] < n + 1
    <3>1. \A i \in 1 .. Len(queue) : queue[i] \in Pids
      BY DEF IInv, TypeOK
    <3> QED BY <3>1, <1>1 DEF IInv, Allocated, Pids
  <2>3. process_get_current < n + 1
    BY <1>1, CurrentIsPid DEF IInv, Allocated, Pids
  <2>4. \A p \in exited : p < n + 1
    BY <1>1 DEF IInv, TypeOK, Allocated, Pids
  <2> QED BY <2>1, <2>2, <2>3, <2>4, <1>1, <1>3, <1>7 DEF Allocated
<1> QED BY <1>5, <1>8, <1>9, <1>10, <1>11, <1>12 DEF IInv

(* The rest of process_create, whatever the others did in between: the slot *)
(* may meanwhile belong to a forked child, which then leaves the table.     *)
LEMMA CreateEndKeeps ==
  ASSUME IInv, CreateEnd
  PROVE  IInv'
<1> DEFINE n == creating.pid
<1>1. n \in Pids /\ creating.slot \in Slots /\ n # Idle /\ n # NoProc
  BY NoProcAssumption DEF IInv, TypeOK, CreateEnd, Creations, StillCreating
<1>2. /\ n \notin exited /\ n # process_get_current
      /\ ~ Queued(n) /\ ~ InTable(n) /\ n < next_pid
      /\ state[n] # "NONE"
  BY <1>1 DEF IInv, StillCreating, CreateEnd, Allocated, NoDanglingPcb
<1>3. /\ table' = [table EXCEPT ![creating.slot] = n]
      /\ queue' = ready_queue_push(queue, n)
      /\ creating' = NoProc
      /\ UNCHANGED <<state, parent, ticks, current, next_pid, enabled, pc,
                     exited>>
  BY DEF CreateEnd
<1> HIDE DEF n
<1>4. /\ queue' \in Seq(Pids)
      /\ QueueDiscipline'
      /\ process_get_current' = process_get_current
      /\ \A t \in Pids : Queued(t)' => Queued(t) \/ t = n
      /\ \A i \in 1 .. Len(queue') :
           (i \in 1 .. Len(queue) /\ queue'[i] = queue[i]) \/ queue'[i] = n
  BY <1>1, <1>2, <1>3, PushKeeps DEF IInv
<1>5. TypeOK'
  BY <1>1, <1>3, <1>4 DEF IInv, TypeOK
<1>6. \A t \in Pids : InTable(t)' => InTable(t) \/ t = n
  BY <1>3 DEF InTable, IInv, TypeOK
<1>7. OnlyCurrentRuns' /\ ZombiesExited' /\ StillCreating'
  BY <1>3, <1>4 DEF IInv, OnlyCurrentRuns, ZombiesExited, StillCreating
<1>8. ExitedNeverRuns'
  BY <1>2, <1>3, <1>4 DEF IInv, TypeOK, ExitedNeverRuns
<1>9. NoDanglingPcb'
  BY <1>2, <1>3, <1>4, <1>6 DEF IInv, NoDanglingPcb
<1>10. TableOnce'
  BY <1>1, <1>2, <1>3 DEF IInv, TypeOK, TableOnce, InTable
<1>11. Allocated'
  BY <1>1, <1>2, <1>3, <1>4, Zenon DEF IInv, TypeOK, Allocated
<1> QED BY <1>4, <1>5, <1>7, <1>8, <1>9, <1>10, <1>11 DEF IInv

(* sys_wait frees a zombie child: only its table entry pointed to it.       *)
LEMMA WaitReapsKeeps ==
  ASSUME IInv, NEW p \in Pids, WaitReaps(p)
  PROVE  IInv'
<1>1. PICK s \in Slots, c \in Pids :
        /\ table[s] = c /\ state[c] = "ZOMBIE"
        /\ table' = [table EXCEPT ![s] = NoProc]
        /\ state' = [state EXCEPT ![c] = "NONE"]
  BY Zenon DEF WaitReaps, find_zombie_child, IsZombieChild, IInv, TypeOK
<1>2. /\ c # NoProc /\ c \in exited /\ c # Idle
      /\ ~ Queued(c) /\ c # process_get_current
      /\ creating # NoProc => creating.pid # c
  BY <1>1, NoProcAssumption
     DEF IInv, ZombiesExited, ExitedNeverRuns, StillCreating
<1>3. /\ UNCHANGED <<parent, ticks, queue, current, next_pid, enabled,
                     creating, exited>>
      /\ pc' = [pc EXCEPT ![p] = "run"]
      /\ process_get_current' = process_get_current
  BY DEF WaitReaps, process_get_current
<1>4. \A t : Queued(t)' <=> Queued(t)
  BY <1>3 DEF Queued
<1>5. /\ \A t \in Pids : InTable(t)' => InTable(t)
      /\ ~ InTable(c)'
  BY <1>1, <1>2, NoProcAssumption DEF IInv, TypeOK, TableOnce, InTable
<1>6. TypeOK'
  BY <1>1, <1>2, <1>3 DEF IInv, TypeOK, States
<1>7. QueueDiscipline' /\ ExitedNeverRuns'
  BY <1>3, <1>4 DEF IInv, QueueDiscipline, ExitedNeverRuns
<1>8. OnlyCurrentRuns' /\ ZombiesExited'
  BY <1>1, <1>2, <1>3, IdleIsPid
     DEF IInv, TypeOK, OnlyCurrentRuns, ZombiesExited
<1>9. NoDanglingPcb'
  BY <1>1, <1>2, <1>3, <1>4, <1>5 DEF IInv, TypeOK, NoDanglingPcb
<1>10. TableOnce' /\ Allocated'
  BY <1>1, <1>3 DEF IInv, TypeOK, TableOnce, Allocated
<1>11. StillCreating'
  <2> SUFFICES ASSUME creating # NoProc
               PROVE  StillCreating'
    BY <1>3 DEF StillCreating
  <2>1. creating.pid \in Pids
    BY DEF IInv, TypeOK, Creations
  <2> QED BY <2>1, <1>3, <1>4, <1>5 DEF IInv, StillCreating
<1> QED BY <1>6, <1>7, <1>8, <1>9, <1>10, <1>11 DEF IInv

(* A signal changes the state of one process in the table, and makes it     *)
(* neither RUNNING, nor ZOMBIE, nor freed.                                  *)
LEMMA SignalKeeps ==
  ASSUME IInv, NEW p \in Pids, NEW sig \in Signals, signal_send(p, sig)
  PROVE  IInv'
<1>1. /\ state \in [Pids -> States]
      /\ state' = [state EXCEPT ![p] = SignalledState(sig, state[p])]
      /\ UNCHANGED <<table, parent, ticks, queue, current, next_pid, enabled,
                     pc, creating, exited>>
      /\ process_get_current' = process_get_current
  BY DEF IInv, TypeOK, signal_send, process_get_current
<1>2. LET t == SignalledState(sig, state[p])
      IN  t = state[p] \/ t \in {"TERMINATED", "BLOCKED", "READY"}
  BY DEF SignalledState
<1>3. /\ state' \in [Pids -> States]
      /\ \A q \in Pids :
           state'[q] \in {"RUNNING", "ZOMBIE", "NONE"} => state'[q] = state[q]
  BY <1>1, <1>2 DEF States
<1>4. \A t : (Queued(t)' <=> Queued(t)) /\ (InTable(t)' <=> InTable(t))
  BY <1>1 DEF Queued, InTable
<1>5. TypeOK'
  BY <1>1, <1>3, SMTT(20) DEF IInv, TypeOK
<1>6. QueueDiscipline' /\ ExitedNeverRuns' /\ TableOnce' /\ StillCreating'
  BY <1>1, <1>4
     DEF IInv, QueueDiscipline, ExitedNeverRuns, TableOnce, StillCreating
<1>7. OnlyCurrentRuns' /\ ZombiesExited' /\ NoDanglingPcb'
  BY <1>1, <1>3, <1>4, IdleIsPid
     DEF IInv, OnlyCurrentRuns, ZombiesExited, NoDanglingPcb
<1>8. Allocated'
  BY <1>1 DEF IInv, Allocated
<1> QED BY <1>5, <1>6, <1>7, <1>8 DEF IInv

-----------------------------------------------------------------------------
(* Handlers that end in schedule(). *)
LEMMA TickKeeps ==
  ASSUME IInv, scheduler_tick
  PROVE  IInv'
<1> DEFINE cur == process_get_current
           left == TicksLeft(ticks[cur])
<1>1. cur \in Pids /\ ticks \in [Pids -> 0 .. Quantum]
  BY CurrentIsPid DEF IInv, TypeOK
<1>2. /\ ticks' = [ticks EXCEPT ![cur] = IF left = 0 THEN Quantum ELSE left]
      /\ IF left = 0 THEN schedule(state, queue)
                     ELSE UNCHANGED <<state, queue, current>>
      /\ UNCHANGED <<table, parent, next_pid, enabled, pc, creating, exited>>
  BY DEF scheduler_tick
<1>3. ticks' \in [Pids -> 0 .. Quantum]
  <2>1. ticks[cur] \in 0 .. Quantum
    BY <1>1
  <2>2. left \in 0 .. Quantum /\ Quantum \in 0 .. Quantum
    BY <2>1, SizeAssumption DEF TicksLeft
  <2> HIDE DEF left, cur
  <2> QED BY <2>2, <1>1, <1>2
<1>4. CASE left = 0
  <2>1. schedule(state, queue) /\ state \in [Pids -> States]
    BY <1>2, <1>4 DEF IInv, TypeOK
  <2>2. /\ \A p \in Pids : state[p] = "RUNNING" => p = cur
        /\ \A p \in Pids : state[p] = "ZOMBIE" => p \in exited'
    BY <1>2 DEF IInv, OnlyCurrentRuns, ZombiesExited
  <2>3. /\ state' \in [Pids -> States]
        /\ queue' \in Seq(Pids)
        /\ current' \in Pids \cup {NoProc}
        /\ Links'
    BY <2>1, <2>2, <1>2, ScheduleKeeps
  <2>4. TypeOK'
    BY <2>3, <1>2, <1>3 DEF IInv, TypeOK
  <2> QED BY <2>3, <2>4 DEF IInv, Links
<1>5. CASE left # 0
  <2>1. UNCHANGED <<state, queue, current, table, next_pid, creating, exited>>
    BY <1>2, <1>5
  <2>2. TypeOK'
    BY <2>1, <1>2, <1>3 DEF IInv, TypeOK
  <2> QED BY <2>1, <2>2
       DEF IInv, QueueDiscipline, OnlyCurrentRuns, ExitedNeverRuns,
           NoDanglingPcb, Allocated, TableOnce, StillCreating, ZombiesExited,
           process_get_current, Queued, InTable
<1> QED BY <1>4, <1>5

LEMMA EnableKeeps ==
  ASSUME IInv, scheduler_enable
  PROVE  IInv'
<1>1. /\ schedule(state, queue) /\ enabled' = TRUE
      /\ state \in [Pids -> States]
      /\ UNCHANGED <<table, parent, ticks, next_pid, pc, creating, exited>>
  BY DEF scheduler_enable, IInv, TypeOK
<1>2. /\ \A p \in Pids : state[p] = "RUNNING" => p = process_get_current
      /\ \A p \in Pids : state[p] = "ZOMBIE" => p \in exited'
  BY <1>1 DEF IInv, OnlyCurrentRuns, ZombiesExited
<1>3. /\ state' \in [Pids -> States]
      /\ queue' \in Seq(Pids)
      /\ current' \in Pids \cup {NoProc}
      /\ Links'
  BY <1>1, <1>2, ScheduleKeeps
<1>4. TypeOK'
  BY <1>1, <1>3 DEF IInv, TypeOK
<1> QED BY <1>3, <1>4 DEF IInv, Links

(* The current process p sets its own state to t, not RUNNING, and calls    *)
(* schedule(): sys_exit, process_exit and the blocking turn of sys_wait.    *)
LEMMA LeaveKeeps ==
  ASSUME IInv, NEW p \in Pids, Calls(p),
         NEW t \in {"ZOMBIE", "TERMINATED", "WAITING"},
         schedule([state EXCEPT ![p] = t], queue),
         exited' = exited \cup {p} \/ (exited' = exited /\ t # "ZOMBIE"),
         UNCHANGED <<table, parent, ticks, next_pid, enabled, creating>>,
         pc' \in [Pids -> {"run", "wait"}]
  PROVE  IInv'
<1> DEFINE st == [state EXCEPT ![p] = t]
<1>1. st \in [Pids -> States] /\ state \in [Pids -> States]
  BY DEF IInv, TypeOK, States
<1>2. p = process_get_current /\ p # Idle
  BY NoProcAssumption DEF Calls, process_get_current
<1>3. /\ st[p] = t /\ t \notin {"RUNNING", "NONE"}
      /\ \A q \in Pids : q # p => st[q] = state[q]
  BY <1>1
<1> HIDE DEF st
<1>4. /\ \A q \in Pids : st[q] = "RUNNING" => q = process_get_current
      /\ \A q \in Pids : st[q] = "NONE" => state[q] = "NONE"
      /\ \A q \in Pids : st[q] = "ZOMBIE" => q \in exited'
  BY <1>3 DEF IInv, OnlyCurrentRuns, ZombiesExited
<1>5. /\ state' \in [Pids -> States]
      /\ queue' \in Seq(Pids)
      /\ current' \in Pids \cup {NoProc}
      /\ exited' \subseteq Pids
      /\ Links'
  <2>1. schedule(st, queue)
    BY DEF st
  <2>2. \/ exited' = exited
        \/ /\ exited' = exited \cup {process_get_current}
           /\ st[process_get_current] # "RUNNING"
           /\ process_get_current # Idle
    BY <1>2, <1>3
  <2> QED BY <2>1, <2>2, <1>1, <1>4, ScheduleKeeps
<1>6. TypeOK'
  BY <1>5 DEF IInv, TypeOK
<1> QED BY <1>5, <1>6 DEF IInv, Links

(* sys_fork that gives its child back has spent a pid. *)
LEMMA ForkFailsKeeps ==
  ASSUME IInv, NEW p \in Pids, ForkFails(p)
  PROVE  IInv'
<1>1. /\ next_pid' = next_pid + 1
      /\ next_pid \in Nat /\ next_pid' \in 1 .. MaxPid + 1
      /\ UNCHANGED <<table, state, parent, ticks, queue, current, enabled, pc,
                     creating, exited>>
  BY SizeAssumption DEF ForkFails, IInv, TypeOK
<1>2. TypeOK'
  BY <1>1 DEF IInv, TypeOK
<1>3. Allocated'
  <2>1. /\ \A t \in Slots : table[t] # NoProc => table[t] \in Pids
        /\ \A i \in 1 .. Len(queue) : queue[i] \in Pids
        /\ process_get_current \in Pids
        /\ exited \subseteq Pids
        /\ creating # NoProc => creating.pid \in Pids
    BY CurrentIsPid DEF IInv, TypeOK, Creations
  <2>2. \A q \in Pids : q < next_pid => q < next_pid'
    BY <1>1 DEF Pids
  <2>3. process_get_current' = process_get_current
    BY <1>1 DEF process_get_current
  <2> QED BY <2>1, <2>2, <2>3, <1>1 DEF IInv, Allocated
<1> QED BY <1>1, <1>2, <1>3
     DEF IInv, QueueDiscipline, OnlyCurrentRuns, ExitedNeverRuns,
         NoDanglingPcb, TableOnce, StillCreating, ZombiesExited,
         process_get_current, Queued, InTable

-----------------------------------------------------------------------------
LEMMA NextIInv ==
  ASSUME IInv, [Next]_vars
  PROVE  IInv'
<1>1. CASE BootCreate
  BY <1>1, InsertKeeps, Zenon DEF BootCreate, IInv, TypeOK
<1>2. CASE scheduler_enable
  BY <1>2, EnableKeeps
<1>3. CASE CreateBegin
  BY <1>3, CreateBeginKeeps
<1>4. CASE CreateEnd
  BY <1>4, CreateEndKeeps
<1>5. CASE scheduler_tick
  BY <1>5, TickKeeps
<1>6. CASE CtrlC
  BY <1>6, SignalKeeps, CurrentIsPid DEF CtrlC, Signals, Terminating, IInv
<1>7. ASSUME NEW p \in Pids, sys_exit(p)
      PROVE  IInv'
  <2>1. ExitState(p) \in {"ZOMBIE", "TERMINATED", "WAITING"}
    BY DEF ExitState
  <2>2. pc' \in [Pids -> {"run", "wait"}]
    BY <1>7 DEF sys_exit, IInv, TypeOK
  <2> QED BY <1>7, <2>1, <2>2, LeaveKeeps, Zenon DEF sys_exit
<1>8. ASSUME NEW p \in Pids, process_exit(p)
      PROVE  IInv'
  <2>1. pc' \in [Pids -> {"run", "wait"}]
    BY <1>8 DEF process_exit, IInv, TypeOK
  <2> QED BY <1>8, <2>1, LeaveKeeps, Zenon DEF process_exit
<1>9. ASSUME NEW p \in Pids, sys_fork(p)
      PROVE  IInv'
  <2>1. parent' \in [Pids -> Pids]
    BY <1>9, NewPidFacts DEF sys_fork, IInv, TypeOK
  <2> QED BY <1>9, <2>1, InsertKeeps, Zenon DEF sys_fork
<1>10. ASSUME NEW p \in Pids, ForkFails(p)
       PROVE  IInv'
  BY <1>10, ForkFailsKeeps
<1>11. ASSUME NEW p \in Pids, WaitReaps(p)
       PROVE  IInv'
  BY <1>11, WaitReapsKeeps
<1>12. ASSUME NEW p \in Pids, WaitBlocks(p)
       PROVE  IInv'
  <2>1. pc' \in [Pids -> {"run", "wait"}]
    BY <1>12 DEF WaitBlocks, IInv, TypeOK
  <2> QED BY <1>12, <2>1, LeaveKeeps, Zenon DEF WaitBlocks
<1>13. ASSUME NEW p \in Pids, sys_kill(p)
       PROVE  IInv'
  BY <1>13, SignalKeeps DEF sys_kill
<1>14. CASE UNCHANGED vars
  BY <1>14
     DEF IInv, TypeOK, QueueDiscipline, OnlyCurrentRuns, ExitedNeverRuns,
         NoDanglingPcb, Allocated, TableOnce, StillCreating, ZombiesExited,
         process_get_current, Queued, InTable, vars
<1> QED BY <1>1, <1>2, <1>3, <1>4, <1>5, <1>6, <1>7, <1>8, <1>9, <1>10, <1>11,
           <1>12, <1>13, <1>14 DEF Next

(* The strengthening that makes every safety property of the process table *)
(* and the scheduler inductive, for any table, any pids and any quantum.    *)
THEOREM Invariance == Spec => []IInv
<1>1. Init => IInv
  BY InitIInv
<1>2. IInv /\ [Next]_vars => IInv'
  BY NextIInv
<1> QED BY <1>1, <1>2, PTL DEF Spec

(* process_table, the PCBs, the queue and the quantum keep their ranges.    *)
THEOREM TypeCorrect == Spec => []TypeOK
<1>1. IInv => TypeOK
  BY DEF IInv
<1> QED BY <1>1, Invariance, PTL

(* The ready queue never holds a process twice, nor the current process,    *)
(* although signals and preempted creations interleave with schedule().     *)
THEOREM QueueSafe == Spec => []QueueDiscipline
<1>1. IInv => QueueDiscipline
  BY DEF IInv
<1> QED BY <1>1, Invariance, PTL

(* At most the current process is marked RUNNING.                           *)
THEOREM OneRunning == Spec => []OnlyCurrentRuns
<1>1. IInv => OnlyCurrentRuns
  BY DEF IInv
<1> QED BY <1>1, Invariance, PTL

(* The panic after schedule() in process_exit is unreachable: a process     *)
(* that exited is never given the CPU again.                                *)
THEOREM ExitIsFinal == Spec => []ExitedNeverRuns
<1>1. IInv => ExitedNeverRuns
  BY DEF IInv
<1> QED BY <1>1, Invariance, PTL

(* sys_wait never frees a PCB that the table, the queue, current_process or *)
(* a preempted process_create still points to.                              *)
THEOREM NoUseAfterReap == Spec => []NoDanglingPcb
<1>1. IInv => NoDanglingPcb
  BY DEF IInv
<1> QED BY <1>1, Invariance, PTL

-----------------------------------------------------------------------------
(* How a step changes the queue: not at all, at the tail, or in schedule(). *)
LEMMA QueueSteps ==
  ASSUME IInv, Next
  PROVE  \/ queue' = queue
         \/ \E p \in Pids : ~ Queued(p) /\ queue' = ready_queue_push(queue, p)
         \/ \E st \in [Pids -> States] : schedule(st, queue)
<1> DEFINE Goal ==
      \/ queue' = queue
      \/ \E p \in Pids : ~ Queued(p) /\ queue' = ready_queue_push(queue, p)
      \/ \E st \in [Pids -> States] : schedule(st, queue)
<1>1. state \in [Pids -> States]
  BY DEF IInv, TypeOK
<1>2. ASSUME NewPcb
      PROVE  next_pid \in Pids /\ ~ Queued(next_pid)
  BY <1>2, NewPidFacts, SMTT(20) DEF IInv, Allocated, Queued
<1>3. CASE BootCreate
  BY <1>2, <1>3 DEF BootCreate
<1>4. CASE scheduler_enable \/ scheduler_tick
  BY <1>1, <1>4 DEF scheduler_enable, scheduler_tick
<1>5. CASE CreateBegin \/ CtrlC
  BY <1>5 DEF CreateBegin, CtrlC, signal_send
<1>6. CASE CreateEnd
  <2>1. creating.pid \in Pids /\ ~ Queued(creating.pid)
    BY <1>6 DEF CreateEnd, IInv, TypeOK, Creations, StillCreating
  <2> QED BY <2>1, <1>6 DEF CreateEnd
<1>7. ASSUME NEW p \in Pids, sys_exit(p) \/ process_exit(p) \/ WaitBlocks(p)
      PROVE  Goal
  <2>1. ASSUME NEW t \in States
        PROVE  [state EXCEPT ![p] = t] \in [Pids -> States]
    BY <1>1
  <2>2. ExitState(p) \in States /\ "TERMINATED" \in States
        /\ "WAITING" \in States
    BY DEF ExitState, States
  <2>3. \E t \in States : schedule([state EXCEPT ![p] = t], queue)
    BY <1>7, <2>2, Zenon DEF sys_exit, process_exit, WaitBlocks
  <2> QED BY <2>1, <2>3
<1>8. ASSUME NEW p \in Pids, sys_fork(p)
      PROVE  Goal
  BY <1>2, <1>8 DEF sys_fork
<1>9. ASSUME NEW p \in Pids, ForkFails(p) \/ WaitReaps(p) \/ sys_kill(p)
      PROVE  Goal
  BY <1>9 DEF ForkFails, WaitReaps, sys_kill, signal_send
<1> QED BY <1>3, <1>4, <1>5, <1>6, <1>7, <1>8, <1>9 DEF Next

(* No step of Process moves a process that stays queued further back.       *)
LEMMA NextNoOvertaking ==
  ASSUME IInv, Next,
         NEW i \in 1 .. Len(queue), NEW j \in 1 .. Len(queue'),
         queue[i] = queue'[j]
  PROVE  j <= i
<1>1. /\ queue \in Seq(Pids) /\ Len(queue) \in Nat
      /\ \A k, l \in 1 .. Len(queue) : queue[k] = queue[l] => k = l
      /\ queue[i] # process_get_current
  BY SMTT(20) DEF IInv, TypeOK, QueueDiscipline, Queued
<1>2. CASE queue' = queue
  BY <1>1, <1>2
<1>3. CASE \E p \in Pids : ~ Queued(p) /\ queue' = ready_queue_push(queue, p)
  <2>1. PICK p \in Pids : ~ Queued(p) /\ queue' = ready_queue_push(queue, p)
    BY <1>3
  <2>2. /\ Len(queue') = Len(queue) + 1
        /\ \A k \in 1 .. Len(queue) : queue'[k] = queue[k]
        /\ queue'[Len(queue) + 1] = p
    BY <2>1, <1>1, PushFacts, Zenon
  <2>3. j # Len(queue) + 1
    BY <2>1, <2>2 DEF Queued
  <2>4. j \in 1 .. Len(queue)
    BY <1>1, <2>2, <2>3
  <2> QED BY <1>1, <2>2, <2>4
<1>4. CASE \E st \in [Pids -> States] : schedule(st, queue)
  <2>1. j + 1 \in 1 .. Len(queue) /\ queue'[j] = queue[j + 1]
    BY <1>1, <1>4, ScheduleQueue DEF IInv
  <2>2. queue[i] = queue[j + 1]
    BY <2>1, Zenon
  <2>3. i = j + 1
    BY <1>1, <2>1, <2>2, Zenon
  <2> QED BY <2>3
<1> QED BY <1>2, <1>3, <1>4, QueueSteps

(* Round robin is fair at every step: nobody who stays in the ready queue   *)
(* is moved further from its head.                                          *)
THEOREM RoundRobin == Spec => NoOvertaking
<1>1. IInv /\ [Next]_vars =>
        [\A i \in 1 .. Len(queue), j \in 1 .. Len(queue') :
            queue[i] = queue'[j] => j <= i]_vars
  BY NextNoOvertaking
<1> QED BY <1>1, Invariance, PTL DEF Spec, NoOvertaking

(* A step of Process frees a PCB only when it reaps.                        *)
LEMMA NextReapsOwn ==
  ASSUME IInv, Next, NEW c \in Pids, state[c] # "NONE", state'[c] = "NONE"
  PROVE  parent[c] = current /\ c \in exited
<1>1. state \in [Pids -> States]
  BY DEF IInv, TypeOK
<1>2. ASSUME NEW st \in [Pids -> States], schedule(st, queue),
             \A q \in Pids : st[q] = "RUNNING" => q = process_get_current,
             st[c] # "NONE"
      PROVE  FALSE
  BY <1>2, ScheduleState DEF IInv
<1>3. \A q \in Pids : state[q] = "RUNNING" => q = process_get_current
  BY DEF IInv, OnlyCurrentRuns
<1>4. ASSUME NewPcb
      PROVE  FALSE
  BY <1>1, <1>4, NewPidFacts DEF NewPcb
<1>5. ASSUME NEW p \in Pids, NEW sig \in Signals, signal_send(p, sig)
      PROVE  FALSE
  BY <1>1, <1>5 DEF signal_send, SignalledState
<1>6. ~ (BootCreate \/ CreateBegin \/ CreateEnd)
  BY <1>4 DEF BootCreate, CreateBegin, CreateEnd
<1>7. ~ (scheduler_enable \/ scheduler_tick)
  BY <1>1, <1>2, <1>3 DEF scheduler_enable, scheduler_tick
<1>8. ~ CtrlC
  BY <1>5, CurrentIsPid DEF CtrlC, Signals, Terminating, IInv
<1>9. ASSUME NEW p \in Pids, NEW t \in States \ {"NONE", "RUNNING"},
             schedule([state EXCEPT ![p] = t], queue)
      PROVE  FALSE
  <2> DEFINE st == [state EXCEPT ![p] = t]
  <2>1. /\ st \in [Pids -> States] /\ st[c] # "NONE"
        /\ \A q \in Pids : st[q] = "RUNNING" => q = process_get_current
    BY <1>1, <1>3
  <2>2. schedule(st, queue)
    BY <1>9
  <2> HIDE DEF st
  <2> QED BY <1>2, <2>1, <2>2
<1>10. ASSUME NEW p \in Pids, sys_exit(p) \/ process_exit(p) \/ WaitBlocks(p)
       PROVE  FALSE
  <2>1. /\ ExitState(p) \in States \ {"NONE", "RUNNING"}
        /\ "TERMINATED" \in States \ {"NONE", "RUNNING"}
        /\ "WAITING" \in States \ {"NONE", "RUNNING"}
    BY DEF ExitState, States
  <2> QED BY <1>9, <1>10, <2>1, Zenon DEF sys_exit, process_exit, WaitBlocks
<1>11. ASSUME NEW p \in Pids, sys_fork(p) \/ ForkFails(p) \/ sys_kill(p)
       PROVE  FALSE
  BY <1>4, <1>5, <1>11 DEF sys_fork, ForkFails, sys_kill
<1>12. PICK p \in Pids : WaitReaps(p)
  BY <1>6, <1>7, <1>8, <1>10, <1>11 DEF Next
<1>13. PICK s \in Slots :
         /\ parent[table[s]] = p /\ state[table[s]] = "ZOMBIE"
         /\ state' = [state EXCEPT ![table[s]] = "NONE"]
  BY <1>12, Zenon DEF WaitReaps, find_zombie_child, IsZombieChild
<1>14. c = table[s]
  BY <1>1, <1>13
<1> QED BY <1>12, <1>13, <1>14 DEF WaitReaps, Calls, IInv, ZombiesExited

(* A PCB is freed by sys_wait alone, for a child of the caller that exited. *)
THEOREM ReapsOwn == Spec => ReapsOwnExitedChild
<1>1. IInv /\ [Next]_vars =>
        [process_get_current # Idle =>
           \A c \in Pids : state[c] # "NONE" /\ state'[c] = "NONE" =>
              parent[c] = current /\ c \in exited]_vars
  BY NextReapsOwn
<1> QED BY <1>1, Invariance, PTL DEF Spec, ReapsOwnExitedChild

-----------------------------------------------------------------------------
(* The loader and init beside the other processes. *)

(* Before scheduler_enable the queue holds what kernel_main created, and    *)
(* afterwards current_process is never NULL again.                          *)
Started ==
  /\ enabled => current # NoProc
  /\ ~ enabled => /\ current = NoProc /\ creating = NoProc /\ loading = NoProc
                  /\ Len(queue) = next_pid - 1

(* The place of the process that elf_load works on.  While the loop of      *)
(* kernel_main runs, that process is the last of the queue and READY, or    *)
(* not queued; while another one runs, the loop is queued right behind it,  *)
(* so that it leaves the queue before the loop goes on.                     *)
LoadOrder ==
  loading # NoProc =>
    /\ loading \in Pids /\ loading # Idle /\ loading < next_pid
    /\ creating = NoProc
    /\ process_get_current = Idle =>
         \A i \in 1 .. Len(queue) :
           queue[i] = loading => i = Len(queue) /\ state[loading] = "READY"
    /\ process_get_current # Idle =>
         \A i, j \in 1 .. Len(queue) :
           queue[i] = loading /\ queue[j] = Idle => j = i + 1
    /\ process_get_current = loading =>
         \A j \in 1 .. Len(queue) : queue[j] = Idle => j = 1

(* parent_pid names a process that ran; a process that process_create makes *)
(* has parent 0 and has no children yet.                                    *)
Parents ==
  /\ \A p \in Pids : parent[p] < next_pid
  /\ \A p \in Pids : p >= next_pid => parent[p] = 0
  /\ creating # NoProc =>
       /\ parent[creating.pid] = 0
       /\ \A p \in Pids : parent[p] # creating.pid

(* No signal reaches a PCB that is not in the table yet. *)
CreatingReady == creating # NoProc => state[creating.pid] = "READY"

(* init has no child whenever it is about to fork. *)
ShellPlace ==
  /\ init_pid \in Pids \cup {NoProc}
  /\ shell_pid \in Pids \cup {NoProc}
  /\ at \in {"start", "restart", "wait", "exit"}
  /\ init_pid = NoProc => at = "start"
  /\ init_pid # Idle
  /\ init_pid # NoProc => init_pid < next_pid
  /\ at \in {"start", "restart"} /\ init_pid # NoProc =>
       \A p \in Pids : InTable(p) => parent[p] # init_pid

ReaperInv ==
  /\ IInv
  /\ Started
  /\ LoadOrder
  /\ Parents
  /\ CreatingReady
  /\ ShellPlace
  /\ OneShell

-----------------------------------------------------------------------------
(* Where schedule() leaves every process: the head gets the CPU, everybody  *)
(* moves up by one, and the current process goes to the tail if RUNNING.    *)
LEMMA ScheduleMoves ==
  ASSUME TypeOK, QueueDiscipline, NEW st \in [Pids -> States], schedule(st, queue)
  PROVE  LET cur == process_get_current
         IN  /\ queue = <<>> =>
                  /\ queue' = <<>>
                  /\ process_get_current' \in {Idle, cur}
             /\ queue # <<>> =>
                  /\ Len(queue) >= 1
                  /\ process_get_current' = queue[1]
                  /\ current' = queue[1]
                  /\ \A i \in 1 .. Len(queue) - 1 : queue'[i] = queue[i + 1]
                  /\ Len(queue') \in {Len(queue) - 1, Len(queue)}
                  /\ Len(queue') = Len(queue) =>
                       queue'[Len(queue)] = cur /\ state'[cur] = "READY"
<1> DEFINE cur == process_get_current
           runs == StillRunnable(st[cur])
           q1 == IF runs THEN ready_queue_push(queue, cur) ELSE queue
           st1 == IF runs THEN [st EXCEPT ![cur] = "READY"] ELSE st
           next == Picked(q1)
<1> HIDE DEF cur
<1>1. /\ cur \in Pids /\ queue \in Seq(Pids) /\ Len(queue) \in Nat
      /\ cur # NoProc
  BY CurrentIsPid, NoProcAssumption DEF cur, TypeOK
<1>2. /\ queue' = ready_queue_pop(q1)
      /\ state' = IF next = cur THEN st1 ELSE [st1 EXCEPT ![next] = "RUNNING"]
      /\ current' = IF next = cur THEN current ELSE next
  BY DEF schedule, cur
<1>3. LET r == ready_queue_push(queue, cur)
      IN  /\ r \in Seq(Pids)
          /\ Len(r) = Len(queue) + 1
          /\ \A i \in 1 .. Len(queue) : r[i] = queue[i]
          /\ r[Len(queue) + 1] = cur
  BY <1>1, PushFacts, Zenon
<1>4. CASE queue = <<>>
  <2>1. CASE ~ runs
    <3>1. q1 = <<>> /\ next = Idle
      BY <1>4, <2>1 DEF Picked
    <3>2. queue' = <<>> /\ process_get_current' \in {Idle, cur}
      BY <1>2, <3>1, IdleIsPid DEF ready_queue_pop, process_get_current, cur
    <3> QED BY <1>4, <3>2 DEF cur
  <2>2. CASE runs
    <3>1. q1 \in Seq(Pids) /\ Len(q1) = 1 /\ q1[1] = cur /\ q1 # <<>>
      BY <1>3, <1>4, <2>2
    <3>2. next = cur /\ queue' = <<>>
      BY <1>2, <3>1, PopFacts
    <3>3. process_get_current' = cur
      BY <1>2, <3>2 DEF process_get_current, cur
    <3> QED BY <1>4, <3>2, <3>3 DEF cur
  <2> QED BY <2>1, <2>2
<1>5. CASE queue # <<>>
  <2>1. /\ Len(queue) >= 1 /\ q1 \in Seq(Pids) /\ q1 # <<>>
        /\ \A i \in 1 .. Len(queue) : q1[i] = queue[i]
        /\ Len(q1) = IF runs THEN Len(queue) + 1 ELSE Len(queue)
        /\ runs => q1[Len(queue) + 1] = cur
    <3> HIDE DEF runs
    <3> QED BY <1>1, <1>3, <1>5
  <2>2. /\ Len(queue') = Len(q1) - 1
        /\ \A i \in 1 .. Len(q1) - 1 : queue'[i] = q1[i + 1]
        /\ next = queue[1] /\ next \in Pids
    BY <1>2, <2>1, PopFacts
  <2>3. next # cur
    BY <1>1, <2>1, <2>2 DEF QueueDiscipline, Queued, cur
  <2>4. current' = queue[1] /\ process_get_current' = queue[1]
    BY <1>2, <2>2, <2>3, NoProcAssumption DEF process_get_current
  <2>5. runs => state'[cur] = "READY"
    <3>1. runs => st1[cur] = "READY" /\ st1 \in [Pids -> States]
      BY <1>1 DEF States
    <3> HIDE DEF st1, next, runs
    <3> QED BY <1>1, <1>2, <2>2, <2>3, <3>1
  <2>6. /\ \A i \in 1 .. Len(queue) - 1 : queue'[i] = queue[i + 1]
        /\ Len(queue') = IF runs THEN Len(queue) ELSE Len(queue) - 1
        /\ runs => queue'[Len(queue)] = cur
    <3> HIDE DEF runs, q1
    <3> QED BY <1>1, <2>1, <2>2
  <2> HIDE DEF runs, q1, next, st1
  <2> QED BY <1>1, <1>5, <2>1, <2>4, <2>5, <2>6 DEF cur
<1> QED BY <1>4, <1>5

(* schedule() keeps the process being loaded ahead of the loop that loads.  *)
LEMMA ScheduleLoadOrder ==
  ASSUME TypeOK, QueueDiscipline, LoadOrder, NEW st \in [Pids -> States],
         schedule(st, queue), UNCHANGED <<loading, creating, next_pid>>
  PROVE  LoadOrder'
<1> DEFINE cur == process_get_current
           n == Len(queue)
           L == loading
<1> SUFFICES ASSUME loading # NoProc
             PROVE  LoadOrder'
  BY DEF LoadOrder
<1>1. /\ L \in Pids /\ L # Idle /\ L < next_pid /\ creating = NoProc
      /\ cur = Idle => \A i \in 1 .. n :
           queue[i] = L => i = n /\ state[L] = "READY"
      /\ cur # Idle => \A i, j \in 1 .. n :
           queue[i] = L /\ queue[j] = Idle => j = i + 1
      /\ cur = L => \A j \in 1 .. n : queue[j] = Idle => j = 1
  BY DEF LoadOrder
<1>2. /\ \A i, j \in 1 .. n : queue[i] = queue[j] => i = j
      /\ \A i \in 1 .. n : queue[i] # cur
      /\ n \in Nat
  BY DEF QueueDiscipline, Queued, TypeOK
<1>3. CASE queue = <<>>
  <2>1. queue' = <<>>
    BY <1>3, ScheduleMoves
  <2> QED BY <1>1, <2>1 DEF LoadOrder
<1>4. CASE queue # <<>>
  <2>1. /\ n >= 1
        /\ process_get_current' = queue[1]
        /\ \A i \in 1 .. n - 1 : queue'[i] = queue[i + 1]
        /\ Len(queue') \in {n - 1, n}
        /\ Len(queue') = n => queue'[n] = cur /\ state'[cur] = "READY"
    BY <1>4, ScheduleMoves
  <2> HIDE DEF cur, n, L
  <2>2. \A i \in 1 .. Len(queue') :
          \/ i \in 1 .. n - 1 /\ queue'[i] = queue[i + 1] /\ i + 1 \in 1 .. n
          \/ i = n /\ Len(queue') = n /\ queue'[i] = cur /\ state'[cur] = "READY"
    BY <1>2, <2>1
  <2>3. queue[1] = Idle =>
          \A i \in 1 .. Len(queue') :
            queue'[i] = L => i = Len(queue') /\ state'[L] = "READY"
    <3> SUFFICES ASSUME queue[1] = Idle, NEW i \in 1 .. Len(queue'), queue'[i] = L
                 PROVE  i = Len(queue') /\ state'[L] = "READY"
      OBVIOUS
    <3>1. cur # Idle /\ 1 \in 1 .. n
      BY <1>2, <2>1
    <3>2. ~ (i \in 1 .. n - 1)
      BY <1>1, <1>2, <2>1, <3>1
    <3> QED BY <2>2, <3>2
  <2>4. queue[1] # Idle =>
          \A i, j \in 1 .. Len(queue') :
            queue'[i] = L /\ queue'[j] = Idle => j = i + 1
    <3> SUFFICES ASSUME queue[1] # Idle,
                        NEW i \in 1 .. Len(queue'), NEW j \in 1 .. Len(queue'),
                        queue'[i] = L, queue'[j] = Idle
                 PROVE  j = i + 1
      OBVIOUS
    <3>1. CASE i \in 1 .. n - 1 /\ j \in 1 .. n - 1
      BY <1>1, <1>2, <2>1, <3>1, SMTT(30)
    <3>2. CASE i = n /\ j \in 1 .. n - 1
      BY <1>1, <1>2, <2>1, <2>2, <3>2
    <3>3. CASE j = n
      BY <1>1, <1>2, <2>1, <2>2, <3>3
    <3> QED BY <2>2, <3>1, <3>2, <3>3
  <2>5. queue[1] = L => \A j \in 1 .. Len(queue') : queue'[j] = Idle => j = 1
    BY <1>1, <1>2, <2>1, <2>2
  <2> QED BY <1>1, <2>1, <2>3, <2>4, <2>5 DEF LoadOrder, L
<1> QED BY <1>3, <1>4

(* Steps that leave the queue alone keep LoadOrder: only the idle process   *)
(* could be disturbed by a signal, and nobody sends one while it runs.      *)
LEMMA SameQueueLoadOrder ==
  ASSUME TypeOK, LoadOrder, UNCHANGED <<queue, current, loading>>,
         next_pid' \in Nat, next_pid <= next_pid',
         loading # NoProc => creating' = NoProc,
         loading # NoProc /\ process_get_current = Idle => state'[loading] = state[loading]
  PROVE  LoadOrder'
<1>1. process_get_current' = process_get_current
  BY DEF process_get_current
<1>2. \A p \in Pids : p < next_pid => p < next_pid'
  BY DEF Pids, TypeOK
<1> QED BY <1>1, <1>2 DEF LoadOrder

(* Every step of Process keeps the order, given that the loop of            *)
(* kernel_main creates nothing else while it loads.                         *)
LEMMA NextLoadOrder ==
  ASSUME IInv, Started, LoadOrder, Next, UNCHANGED loading,
         loading # NoProc => creating' = NoProc
  PROVE  LoadOrder'
<1> SUFFICES ASSUME loading # NoProc
             PROVE  LoadOrder'
  BY DEF LoadOrder
<1>1. /\ TypeOK /\ QueueDiscipline /\ state \in [Pids -> States]
      /\ next_pid \in Nat /\ queue \in Seq(Pids) /\ Len(queue) \in Nat
  BY DEF IInv, TypeOK
<1>2. enabled /\ creating = NoProc /\ loading \in Pids /\ loading < next_pid
      /\ loading # Idle
  BY DEF Started, LoadOrder
<1>3. ~ BootCreate /\ ~ scheduler_enable /\ ~ CreateEnd
  BY <1>2 DEF BootCreate, scheduler_enable, CreateEnd
<1>4. ASSUME NEW st \in [Pids -> States], schedule(st, queue),
             UNCHANGED <<creating, next_pid>>
      PROVE  LoadOrder'
  BY <1>1, <1>4, ScheduleLoadOrder
<1>5. CASE CreateBegin
  <2>1. /\ UNCHANGED <<queue, current>>
        /\ next_pid' = next_pid + 1
        /\ state' = [state EXCEPT ![next_pid] = "READY"]
    BY <1>5 DEF CreateBegin, NewPcb
  <2>2. state'[loading] = state[loading]
    BY <1>1, <1>2, <2>1
  <2> QED BY <1>1, <2>1, <2>2, SameQueueLoadOrder
<1>6. CASE scheduler_tick
  <2>1. UNCHANGED <<creating, next_pid>>
    BY <1>6 DEF scheduler_tick
  <2>2. schedule(state, queue) \/ UNCHANGED <<state, queue, current>>
    BY <1>6 DEF scheduler_tick
  <2> QED BY <1>1, <1>4, <2>1, <2>2, SameQueueLoadOrder
<1>7. CASE CtrlC
  <2>1. /\ UNCHANGED <<queue, current, next_pid, creating>>
        /\ \A p \in Pids : p # process_get_current => state'[p] = state[p]
    BY <1>1, <1>7 DEF CtrlC, signal_send
  <2> QED BY <1>1, <1>2, <2>1, SameQueueLoadOrder
<1>8. ASSUME NEW p \in Pids, Calls(p)
      PROVE  process_get_current # Idle
  BY <1>8, NoProcAssumption DEF Calls, process_get_current
<1>9. ASSUME NEW p \in Pids, sys_exit(p) \/ process_exit(p) \/ WaitBlocks(p)
      PROVE  LoadOrder'
  <2>1. /\ ExitState(p) \in States /\ "TERMINATED" \in States
        /\ "WAITING" \in States
    BY DEF ExitState, States
  <2>2. PICK t \in States : schedule([state EXCEPT ![p] = t], queue)
    BY <1>9, <2>1, Zenon DEF sys_exit, process_exit, WaitBlocks
  <2>3. UNCHANGED <<creating, next_pid>>
    BY <1>9 DEF sys_exit, process_exit, WaitBlocks
  <2>4. [state EXCEPT ![p] = t] \in [Pids -> States]
    BY <1>1
  <2> QED BY <1>4, <2>2, <2>3, <2>4, Zenon
<1>10. ASSUME NEW p \in Pids, sys_fork(p)
       PROVE  LoadOrder'
  <2>1. /\ next_pid \in Pids /\ next_pid # Idle
        /\ next_pid' = next_pid + 1 /\ ~ Queued(next_pid)
    BY <1>10, NewPidFacts DEF sys_fork, IInv, Allocated, Queued
  <2>2. /\ Len(queue') = Len(queue) + 1
        /\ \A i \in 1 .. Len(queue) : queue'[i] = queue[i]
        /\ queue'[Len(queue) + 1] = next_pid
    BY <1>1, <1>10, <2>1, PushFacts DEF sys_fork
  <2>3. process_get_current # Idle /\ process_get_current' = process_get_current
    BY <1>8, <1>10 DEF sys_fork, process_get_current
  <2>4. \A i \in 1 .. Len(queue') : queue'[i] \in {loading, Idle} =>
          i \in 1 .. Len(queue) /\ queue'[i] = queue[i]
    BY <1>1, <1>2, <2>1, <2>2
  <2>5. loading < next_pid'
    BY <1>1, <1>2, <2>1 DEF Pids
  <2> QED BY <1>2, <2>3, <2>4, <2>5 DEF LoadOrder
<1>11. ASSUME NEW p \in Pids, ForkFails(p) \/ WaitReaps(p) \/ sys_kill(p)
       PROVE  LoadOrder'
  <2>1. UNCHANGED <<queue, current>>
    BY <1>11 DEF ForkFails, WaitReaps, sys_kill, signal_send
  <2>2. next_pid' \in {next_pid, next_pid + 1}
    BY <1>11 DEF ForkFails, WaitReaps, sys_kill, signal_send
  <2>3. process_get_current # Idle
    BY <1>8, <1>11 DEF ForkFails, WaitReaps, sys_kill
  <2> QED BY <1>1, <2>1, <2>2, <2>3, SameQueueLoadOrder
<1> QED BY <1>3, <1>5, <1>6, <1>7, <1>9, <1>10, <1>11 DEF Next

-----------------------------------------------------------------------------
(* The first schedule() finds a process in the queue, and no later one      *)
(* makes current_process NULL.                                              *)
LEMMA NextStarted ==
  ASSUME IInv, Started, Next, UNCHANGED loading
  PROVE  Started'
<1>1. /\ TypeOK /\ QueueDiscipline /\ state \in [Pids -> States]
      /\ next_pid \in Nat /\ queue \in Seq(Pids) /\ Len(queue) \in Nat
  BY DEF IInv, TypeOK
<1>2. ASSUME NEW st \in [Pids -> States], schedule(st, queue), enabled'
      PROVE  current # NoProc \/ queue # <<>> => Started'
  <2>1. CASE queue # <<>>
    <3>1. current' = queue[1] /\ Len(queue) >= 1
      BY <1>1, <1>2, <2>1, ScheduleMoves
    <3> QED BY <1>1, <1>2, <3>1, NoProcAssumption DEF Started
  <2>2. CASE current # NoProc
    <3>1. current' \in {current, Picked(queue),
                        Picked(ready_queue_push(queue, process_get_current))}
      BY <1>2 DEF schedule
    <3>2. Picked(queue) # NoProc
          /\ Picked(ready_queue_push(queue, process_get_current)) # NoProc
      <4>1. ASSUME NEW q \in Seq(Pids)
            PROVE  Picked(q) # NoProc
        BY PopFacts, IdleIsPid, NoProcAssumption DEF Picked
      <4>2. ready_queue_push(queue, process_get_current) \in Seq(Pids)
        BY <1>1, CurrentIsPid, PushFacts
      <4> QED BY <1>1, <4>1, <4>2
    <3> QED BY <1>2, <2>2, <3>1, <3>2 DEF Started
  <2> QED BY <2>1, <2>2
<1>3. CASE BootCreate
  <2>1. /\ Len(queue') = Len(queue) + 1 /\ next_pid' = next_pid + 1
        /\ UNCHANGED <<current, enabled, creating>> /\ ~ enabled
    BY <1>1, <1>3, NewPidFacts, PushFacts DEF BootCreate
  <2> QED BY <1>1, <2>1 DEF Started
<1>4. CASE scheduler_enable
  <2>1. Len(queue) >= 1 /\ enabled' /\ schedule(state, queue)
    BY <1>1, <1>4, SizeAssumption DEF Started, scheduler_enable
  <2>2. queue # <<>>
    BY <2>1
  <2> QED BY <1>1, <1>2, <2>1, <2>2
<1>5. CASE CreateBegin \/ CreateEnd
  BY <1>5 DEF Started, CreateBegin, CreateEnd
<1>6. CASE scheduler_tick
  <2>1. enabled /\ enabled' = enabled
    BY <1>6 DEF scheduler_tick
  <2>2. schedule(state, queue) \/ UNCHANGED current
    BY <1>6 DEF scheduler_tick
  <2> QED BY <1>1, <1>2, <2>1, <2>2 DEF Started
<1>7. CASE CtrlC
  BY <1>7 DEF Started, CtrlC, signal_send
<1>8. ASSUME NEW p \in Pids, sys_exit(p) \/ process_exit(p) \/ WaitBlocks(p)
      PROVE  Started'
  <2>1. /\ ExitState(p) \in States /\ "TERMINATED" \in States
        /\ "WAITING" \in States
    BY DEF ExitState, States
  <2>2. PICK t \in States : schedule([state EXCEPT ![p] = t], queue)
    BY <1>8, <2>1, Zenon DEF sys_exit, process_exit, WaitBlocks
  <2>3. enabled' /\ current # NoProc
    BY <1>8, NoProcAssumption DEF sys_exit, process_exit, WaitBlocks, Calls
  <2>4. [state EXCEPT ![p] = t] \in [Pids -> States]
    BY <1>1
  <2> QED BY <1>2, <2>2, <2>3, <2>4, Zenon
<1>9. ASSUME NEW p \in Pids,
             sys_fork(p) \/ ForkFails(p) \/ WaitReaps(p) \/ sys_kill(p)
      PROVE  Started'
  <2>1. UNCHANGED <<current, enabled>> /\ enabled
    BY <1>9 DEF sys_fork, ForkFails, WaitReaps, sys_kill, signal_send, Calls
  <2> QED BY <2>1 DEF Started
<1> QED BY <1>3, <1>4, <1>5, <1>6, <1>7, <1>8, <1>9 DEF Next

-----------------------------------------------------------------------------
(* parent_pid is written by sys_fork alone, for the pid just handed out.    *)
LEMMA NextParents ==
  ASSUME IInv, Parents, Next
  PROVE  Parents'
<1>1. /\ parent \in [Pids -> Pids] /\ next_pid \in Nat
      /\ \A p \in Pids : p \in Nat /\ parent[p] \in Nat
      /\ Idle \in Pids
  BY IdleIsPid, SMTT(20) DEF IInv, TypeOK, Pids
<1>2. CASE UNCHANGED <<parent, next_pid, creating>>
  BY <1>2 DEF Parents
<1>3. CASE BootCreate \/ (\E p \in Pids : ForkFails(p))
  <2>1. UNCHANGED <<parent, creating>> /\ next_pid' = next_pid + 1
    BY <1>3 DEF BootCreate, ForkFails, NewPcb
  <2> QED BY <1>1, <2>1 DEF Parents
<1>4. CASE CreateBegin
  <2>1. /\ UNCHANGED parent /\ next_pid' = next_pid + 1
        /\ creating'.pid = next_pid /\ next_pid \in Pids
    BY <1>4, NewPidFacts DEF CreateBegin, NewPcb
  <2>2. /\ parent[next_pid] = 0
        /\ \A p \in Pids : parent[p] # next_pid
    BY <1>1, <2>1 DEF Parents
  <2>3. /\ \A p \in Pids : parent[p] < next_pid'
        /\ \A p \in Pids : p >= next_pid' => parent[p] = 0
    BY <1>1, <2>1 DEF Parents
  <2> QED BY <2>1, <2>2, <2>3 DEF Parents
<1>5. CASE CreateEnd
  BY <1>5 DEF Parents, CreateEnd
<1>6. ASSUME NEW p \in Pids, sys_fork(p)
      PROVE  Parents'
  <2>1. /\ next_pid \in Pids /\ next_pid' = next_pid + 1
        /\ parent' = [parent EXCEPT ![next_pid] = p]
        /\ UNCHANGED creating
    BY <1>6, NewPidFacts DEF sys_fork
  <2>2. p < next_pid /\ p = process_get_current
    BY <1>6, NoProcAssumption DEF sys_fork, Calls, process_get_current, IInv, Allocated
  <2>3. creating # NoProc => /\ creating.pid # p /\ creating.pid # next_pid
                             /\ creating.pid \in Pids
    BY <1>1, <2>2 DEF IInv, StillCreating, Allocated, TypeOK, Creations
  <2>4. /\ \A q \in Pids : parent'[q] < next_pid'
        /\ \A q \in Pids : q >= next_pid' => parent'[q] = 0
    BY <1>1, <2>1, <2>2 DEF Parents
  <2>5. creating # NoProc =>
          /\ parent'[creating.pid] = 0
          /\ \A q \in Pids : parent'[q] # creating.pid
    BY <1>1, <2>1, <2>3 DEF Parents
  <2> QED BY <2>1, <2>4, <2>5 DEF Parents
<1>7. CASE scheduler_enable \/ scheduler_tick \/ CtrlC
  BY <1>2, <1>7 DEF scheduler_enable, scheduler_tick, CtrlC, signal_send
<1>8. ASSUME NEW p \in Pids,
             \/ sys_exit(p) \/ process_exit(p) \/ WaitBlocks(p)
             \/ WaitReaps(p) \/ sys_kill(p)
      PROVE  Parents'
  BY <1>2, <1>8
     DEF sys_exit, process_exit, WaitBlocks, WaitReaps, sys_kill, signal_send
<1> QED BY <1>3, <1>4, <1>5, <1>6, <1>7, <1>8 DEF Next

(* Nobody but init gives init a child, and no child of init comes into the  *)
(* table after it was taken out.                                            *)
LEMMA NextChildren ==
  ASSUME IInv, Parents, Next, NEW i \in Pids \ {Idle},
         process_get_current = i => scheduler_tick \/ CtrlC
  PROVE  \A p \in Pids : InTable(p)' /\ parent'[p] = i =>
            InTable(p) /\ parent[p] = i
<1>1. table \in [Slots -> Pids \cup {NoProc}] /\ parent \in [Pids -> Pids]
  BY DEF IInv, TypeOK
<1> DEFINE Goal == \A p \in Pids : InTable(p)' /\ parent'[p] = i =>
                      InTable(p) /\ parent[p] = i
<1>2. CASE UNCHANGED <<table, parent>>
  BY <1>2 DEF InTable
<1>3. CASE BootCreate
  <2>1. /\ parent' = parent /\ next_pid \in Pids /\ parent[next_pid] = 0
        /\ \E s \in Slots : table' = [table EXCEPT ![s] = next_pid]
    <3>1. next_pid \in Pids /\ next_pid \in Nat
      BY <1>3, NewPidFacts DEF BootCreate
    <3>2. \E s \in Slots : table' = [table EXCEPT ![s] = next_pid]
      BY <1>3, Zenon DEF BootCreate
    <3>3. parent' = parent /\ parent[next_pid] = 0
      BY <1>3, <3>1 DEF BootCreate, Parents
    <3> QED BY <3>1, <3>2, <3>3, Zenon
  <2> QED BY <1>1, <2>1 DEF InTable, Idle
<1>4. CASE CreateEnd
  <2>1. /\ parent' = parent /\ creating.pid \in Pids
        /\ parent[creating.pid] = 0
        /\ table' = [table EXCEPT ![creating.slot] = creating.pid]
    BY <1>4 DEF CreateEnd, Parents, IInv, TypeOK, Creations
  <2> QED BY <1>1, <2>1 DEF InTable, Idle
<1>5. ASSUME NEW p \in Pids, sys_fork(p)
      PROVE  Goal
  <2>1. /\ next_pid \in Pids /\ next_pid' # next_pid
        /\ parent' = [parent EXCEPT ![next_pid] = p]
        /\ \E s \in Slots : table' = [table EXCEPT ![s] = next_pid]
    <3>1. /\ next_pid \in Pids /\ next_pid' = next_pid + 1 /\ next_pid \in Nat
      BY <1>5, NewPidFacts DEF sys_fork
    <3>2. \E s \in Slots : table' = [table EXCEPT ![s] = next_pid]
      BY <1>5, Zenon DEF sys_fork
    <3>3. parent' = [parent EXCEPT ![next_pid] = p]
      BY <1>5 DEF sys_fork
    <3>4. next_pid' # next_pid
      BY <3>1
    <3> QED BY <3>1, <3>2, <3>3, <3>4, Zenon
  <2>2. ~ scheduler_tick /\ ~ CtrlC
    BY <2>1 DEF scheduler_tick, CtrlC, signal_send
  <2>3. p # i
    BY <1>5, <2>2, NoProcAssumption DEF sys_fork, Calls, process_get_current
  <2> QED BY <1>1, <2>1, <2>3 DEF InTable
<1>6. ASSUME NEW p \in Pids, WaitReaps(p)
      PROVE  Goal
  <2>1. parent' = parent /\ \E s \in Slots : table' = [table EXCEPT ![s] = NoProc]
    BY <1>6, Zenon DEF WaitReaps
  <2> QED BY <1>1, <2>1, NoProcAssumption DEF InTable
<1>7. CASE scheduler_enable \/ scheduler_tick \/ CtrlC \/ CreateBegin
  BY <1>2, <1>7 DEF scheduler_enable, scheduler_tick, CtrlC, signal_send, CreateBegin
<1>8. ASSUME NEW p \in Pids,
             \/ sys_exit(p) \/ process_exit(p) \/ WaitBlocks(p)
             \/ ForkFails(p) \/ sys_kill(p)
      PROVE  Goal
  BY <1>2, <1>8
     DEF sys_exit, process_exit, WaitBlocks, ForkFails, sys_kill, signal_send
<1> QED BY <1>3, <1>4, <1>5, <1>6, <1>7, <1>8 DEF Next

-----------------------------------------------------------------------------
(* What ready_queue_remove leaves: the others in their order, none of them  *)
(* further back, and the removed process nowhere.                           *)
LEMMA RemoveFacts ==
  ASSUME NEW q \in Seq(Pids), NEW p \in Pids,
         \A i, j \in 1 .. Len(q) : q[i] = q[j] => i = j
  PROVE  LET r == ready_queue_remove(q, p)
         IN  /\ r \in Seq(Pids)
             /\ \A j \in 1 .. Len(r) : \E i \in 1 .. Len(q) : j <= i /\ r[j] = q[i]
             /\ \A i, j \in 1 .. Len(r) : r[i] = r[j] => i = j
             /\ \A j \in 1 .. Len(r) : r[j] # p
<1>1. CASE ~ \E i \in 1 .. Len(q) : q[i] = p
  BY <1>1 DEF ready_queue_remove
<1>2. CASE \E i \in 1 .. Len(q) : q[i] = p
  <2> DEFINE k == CHOOSE i \in 1 .. Len(q) : q[i] = p
             r == [j \in 1 .. Len(q) - 1 |-> IF j < k THEN q[j] ELSE q[j + 1]]
  <2>1. k \in 1 .. Len(q) /\ q[k] = p
    BY <1>2
  <2>2. ready_queue_remove(q, p) = r
    BY <1>2 DEF ready_queue_remove
  <2> HIDE DEF k
  <2>3. Len(q) \in Nat /\ \A j \in 1 .. Len(q) : q[j] \in Pids
    OBVIOUS
  <2>4. r \in Seq(Pids) /\ Len(r) = Len(q) - 1
    <3>1. Len(q) - 1 \in Nat
      BY <2>1, <2>3
    <3>2. r \in [1 .. Len(q) - 1 -> Pids]
      BY <2>1, <2>3
    <3> QED BY <3>1, <3>2
  <2>5. \A j \in 1 .. Len(r) :
          IF j < k THEN j \in 1 .. Len(q) /\ r[j] = q[j]
                   ELSE j + 1 \in 1 .. Len(q) /\ r[j] = q[j + 1]
    BY <2>1, <2>3, <2>4
  <2> HIDE DEF r
  <2>6. \A j \in 1 .. Len(r) : \E i \in 1 .. Len(q) : j <= i /\ r[j] = q[i]
    BY <2>1, <2>3, <2>4, <2>5
  <2>7. \A i, j \in 1 .. Len(r) : r[i] = r[j] => i = j
    BY <2>1, <2>3, <2>4, <2>5
  <2>8. \A j \in 1 .. Len(r) : r[j] # p
    BY <2>1, <2>3, <2>4, <2>5
  <2> QED BY <2>2, <2>4, <2>6, <2>7, <2>8
<1> QED BY <1>1, <1>2

(* process_destroy of the process that could not be loaded: LoadOrder says  *)
(* that it is READY if it is queued, so no pointer to its PCB is left.      *)
LEMMA LoadFailsKeeps ==
  ASSUME IInv, LoadOrder, LoadFails
  PROVE  /\ IInv'
         /\ \A j \in 1 .. Len(queue') : \E i \in 1 .. Len(queue) :
               j <= i /\ queue'[j] = queue[i]
<1>0. PICK L : L = loading
  OBVIOUS
<1>1. /\ L \in Pids /\ L # Idle /\ L # NoProc /\ creating = NoProc
      /\ process_get_current = Idle
      /\ \A i \in 1 .. Len(queue) : queue[i] = L => state[L] = "READY"
  BY <1>0, NoProcAssumption DEF LoadOrder, LoadFails
<1>2. /\ queue' = IF state[L] = "READY" THEN ready_queue_remove(queue, L) ELSE queue
      /\ table' = [s \in Slots |-> IF table[s] = L THEN NoProc ELSE table[s]]
      /\ state' = [state EXCEPT ![L] = "NONE"]
      /\ UNCHANGED <<parent, ticks, current, next_pid, enabled, pc, creating, exited>>
  BY <1>0 DEF LoadFails, process_destroy
<1>3. /\ queue \in Seq(Pids) /\ Len(queue) \in Nat
      /\ table \in [Slots -> Pids \cup {NoProc}] /\ state \in [Pids -> States]
      /\ \A i, j \in 1 .. Len(queue) : queue[i] = queue[j] => i = j
  BY DEF IInv, TypeOK, QueueDiscipline
<1>4. /\ queue' \in Seq(Pids)
      /\ \A j \in 1 .. Len(queue') : \E i \in 1 .. Len(queue) :
            j <= i /\ queue'[j] = queue[i]
      /\ \A i, j \in 1 .. Len(queue') : queue'[i] = queue'[j] => i = j
      /\ \A j \in 1 .. Len(queue') : queue'[j] # L
  <2>1. CASE state[L] = "READY"
    <3>1. queue' = ready_queue_remove(queue, L)
      BY <1>2, <2>1
    <3> DEFINE r == ready_queue_remove(queue, L)
    <3>2. /\ r \in Seq(Pids)
          /\ \A j \in 1 .. Len(r) : \E i \in 1 .. Len(queue) : j <= i /\ r[j] = queue[i]
          /\ \A i, j \in 1 .. Len(r) : r[i] = r[j] => i = j
          /\ \A j \in 1 .. Len(r) : r[j] # L
      BY <1>1, <1>3, RemoveFacts, Zenon
    <3> QED BY <3>1, <3>2, Zenon
  <2>2. CASE state[L] # "READY"
    <3>1. queue' = queue /\ \A j \in 1 .. Len(queue) : queue[j] # L
      BY <1>1, <1>2, <2>2
    <3>2. \A j \in 1 .. Len(queue) : j <= j
      BY <1>3
    <3> QED BY <1>3, <3>1, <3>2, Zenon
  <2> QED BY <2>1, <2>2
<1>5. /\ \A p : Queued(p)' => Queued(p)
      /\ ~ Queued(L)'
  BY <1>4 DEF Queued
<1>6. /\ \A p \in Pids : InTable(p)' => InTable(p)
      /\ ~ InTable(L)'
  BY <1>1, <1>2, <1>3, NoProcAssumption DEF InTable
<1>7. process_get_current' = process_get_current
  BY <1>2 DEF process_get_current
<1>8. TypeOK'
  BY <1>1, <1>2, <1>3, <1>4 DEF IInv, TypeOK, States
<1>9. QueueDiscipline'
  BY <1>4, <1>5, <1>7 DEF IInv, QueueDiscipline
<1>10. OnlyCurrentRuns' /\ ZombiesExited'
  BY <1>1, <1>2, <1>3, <1>7, IdleIsPid DEF IInv, OnlyCurrentRuns, ZombiesExited
<1>11. ExitedNeverRuns'
  BY <1>2, <1>5, <1>7 DEF IInv, ExitedNeverRuns
<1>12. NoDanglingPcb'
  BY <1>1, <1>2, <1>3, <1>5, <1>6, <1>7 DEF IInv, NoDanglingPcb
<1>13. TableOnce'
  BY <1>2, <1>3 DEF IInv, TableOnce
<1>14. Allocated'
  <2>1. \A i \in 1 .. Len(queue') : queue'[i] < next_pid
    BY <1>4 DEF IInv, Allocated
  <2>2. \A s \in Slots : table'[s] # NoProc => table'[s] < next_pid
    BY <1>2 DEF IInv, Allocated
  <2> QED BY <1>2, <1>7, <2>1, <2>2 DEF IInv, Allocated
<1>15. StillCreating'
  BY <1>1, <1>2 DEF StillCreating
<1> QED BY <1>4, <1>8, <1>9, <1>10, <1>11, <1>12, <1>13, <1>14, <1>15 DEF IInv

-----------------------------------------------------------------------------
(* A PCB that process_create still builds is READY until it is queued:      *)
(* neither schedule() nor a signal can reach it.                            *)
LEMMA NextCreatingReady ==
  ASSUME IInv, CreatingReady, Next
  PROVE  CreatingReady'
<1>1. /\ TypeOK /\ QueueDiscipline /\ state \in [Pids -> States]
      /\ process_get_current \in Pids
  BY CurrentIsPid DEF IInv, TypeOK
<1>2. CASE CreateBegin
  <2>1. /\ next_pid \in Pids /\ state' = [state EXCEPT ![next_pid] = "READY"]
        /\ creating'.pid = next_pid
    BY <1>2, NewPidFacts DEF CreateBegin, NewPcb
  <2> QED BY <1>1, <2>1 DEF CreatingReady
<1>3. CASE CreateEnd
  BY <1>3 DEF CreateEnd, CreatingReady
<1>4. CASE creating = NoProc /\ UNCHANGED creating
  BY <1>4 DEF CreatingReady
<1>5. PICK c : c = creating.pid
  OBVIOUS
<1>6. ASSUME creating # NoProc
      PROVE  /\ c \in Pids /\ state[c] = "READY" /\ c # Idle
             /\ c # process_get_current /\ ~ Queued(c) /\ ~ InTable(c)
             /\ c < next_pid
  BY <1>5, <1>6
     DEF IInv, TypeOK, Creations, StillCreating, CreatingReady, Allocated
<1>7. ASSUME UNCHANGED creating, creating # NoProc => state'[c] = "READY"
      PROVE  CreatingReady'
  BY <1>5, <1>7 DEF CreatingReady
<1>8. ASSUME NEW st \in [Pids -> States], schedule(st, queue),
             UNCHANGED creating, \A p \in Pids : p # process_get_current => st[p] = state[p]
      PROVE  CreatingReady'
  <2> SUFFICES ASSUME creating # NoProc
               PROVE  state'[c] = "READY"
    BY <1>7, <1>8
  <2>1. st[c] = "READY"
    BY <1>6, <1>8
  <2> DEFINE q1 == IF StillRunnable(st[process_get_current])
                   THEN ready_queue_push(queue, process_get_current) ELSE queue
  <2>2. c # Picked(q1)
    <3>1. queue \in Seq(Pids)
      BY <1>1 DEF TypeOK
    <3>2. q1 \in Seq(Pids) /\ \A i \in 1 .. Len(q1) : q1[i] # c
      <4>1. LET r == ready_queue_push(queue, process_get_current)
            IN  /\ r \in Seq(Pids)
                /\ Len(r) = Len(queue) + 1
                /\ \A i \in 1 .. Len(queue) : r[i] = queue[i]
                /\ r[Len(queue) + 1] = process_get_current
        BY <1>1, <3>1, PushFacts, Zenon
      <4>2. Len(queue) \in Nat /\ \A i \in 1 .. Len(queue) : queue[i] # c
        BY <1>6, <3>1 DEF Queued
      <4> QED BY <1>6, <3>1, <4>1, <4>2
    <3> HIDE DEF q1
    <3>3. CASE q1 = <<>>
      BY <1>6, <3>3 DEF Picked
    <3>4. CASE q1 # <<>>
      BY <3>2, <3>4, PopFacts
    <3> QED BY <3>3, <3>4
  <2>3. \/ state' = st \/ state' = [st EXCEPT ![process_get_current] = "READY"]
        \/ state' = [st EXCEPT ![Picked(q1)] = "RUNNING"]
        \/ state' = [[st EXCEPT ![process_get_current] = "READY"]
                         EXCEPT ![Picked(q1)] = "RUNNING"]
    BY <1>8, Zenon DEF schedule
  <2> HIDE DEF q1
  <2> QED BY <1>6, <1>8, <2>1, <2>2, <2>3
<1>9. CASE BootCreate
  <2>1. /\ next_pid \in Pids /\ state' = [state EXCEPT ![next_pid] = "READY"]
        /\ UNCHANGED creating
    BY <1>9, NewPidFacts DEF BootCreate, NewPcb
  <2> QED BY <1>1, <1>6, <1>7, <2>1
<1>10. CASE scheduler_enable \/ scheduler_tick
  <2>1. UNCHANGED creating /\ (schedule(state, queue) \/ state' = state)
    BY <1>10 DEF scheduler_enable, scheduler_tick
  <2> QED BY <1>1, <1>6, <1>7, <1>8, <2>1
<1>11. ASSUME NEW p \in Pids, NEW sig \in Signals, signal_send(p, sig)
       PROVE  CreatingReady'
  <2>1. InTable(p) /\ UNCHANGED creating /\ \A q \in Pids : q # p => state'[q] = state[q]
    BY <1>1, <1>11 DEF signal_send, process_find_by_pid
  <2> QED BY <1>6, <1>7, <2>1
<1>12. CASE CtrlC
  BY <1>1, <1>11, <1>12 DEF CtrlC, Signals, Terminating
<1>13. ASSUME NEW p \in Pids, sys_exit(p) \/ process_exit(p) \/ WaitBlocks(p)
       PROVE  CreatingReady'
  <2>1. /\ ExitState(p) \in States /\ "TERMINATED" \in States
        /\ "WAITING" \in States
    BY DEF ExitState, States
  <2>2. PICK t \in States : schedule([state EXCEPT ![p] = t], queue)
    BY <1>13, <2>1, Zenon DEF sys_exit, process_exit, WaitBlocks
  <2>3. UNCHANGED creating /\ p = process_get_current
    BY <1>13, NoProcAssumption
       DEF sys_exit, process_exit, WaitBlocks, Calls, process_get_current
  <2>4. /\ [state EXCEPT ![p] = t] \in [Pids -> States]
        /\ \A q \in Pids : q # p => [state EXCEPT ![p] = t][q] = state[q]
    BY <1>1
  <2> QED BY <1>8, <2>2, <2>3, <2>4, Zenon
<1>14. ASSUME NEW p \in Pids, sys_fork(p)
       PROVE  CreatingReady'
  <2>1. /\ next_pid \in Pids /\ state' = [state EXCEPT ![next_pid] = "READY"]
        /\ UNCHANGED creating
    BY <1>14, NewPidFacts DEF sys_fork, NewPcb
  <2> QED BY <1>1, <1>6, <1>7, <2>1
<1>15. ASSUME NEW p \in Pids, WaitReaps(p)
       PROVE  CreatingReady'
  <2>1. PICK s \in Slots : /\ table[s] # NoProc
                           /\ state' = [state EXCEPT ![table[s]] = "NONE"]
    BY <1>15, Zenon DEF WaitReaps, find_zombie_child
  <2>2. UNCHANGED creating
    BY <1>15 DEF WaitReaps
  <2> QED BY <1>1, <1>6, <1>7, <2>1, <2>2 DEF InTable
<1>16. ASSUME NEW p \in Pids, ForkFails(p) \/ sys_kill(p)
       PROVE  CreatingReady'
  BY <1>6, <1>7, <1>11, <1>16 DEF ForkFails, sys_kill
<1> QED BY <1>2, <1>3, <1>9, <1>10, <1>12, <1>13, <1>14, <1>15, <1>16 DEF Next

-----------------------------------------------------------------------------
LEMMA InitReaperInv ==
  ASSUME InitReaper
  PROVE  ReaperInv
<1>1. IInv /\ Init
  BY InitIInv DEF InitReaper, InitLoader
<1>2. Started /\ LoadOrder /\ CreatingReady
  BY <1>1 DEF InitReaper, InitLoader, Init, Started, LoadOrder, CreatingReady
<1>3. Parents
  BY <1>1 DEF Init, Parents
<1>4. ShellPlace /\ OneShell
  BY IdleIsPid DEF InitReaper, ShellPlace, OneShell
<1> QED BY <1>1, <1>2, <1>3, <1>4 DEF ReaperInv

(* What the steps of Process keep, whoever takes them. *)
Kept == IInv /\ Started /\ LoadOrder /\ Parents /\ CreatingReady

LEMMA NextKept ==
  ASSUME Kept, Next, UNCHANGED loading, loading # NoProc => creating' = NoProc
  PROVE  Kept'
BY NextIInv, NextStarted, NextLoadOrder, NextParents, NextCreatingReady DEF Kept

LEMMA StutterKept ==
  ASSUME Kept, UNCHANGED <<vars, loading>>
  PROVE  Kept'
BY NextIInv
   DEF Kept, vars, Started, LoadOrder, Parents, CreatingReady,
       process_get_current

(* The call of elf_load for a process just created: it is last in the queue *)
(* and READY.                                                               *)
LEMMA LoadBeginsKept ==
  ASSUME Kept, LoadBegins
  PROVE  Kept'
<1>1. IInv' /\ Parents' /\ CreatingReady'
  BY NextIInv, NextParents, NextCreatingReady DEF Kept, LoadBegins, Next
<1>2. /\ enabled' = enabled /\ current' = current /\ state' = state
      /\ creating' = NoProc /\ next_pid' = next_pid /\ creating # NoProc
      /\ process_get_current = Idle
      /\ queue' = ready_queue_push(queue, creating.pid)
      /\ loading' = creating.pid
  BY DEF LoadBegins, CreateEnd
<1>3. enabled
  BY <1>2 DEF Kept, Started
<1>4. Started'
  BY <1>2, <1>3 DEF Kept, Started
<1>5. /\ creating.pid \in Pids /\ creating.pid # Idle
      /\ creating.pid < next_pid /\ state[creating.pid] = "READY"
      /\ ~ Queued(creating.pid)
  BY <1>2 DEF Kept, IInv, TypeOK, Creations, StillCreating, Allocated, CreatingReady
<1>6. /\ queue \in Seq(Pids) /\ Len(queue) \in Nat
      /\ Len(queue') = Len(queue) + 1
      /\ \A i \in 1 .. Len(queue) : queue'[i] = queue[i]
  <2>1. queue \in Seq(Pids)
    BY DEF Kept, IInv, TypeOK
  <2>2. LET r == ready_queue_push(queue, creating.pid)
        IN  /\ r \in Seq(Pids)
            /\ Len(r) = Len(queue) + 1
            /\ \A i \in 1 .. Len(queue) : r[i] = queue[i]
    BY <1>5, <2>1, PushFacts
  <2> QED BY <1>2, <2>1, <2>2
<1>7. \A i \in 1 .. Len(queue') :
        queue'[i] = creating.pid => i = Len(queue')
  BY <1>5, <1>6 DEF Queued
<1>8. process_get_current' = Idle
  BY <1>2 DEF process_get_current
<1>9. LoadOrder'
  BY <1>2, <1>5, <1>7, <1>8 DEF LoadOrder
<1> QED BY <1>1, <1>4, <1>9 DEF Kept

LEMMA LoadFailsKept ==
  ASSUME Kept, LoadFails
  PROVE  Kept'
<1>1. IInv'
  BY LoadFailsKeeps DEF Kept
<1>2. /\ loading' = NoProc /\ loading # NoProc
      /\ UNCHANGED <<parent, current, next_pid, enabled, creating>>
  BY DEF LoadFails, process_destroy
<1>3. enabled /\ creating = NoProc
  BY <1>2 DEF Kept, Started, LoadOrder
<1> QED BY <1>1, <1>2, <1>3 DEF Kept, Started, LoadOrder, Parents, CreatingReady

-----------------------------------------------------------------------------
(* The steps of init are steps of Process by a process that has the CPU.    *)
LEMMA InitRunsFacts ==
  ASSUME ReaperInv, InitRuns
  PROVE  /\ init_pid \in Pids /\ init_pid # NoProc /\ init_pid # Idle
         /\ process_get_current = init_pid
         /\ UNCHANGED <<loading, init_pid, creating>>
         /\ Next \/ UNCHANGED vars
<1>1. Calls(init_pid)
  BY DEF InitRuns, InitForks, InitForkFails, InitReaps, InitBlocks, InitExits,
         sys_fork, ForkFails, WaitReaps, WaitBlocks, sys_exit
<1>2. /\ init_pid \in Pids /\ init_pid # NoProc /\ init_pid # Idle
      /\ process_get_current = init_pid
  BY <1>1, SMTT(20) DEF ReaperInv, ShellPlace, Started, Calls, process_get_current
<1>3. UNCHANGED <<loading, init_pid, creating>>
  BY DEF InitRuns, InitForks, InitForkFails, InitReaps, InitBlocks, InitExits,
         sys_fork, ForkFails, WaitReaps, WaitBlocks, sys_exit, reaperVars, vars
<1>4. Next \/ UNCHANGED vars
  BY <1>2 DEF InitRuns, InitForks, InitForkFails, InitReaps, InitBlocks,
              InitExits, Next
<1> QED BY <1>2, <1>3, <1>4

(* A fork of init happens while it has no child in the table; the only      *)
(* child it can reap is its shell.                                          *)
LEMMA InitRunsShell ==
  ASSUME ReaperInv, InitRuns
  PROVE  ShellPlace' /\ OneShell'
<1>1. /\ init_pid \in Pids /\ init_pid # NoProc /\ init_pid # Idle
      /\ process_get_current = init_pid /\ init_pid' = init_pid
  BY InitRunsFacts
<1>2. /\ IInv /\ ShellPlace /\ OneShell
      /\ table \in [Slots -> Pids \cup {NoProc}] /\ parent \in [Pids -> Pids]
      /\ state \in [Pids -> States] /\ next_pid \in Nat
  BY DEF ReaperInv, IInv, TypeOK
<1>3. CASE InitForks
  <2>1. /\ next_pid \in Pids /\ next_pid' = next_pid + 1
        /\ parent' = [parent EXCEPT ![next_pid] = init_pid]
        /\ shell_pid' = next_pid /\ at' = "wait" /\ at \in {"start", "restart"}
    BY <1>2, <1>3, NewPidFacts DEF InitForks, sys_fork
  <2>2. PICK s \in Slots : table' = [table EXCEPT ![s] = next_pid]
    BY <1>3, Zenon DEF InitForks, sys_fork
  <2>3. \A p \in Pids : InTable(p)' /\ parent'[p] = init_pid => p = next_pid
    BY <1>1, <1>2, <2>1, <2>2 DEF ShellPlace, InTable
  <2>4. init_pid < next_pid'
    BY <1>1, <1>2, <2>1 DEF ShellPlace, Pids
  <2> QED BY <1>1, <1>2, <2>1, <2>3, <2>4 DEF ShellPlace, OneShell
<1>4. CASE InitForkFails
  <2>1. /\ UNCHANGED <<table, parent>> /\ next_pid' \in {next_pid, next_pid + 1}
        /\ shell_pid' = NoProc /\ at' \in {"exit", "wait"}
        /\ at \in {"start", "restart"}
    BY <1>4 DEF InitForkFails, ForkFails, vars
  <2>2. \A p \in Pids : InTable(p)' => parent'[p] # init_pid
    BY <1>1, <1>2, <2>1 DEF ShellPlace, InTable
  <2>3. init_pid < next_pid'
    BY <1>1, <1>2, <2>1 DEF ShellPlace, Pids
  <2> QED BY <1>1, <1>2, <2>1, <2>2, <2>3 DEF ShellPlace, OneShell
<1>5. CASE InitReaps
  <2>1. PICK s \in Slots :
          /\ table[s] # NoProc /\ parent[table[s]] = init_pid
          /\ table' = [table EXCEPT ![s] = NoProc]
          /\ state' = [state EXCEPT ![table[s]] = "NONE"]
    BY <1>5, Zenon DEF InitReaps, WaitReaps, find_zombie_child, IsZombieChild
  <2>2. /\ UNCHANGED <<parent, next_pid, shell_pid>>
        /\ at' = IF shell_pid # NoProc /\ state'[shell_pid] = "NONE"
                 THEN "restart" ELSE "wait"
    BY <1>5 DEF InitReaps, WaitReaps
  <2>3. table[s] \in Pids /\ table[s] = shell_pid
    BY <1>1, <1>2, <2>1 DEF OneShell, InTable
  <2>4. at' = "restart"
    BY <1>2, <2>1, <2>2, <2>3
  <2>5. \A p \in Pids : InTable(p)' => InTable(p) /\ p # shell_pid
    BY <1>2, <2>1, <2>3, NoProcAssumption DEF InTable, IInv, TableOnce
  <2>6. \A p \in Pids : InTable(p)' => parent'[p] # init_pid
    BY <1>1, <1>2, <2>2, <2>5 DEF OneShell
  <2> QED BY <1>1, <1>2, <2>2, <2>4, <2>6 DEF ShellPlace, OneShell
<1>6. CASE InitBlocks \/ InitExits
  <2>1. UNCHANGED <<table, parent, next_pid, shell_pid, at>>
    BY <1>6 DEF InitBlocks, InitExits, WaitBlocks, sys_exit, reaperVars
  <2> QED BY <1>1, <1>2, <2>1 DEF ShellPlace, OneShell, InTable
<1> QED BY <1>3, <1>4, <1>5, <1>6 DEF InitRuns

(* Everyone else leaves the children of init in the table as they are, or   *)
(* takes them out.                                                          *)
LEMMA OthersShell ==
  ASSUME ReaperInv, UNCHANGED reaperVars, next_pid' \in Nat, next_pid <= next_pid',
         init_pid # NoProc =>
           \A p \in Pids : InTable(p)' /\ parent'[p] = init_pid =>
              InTable(p) /\ parent[p] = init_pid
  PROVE  ShellPlace' /\ OneShell'
<1>1. UNCHANGED <<init_pid, shell_pid, at>> /\ ShellPlace /\ OneShell
  BY DEF reaperVars, ReaperInv
<1>2. \A p \in Pids : p < next_pid => p < next_pid'
  BY DEF ReaperInv, IInv, TypeOK, Pids
<1> QED BY <1>1, <1>2 DEF ShellPlace, OneShell

LEMMA NextReaperInv ==
  ASSUME ReaperInv, [NextReaper]_<<vars, loading, reaperVars>>
  PROVE  ReaperInv'
<1>1. Kept /\ IInv /\ Parents /\ next_pid \in Nat
  BY DEF ReaperInv, Kept, IInv, TypeOK
<1>2. CASE test_shell
  <2>1. /\ CreateEnd /\ UNCHANGED loading /\ creating # NoProc
        /\ init_pid' = creating.pid
        /\ UNCHANGED <<shell_pid, at, parent, next_pid>> /\ creating' = NoProc
        /\ at = "start"
    BY <1>2 DEF test_shell, CreateEnd, ReaperInv, ShellPlace
  <2>2. Kept'
    BY <1>1, <2>1, NextKept DEF Next
  <2>3. /\ creating.pid \in Pids /\ creating.pid # Idle
        /\ creating.pid < next_pid
        /\ \A p \in Pids : parent[p] # creating.pid
    BY <1>1, <2>1, SMTT(20) DEF Parents, IInv, TypeOK, Creations, StillCreating, Allocated
  <2>4. ShellPlace' /\ OneShell'
    BY <2>1, <2>3 DEF ReaperInv, ShellPlace, OneShell
  <2> QED BY <2>2, <2>4 DEF ReaperInv, Kept
<1>3. CASE InitRuns
  <2>1. UNCHANGED <<loading, creating>> /\ (Next \/ UNCHANGED vars)
    BY <1>3, InitRunsFacts
  <2>2. loading # NoProc => creating' = NoProc
    BY <1>1, <2>1 DEF Kept, LoadOrder
  <2>3. Kept'
    BY <1>1, <2>1, <2>2, NextKept, StutterKept
  <2> QED BY <1>3, <2>3, InitRunsShell DEF ReaperInv, Kept
<1>4. ASSUME UNCHANGED reaperVars, Kept',
             init_pid # NoProc =>
               \A p \in Pids : InTable(p)' /\ parent'[p] = init_pid =>
                  InTable(p) /\ parent[p] = init_pid,
             next_pid <= next_pid'
      PROVE  ReaperInv'
  <2>1. next_pid' \in Nat
    BY <1>4 DEF Kept, IInv, TypeOK
  <2> QED BY <1>4, <2>1, OthersShell DEF ReaperInv, Kept
<1>5. init_pid # NoProc => init_pid \in Pids \ {Idle}
  BY DEF ReaperInv, ShellPlace
<1>6. CASE UNCHANGED reaperVars /\ LoadBegins
  <2>1. CreateEnd /\ Next /\ next_pid' = next_pid
    BY <1>6 DEF LoadBegins, Next, CreateEnd
  <2>2. process_get_current = Idle
    BY <2>1 DEF CreateEnd
  <2>3. init_pid # NoProc =>
          \A p \in Pids : InTable(p)' /\ parent'[p] = init_pid =>
             InTable(p) /\ parent[p] = init_pid
    BY <1>1, <1>5, <2>1, <2>2, NextChildren
  <2> QED BY <1>1, <1>4, <1>6, <2>1, <2>3, LoadBeginsKept
<1>7. CASE UNCHANGED reaperVars /\ LoadFails
  <2>1. /\ UNCHANGED <<parent, next_pid>>
        /\ table' = [s \in Slots |-> IF table[s] = loading THEN NoProc ELSE table[s]]
    BY <1>7 DEF LoadFails, process_destroy
  <2>2. \A p \in Pids : InTable(p)' => InTable(p)
    BY <2>1, NoProcAssumption DEF InTable
  <2> QED BY <1>1, <1>4, <1>7, <2>1, <2>2, LoadFailsKept
<1>8. CASE UNCHANGED reaperVars /\ UNCHANGED vars
           /\ (LoadSucceeds \/ UNCHANGED loading)
  <2>1. Kept'
    <3>1. CASE UNCHANGED loading
      BY <1>1, <1>8, <3>1, StutterKept
    <3>2. CASE LoadSucceeds
      <4>1. loading' = NoProc /\ loading # NoProc
        BY <3>2 DEF LoadSucceeds
      <4>2. enabled
        BY <1>1, <4>1 DEF Kept, Started
      <4>3. IInv'
        BY <1>1, <1>8, NextIInv
      <4> QED BY <1>1, <1>8, <4>1, <4>2, <4>3
           DEF Kept, vars, Started, LoadOrder, Parents, CreatingReady
    <3> QED BY <1>8, <3>1, <3>2
  <2> QED BY <1>1, <1>4, <1>8, <2>1 DEF vars, InTable
<1>9. CASE UNCHANGED reaperVars /\ Others
           /\ (process_get_current = init_pid => scheduler_tick \/ CtrlC)
  <2>1. /\ Next /\ UNCHANGED loading
        /\ loading # NoProc => creating' = NoProc
    BY <1>9 DEF Others
  <2>2. Kept'
    BY <1>1, <2>1, NextKept
  <2>3. init_pid # NoProc =>
          \A p \in Pids : InTable(p)' /\ parent'[p] = init_pid =>
             InTable(p) /\ parent[p] = init_pid
    BY <1>1, <1>5, <1>9, <2>1, NextChildren, SMTT(20)
  <2>4. next_pid' \in {next_pid, next_pid + 1}
    BY <2>1, Zenon DEF Next, BootCreate, scheduler_enable, CreateBegin, CreateEnd,
       scheduler_tick, CtrlC, sys_exit, process_exit, sys_fork, ForkFails,
       WaitReaps, WaitBlocks, sys_kill, signal_send, NewPcb
  <2> QED BY <1>1, <1>4, <1>9, <2>2, <2>3, <2>4
<1> QED BY <1>2, <1>3, <1>6, <1>7, <1>8, <1>9 DEF NextReaper, OthersRun, LoadSucceeds

(* Whoever takes a step, to Process it is one of its own, or nothing, or    *)
(* the process_destroy of a failed load.                                    *)
LEMMA StepsOfReaper ==
  ASSUME ReaperInv, [NextReaper]_<<vars, loading, reaperVars>>
  PROVE  Next \/ UNCHANGED vars \/ LoadFails
<1>1. CASE test_shell \/ LoadBegins
  BY <1>1 DEF test_shell, LoadBegins, Next
<1>2. CASE InitRuns
  BY <1>2, InitRunsFacts
<1>3. CASE LoadSucceeds \/ LoadFails \/ Others
  BY <1>3 DEF LoadSucceeds, Others
<1>4. CASE UNCHANGED <<vars, loading, reaperVars>>
  BY <1>4
<1> QED BY <1>1, <1>2, <1>3, <1>4 DEF NextReaper, OthersRun

-----------------------------------------------------------------------------
(* The invariant of the process system with its loader and init, for any    *)
(* table, any pids and any quantum.                                         *)
THEOREM ReaperInvariance == SpecReaper => []ReaperInv
<1>1. InitReaper => ReaperInv
  BY InitReaperInv
<1>2. ReaperInv /\ [NextReaper]_<<vars, loading, reaperVars>> => ReaperInv'
  BY NextReaperInv
<1> QED BY <1>1, <1>2, PTL DEF SpecReaper

(* init never has two shells in the process table, although init is         *)
(* preempted between its calls and its forks may fail.                      *)
THEOREM NeverTwoShells == SpecReaper => []OneShell
<1>1. ReaperInv => OneShell
  BY DEF ReaperInv
<1> QED BY <1>1, ReaperInvariance, PTL

(* process_destroy of a process that could not be loaded leaves no pointer  *)
(* to its PCB behind, although it looks at the state and not at the queue;  *)
(* and the queue stays a list without the current process.                  *)
THEOREM DestroyLeavesNoPointer == SpecReaper => [](NoDanglingPcb /\ QueueDiscipline)
<1>1. ReaperInv => NoDanglingPcb /\ QueueDiscipline
  BY DEF ReaperInv, IInv
<1> QED BY <1>1, ReaperInvariance, PTL

(* Round robin with the loader and init: process_destroy too only moves     *)
(* processes towards the head.                                              *)
THEOREM RoundRobinWithLoader == SpecReaper => NoOvertaking
<1>1. ASSUME ReaperInv, [NextReaper]_<<vars, loading, reaperVars>>,
             NEW i \in 1 .. Len(queue), NEW j \in 1 .. Len(queue'),
             queue[i] = queue'[j]
      PROVE  j <= i
  <2>1. IInv /\ LoadOrder
    BY <1>1 DEF ReaperInv
  <2>2. CASE Next
    BY <1>1, <2>1, <2>2, NextNoOvertaking
  <2>3. CASE UNCHANGED vars
    BY <1>1, <2>1, <2>3 DEF vars, IInv, QueueDiscipline
  <2>4. CASE LoadFails
    <3>1. PICK k \in 1 .. Len(queue) : j <= k /\ queue'[j] = queue[k]
      BY <1>1, <2>1, <2>4, LoadFailsKeeps
    <3> QED BY <1>1, <2>1, <3>1 DEF IInv, QueueDiscipline
  <2> QED BY <1>1, <2>2, <2>3, <2>4, StepsOfReaper
<1>2. ReaperInv /\ [NextReaper]_<<vars, loading, reaperVars>> =>
        [\A i \in 1 .. Len(queue), j \in 1 .. Len(queue') :
            queue[i] = queue'[j] => j <= i]_vars
  BY <1>1
<1> QED BY <1>2, ReaperInvariance, PTL DEF SpecReaper, NoOvertaking

(* Outside the loop of kernel_main a PCB is freed for a parent that waits   *)
(* for an exited child, and for no other reason.                            *)
THEOREM ReapsOwnWithLoader == SpecReaper => ReapsOwnExitedChild
<1>1. ASSUME ReaperInv, [NextReaper]_<<vars, loading, reaperVars>>, NEW c \in Pids,
             process_get_current # Idle, state[c] # "NONE", state'[c] = "NONE"
      PROVE  parent[c] = current /\ c \in exited
  <2>1. IInv
    BY <1>1 DEF ReaperInv
  <2>2. ~ LoadFails /\ ~ UNCHANGED vars
    BY <1>1 DEF LoadFails, vars
  <2>3. Next
    BY <1>1, <2>2, StepsOfReaper
  <2> QED BY <1>1, <2>1, <2>3, NextReapsOwn
<1>2. ReaperInv /\ [NextReaper]_<<vars, loading, reaperVars>> =>
        [process_get_current # Idle =>
           \A c \in Pids : state[c] # "NONE" /\ state'[c] = "NONE" =>
              parent[c] = current /\ c \in exited]_vars
  BY <1>1
<1> QED BY <1>2, ReaperInvariance, PTL DEF SpecReaper, ReapsOwnExitedChild
=============================================================================
