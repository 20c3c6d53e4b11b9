---------------------------- MODULE ShellProofs ----------------------------
(***************************************************************************)
(* The shell's jobs, descriptors and pipelines, for every size of the job  *)
(* table and of the descriptor tables and any number of children.  All of  *)
(* it follows from one invariant, ShellInv: what the job table holds is    *)
(* older than what is handed out next, and what the shell has open is what *)
(* it has listed to close, both ends of a pipe only inside execute_pipe.   *)
(***************************************************************************)
EXTENDS Shell, WellFoundedInduction, TLAPS

(* Job ids and children are handed out in order and entered once; an id     *)
(* left behind by jobs_remove is older than any other.                      *)
JobsDistinct ==
  /\ \A j \in JobSlots : /\ jobs[j].job_id < next_job_id /\ jobs[j].pid < next_pid
                         /\ jobs[j].pid # 0 => jobs[j].job_id # 0
  /\ \A j, k \in JobSlots : j # k =>
       /\ jobs[j].job_id = jobs[k].job_id => jobs[j].job_id = 0
       /\ jobs[j].pid = jobs[k].pid => jobs[j].pid = 0
  /\ next_job_id <= next_pid

(* What the shell has open from 3 on is what it will close. *)
OpenIsListed ==
  /\ \A fd \in 3 .. MAX_FDS - 1 : fds[Sh][fd] # Closed => fd \in opened
  /\ pc = <<"prompt">> => opened = {}

(* A table with both ends of the pipe, and one with neither. *)
BothEnds(t) ==
  /\ t[3] = "read end" /\ t[4] = "write end"
  /\ \A fd \in Fds \ {3, 4} : t[fd] \notin {"read end", "write end"}

NoEnds(t) == \A fd \in Fds : t[fd] \notin {"read end", "write end"}

(* Only between StartPipe and CloseEnds does the shell hold the pipe, and   *)
(* what it forks meanwhile, for the pipeline, has both ends to begin with.  *)
PipeHeld ==
  /\ IF pc \in {<<"left">>, <<"right">>, <<"ends">>}
     THEN BothEnds(fds[Sh]) /\ opened = {3, 4}
     ELSE NoEnds(fds[Sh])
  /\ \A p \in Pids : role[p] \in {"left", "right"} => BothEnds(fds[p])

(* There is a wait left to make wherever the shell waits. *)
WaitsLeft ==
  /\ pc = <<"wait">> => waits > 0
  /\ pc = <<"stress">> => waits = 3

ShellInv ==
  /\ ShellTypeOK /\ WaitsLeft /\ JobsDistinct
  /\ OpenIsListed /\ PipeHeld /\ PipeEndsPlaced

-----------------------------------------------------------------------------
LEMMA LeastNat ==
  ASSUME NEW S \in SUBSET Nat, S # {}
  PROVE  \E m \in S : \A k \in S : m <= k
<1>1. \E m \in S : \A k \in S : ~ (<<k, m>> \in OpToRel(<, Nat))
  BY WFMin, NatLessThanWellFounded, Zenon
<1>2. PICK m \in S : \A k \in S : ~ (<<k, m>> \in OpToRel(<, Nat))
  BY <1>1, Zenon
<1>3. \A k \in S : ~ (k < m)
  BY <1>2, Zenon DEF OpToRel
<1> QED BY <1>3

(* A descriptor table where only 0, 1 and 2 are open, and one where 3 is.   *)
LEMMA FirstFreeIs ==
  ASSUME NEW t, NEW n \in {3, 4}, t[n] = Closed,
         n = 4 => t[3] # Closed
  PROVE  FirstFree(t) = n
<1>1. n \in FreeFds(t)
  BY ShellAssumption DEF FreeFds
<1>2. \A k \in FreeFds(t) : n <= k
  BY DEF FreeFds
<1>3. \A m \in FreeFds(t) : (\A k \in FreeFds(t) : m <= k) => m = n
  BY <1>1, <1>2 DEF FreeFds
<1> HIDE DEF FreeFds
<1> QED BY <1>1, <1>2, <1>3, Zenon DEF FirstFree

(* The shell's table, and those of its children. *)
LEMMA TableType ==
  ASSUME ShellTypeOK
  PROVE  /\ Sh \in {Sh} \cup Pids /\ Sh \notin Pids
         /\ \A p \in {Sh} \cup Pids : fds[p] \in [Fds -> Targets]
         /\ {0, 1, 2, 3, 4} \subseteq Fds
BY ShellAssumption DEF ShellTypeOK, Sh, Pids, Fds

LEMMA FdFacts ==
  /\ 0 \in Fds /\ 1 \in Fds /\ 3 \in Fds /\ 4 \in Fds
  /\ 3 \in 3 .. MAX_FDS - 1 /\ 4 \in 3 .. MAX_FDS - 1
  /\ \A fd \in 3 .. MAX_FDS - 1 : fd \in Fds
  /\ 3 \in Fds \ {4} /\ 4 \in Fds \ {3}
BY ShellAssumption DEF Fds

LEMMA TargetFacts ==
  /\ Closed \in Targets /\ Closed # "read end" /\ Closed # "write end"
  /\ "read end" \in Targets /\ "write end" \in Targets
BY DEF Targets, Closed

LEMMA SameJobs ==
  ASSUME ShellTypeOK, JobsDistinct, UNCHANGED table,
         next_pid' \in {next_pid, next_pid + 1}
  PROVE  JobsDistinct'
<1>1. /\ next_pid \in Nat /\ next_job_id \in Nat
      /\ \A j \in JobSlots : jobs[j].pid \in Nat
  BY ShellAssumption DEF ShellTypeOK
<1> QED BY <1>1 DEF JobsDistinct, table

(* Steps that leave the tables of the pipeline's children alone. *)
LEMMA SamePipes ==
  ASSUME PipeHeld, PipeEndsPlaced,
         \A p \in Pids : role'[p] \in {"left", "right", "writer", "reader"} =>
            role'[p] = role[p] /\ fds'[p] = fds[p]
  PROVE  /\ \A p \in Pids : role'[p] \in {"left", "right"} => BothEnds(fds'[p])
         /\ PipeEndsPlaced'
BY Zenon DEF PipeHeld, PipeEndsPlaced, EndsOf

PipeAt == {<<"left">>, <<"right">>, <<"ends">>}

(* Steps that leave the shell's own table alone. *)
LEMMA SameTable ==
  ASSUME OpenIsListed, PipeHeld, fds'[Sh] = fds[Sh], UNCHANGED opened,
         pc' = <<"prompt">> => pc = <<"prompt">>,
         pc' \in PipeAt <=> pc \in PipeAt,
         \A p \in Pids : role'[p] \in {"left", "right"} => BothEnds(fds'[p])
  PROVE  OpenIsListed' /\ PipeHeld'
BY Zenon DEF OpenIsListed, PipeHeld, BothEnds, NoEnds, PipeAt

Roles == {"none", "command", "left", "right", "writer", "reader"}

LEMMA ForkFacts ==
  ASSUME ShellTypeOK, NEW r \in Roles, Fork(r)
  PROVE  /\ next_pid \in Pids /\ next_pid' = next_pid + 1
         /\ next_pid' \in 1 .. MaxPid + 1
         /\ child' \in [Pids -> {"none", "running", "killed", "zombie", "reaped"}]
         /\ role' \in [Pids -> Roles]
         /\ fds' \in [{Sh} \cup Pids -> [Fds -> Targets]]
         /\ fds'[Sh] = fds[Sh] /\ fds'[next_pid] = fds[Sh]
         /\ role'[next_pid] = r
         /\ \A p \in Pids \ {next_pid} : role'[p] = role[p] /\ fds'[p] = fds[p]
<1>1. next_pid \in Pids /\ next_pid' = next_pid + 1 /\ next_pid # Sh
  BY ShellAssumption DEF Fork, Pids, Sh
<1>2. next_pid' \in 1 .. MaxPid + 1
  BY <1>1, ShellAssumption DEF Pids
<1>3. /\ fds \in [{Sh} \cup Pids -> [Fds -> Targets]]
      /\ role \in [Pids -> Roles]
      /\ child \in [Pids -> {"none", "running", "killed", "zombie", "reaped"}]
  BY DEF ShellTypeOK, Roles
<1>4. /\ fds' \in [{Sh} \cup Pids -> [Fds -> Targets]]
      /\ fds'[Sh] = fds[Sh] /\ fds'[next_pid] = fds[Sh]
      /\ \A p \in Pids \ {next_pid} : fds'[p] = fds[p]
  BY <1>1, <1>3 DEF Fork
<1>5. /\ role' \in [Pids -> Roles] /\ role'[next_pid] = r
      /\ \A p \in Pids \ {next_pid} : role'[p] = role[p]
  BY <1>1, <1>3 DEF Fork
<1>6. child' \in [Pids -> {"none", "running", "killed", "zombie", "reaped"}]
  BY <1>1, <1>3 DEF Fork
<1> QED BY <1>1, <1>2, <1>4, <1>5, <1>6

LEMMA ReapsFacts ==
  ASSUME ShellTypeOK, NEW z \in Pids, Reaps(z)
  PROVE  /\ child' \in [Pids -> {"none", "running", "killed", "zombie", "reaped"}]
         /\ role' \in [Pids -> Roles]
         /\ fds' \in [{Sh} \cup Pids -> [Fds -> Targets]]
         /\ fds'[Sh] = fds[Sh]
         /\ role'[z] = "none"
         /\ \A p \in Pids \ {z} : role'[p] = role[p] /\ fds'[p] = fds[p]
         /\ child[z] = "zombie" /\ child'[z] = "reaped"
<1>1. /\ fds \in [{Sh} \cup Pids -> [Fds -> Targets]]
      /\ role \in [Pids -> Roles]
      /\ child \in [Pids -> {"none", "running", "killed", "zombie", "reaped"}]
  BY DEF ShellTypeOK, Roles
<1>0. z # Sh /\ [fd \in Fds |-> Closed] \in [Fds -> Targets]
  BY DEF Sh, Pids, Targets
<1>2. /\ fds' \in [{Sh} \cup Pids -> [Fds -> Targets]]
      /\ fds'[Sh] = fds[Sh] /\ \A p \in Pids \ {z} : fds'[p] = fds[p]
  BY <1>0, <1>1 DEF Reaps
<1>3. /\ role' \in [Pids -> Roles] /\ role'[z] = "none"
      /\ \A p \in Pids \ {z} : role'[p] = role[p]
  BY <1>1 DEF Reaps, Roles
<1>4. /\ child' \in [Pids -> {"none", "running", "killed", "zombie", "reaped"}]
      /\ child[z] = "zombie" /\ child'[z] = "reaped"
  BY <1>1 DEF Reaps
<1> QED BY <1>2, <1>3, <1>4
-----------------------------------------------------------------------------
(* Redirections at the prompt. *)
LEMMA RedirectedFacts ==
  ASSUME NEW t \in [Fds -> Targets], NEW file \in {"input", "output"}, NEW new \in {0, 1},
         NEW n \in {3, 4}, t[n] = Closed, n = 4 => t[3] # Closed
  PROVE  /\ Redirected(t, file, new) \in [Fds -> Targets]
         /\ Redirected(t, file, new)[n] = file
         /\ \A fd \in Fds \ {n, new} : Redirected(t, file, new)[fd] = t[fd]
         /\ NoEnds(t) => NoEnds(Redirected(t, file, new))
<1>1. FirstFree(t) = n
  BY FirstFreeIs
<1>2. 0 \in Fds /\ 1 \in Fds /\ 3 \in Fds /\ 4 \in Fds /\ file \in Targets
  <2>1. 0 \in Fds /\ 1 \in Fds /\ 3 \in Fds /\ 4 \in Fds
    BY ShellAssumption DEF Fds
  <2>2. file \in Targets
    BY Zenon DEF Targets
  <2> QED BY <2>1, <2>2
<1> DEFINE u == [t EXCEPT ![n] = file]
<1>3. u \in [Fds -> Targets] /\ u[n] = file /\ \A fd \in Fds \ {n} : u[fd] = t[fd]
  BY <1>2
<1>4. Redirected(t, file, new) = [u EXCEPT ![new] = u[n]]
  BY <1>1 DEF Redirected, sys_dup2
<1> HIDE DEF u
<1> DEFINE v == [u EXCEPT ![new] = u[n]]
<1>5. /\ v \in [Fds -> Targets] /\ v[n] = file /\ v[new] = file
      /\ \A fd \in Fds \ {n, new} : v[fd] = t[fd]
  BY <1>2, <1>3
<1> HIDE DEF v
<1>6. NoEnds(t) => NoEnds(v)
  BY <1>5, Zenon DEF NoEnds
<1> QED BY <1>4, <1>5, <1>6 DEF v

(* The table that opening an input file leaves behind. *)
LEMMA InputFacts ==
  ASSUME NEW t \in [Fds -> Targets], NEW in \in BOOLEAN, NoEnds(t),
         \A fd \in 3 .. MAX_FDS - 1 : t[fd] = Closed
  PROVE  /\ InputOn(t, in) \in [Fds -> Targets] /\ NoEnds(InputOn(t, in))
         /\ NewFd(t, in) = IF in THEN {3} ELSE {}
         /\ in => InputOn(t, in)[3] = "input"
         /\ ~ in => InputOn(t, in)[3] = Closed
         /\ \A fd \in 4 .. MAX_FDS - 1 : InputOn(t, in)[fd] = Closed
<1>1. t[3] = Closed /\ 3 .. MAX_FDS - 1 \subseteq Fds
  BY ShellAssumption DEF Fds
<1>2. CASE in
  <2> DEFINE v == Redirected(t, "input", 0)
  <2>1. /\ v \in [Fds -> Targets] /\ v[3] = "input" /\ NoEnds(v)
        /\ \A fd \in Fds \ {3, 0} : v[fd] = t[fd]
    BY <1>1, RedirectedFacts
  <2>2. InputOn(t, in) = v /\ NewFd(t, in) = {3}
    BY <1>1, <1>2, FirstFreeIs DEF InputOn, NewFd
  <2> HIDE DEF v
  <2>3. \A fd \in 4 .. MAX_FDS - 1 : v[fd] = Closed
    BY <1>1, <2>1
  <2> QED BY <1>2, <2>1, <2>2, <2>3, Zenon
<1>3. CASE ~ in
  BY <1>1, <1>3 DEF InputOn, NewFd
<1> QED BY <1>2, <1>3

LEMMA StartCommandInv ==
  ASSUME ShellInv, NEW in \in BOOLEAN, NEW out \in BOOLEAN, StartCommand(in, out)
  PROVE  ShellInv'
<1> USE DEF ShellInv
<1> DEFINE t == InputOn(fds[Sh], in)
           o == OutputOn(t, out)
           n == IF in THEN 4 ELSE 3
<1>1. /\ pc = <<"prompt">> /\ pc' = <<"command">>
      /\ fds' = [fds EXCEPT ![Sh] = o]
      /\ opened' = NewFd(fds[Sh], in) \cup NewFd(t, out)
      /\ UNCHANGED <<table, kids, forks, waits, front>>
  BY DEF StartCommand, Goto
<1>2. /\ fds[Sh] \in [Fds -> Targets] /\ NoEnds(fds[Sh])
      /\ \A fd \in 3 .. MAX_FDS - 1 : fds[Sh][fd] = Closed
  BY <1>1, TableType DEF OpenIsListed, PipeHeld
<1>3. /\ t \in [Fds -> Targets] /\ NoEnds(t)
      /\ NewFd(fds[Sh], in) = IF in THEN {3} ELSE {}
      /\ in => t[3] = "input"
      /\ ~ in => t[3] = Closed
      /\ \A fd \in 4 .. MAX_FDS - 1 : t[fd] = Closed
  BY <1>2, InputFacts
<1>4. n \in {3, 4} /\ t[n] = Closed /\ (n = 4 => t[3] # Closed)
  BY <1>3, ShellAssumption DEF Closed
<1>5. 3 .. MAX_FDS - 1 \subseteq Fds /\ {3, 4} \subseteq Fds /\ 0 \notin 3 .. MAX_FDS - 1 /\ 1 \notin 3 .. MAX_FDS - 1
  BY ShellAssumption DEF Fds
<1> HIDE DEF t, n
<1>6. /\ o \in [Fds -> Targets] /\ NoEnds(o)
      /\ NewFd(t, out) = IF out THEN {n} ELSE {}
      /\ \A fd \in Fds \ {n, 1} : o[fd] = t[fd]
      /\ ~ out => o[n] = t[n]
  <2>1. CASE out
    <3>1. o = Redirected(t, "output", 1) /\ NewFd(t, out) = {n}
      BY <2>1, <1>3, <1>4, FirstFreeIs DEF OutputOn, NewFd
    <3> HIDE DEF o
    <3>2. /\ o \in [Fds -> Targets] /\ NoEnds(o)
          /\ \A fd \in Fds \ {n, 1} : o[fd] = t[fd]
      BY <1>3, <1>4, <3>1, RedirectedFacts
    <3> QED BY <2>1, <3>1, <3>2, Zenon
  <2>2. CASE ~ out
    BY <2>2, <1>3 DEF OutputOn, NewFd
  <2> QED BY <2>1, <2>2
<1> HIDE DEF o
<1>7. \A fd \in 3 .. MAX_FDS - 1 : o[fd] # Closed => fd \in opened'
  <2> SUFFICES ASSUME NEW fd \in 3 .. MAX_FDS - 1, o[fd] # Closed
               PROVE  fd \in opened'
    OBVIOUS
  <2>1. CASE fd = n
    BY <2>1, <1>1, <1>4, <1>6
  <2>2. CASE fd # n
    <3>1. fd \in Fds \ {n, 1} /\ t[fd] # Closed
      BY <2>2, <1>5, <1>6
    <3>2. fd = 3 /\ in
      BY <3>1, <1>3
    <3> QED BY <3>2, <1>1, <1>3, Zenon
  <2> QED BY <2>1, <2>2
<1>8. /\ fds' \in [{Sh} \cup Pids -> [Fds -> Targets]]
      /\ fds'[Sh] = o /\ \A p \in Pids : fds'[p] = fds[p]
  BY <1>1, <1>6, TableType DEF ShellTypeOK
<1>9. opened' \subseteq Fds
  BY <1>1, <1>3, <1>4, <1>5, <1>6
<1>10. ShellTypeOK'
  BY <1>1, <1>8, <1>9 DEF ShellTypeOK, table, kids
<1>11. JobsDistinct'
  BY <1>1, SameJobs DEF kids
<1>12. /\ \A p \in Pids : role'[p] \in {"left", "right"} => BothEnds(fds'[p])
       /\ PipeEndsPlaced'
  BY <1>1, <1>8, SamePipes DEF kids
<1>13. OpenIsListed' /\ PipeHeld' /\ WaitsLeft'
  BY <1>1, <1>6, <1>7, <1>8, <1>12 DEF OpenIsListed, PipeHeld, WaitsLeft
<1> QED BY <1>10, <1>11, <1>12, <1>13

LEMMA OutputFailsInv ==
  ASSUME ShellInv, OutputFails
  PROVE  ShellInv'
<1> USE DEF ShellInv
<1> DEFINE t == InputOn(fds[Sh], TRUE)
           o == [t EXCEPT ![3] = Closed]
<1>1. /\ fds[Sh] \in [Fds -> Targets] /\ NoEnds(fds[Sh]) /\ pc = <<"prompt">>
      /\ \A fd \in 3 .. MAX_FDS - 1 : fds[Sh][fd] = Closed
      /\ UNCHANGED <<table, kids, pc, forks, waits, opened, front>>
  BY TableType DEF OpenIsListed, PipeHeld, OutputFails
<1>2. FirstFree(fds[Sh]) = 3
  <2>1. 3 \in 3 .. MAX_FDS - 1
    BY ShellAssumption
  <2> QED BY <1>1, <2>1, FirstFreeIs
<1>3. fds' = [fds EXCEPT ![Sh] = o]
  BY <1>2, TableType DEF OutputFails, Abandon, sys_close, ShellTypeOK
<1>4. /\ t \in [Fds -> Targets] /\ NoEnds(t)
      /\ \A fd \in 4 .. MAX_FDS - 1 : t[fd] = Closed
  BY <1>1, InputFacts, Zenon
<1>5. 3 \in Fds /\ 3 .. MAX_FDS - 1 \subseteq Fds /\ Closed \in Targets
  BY ShellAssumption DEF Fds, Targets
<1> HIDE DEF t
<1>6. /\ o \in [Fds -> Targets] /\ NoEnds(o)
      /\ \A fd \in 3 .. MAX_FDS - 1 : o[fd] = Closed
  <2>1. o \in [Fds -> Targets] /\ o[3] = Closed /\ \A fd \in Fds \ {3} : o[fd] = t[fd]
    BY <1>4, <1>5
  <2> HIDE DEF o
  <2>2. NoEnds(o)
    BY <1>4, <2>1, Zenon DEF NoEnds, Closed
  <2>3. \A fd \in 3 .. MAX_FDS - 1 : o[fd] = Closed
    BY <1>4, <1>5, <2>1
  <2> QED BY <2>1, <2>2, <2>3
<1> HIDE DEF o
<1>7. /\ fds' \in [{Sh} \cup Pids -> [Fds -> Targets]]
      /\ fds'[Sh] = o /\ \A p \in Pids : fds'[p] = fds[p]
  BY <1>3, <1>6, TableType DEF ShellTypeOK
<1>8. ShellTypeOK'
  BY <1>1, <1>7 DEF ShellTypeOK, table, kids
<1>9. JobsDistinct'
  BY <1>1, SameJobs DEF kids
<1>10. /\ \A p \in Pids : role'[p] \in {"left", "right"} => BothEnds(fds'[p])
       /\ PipeEndsPlaced'
  BY <1>1, <1>7, SamePipes DEF kids
<1>11. OpenIsListed' /\ PipeHeld' /\ WaitsLeft'
  BY <1>1, <1>6, <1>7, <1>10 DEF OpenIsListed, PipeHeld, WaitsLeft
<1> QED BY <1>8, <1>9, <1>10, <1>11

(* Closing everything that was opened, at the end of a line or once the     *)
(* pipeline's children have their copies.                                   *)
LEMMA ClosesFacts ==
  ASSUME ShellInv, fds' = [fds EXCEPT ![Sh] = WithoutOpened(@)], UNCHANGED role
  PROVE  /\ fds' \in [{Sh} \cup Pids -> [Fds -> Targets]]
         /\ \A fd \in 3 .. MAX_FDS - 1 : fds'[Sh][fd] = Closed
         /\ NoEnds(fds'[Sh])
         /\ \A p \in Pids : role'[p] \in {"left", "right"} => BothEnds(fds'[p])
         /\ PipeEndsPlaced'
<1> USE DEF ShellInv
<1> DEFINE o == WithoutOpened(fds[Sh])
<1>1. /\ fds[Sh] \in [Fds -> Targets] /\ Closed \in Targets
      /\ \A fd \in 3 .. MAX_FDS - 1 : fd \in Fds
  BY TableType, FdFacts, TargetFacts, Zenon
<1>2. /\ o \in [Fds -> Targets]
      /\ \A fd \in Fds : o[fd] = IF fd \in opened THEN Closed ELSE fds[Sh][fd]
  BY <1>1 DEF WithoutOpened
<1> HIDE DEF o
<1>3. /\ fds' \in [{Sh} \cup Pids -> [Fds -> Targets]]
      /\ fds'[Sh] = o /\ \A p \in Pids : fds'[p] = fds[p]
  BY <1>2, TableType DEF ShellTypeOK, o
<1>4. \A fd \in 3 .. MAX_FDS - 1 : o[fd] = Closed
  BY <1>1, <1>2 DEF OpenIsListed
<1>5. NoEnds(o)
  BY <1>2, Zenon DEF NoEnds, BothEnds, PipeHeld, Closed
<1>6. /\ \A p \in Pids : role'[p] \in {"left", "right"} => BothEnds(fds'[p])
      /\ PipeEndsPlaced'
  BY <1>3, SamePipes
<1> QED BY <1>3, <1>4, <1>5, <1>6

LEMMA CloseAllInv ==
  ASSUME ShellInv, CloseAll \/ CloseEnds
  PROVE  ShellInv'
<1> USE DEF ShellInv
<1>1. /\ fds' = [fds EXCEPT ![Sh] = WithoutOpened(@)] /\ opened' = {}
      /\ pc' \in {<<"prompt">>, <<"wait">>} /\ (pc' = <<"wait">> => waits' = 2)
      /\ UNCHANGED <<table, kids, forks>> /\ waits' \in {waits, 2} /\ front' \subseteq Pids
  BY DEF CloseAll, CloseEnds, Goto, ShellTypeOK
<1>2. /\ fds' \in [{Sh} \cup Pids -> [Fds -> Targets]]
      /\ \A fd \in 3 .. MAX_FDS - 1 : fds'[Sh][fd] = Closed
      /\ NoEnds(fds'[Sh])
      /\ \A p \in Pids : role'[p] \in {"left", "right"} => BothEnds(fds'[p])
      /\ PipeEndsPlaced'
  BY <1>1, ClosesFacts DEF kids
<1>3. ShellTypeOK'
  BY <1>1, <1>2 DEF ShellTypeOK, table, kids
<1>4. JobsDistinct'
  BY <1>1, SameJobs DEF kids
<1>5. OpenIsListed' /\ PipeHeld' /\ WaitsLeft'
  BY <1>1, <1>2 DEF OpenIsListed, PipeHeld, WaitsLeft
<1> QED BY <1>2, <1>3, <1>4, <1>5

LEMMA PutOne ==
  ASSUME NEW t \in [Fds -> Targets], NEW n \in Fds, NEW target \in Targets
  PROVE  /\ [t EXCEPT ![n] = target] \in [Fds -> Targets]
         /\ [t EXCEPT ![n] = target][n] = target
         /\ \A fd \in Fds \ {n} : [t EXCEPT ![n] = target][fd] = t[fd]
OBVIOUS

LEMMA StartPipeInv ==
  ASSUME ShellInv, StartPipe
  PROVE  ShellInv'
<1> USE DEF ShellInv
<1> DEFINE t == fds[Sh]
           u == [t EXCEPT ![3] = "read end"]
           o == [u EXCEPT ![4] = "write end"]
<1>1. /\ t \in [Fds -> Targets] /\ NoEnds(t) /\ pc = <<"prompt">>
      /\ \A fd \in 3 .. MAX_FDS - 1 : t[fd] = Closed
  BY TableType, Zenon DEF OpenIsListed, PipeHeld, StartPipe
<1>2. /\ u \in [Fds -> Targets] /\ u[3] = "read end" /\ \A fd \in Fds \ {3} : u[fd] = t[fd]
  <2>1. t \in [Fds -> Targets] /\ 3 \in Fds /\ "read end" \in Targets
    BY <1>1, FdFacts, TargetFacts, Zenon
  <2> HIDE DEF t
  <2> QED BY <2>1, PutOne, Zenon
<1>3. FirstFree(t) = 3
  BY <1>1, FdFacts, FirstFreeIs
<1>4. FirstFree(u) = 4
  <2>1. u[4] = t[4] /\ t[4] = Closed
    BY <1>1, <1>2, FdFacts, Zenon
  <2>2. u[3] # Closed
    BY <1>2, TargetFacts, Zenon
  <2> QED BY <2>1, <2>2, FirstFreeIs, Zenon
<1>5. /\ pc' = <<"left">> /\ opened' = {3, 4} /\ fds' = [fds EXCEPT ![Sh] = o]
      /\ UNCHANGED <<table, kids, forks, waits, front>>
  BY <1>3, <1>4, TableType, Zenon DEF StartPipe, Goto, ShellTypeOK
<1> HIDE DEF t, u
<1>6. o \in [Fds -> Targets] /\ o[3] = "read end" /\ o[4] = "write end"
      /\ \A fd \in Fds \ {3, 4} : o[fd] = t[fd]
  <2>1. o \in [Fds -> Targets] /\ o[4] = "write end" /\ \A fd \in Fds \ {4} : o[fd] = u[fd]
    <3>1. u \in [Fds -> Targets] /\ 4 \in Fds /\ "write end" \in Targets
      BY <1>2, FdFacts, TargetFacts, Zenon
    <3> QED BY <3>1, PutOne, Zenon
  <2> HIDE DEF o
  <2>2. o[3] = "read end"
    BY <1>2, <2>1, FdFacts, Zenon
  <2>3. \A fd \in Fds \ {3, 4} : o[fd] = t[fd]
    BY <1>2, <2>1, Zenon
  <2> QED BY <2>1, <2>2, <2>3, Zenon
<1> HIDE DEF o
<1>7. /\ fds' \in [{Sh} \cup Pids -> [Fds -> Targets]]
      /\ fds'[Sh] = o /\ \A p \in Pids : fds'[p] = fds[p]
  BY <1>5, <1>6, TableType, Zenon DEF ShellTypeOK
<1>8. ShellTypeOK'
  BY <1>1, <1>5, <1>7, FdFacts DEF ShellTypeOK, table, kids
<1>9. JobsDistinct'
  BY <1>5, SameJobs DEF kids
<1>10. /\ \A p \in Pids : role'[p] \in {"left", "right"} => BothEnds(fds'[p])
       /\ PipeEndsPlaced'
  BY <1>5, <1>7, SamePipes DEF kids
<1>11. BothEnds(o)
  BY <1>1, <1>6, Zenon DEF BothEnds, NoEnds
<1>12. OpenIsListed'
  BY <1>1, <1>5, <1>6, <1>7, FdFacts, Zenon DEF OpenIsListed
<1>13. PipeHeld' /\ WaitsLeft'
  BY <1>5, <1>7, <1>10, <1>11, Zenon DEF PipeHeld, WaitsLeft, BothEnds
<1> QED BY <1>8, <1>9, <1>10, <1>12, <1>13
-----------------------------------------------------------------------------
(* Steps of the shell that touch neither a table nor a child. *)
Places == {<<"prompt">>, <<"command">>, <<"stress">>, <<"left">>, <<"right">>,
           <<"ends">>, <<"wait">>, <<"close">>, <<"blocked">>, <<"gone">>} \cup FgAt

LEMMA QuietInv ==
  ASSUME ShellInv, UNCHANGED <<table, kids, fds, opened, front>>,
         pc' \in Places, forks' \in 0 .. 3, waits' \in 0 .. 3, WaitsLeft',
         pc' # <<"prompt">>, pc' \in PipeAt <=> pc \in PipeAt
  PROVE  ShellInv'
<1> USE DEF ShellInv
<1>1. ShellTypeOK'
  BY DEF ShellTypeOK, Places, table, kids
<1>2. JobsDistinct'
  BY SameJobs DEF kids
<1>3. /\ \A p \in Pids : role'[p] \in {"left", "right"} => BothEnds(fds'[p])
      /\ PipeEndsPlaced'
  BY SamePipes DEF kids
<1>4. OpenIsListed' /\ PipeHeld'
  BY <1>3, SameTable
<1> QED BY <1>1, <1>2, <1>3, <1>4

LEMMA ShellMovesInv ==
  ASSUME ShellInv, Prints \/ Exit \/ Stress \/ (Blocks /\ pc \notin PipeAt)
  PROVE  ShellInv'
<1>1. /\ UNCHANGED <<table, kids, fds, opened, front>> /\ pc \notin PipeAt
      /\ pc' \in {<<"close">>, <<"gone">>, <<"stress">>, <<"blocked">>}
      /\ forks' \in {forks, 3} /\ waits' \in {waits, 3}
      /\ pc' = <<"stress">> => waits' = 3
  BY DEF Prints, Exit, Stress, Blocks, Goto, PipeAt
<1>2. pc' \in Places /\ pc' # <<"prompt">> /\ pc' \notin PipeAt /\ WaitsLeft'
  BY <1>1 DEF Places, PipeAt, WaitsLeft
<1>3. forks' \in 0 .. 3 /\ waits' \in 0 .. 3
  BY <1>1 DEF ShellInv, ShellTypeOK
<1> QED BY <1>1, <1>2, <1>3, QuietInv

LEMMA FgInv ==
  ASSUME ShellInv, NEW id \in 0 .. MaxPid, Fg(id)
  PROVE  ShellInv'
<1>1. /\ UNCHANGED <<table, kids, fds, opened, front>> /\ pc = <<"command">>
      /\ pc' \in {<<"close">>} \cup FgAt
      /\ UNCHANGED <<forks, waits>>
  BY DEF Fg, Goto, FgAt
<1>2. pc' \in Places /\ pc' # <<"prompt">> /\ pc' \notin PipeAt /\ pc \notin PipeAt /\ WaitsLeft'
  BY <1>1 DEF Places, PipeAt, WaitsLeft, FgAt
<1>3. forks' \in 0 .. 3 /\ waits' \in 0 .. 3
  BY <1>1 DEF ShellInv, ShellTypeOK
<1> QED BY <1>1, <1>2, <1>3, QuietInv

-----------------------------------------------------------------------------
(* Forks. *)
LEMMA ForkInv ==
  ASSUME ShellInv, NEW r \in {"command", "left", "right"}, Fork(r), UNCHANGED opened,
         jobs' \in [JobSlots -> [job_id : 0 .. MaxPid, pid : 0 .. MaxPid]],
         next_job_id' \in 1 .. MaxPid + 1, JobsDistinct',
         pc' \in Places, forks' \in 0 .. 3, waits' \in 0 .. 3, front' \subseteq Pids, WaitsLeft',
         pc' # <<"prompt">>, pc' \in PipeAt <=> pc \in PipeAt,
         r # "command" => pc \in PipeAt
  PROVE  ShellInv'
<1> USE DEF ShellInv
<1>1. /\ next_pid \in Pids
      /\ next_pid' \in 1 .. MaxPid + 1
      /\ child' \in [Pids -> {"none", "running", "killed", "zombie", "reaped"}]
      /\ role' \in [Pids -> Roles]
      /\ fds' \in [{Sh} \cup Pids -> [Fds -> Targets]]
      /\ fds'[Sh] = fds[Sh] /\ fds'[next_pid] = fds[Sh]
      /\ role'[next_pid] = r
      /\ \A p \in Pids \ {next_pid} : role'[p] = role[p] /\ fds'[p] = fds[p]
  <2>1. r \in Roles
    BY DEF Roles
  <2> QED BY <2>1, ForkFacts, Zenon
<1>2. ShellTypeOK'
  BY <1>1 DEF ShellTypeOK, Places, Roles
<1>3. \A p \in Pids : role'[p] \in {"left", "right"} => BothEnds(fds'[p])
  <2> SUFFICES ASSUME NEW p \in Pids, role'[p] \in {"left", "right"}
               PROVE  BothEnds(fds'[p])
    OBVIOUS
  <2>1. CASE p = next_pid
    BY <2>1, <1>1 DEF PipeHeld, PipeAt
  <2>2. CASE p # next_pid
    BY <2>2, <1>1 DEF PipeHeld
  <2> QED BY <2>1, <2>2
<1>4. PipeEndsPlaced'
  <2> SUFFICES ASSUME NEW p \in Pids, role'[p] \in {"writer", "reader"}
               PROVE  /\ role'[p] = "writer" => EndsOf(p)' = {<<1, "write end">>}
                      /\ role'[p] = "reader" => EndsOf(p)' = {<<0, "read end">>}
    BY Zenon DEF PipeEndsPlaced
  <2>1. p # next_pid
    BY <1>1
  <2>2. role'[p] = role[p] /\ fds'[p] = fds[p]
    BY <1>1, <2>1
  <2> QED BY <2>2, Zenon DEF PipeEndsPlaced, EndsOf
<1>5. OpenIsListed' /\ PipeHeld'
  BY <1>1, <1>3, SameTable
<1> QED BY <1>2, <1>3, <1>4, <1>5

LEMMA ForegroundInv ==
  ASSUME ShellInv, Foreground
  PROVE  ShellInv'
<1>1. /\ Fork("command") /\ pc = <<"command">> /\ pc' = <<"wait">> /\ waits' = 1
      /\ front' = {next_pid} /\ next_pid \in Pids /\ UNCHANGED <<table, forks, opened>>
      /\ next_pid' = next_pid + 1
  BY DEF Foreground, Goto, Fork
<1>2. JobsDistinct'
  BY <1>1, SameJobs DEF ShellInv
<1>3. /\ pc' \in Places /\ pc' # <<"prompt">> /\ pc' \notin PipeAt /\ pc \notin PipeAt
      /\ WaitsLeft'
  BY <1>1 DEF Places, PipeAt, WaitsLeft
<1>4. /\ jobs' \in [JobSlots -> [job_id : 0 .. MaxPid, pid : 0 .. MaxPid]]
      /\ next_job_id' \in 1 .. MaxPid + 1
      /\ forks' \in 0 .. 3 /\ waits' \in 0 .. 3 /\ front' \subseteq Pids
  BY <1>1 DEF ShellInv, ShellTypeOK, table
<1> QED BY <1>1, <1>2, <1>3, <1>4, ForkInv

(* stress, and the two children of a pipeline: a fork that may fail. *)
LEMMA MayForkInv ==
  ASSUME ShellInv, NEW r \in {"command", "left", "right"},
         \/ Fork(r) /\ front' = front \cup {next_pid}
         \/ ForkFails /\ UNCHANGED front,
         UNCHANGED <<table, waits, opened>>,
         pc' \in Places, forks' \in 0 .. 3, WaitsLeft',
         pc' # <<"prompt">>, pc' \in PipeAt <=> pc \in PipeAt,
         r # "command" => pc \in PipeAt
  PROVE  ShellInv'
<1>1. /\ jobs' \in [JobSlots -> [job_id : 0 .. MaxPid, pid : 0 .. MaxPid]]
      /\ next_job_id' \in 1 .. MaxPid + 1 /\ waits' \in 0 .. 3 /\ front \subseteq Pids
  BY DEF ShellInv, ShellTypeOK, table
<1>2. CASE Fork(r) /\ front' = front \cup {next_pid}
  <2>1. next_pid \in Pids /\ next_pid' = next_pid + 1
    BY <1>2 DEF Fork
  <2>2. JobsDistinct'
    BY <2>1, SameJobs DEF ShellInv
  <2>3. front' \subseteq Pids
    BY <1>1, <1>2, <2>1
  <2> QED BY <1>1, <1>2, <2>2, <2>3, ForkInv
<1>3. CASE ForkFails /\ UNCHANGED front
  BY <1>1, <1>3, QuietInv DEF ForkFails
<1> QED BY <1>2, <1>3

LEMMA StressForksInv ==
  ASSUME ShellInv, StressForks
  PROVE  ShellInv'
<1>1. /\ pc = <<"stress">> /\ forks > 0 /\ forks' = forks - 1 /\ UNCHANGED <<table, waits, opened>>
      /\ pc' \in {<<"stress">>, <<"wait">>}
      /\ \/ Fork("command") /\ front' = front \cup {next_pid}
         \/ ForkFails /\ UNCHANGED front
  BY DEF StressForks, Goto
<1>2. /\ pc' \in Places /\ pc' # <<"prompt">> /\ pc' \notin PipeAt /\ pc \notin PipeAt
  BY <1>1 DEF Places, PipeAt
<1>3. forks' \in 0 .. 3 /\ WaitsLeft'
  BY <1>1 DEF ShellInv, ShellTypeOK, WaitsLeft
<1> QED BY <1>1, <1>2, <1>3, MayForkInv

LEMMA ForkSideInv ==
  ASSUME ShellInv, ForkSide("left", "right") \/ ForkSide("right", "ends")
  PROVE  ShellInv'
<1> SUFFICES ASSUME NEW side \in {"left", "right"}, NEW next \in {"right", "ends"},
                    ForkSide(side, next)
             PROVE  ShellInv'
  OBVIOUS
<1>1. /\ pc = <<side>> /\ pc' = <<next>> /\ UNCHANGED <<table, forks, waits, opened>>
      /\ \/ Fork(side) /\ front' = front \cup {next_pid}
         \/ ForkFails /\ UNCHANGED front
  BY DEF ForkSide, Goto
<1>2. /\ pc' \in Places /\ pc' # <<"prompt">> /\ pc' \in PipeAt /\ pc \in PipeAt
  BY <1>1 DEF Places, PipeAt
<1>3. forks' \in 0 .. 3 /\ WaitsLeft'
  BY <1>1, <1>2 DEF ShellInv, ShellTypeOK, WaitsLeft, PipeAt
<1> QED BY <1>1, <1>2, <1>3, MayForkInv

LEMMA BackgroundInv ==
  ASSUME ShellInv, Background
  PROVE  ShellInv'
<1> USE DEF ShellInv
<1> DEFINE free == {j \in JobSlots : jobs[j].pid = 0}
           slot == CHOOSE j \in free : \A k \in free : j <= k
<1>1. /\ Fork("command") /\ pc = <<"command">> /\ pc' = <<"close">>
      /\ next_pid \in Pids /\ next_pid' = next_pid + 1
      /\ UNCHANGED <<forks, waits, opened, front>>
  BY DEF Background, Goto, Fork
<1>2. /\ pc' \in Places /\ pc' # <<"prompt">> /\ pc' \notin PipeAt /\ pc \notin PipeAt
      /\ WaitsLeft'
  BY <1>1 DEF Places, PipeAt, WaitsLeft
<1>3. forks' \in 0 .. 3 /\ waits' \in 0 .. 3 /\ front' \subseteq Pids
  BY <1>1 DEF ShellTypeOK
<1>4. /\ jobs' \in [JobSlots -> [job_id : 0 .. MaxPid, pid : 0 .. MaxPid]]
      /\ next_job_id' \in 1 .. MaxPid + 1 /\ JobsDistinct'
  <2>0. /\ jobs \in [JobSlots -> [job_id : 0 .. MaxPid, pid : 0 .. MaxPid]]
        /\ next_job_id \in 1 .. MaxPid + 1 /\ next_pid \in 1 .. MaxPid /\ MaxPid \in Nat
    BY <1>1, ShellAssumption DEF ShellTypeOK, Pids
  <2>1. CASE free = {}
    <3>1. UNCHANGED table
      BY <2>1 DEF Background, jobs_add
    <3> QED BY <1>1, <2>0, <3>1, SameJobs DEF table
  <2>2. CASE free # {}
    <3>1. slot \in free
      <4>1. \E m \in free : \A k \in free : m <= k
        <5>1. free \in SUBSET Nat
          BY DEF JobSlots
        <5> HIDE DEF free
        <5> QED BY <2>2, <5>1, LeastNat
      <4> HIDE DEF free
      <4> QED BY <4>1
    <3>2. /\ jobs' = [jobs EXCEPT ![slot] = [job_id |-> next_job_id, pid |-> next_pid]]
          /\ next_job_id' = next_job_id + 1
      BY <2>2 DEF Background, jobs_add, NextId
    <3> HIDE DEF slot
    <3>3. slot \in JobSlots
      BY <3>1
    <3>4. next_job_id <= next_pid
      BY DEF JobsDistinct
    <3>5. [job_id |-> next_job_id, pid |-> next_pid] \in [job_id : 0 .. MaxPid, pid : 0 .. MaxPid]
      BY <2>0, <3>4
    <3>6. /\ jobs' \in [JobSlots -> [job_id : 0 .. MaxPid, pid : 0 .. MaxPid]]
          /\ jobs'[slot].job_id = next_job_id /\ jobs'[slot].pid = next_pid
          /\ \A j \in JobSlots \ {slot} : jobs'[j] = jobs[j]
      BY <2>0, <3>2, <3>3, <3>5
    <3>7. next_job_id' \in 1 .. MaxPid + 1 /\ next_job_id' <= next_pid'
      BY <1>1, <2>0, <3>2, <3>4
    <3>8. ASSUME NEW j \in JobSlots
          PROVE  /\ jobs'[j].job_id < next_job_id' /\ jobs'[j].pid < next_pid'
                 /\ jobs'[j].pid # 0 => jobs'[j].job_id # 0
      <4>1. jobs[j].job_id \in Nat /\ jobs[j].pid \in Nat
        BY <2>0
      <4> QED BY <1>1, <2>0, <3>2, <3>6, <4>1 DEF JobsDistinct
    <3>9. ASSUME NEW j \in JobSlots, NEW k \in JobSlots, j # k
          PROVE  /\ jobs'[j].job_id = jobs'[k].job_id => jobs'[j].job_id = 0
                 /\ jobs'[j].pid = jobs'[k].pid => jobs'[j].pid = 0
      <4>1. /\ jobs[j].job_id \in Nat /\ jobs[j].pid \in Nat
            /\ jobs[k].job_id \in Nat /\ jobs[k].pid \in Nat
            /\ jobs[j].job_id < next_job_id /\ jobs[j].pid < next_pid
            /\ jobs[k].job_id < next_job_id /\ jobs[k].pid < next_pid
        BY <2>0 DEF JobsDistinct
      <4>2. CASE j = slot
        BY <4>1, <4>2, <2>0, <3>6, <3>9
      <4>3. CASE k = slot
        BY <4>1, <4>3, <2>0, <3>6, <3>9
      <4>4. CASE j # slot /\ k # slot
        BY <4>4, <3>6, <3>9 DEF JobsDistinct
      <4> QED BY <4>2, <4>3, <4>4
    <3>10. JobsDistinct'
      BY <3>7, <3>8, <3>9 DEF JobsDistinct
    <3> QED BY <3>6, <3>7, <3>10
  <2> QED BY <2>1, <2>2
<1> QED BY <1>1, <1>2, <1>3, <1>4, ForkInv
-----------------------------------------------------------------------------
(* Waits. *)
LEMMA ReapInv ==
  ASSUME ShellInv, NEW z \in Pids, Reaps(z), UNCHANGED <<next_pid, forks, opened, front>>,
         jobs' \in [JobSlots -> [job_id : 0 .. MaxPid, pid : 0 .. MaxPid]],
         next_job_id' \in 1 .. MaxPid + 1, JobsDistinct',
         pc' \in Places, waits' \in 0 .. 3, WaitsLeft',
         pc' # <<"prompt">>, pc' \in PipeAt <=> pc \in PipeAt
  PROVE  ShellInv'
<1> USE DEF ShellInv
<1>1. /\ child' \in [Pids -> {"none", "running", "killed", "zombie", "reaped"}]
      /\ role' \in [Pids -> Roles]
      /\ fds' \in [{Sh} \cup Pids -> [Fds -> Targets]]
      /\ fds'[Sh] = fds[Sh]
      /\ role'[z] = "none"
      /\ \A p \in Pids \ {z} : role'[p] = role[p] /\ fds'[p] = fds[p]
  BY ReapsFacts, Zenon
<1>2. ShellTypeOK'
  BY <1>1 DEF ShellTypeOK, Places, Roles
<1>3. \A p \in Pids : role'[p] \in {"left", "right", "writer", "reader"} =>
        role'[p] = role[p] /\ fds'[p] = fds[p]
  BY <1>1
<1>4. /\ \A p \in Pids : role'[p] \in {"left", "right"} => BothEnds(fds'[p])
      /\ PipeEndsPlaced'
  BY <1>3, SamePipes
<1>5. OpenIsListed' /\ PipeHeld'
  BY <1>1, <1>4, SameTable
<1> QED BY <1>2, <1>4, <1>5

LEMMA WaitInv ==
  ASSUME ShellInv, Wait
  PROVE  ShellInv'
<1> USE DEF ShellInv
<1>1. CASE Blocks
  BY <1>1, ShellMovesInv DEF Wait, PipeAt
<1>2. CASE ~ Blocks
  <2>1. PICK z \in Pids : Reaps(z)
    BY <1>2 DEF Wait
  <2>2. /\ pc = <<"wait">> /\ waits' = waits - 1
        /\ IF waits = 1 THEN pc' = <<"close">> ELSE pc' = pc
        /\ UNCHANGED <<table, next_pid, forks, opened, front>>
    BY <1>2 DEF Wait, Goto
  <2>3. /\ pc' \in Places /\ pc' # <<"prompt">> /\ pc' \notin PipeAt /\ pc \notin PipeAt
    BY <2>2 DEF Places, PipeAt
  <2>4. waits' \in 0 .. 3 /\ WaitsLeft'
    BY <2>2 DEF WaitsLeft, ShellTypeOK
  <2>5. /\ jobs' \in [JobSlots -> [job_id : 0 .. MaxPid, pid : 0 .. MaxPid]]
        /\ next_job_id' \in 1 .. MaxPid + 1
    BY <2>2 DEF ShellTypeOK, table
  <2>6. JobsDistinct'
    BY <2>2, SameJobs
  <2> QED BY <2>1, <2>2, <2>3, <2>4, <2>5, <2>6, ReapInv
<1> QED BY <1>1, <1>2

(* The job that fg removes is the one it waited for. *)
LEMMA RemovesOne ==
  ASSUME ShellInv, NEW j \in JobSlots, jobs[j].pid # 0, jobs_remove(jobs[j].pid)
  PROVE  jobs' = [jobs EXCEPT ![j].pid = 0] /\ UNCHANGED next_job_id
<1> DEFINE pid == jobs[j].pid
           Found(i) == jobs[i].pid = pid /\ \A k \in 0 .. i - 1 : jobs[k].pid # pid
           slot == CHOOSE i \in JobSlots : Found(i)
<1>1. \A i \in JobSlots : jobs[i].pid = pid => i = j
  BY DEF ShellInv, JobsDistinct
<1>2. \A i \in JobSlots : Found(i) <=> i = j
  <2>1. \A k \in 0 .. j - 1 : k \in JobSlots /\ k # j
    BY ShellAssumption DEF JobSlots
  <2> QED BY <1>1, <2>1
<1>3. slot = j
  <2> HIDE DEF Found
  <2> QED BY <1>2
<1> QED BY <1>3, Zenon DEF jobs_remove

LEMMA FgWaitsInv ==
  ASSUME ShellInv, NEW j \in JobSlots, FgWaits(j)
  PROVE  ShellInv'
<1> USE DEF ShellInv
<1>0. pc = <<"fg", j>> /\ pc \in Places /\ pc \notin PipeAt /\ pc # <<"prompt">>
      /\ pc # <<"wait">> /\ pc # <<"stress">>
  BY DEF FgWaits, PipeAt, Places, FgAt
<1>1. CASE Blocks
  BY <1>0, <1>1, ShellMovesInv
<1>2. CASE ~ Blocks
  <2>1. PICK z \in Pids :
          /\ Reaps(z)
          /\ IF FgDone(z, j) THEN jobs_remove(jobs[j].pid) /\ Goto("close")
                            ELSE UNCHANGED <<table, pc>>
          /\ UNCHANGED <<next_pid, forks, waits, opened, front>>
    BY <1>2 DEF FgWaits
  <2>2. /\ pc' \in Places /\ pc' # <<"prompt">> /\ pc' \notin PipeAt
        /\ pc' # <<"wait">> /\ pc' # <<"stress">>
    BY <1>0, <2>1 DEF Places, PipeAt, Goto
  <2>3. waits' \in 0 .. 3 /\ WaitsLeft'
    BY <2>1, <2>2 DEF WaitsLeft, ShellTypeOK
  <2>4. /\ jobs' \in [JobSlots -> [job_id : 0 .. MaxPid, pid : 0 .. MaxPid]]
        /\ next_job_id' \in 1 .. MaxPid + 1 /\ JobsDistinct'
    <3>1. CASE ~ FgDone(z, j)
      <4>1. UNCHANGED table
        BY <2>1, <3>1
      <4> QED BY <2>1, <4>1, SameJobs DEF ShellTypeOK, table
    <3>2. CASE FgDone(z, j)
      <4>1. jobs[j].pid # 0
        BY <3>2 DEF FgDone, Pids
      <4>2. jobs' = [jobs EXCEPT ![j].pid = 0] /\ UNCHANGED next_job_id
        BY <2>1, <3>2, <4>1, RemovesOne
      <4>3. jobs \in [JobSlots -> [job_id : 0 .. MaxPid, pid : 0 .. MaxPid]] /\ 0 \in 0 .. MaxPid
        BY ShellAssumption DEF ShellTypeOK
      <4>4. /\ jobs' \in [JobSlots -> [job_id : 0 .. MaxPid, pid : 0 .. MaxPid]]
            /\ jobs'[j].job_id = jobs[j].job_id /\ jobs'[j].pid = 0
            /\ \A k \in JobSlots \ {j} : jobs'[k] = jobs[k]
        BY <4>2, <4>3
      <4>5. next_pid > 0
        BY DEF ShellTypeOK
      <4>6. JobsDistinct'
        BY <2>1, <4>2, <4>4, <4>5 DEF JobsDistinct
      <4> QED BY <4>2, <4>4, <4>6 DEF ShellTypeOK
    <3> QED BY <3>1, <3>2
  <2> QED BY <1>0, <2>1, <2>2, <2>3, <2>4, ReapInv
<1> QED BY <1>1, <1>2

-----------------------------------------------------------------------------
(* The children of a pipeline. *)
LEMMA EndIs ==
  ASSUME NEW t, BothEnds(t)
  PROVE  End(t, "read end") = 3 /\ End(t, "write end") = 4
<1>1. /\ \A fd \in 3 .. MAX_FDS - 1 : t[fd] = "read end" <=> fd = 3
      /\ \A fd \in 3 .. MAX_FDS - 1 : t[fd] = "write end" <=> fd = 4
  BY FdFacts, Zenon DEF BothEnds
<1> QED BY <1>1, FdFacts, Zenon DEF End

(* What is left of the ends once one is closed and the other moved.         *)
LEMMA MovedEnd ==
  ASSUME NEW t \in [Fds -> Targets], BothEnds(t),
         NEW a \in {3, 4}, NEW b \in {3, 4}, a # b, NEW n \in {0, 1}
  PROVE  LET u == sys_close(sys_dup2(sys_close(t, a), b, n), b)
         IN /\ u \in [Fds -> Targets] /\ u[n] = t[b]
            /\ \A fd \in Fds \ {n} : u[fd] \notin {"read end", "write end"}
<1>1. 0 \in Fds /\ 1 \in Fds /\ 3 \in Fds /\ 4 \in Fds /\ Closed \in Targets
  BY FdFacts, TargetFacts, Zenon
<1> DEFINE c == [t EXCEPT ![a] = Closed]
           d == [c EXCEPT ![n] = c[b]]
           u == [d EXCEPT ![b] = Closed]
<1>2. /\ c \in [Fds -> Targets] /\ c[a] = Closed
      /\ \A fd \in Fds \ {a} : c[fd] = t[fd]
  BY <1>1
<1> HIDE DEF c
<1>3. c[b] = t[b]
  BY <1>1, <1>2
<1>4. /\ d \in [Fds -> Targets] /\ d[n] = t[b]
      /\ \A fd \in Fds \ {n} : d[fd] = c[fd]
  BY <1>1, <1>2, <1>3
<1> HIDE DEF d
<1>5. /\ u \in [Fds -> Targets] /\ u[b] = Closed
      /\ \A fd \in Fds \ {b} : u[fd] = d[fd]
  BY <1>1, <1>4
<1> HIDE DEF u
<1>6. u[n] = t[b]
  BY <1>1, <1>4, <1>5
<1>7. ASSUME NEW fd \in Fds \ {n}
      PROVE  u[fd] \notin {"read end", "write end"}
  <2>1. CASE fd = a \/ fd = b
    <3>1. u[fd] = Closed
      BY <2>1, <1>1, <1>2, <1>4, <1>5
    <3> QED BY <3>1, TargetFacts, Zenon
  <2>2. CASE fd # a /\ fd # b
    <3>1. u[fd] = t[fd] /\ fd \in Fds \ {3, 4}
      BY <2>2, <1>2, <1>4, <1>5
    <3> QED BY <3>1, Zenon DEF BothEnds
  <2> QED BY <2>1, <2>2, Zenon
<1>8. u = sys_close(sys_dup2(sys_close(t, a), b, n), b)
  BY DEF u, d, c, sys_close, sys_dup2
<1> QED BY <1>5, <1>6, <1>7, <1>8, Zenon
LEMMA RedirectedInv ==
  ASSUME ShellInv, NEW p \in Pids, NEW n \in {0, 1}, NEW u \in [Fds -> Targets], NEW r \in Roles,
         UNCHANGED <<table, next_pid, child, pc, forks, waits, opened, front>>,
         role' = [role EXCEPT ![p] = r], fds' = [fds EXCEPT ![p] = u],
         u[n] \in {"read end", "write end"},
         \A fd \in Fds \ {n} : u[fd] \notin {"read end", "write end"},
         r \notin {"left", "right"},
         r = "writer" => <<n, u[n]>> = <<1, "write end">>,
         r = "reader" => <<n, u[n]>> = <<0, "read end">>
  PROVE  ShellInv'
<1> USE DEF ShellInv
<1>1. UNCHANGED <<table, next_pid, child, pc, forks, waits, opened, front>>
  BY Zenon
<1>4. /\ fds' \in [{Sh} \cup Pids -> [Fds -> Targets]] /\ fds'[p] = u
      /\ \A q \in ({Sh} \cup Pids) \ {p} : fds'[q] = fds[q]
      /\ role' \in [Pids -> Roles] /\ \A q \in Pids \ {p} : role'[q] = role[q]
      /\ role'[p] = r
  <2>1. role \in [Pids -> Roles] /\ fds \in [{Sh} \cup Pids -> [Fds -> Targets]]
    BY Zenon DEF ShellTypeOK, Roles
  <2> QED BY <2>1, Zenon
<1>5. ShellTypeOK'
  BY <1>1, <1>4, Zenon DEF ShellTypeOK, Roles, table
<1>6. JobsDistinct'
  BY <1>1, SameJobs, Zenon
<1>7. fds'[Sh] = fds[Sh]
  BY <1>4, TableType, Zenon
<1>8. \A q \in Pids : role'[q] \in {"left", "right"} => BothEnds(fds'[q])
  <2> SUFFICES ASSUME NEW q \in Pids, role'[q] \in {"left", "right"} PROVE BothEnds(fds'[q])
    BY Zenon
  <2>1. q # p
    BY <1>4, Zenon
  <2> QED BY <1>4, <2>1, Zenon DEF PipeHeld
<1>9. PipeEndsPlaced'
  <2>0. SUFFICES ASSUME NEW q \in Pids
                 PROVE  /\ role'[q] = "writer" => EndsOf(q)' = {<<1, "write end">>}
                        /\ role'[q] = "reader" => EndsOf(q)' = {<<0, "read end">>}
    BY Zenon DEF PipeEndsPlaced
  <2>1. CASE q = p
    <3>1. n \in Fds /\ fds'[p][n] = u[n] /\ u[n] \in {"read end", "write end"}
      BY <1>4, FdFacts, Zenon
    <3>2. EndsOf(p)' = {<<n, u[n]>>}
      <4>1. \A fd \in Fds \ {n} : fds'[p][fd] \notin {"read end", "write end"}
        BY <1>4, Zenon
      <4>2. {k \in Fds : fds'[p][k] \in {"read end", "write end"}} = {n}
        BY <3>1, <4>1, Zenon
      <4>3. EndsOf(p)' = {<<fd, fds'[p][fd]>> : fd \in {n}}
        BY <4>2, Zenon DEF EndsOf
      <4> QED BY <3>1, <4>3, Zenon
    <3>3. role'[q] = r /\ EndsOf(q)' = {<<n, u[n]>>}
      BY <2>1, <1>4, <3>2, Zenon
    <3> QED BY <3>3, Zenon
  <2>2. CASE q # p
    <3>1. role'[q] = role[q] /\ fds'[q] = fds[q]
      BY <2>2, <1>4, Zenon
    <3> QED BY <3>1, ZenonT(30) DEF PipeEndsPlaced, EndsOf
  <2> QED BY <2>1, <2>2, Zenon
<1>10. OpenIsListed' /\ PipeHeld'
  BY <1>1, <1>7, <1>8, SameTable, Zenon
<1>11. WaitsLeft'
  BY <1>1, Zenon DEF WaitsLeft
<1> QED BY <1>5, <1>6, <1>9, <1>10, <1>11, Zenon

LEMMA RedirectsInv ==
  ASSUME ShellInv, NEW p \in Pids, Redirects(p)
  PROVE  ShellInv'
<1>1. /\ role[p] \in {"left", "right"}
      /\ UNCHANGED <<table, next_pid, child, pc, forks, waits, opened, front>>
  BY DEF Redirects
<1>2. /\ BothEnds(fds[p]) /\ fds[p] \in [Fds -> Targets]
      /\ End(fds[p], "read end") = 3 /\ End(fds[p], "write end") = 4
      /\ fds[p][3] = "read end" /\ fds[p][4] = "write end"
  BY <1>1, EndIs, TableType, Zenon DEF ShellInv, PipeHeld, BothEnds
<1>3. CASE role[p] = "left"
  <2> DEFINE u == AsWriter(fds[p])
  <2>1. u = sys_close(sys_dup2(sys_close(fds[p], 3), 4, 1), 4)
    BY <1>2, Zenon DEF AsWriter
  <2>2. fds' = [fds EXCEPT ![p] = u] /\ role' = [role EXCEPT ![p] = "writer"]
    BY <1>3 DEF Redirects
  <2> HIDE DEF u
  <2>3. /\ u \in [Fds -> Targets] /\ u[1] = "write end"
        /\ \A fd \in Fds \ {1} : u[fd] \notin {"read end", "write end"}
    BY <1>2, <2>1, MovedEnd, Zenon
  <2>4. "writer" \in Roles
    BY DEF Roles
  <2> QED BY <1>1, <2>2, <2>3, <2>4, RedirectedInv, Zenon
<1>4. CASE role[p] = "right"
  <2> DEFINE u == AsReader(fds[p])
  <2>1. u = sys_close(sys_dup2(sys_close(fds[p], 4), 3, 0), 3)
    BY <1>2, Zenon DEF AsReader
  <2>2. fds' = [fds EXCEPT ![p] = u] /\ role' = [role EXCEPT ![p] = "reader"]
    BY <1>4 DEF Redirects
  <2> HIDE DEF u
  <2>3. /\ u \in [Fds -> Targets] /\ u[0] = "read end"
        /\ \A fd \in Fds \ {0} : u[fd] \notin {"read end", "write end"}
    BY <1>2, <2>1, MovedEnd, Zenon
  <2>4. "reader" \in Roles
    BY DEF Roles
  <2> QED BY <1>1, <2>2, <2>3, <2>4, RedirectedInv, Zenon
<1> QED BY <1>1, <1>3, <1>4

LEMMA ChildInv ==
  ASSUME ShellInv, NEW p \in Pids, ChildExits(p) \/ ChildKilled(p)
  PROVE  ShellInv'
<1> USE DEF ShellInv
<1>1. /\ UNCHANGED <<table, next_pid, role, fds, pc, forks, waits, opened, front>>
      /\ child' \in [Pids -> {"none", "running", "killed", "zombie", "reaped"}]
  BY DEF ChildExits, ChildKilled, ShellTypeOK
<1>2. ShellTypeOK'
  BY <1>1 DEF ShellTypeOK, table
<1>3. JobsDistinct'
  BY <1>1, SameJobs
<1>4. /\ \A q \in Pids : role'[q] \in {"left", "right"} => BothEnds(fds'[q])
      /\ PipeEndsPlaced'
  BY <1>1, SamePipes
<1>5. OpenIsListed' /\ PipeHeld' /\ WaitsLeft'
  BY <1>1, <1>4, SameTable DEF WaitsLeft
<1> QED BY <1>2, <1>3, <1>4, <1>5

LEMMA InitShellInv == InitShell => ShellInv
<1> SUFFICES ASSUME InitShell PROVE ShellInv
  OBVIOUS
<1>1. ShellTypeOK
  <2>1. 0 \in 0 .. MaxPid /\ 1 \in 1 .. MaxPid + 1 /\ 0 \in 0 .. 3
    BY ShellAssumption
  <2>2. fds \in [{Sh} \cup Pids -> [Fds -> Targets]]
    BY TargetFacts, Zenon DEF InitShell
  <2>3. jobs \in [JobSlots -> [job_id : 0 .. MaxPid, pid : 0 .. MaxPid]]
    BY <2>1 DEF InitShell
  <2> QED BY <2>1, <2>2, <2>3 DEF InitShell, ShellTypeOK
<1>2. \A fd \in Fds : fds[Sh][fd] = Closed
  BY DEF InitShell
<1>3. JobsDistinct /\ WaitsLeft
  BY DEF InitShell, JobsDistinct, WaitsLeft
<1>4. OpenIsListed
  BY <1>2, FdFacts DEF InitShell, OpenIsListed
<1>5. PipeHeld /\ PipeEndsPlaced
  BY <1>2, TargetFacts, Zenon DEF InitShell, PipeHeld, PipeEndsPlaced, NoEnds
<1> QED BY <1>1, <1>3, <1>4, <1>5 DEF ShellInv

LEMMA NextShellInv == ShellInv /\ [NextShell]_shellVars => ShellInv'
<1> SUFFICES ASSUME ShellInv, [NextShell]_shellVars PROVE ShellInv'
  OBVIOUS
<1>1. CASE UNCHANGED shellVars
  <2>1. /\ UNCHANGED <<jobs, next_job_id, next_pid, child, role, fds, pc, forks, waits, opened, front>>
    BY <1>1 DEF shellVars, table, kids
  <2>2. ShellTypeOK' /\ WaitsLeft' /\ JobsDistinct'
    BY <2>1 DEF ShellInv, ShellTypeOK, WaitsLeft, JobsDistinct
  <2>3. OpenIsListed' /\ PipeHeld'
    BY <2>1, Zenon DEF ShellInv, OpenIsListed, PipeHeld, BothEnds, NoEnds
  <2>4. PipeEndsPlaced'
    BY <2>1, Zenon DEF ShellInv, PipeEndsPlaced, EndsOf
  <2> QED BY <2>2, <2>3, <2>4 DEF ShellInv
<1>2. CASE \E in, out \in BOOLEAN : StartCommand(in, out)
  BY <1>2, StartCommandInv
<1>3. CASE OutputFails
  BY <1>3, OutputFailsInv
<1>4. CASE CloseAll \/ CloseEnds
  BY <1>4, CloseAllInv
<1>5. CASE Prints \/ Exit \/ Stress
  BY <1>5, ShellMovesInv
<1>6. CASE Foreground
  BY <1>6, ForegroundInv
<1>7. CASE Background
  BY <1>7, BackgroundInv
<1>8. CASE StressForks
  BY <1>8, StressForksInv
<1>9. CASE Wait
  BY <1>9, WaitInv
<1>10. CASE \E id \in 0 .. MaxPid : Fg(id)
  BY <1>10, FgInv
<1>11. CASE \E j \in JobSlots : FgWaits(j)
  BY <1>11, FgWaitsInv
<1>12. CASE StartPipe
  BY <1>12, StartPipeInv
<1>13. CASE ForkSide("left", "right") \/ ForkSide("right", "ends")
  BY <1>13, ForkSideInv
<1>14. CASE \E p \in Pids : Redirects(p)
  BY <1>14, RedirectsInv
<1>15. CASE \E p \in Pids : ChildExits(p) \/ ChildKilled(p)
  BY <1>15, ChildInv
<1> QED BY <1>1, <1>2, <1>3, <1>4, <1>5, <1>6, <1>7, <1>8, <1>9, <1>10, <1>11, <1>12,
           <1>13, <1>14, <1>15 DEF NextShell

LEMMA ShellInvariance == SpecShell => []ShellInv
BY InitShellInv, NextShellInv, PTL DEF SpecShell

-----------------------------------------------------------------------------
(* No child is entered twice in the job table (jobs_add), and an id that    *)
(* jobs_remove leaves behind in its slot never hides a job from             *)
(* jobs_get_by_id, for every size of the table and every run of lines.      *)
THEOREM JobsAreFound == SpecShell => []JobsFound
<1>1. ShellInv => JobsFound
  <2> SUFFICES ASSUME ShellInv, NEW j \in JobSlots, jobs[j].pid # 0
               PROVE  /\ jobs_get_by_id(jobs[j].job_id, j)
                      /\ \A k \in JobSlots : jobs[k].pid = jobs[j].pid => k = j
    BY DEF JobsFound
  <2>1. \A k \in 0 .. j - 1 : k \in JobSlots /\ k # j
    BY ShellAssumption DEF JobSlots
  <2>2. jobs[j].job_id # 0
    BY DEF ShellInv, JobsDistinct
  <2>3. jobs_get_by_id(jobs[j].job_id, j)
    BY <2>1, <2>2 DEF ShellInv, JobsDistinct, jobs_get_by_id
  <2>4. \A k \in JobSlots : jobs[k].pid = jobs[j].pid => k = j
    BY DEF ShellInv, JobsDistinct
  <2> QED BY <2>3, <2>4
<1> QED BY <1>1, ShellInvariance, PTL

(* At the prompt every descriptor that sys_open and sys_pipe can hand out   *)
(* is free again, whichever opens and forks of the lines before failed.     *)
THEOREM PromptLeaksNothing == SpecShell => []NoDescriptorLeak
<1>1. ShellInv => NoDescriptorLeak
  BY DEF ShellInv, OpenIsListed, NoDescriptorLeak
<1> QED BY <1>1, ShellInvariance, PTL

(* A pipeline's commands run with exactly one end of the pipe: execute_pipe *)
(* leaves no copy of the other one open in the child.                       *)
THEOREM PipelineEnds == SpecShell => []PipeEndsPlaced
<1>1. ShellInv => PipeEndsPlaced
  BY DEF ShellInv
<1> QED BY <1>1, ShellInvariance, PTL

(* Only fg takes a job out of the table, and only in the step in which its  *)
(* loop of waits has reaped the very child the job names.                   *)
THEOREM JobsLeaveWhenReaped == SpecShell => RemovedWhenReaped
<1>1. ShellInv /\ [NextShell]_shellVars =>
        \A j \in JobSlots : jobs[j].pid # 0 /\ jobs'[j].pid # jobs[j].pid =>
           jobs'[j].pid = 0 /\ child[jobs[j].pid] = "zombie" /\ child'[jobs[j].pid] = "reaped"
  <2> SUFFICES ASSUME ShellInv, [NextShell]_shellVars, NEW j \in JobSlots,
                      jobs[j].pid # 0, jobs'[j].pid # jobs[j].pid
               PROVE  /\ jobs'[j].pid = 0 /\ child[jobs[j].pid] = "zombie"
                      /\ child'[jobs[j].pid] = "reaped"
    OBVIOUS
  <2>1. CASE Background
    <3> DEFINE free == {k \in JobSlots : jobs[k].pid = 0}
               slot == CHOOSE k \in free : \A m \in free : k <= m
    <3>1. CASE free = {}
      BY <2>1, <3>1 DEF Background, jobs_add, table
    <3>2. CASE free # {}
      <4>1. slot \in free
        <5>1. free \in SUBSET Nat
          BY DEF JobSlots
        <5> HIDE DEF free
        <5>2. \E m \in free : \A k \in free : m <= k
          BY <3>2, <5>1, LeastNat
        <5> QED BY <5>2
      <4>2. jobs' = [jobs EXCEPT ![slot] = [job_id |-> next_job_id, pid |-> next_pid]]
        BY <2>1, <3>2 DEF Background, jobs_add
      <4>3. slot # j
        BY <4>1, Zenon
      <4> HIDE DEF slot
      <4>4. jobs'[j] = jobs[j]
        BY <4>2, <4>3 DEF ShellInv, ShellTypeOK
      <4> QED BY <4>4
    <3> QED BY <3>1, <3>2
  <2>2. ASSUME NEW k \in JobSlots, FgWaits(k)
        PROVE  /\ jobs'[j].pid = 0 /\ child[jobs[j].pid] = "zombie"
               /\ child'[jobs[j].pid] = "reaped"
    <3>1. ~ Blocks
      BY DEF Blocks, table
    <3>2. PICK z \in Pids :
            /\ Reaps(z)
            /\ IF FgDone(z, k) THEN jobs_remove(jobs[k].pid) /\ Goto("close")
                              ELSE UNCHANGED <<table, pc>>
      BY <2>2, <3>1 DEF FgWaits
    <3>3. FgDone(z, k) /\ jobs_remove(jobs[k].pid) /\ jobs[k].pid = z /\ z # 0
      BY <3>2 DEF table, FgDone, Pids
    <3>4. jobs' = [jobs EXCEPT ![k].pid = 0]
      BY <3>3, RemovesOne
    <3>5. k = j /\ jobs'[j].pid = 0
      BY <3>4, ShellAssumption DEF ShellInv, ShellTypeOK
    <3>6. child[z] = "zombie" /\ child'[z] = "reaped"
      BY <3>2, ReapsFacts DEF ShellInv
    <3> QED BY <3>3, <3>5, <3>6
  <2>3. CASE /\ ~ Background /\ ~ \E k \in JobSlots : FgWaits(k)
    <3>1. UNCHANGED table
      BY <2>3, Zenon DEF NextShell, shellVars, StartCommand, OutputFails, CloseAll, Prints, Exit,
                  Foreground, Stress, StressForks, Wait, Blocks, Fg, StartPipe, ForkSide,
                  CloseEnds, Redirects, ChildExits, ChildKilled
    <3> QED BY <3>1 DEF table
  <2> QED BY <2>1, <2>2, <2>3
<1>2. ShellInv /\ [NextShell]_shellVars =>
        [\A j \in JobSlots : jobs[j].pid # 0 /\ jobs'[j].pid # jobs[j].pid =>
           jobs'[j].pid = 0 /\ child[jobs[j].pid] = "zombie"
                           /\ child'[jobs[j].pid] = "reaped"]_shellVars
  BY <1>1
<1> QED BY <1>2, ShellInvariance, PTL DEF SpecShell, RemovedWhenReaped
=============================================================================
