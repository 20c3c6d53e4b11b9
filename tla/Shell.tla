------------------------------- MODULE Shell -------------------------------
(***************************************************************************)
(* The shell (shell_v2.c) running command lines: job table, fg, foreground *)
(* and background commands, pipelines, redirections, over the system calls *)
(* fork, wait, exit, open, pipe, dup2 and close as syscall.c has them.     *)
(*                                                                         *)
(* The shell and its children interleave at system calls.  sys_wait        *)
(* returns a zombie child, any one; without one the shell becomes WAITING, *)
(* and nothing puts a WAITING process back (Process, WaiterWakes):         *)
(* "blocked" is for good.  Each process has its own descriptor table, so   *)
(* calls in a row that only touch it are one step; a descriptor stands for *)
(* what its entry refers to.  The jobs' state field is left out: it is     *)
(* DONE exactly while pid is 0, and jobs_list shows only the others.       *)
(***************************************************************************)
EXTENDS Integers

CONSTANTS MAX_JOBS, MAX_FDS, \* a pipe takes descriptors 3 and 4
          MaxPid      \* bound: the children forked in a behaviour

ASSUME ShellAssumption == MAX_JOBS \in Nat /\ MAX_FDS \in Nat /\ MAX_FDS > 4 /\ MaxPid \in Nat

JobSlots == 0 .. MAX_JOBS - 1
Pids == 1 .. MaxPid
Sh == 0                      \* the shell among the processes
Fds == 0 .. MAX_FDS - 1

Closed == "closed"
Targets == {Closed, "input", "output", "read end", "write end"}

VARIABLES jobs, next_job_id,
          next_pid,
          child,        \* state of each child
          role,         \* what it was forked for, and how far it is
          fds,          \* descriptor table of each process
          pc,           \* where the shell is
          forks, waits, \* forks and waits still to make
          opened,       \* the descriptors to close in the end
          front         \* ghost: children of the foreground command

kids == <<next_pid, child, role>>
table == <<jobs, next_job_id>>
shellVars == <<table, kids, fds, pc, forks, waits, opened, front>>

FgAt == {<<"fg", j>> : j \in JobSlots}

ShellTypeOK ==
  /\ jobs \in [JobSlots -> [job_id : 0 .. MaxPid, pid : 0 .. MaxPid]]
  /\ next_job_id \in 1 .. MaxPid + 1
  /\ next_pid \in 1 .. MaxPid + 1
  /\ child \in [Pids -> {"none", "running", "killed", "zombie", "reaped"}]
  /\ role \in [Pids -> {"none", "command", "left", "right", "writer", "reader"}]
  /\ fds \in [{Sh} \cup Pids -> [Fds -> Targets]]
  /\ pc \in {<<"prompt">>, <<"command">>, <<"stress">>, <<"left">>, <<"right">>,
             <<"ends">>, <<"wait">>, <<"close">>, <<"blocked">>, <<"gone">>} \cup FgAt
  /\ forks \in 0 .. 3 /\ waits \in 0 .. 3
  /\ opened \subseteq Fds
  /\ front \subseteq Pids

InitShell ==
  /\ jobs = [j \in JobSlots |-> [job_id |-> 0, pid |-> 0]] /\ next_job_id = 1
  /\ next_pid = 1
  /\ child = [p \in Pids |-> "none"] /\ role = [p \in Pids |-> "none"]
  /\ fds = [p \in {Sh} \cup Pids |-> [fd \in Fds |-> Closed]]
  /\ pc = <<"prompt">> /\ forks = 0 /\ waits = 0 /\ opened = {}
  /\ front = {}

Goto(at) == pc' = <<at>>

-----------------------------------------------------------------------------
(* System calls on a descriptor table t: the first free descriptor from 3  *)
(* on, sys_dup2, sys_close.                                                *)
FreeFds(t) == {fd \in 3 .. MAX_FDS - 1 : t[fd] = Closed}

FirstFree(t) == CHOOSE fd \in FreeFds(t) : \A k \in FreeFds(t) : fd <= k

sys_dup2(t, old, new) == [t EXCEPT ![new] = t[old]]

sys_close(t, fd) == [t EXCEPT ![fd] = Closed]

(* sys_open gives the first free descriptor, or -1 without one or when the *)
(* file can not be created.  The redirection of descriptor new to it.      *)
Redirected(t, file, new) == sys_dup2([t EXCEPT ![FirstFree(t)] = file], FirstFree(t), new)

(* sys_fork by the shell, for work r: the child has a copy of the table.   *)
Fork(r) ==
  /\ next_pid \in Pids
  /\ next_pid' = next_pid + 1
  /\ child' = [child EXCEPT ![next_pid] = "running"]
  /\ role' = [role EXCEPT ![next_pid] = r]
  /\ fds' = [fds EXCEPT ![next_pid] = fds[Sh]]

ForkFails == UNCHANGED <<kids, fds>>

(* sys_wait: the pid of a zombie child, which is gone then, table and all. *)
Reaps(z) ==
  /\ child[z] = "zombie"
  /\ child' = [child EXCEPT ![z] = "reaped"]
  /\ role' = [role EXCEPT ![z] = "none"]
  /\ fds' = [fds EXCEPT ![z] = [fd \in Fds |-> Closed]]

Blocks ==
  /\ \A p \in Pids : child[p] # "zombie"
  /\ Goto("blocked")
  /\ UNCHANGED <<table, kids, fds, forks, waits, opened, front>>

-----------------------------------------------------------------------------
(* The job table. *)
MutNextId_Same(n) == n

NextId(n) == n + 1

jobs_add(pid) ==
  LET free == {j \in JobSlots : jobs[j].pid = 0}
      j == CHOOSE j \in free : \A k \in free : j <= k
  IN IF free = {} THEN UNCHANGED table
     ELSE /\ jobs' = [jobs EXCEPT ![j] = [job_id |-> next_job_id, pid |-> pid]]
          /\ next_job_id' = NextId(next_job_id)

(* The first slot with the id, in use or not. *)
jobs_get_by_id(id, j) ==
  jobs[j].job_id = id /\ \A k \in 0 .. j - 1 : jobs[k].job_id # id

(* jobs_remove leaves the job_id in the slot. *)
jobs_remove(pid) ==
  LET j == CHOOSE j \in JobSlots : jobs[j].pid = pid /\ \A k \in 0 .. j - 1 : jobs[k].pid # pid
  IN jobs' = [jobs EXCEPT ![j].pid = 0] /\ UNCHANGED next_job_id

-----------------------------------------------------------------------------
(* shell_v2_main, a line without pipes: files are opened and put on        *)
(* descriptors 0 and 1, which no later step puts back.                     *)
InputOn(t, in) == IF in THEN Redirected(t, "input", 0) ELSE t
OutputOn(t, out) == IF out THEN Redirected(t, "output", 1) ELSE t
NewFd(t, opens) == IF opens THEN {FirstFree(t)} ELSE {}

StartCommand(in, out) ==
  LET t == InputOn(fds[Sh], in)
  IN /\ pc = <<"prompt">>
     /\ fds' = [fds EXCEPT ![Sh] = OutputOn(t, out)]
     /\ opened' = NewFd(fds[Sh], in) \cup NewFd(t, out)
     /\ Goto("command")
     /\ UNCHANGED <<table, kids, forks, waits, front>>

(* The output file can not be opened: the input file is closed again.  (If *)
(* it is the input file, nothing has happened yet.)                        *)
MutAbandon_Leaks(t, fd) == t

Abandon(t, fd) == sys_close(t, fd)

OutputFails ==
  /\ pc = <<"prompt">>
  /\ fds' = [fds EXCEPT ![Sh] = Abandon(InputOn(@, TRUE), FirstFree(@))]
  /\ UNCHANGED <<table, kids, pc, forks, waits, opened, front>>

(* Close what was opened for the line, and prompt again. *)
WithoutOpened(t) == [fd \in Fds |-> IF fd \in opened THEN Closed ELSE t[fd]]

CloseAll ==
  /\ pc = <<"close">>
  /\ fds' = [fds EXCEPT ![Sh] = WithoutOpened(@)]
  /\ opened' = {} /\ front' = {}
  /\ Goto("prompt")
  /\ UNCHANGED <<table, kids, forks, waits>>

-----------------------------------------------------------------------------
(* execute_command_bg.  A command of the shell's own that only prints, or  *)
(* a fork that fails.                                                      *)
Prints ==
  /\ pc = <<"command">>
  /\ Goto("close")
  /\ UNCHANGED <<table, kids, fds, forks, waits, opened, front>>

Exit ==
  /\ pc = <<"command">>
  /\ Goto("gone")
  /\ UNCHANGED <<table, kids, fds, forks, waits, opened, front>>

(* The fork command, or a program in the foreground: one wait. *)
Foreground ==
  /\ pc = <<"command">>
  /\ Fork("command")
  /\ front' = {next_pid}
  /\ waits' = 1
  /\ Goto("wait")
  /\ UNCHANGED <<table, forks, opened>>

Background ==
  /\ pc = <<"command">>
  /\ Fork("command")
  /\ jobs_add(next_pid)
  /\ Goto("close")
  /\ UNCHANGED <<forks, waits, opened, front>>

(* stress: three forks, failed or not, then three waits. *)
Stress ==
  /\ pc = <<"command">>
  /\ forks' = 3 /\ waits' = 3
  /\ Goto("stress")
  /\ UNCHANGED <<table, kids, fds, opened, front>>

StressForks ==
  /\ pc = <<"stress">> /\ forks > 0
  /\ \/ Fork("command") /\ front' = front \cup {next_pid}
     \/ ForkFails /\ UNCHANGED front
  /\ forks' = forks - 1
  /\ IF forks = 1 THEN Goto("wait") ELSE UNCHANGED pc
  /\ UNCHANGED <<table, waits, opened>>

Wait ==
  /\ pc = <<"wait">>
  /\ \/ Blocks
     \/ /\ \E z \in Pids : Reaps(z)
        /\ waits' = waits - 1
        /\ IF waits = 1 THEN Goto("close") ELSE UNCHANGED pc
        /\ UNCHANGED <<table, next_pid, forks, opened, front>>

(* fg with a job id (0 when its argument is no number). *)
Fg(id) ==
  /\ pc = <<"command">>
  /\ IF \E j \in JobSlots : jobs_get_by_id(id, j)
     THEN \E j \in JobSlots : jobs_get_by_id(id, j) /\ pc' = <<"fg", j>>
     ELSE Goto("close")
  /\ UNCHANGED <<table, kids, fds, forks, waits, opened, front>>

(* Its loop ends with the child that the job names. *)
MutFgDone_Any(z, j) == TRUE

FgDone(z, j) == z = jobs[j].pid

FgWaits(j) ==
  /\ pc = <<"fg", j>>
  /\ \/ Blocks
     \/ \E z \in Pids :
          /\ Reaps(z)
          /\ IF FgDone(z, j) THEN jobs_remove(jobs[j].pid) /\ Goto("close")
                            ELSE UNCHANGED <<table, pc>>
          /\ UNCHANGED <<next_pid, forks, waits, opened, front>>

-----------------------------------------------------------------------------
(* execute_pipe: the two ends take the first free descriptors; one child   *)
(* for each command, whether or not the fork of the other one failed; the  *)
(* shell closes its ends and waits twice.                                  *)
StartPipe ==
  LET r == FirstFree(fds[Sh])
      w == FirstFree([fds[Sh] EXCEPT ![r] = "read end"])
  IN /\ pc = <<"prompt">>
     /\ fds' = [fds EXCEPT ![Sh] = [@ EXCEPT ![r] = "read end", ![w] = "write end"]]
     /\ opened' = {r, w}
     /\ Goto("left")
     /\ UNCHANGED <<table, kids, forks, waits, front>>

ForkSide(side, next) ==
  /\ pc = <<side>>
  /\ \/ Fork(side) /\ front' = front \cup {next_pid}
     \/ ForkFails /\ UNCHANGED front
  /\ Goto(next)
  /\ UNCHANGED <<table, forks, waits, opened>>

CloseEnds ==
  /\ pc = <<"ends">>
  /\ fds' = [fds EXCEPT ![Sh] = WithoutOpened(@)]
  /\ opened' = {}
  /\ waits' = 2
  /\ Goto("wait")
  /\ UNCHANGED <<table, kids, forks, front>>

(* The children of a pipeline, before they run their commands. *)
Live(p) == child[p] \in {"running", "killed"}

End(t, end) == CHOOSE fd \in 3 .. MAX_FDS - 1 : t[fd] = end

AsWriter(t) ==
  LET w == End(t, "write end")
  IN sys_close(sys_dup2(sys_close(t, End(t, "read end")), w, 1), w)

MutAsReader_KeepsWriteEnd(t) ==
  LET r == End(t, "read end") IN sys_close(sys_dup2(t, r, 0), r)

AsReader(t) ==
  LET r == End(t, "read end")
  IN sys_close(sys_dup2(sys_close(t, End(t, "write end")), r, 0), r)

Redirects(p) ==
  /\ Live(p)
  /\ \/ /\ role[p] = "left"
        /\ role' = [role EXCEPT ![p] = "writer"]
        /\ fds' = [fds EXCEPT ![p] = AsWriter(@)]
     \/ /\ role[p] = "right"
        /\ role' = [role EXCEPT ![p] = "reader"]
        /\ fds' = [fds EXCEPT ![p] = AsReader(@)]
  /\ UNCHANGED <<table, next_pid, child, pc, forks, waits, opened, front>>

(* sys_exit, also by a child that a signal has marked TERMINATED while it  *)
(* was running; a pipeline's left child with an empty command exits before *)
(* it redirects anything.                                                  *)
ChildExits(p) ==
  /\ Live(p) /\ role[p] # "right"
  /\ child' = [child EXCEPT ![p] = "zombie"]
  /\ UNCHANGED <<table, next_pid, role, fds, pc, forks, waits, opened, front>>

(* Ctrl+C or kill: TERMINATED is no zombie. *)
ChildKilled(p) ==
  /\ child[p] = "running"
  /\ child' = [child EXCEPT ![p] = "killed"]
  /\ UNCHANGED <<table, next_pid, role, fds, pc, forks, waits, opened, front>>

NextShell ==
  \/ \E in, out \in BOOLEAN : StartCommand(in, out)
  \/ OutputFails \/ CloseAll
  \/ Prints \/ Exit \/ Foreground \/ Background
  \/ Stress \/ StressForks \/ Wait
  \/ \E id \in 0 .. MaxPid : Fg(id)
  \/ \E j \in JobSlots : FgWaits(j)
  \/ StartPipe \/ ForkSide("left", "right") \/ ForkSide("right", "ends") \/ CloseEnds
  \/ \E p \in Pids : Redirects(p) \/ ChildExits(p) \/ ChildKilled(p)

SpecShell == InitShell /\ [][NextShell]_shellVars

-----------------------------------------------------------------------------
(* A job leaves the table only when fg has reaped the very child it names, *)
(* whatever other children its loop of waits meets first.                  *)
RemovedWhenReaped ==
  [][\A j \in JobSlots : jobs[j].pid # 0 /\ jobs'[j].pid # jobs[j].pid =>
        jobs'[j].pid = 0 /\ child[jobs[j].pid] = "zombie"
                         /\ child'[jobs[j].pid] = "reaped"]_shellVars

(* No child is entered twice, and the ids that jobs_remove leaves behind   *)
(* never hide a job from jobs_get_by_id.                                   *)
JobsFound ==
  \A j \in JobSlots : jobs[j].pid # 0 =>
    /\ jobs_get_by_id(jobs[j].job_id, j)
    /\ \A k \in JobSlots : jobs[k].pid = jobs[j].pid => k = j

(* No line leaks a descriptor: at the prompt everything sys_open and       *)
(* sys_pipe can hand out is free again, after pipelines, redirections, and *)
(* the failure of any of their steps.                                      *)
NoDescriptorLeak == pc = <<"prompt">> => \A fd \in 3 .. MAX_FDS - 1 : fds[Sh][fd] = Closed

(* When a command of a pipeline runs, its process holds one end of the     *)
(* pipe, in the place of its output or its input, and not the other one.   *)
EndsOf(p) == {<<fd, fds[p][fd]>> : fd \in {k \in Fds : fds[p][k] \in {"read end", "write end"}}}

PipeEndsPlaced ==
  \A p \in Pids : /\ role[p] = "writer" => EndsOf(p) = {<<1, "write end">>}
                  /\ role[p] = "reader" => EndsOf(p) = {<<0, "read end">>}

-----------------------------------------------------------------------------
(* What follows is said by comments of the code and refuted by TLC for the *)
(* code as it is (README, section 4).                                      *)

(* "Wait for foreground process": the shell goes on only when no child of  *)
(* the foreground command is running any more.                             *)
ForegroundFinished ==
  [][pc = <<"wait">> /\ pc' = <<"close">> => \A p \in front : child'[p] # "running"]_shellVars

(* "fg: no such job": fg waits only for a job that is in the table. *)
FgHasJob == \A j \in JobSlots : pc = <<"fg", j>> => jobs[j].pid # 0

(* "Close files we opened for redirection": none is open at the prompt.    *)
RedirectionClosed ==
  pc = <<"prompt">> => \A fd \in Fds : fds[Sh][fd] \notin {"input", "output"}
=============================================================================
