------------------------------- MODULE Reaper -------------------------------
(***************************************************************************)
(* The program init_main (syscall.c) on top of Process: test_shell creates *)
(* init from the loop of kernel_main; init forks the shell, then reaps its *)
(* children for ever and forks a new shell when the old one died.  Every   *)
(* other process, the shell included, makes any system call at any time,   *)
(* and the loop of kernel_main also loads ELF files.                       *)
(***************************************************************************)
EXTENDS Loader

VARIABLES init_pid,   \* NoProc until test_shell has run
          shell_pid,  \* init's variable; NoProc is -1
          at          \* where init is in its program

reaperVars == <<init_pid, shell_pid, at>>

InitReaper == InitLoader /\ init_pid = NoProc /\ shell_pid = NoProc /\ at = "start"

(* The process_create of test_shell returns init. *)
test_shell ==
  /\ CreateEnd
  /\ init_pid = NoProc
  /\ init_pid' = creating.pid
  /\ UNCHANGED <<loading, shell_pid, at>>

(* Both calls of fork; the child goes on as the shell. *)
MutInitForks_FirstPidKept ==
  /\ at \in {"start", "restart"}
  /\ sys_fork(init_pid)
  /\ shell_pid' = IF at = "start" THEN next_pid ELSE shell_pid
  /\ at' = "wait"
  /\ UNCHANGED init_pid

InitForks ==
  /\ at \in {"start", "restart"}
  /\ sys_fork(init_pid)
  /\ shell_pid' = next_pid
  /\ at' = "wait"
  /\ UNCHANGED init_pid

(* Without a free slot, or memory for the copy, fork returns -1. *)
InitForkFails ==
  /\ at \in {"start", "restart"}
  /\ \/ ForkFails(init_pid)
     \/ Calls(init_pid) /\ FreeSlots = {} /\ UNCHANGED vars
  /\ shell_pid' = NoProc
  /\ at' = IF at = "start" THEN "exit" ELSE "wait"
  /\ UNCHANGED init_pid

(* The loop: wait, and start the shell again when it was the one reaped. *)
InitReaps ==
  /\ at = "wait"
  /\ WaitReaps(init_pid)
  /\ at' = IF shell_pid # NoProc /\ state'[shell_pid] = "NONE" THEN "restart" ELSE "wait"
  /\ UNCHANGED <<init_pid, shell_pid>>

InitBlocks ==
  /\ at = "wait"
  /\ WaitBlocks(init_pid)
  /\ UNCHANGED reaperVars

InitExits ==
  /\ at = "exit"
  /\ sys_exit(init_pid)
  /\ UNCHANGED reaperVars

InitRuns ==
  /\ InitForks \/ InitForkFails \/ InitReaps \/ InitBlocks \/ InitExits
  /\ UNCHANGED loading

(* A step of the others is no step of the program of init. *)
OthersRun ==
  /\ \/ LoadBegins \/ LoadSucceeds \/ LoadFails
     \/ Others /\ (process_get_current = init_pid => scheduler_tick \/ CtrlC)
  /\ UNCHANGED reaperVars

NextReaper == test_shell \/ InitRuns \/ OthersRun

SpecReaper == InitReaper /\ [][NextReaper]_<<vars, loading, reaperVars>>

(* Ticks keep coming, and the process that has the CPU executes.  A system *)
(* call of init is one instruction away whenever init runs.                *)
FairReaper == SpecReaper /\ WF_<<vars, loading, reaperVars>>(scheduler_tick /\ UNCHANGED <<loading, reaperVars>>)
                         /\ WF_<<vars, loading, reaperVars>>(InitRuns)

-----------------------------------------------------------------------------
(* init never has two shells: every child of its in the process table is   *)
(* the one in shell_pid, whatever died, was killed or could not be forked  *)
(* before.                                                                 *)
OneShell ==
  \A p \in Pids : init_pid # NoProc /\ InTable(p) /\ parent[p] = init_pid => p = shell_pid

-----------------------------------------------------------------------------
(* What follows is said by comments of the code and refuted by TLC for the *)
(* code as it is (README, section 4).                                      *)

(* "Don't kill init": Ctrl+C does not terminate init.  keyboard_callback   *)
(* compares the pid with 1, which kernel_main gave to a test process.      *)
InitSpared ==
  [][CtrlC /\ init_pid # NoProc /\ state[init_pid] # "TERMINATED" =>
       state'[init_pid] # "TERMINATED"]_<<vars, loading, reaperVars>>

(* "If shell died, restart it": as long as init is not killed, a shell     *)
(* that was terminated is followed by another one.  sys_wait reaps ZOMBIE  *)
(* children alone, and a signal leaves TERMINATED.                         *)
ShellRestarted ==
  \A p \in Pids :
    (shell_pid = p /\ state[p] = "TERMINATED") ~>
      (shell_pid # p \/ state[init_pid] = "TERMINATED")
=============================================================================
