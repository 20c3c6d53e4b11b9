---------------------------- MODULE MCInterrupts ----------------------------
(* Interrupts for TLC: which programs the processes run. *)
EXTENDS Interrupts

Mixed == [p \in Procs |-> CASE p = 1 -> {"nap", "exit"}
                            [] p = 2 -> {"sleep", "read"}
                            [] OTHER -> {"read", "exit", "nap"}]
Napping == [p \in Procs |-> {"nap"}]
=============================================================================
