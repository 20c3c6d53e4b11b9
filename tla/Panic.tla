------------------------------- MODULE Panic -------------------------------
(* panic() of panic.c prints its message and halts the machine: no call    *)
(* returns after it.  Every component that can panic shares the flag.      *)
VARIABLE panicked
=============================================================================
