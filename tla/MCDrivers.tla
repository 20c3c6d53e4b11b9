----------------------------- MODULE MCDrivers -----------------------------
(* Interrupts and the drivers for TLC.  The keyboard buffer has 4 cells: it *)
(* fills up inside an arrow sequence and wraps at every offset.  The early  *)
(* terminal scrolls twice; the virtual terminals that take over from it     *)
(* with terminal_enable_vt wrap, scroll and tab over the right margin.      *)
(* What one part leaves to another is an input of that other: a key press   *)
(* here, a character or the number of a terminal there.  A behaviour is     *)
(* about one part, with any inputs, while the others stay as initialised.   *)
EXTENDS MCInterrupts, Keyboard, Terminal, Vt

VARIABLE part  \* the part this behaviour is about

MCInit ==
  /\ Init /\ InitKeyboard /\ InitScreen /\ InitVt
  /\ part \in {"interrupts", "keyboard", "terminal", "vt"}

MCNext ==
  \/ part = "interrupts" /\ Next /\ UNCHANGED <<keyVars, screenVars, vtVars, part>>
  \/ part = "keyboard" /\ NextKey /\ UNCHANGED <<vars, screenVars, vtVars, part>>
  \/ part = "terminal" /\ terminal_putchar /\ UNCHANGED <<vars, keyVars, vtVars, part>>
  \/ part = "vt" /\ NextVt /\ UNCHANGED <<vars, keyVars, screenVars, part>>

MCSpec == MCInit /\ [][MCNext]_<<vars, keyVars, screenVars, vtVars, part>>
=============================================================================
