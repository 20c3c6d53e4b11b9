------------------------------ MODULE MCShell ------------------------------
(* The shell for TLC, in the three stages of a line.  Editing: lines of up *)
(* to 3 characters, one command that can be completed and one that makes   *)
(* the empty word ambiguous, a history of 2 entries that wraps.  Parsing:  *)
(* every line of up to 4 characters, one after the other in one buffer.    *)
(* Running: 3 children, a job table of 2, 2 descriptors besides 0, 1, 2.   *)
(* Each stage is checked with every input the one before can hand it, so a *)
(* behaviour is about one stage while the others stay as initialised.      *)
EXTENDS LineEdit, Shell

CONSTANTS MAX_ARGS, MaxLine

VARIABLES cmd, entered, parser, at, parsed, argv, in_token,
          stage  \* the stage this behaviour is about

Parse == INSTANCE CommandLine WITH line <- entered, pc <- parser, i <- at

TwoCommands == {<<"a", "a">>, <<Space>>}

parseVars == <<cmd, entered, parser, at, parsed, argv, in_token>>

MCInit ==
  /\ Init /\ Parse!Init /\ InitShell
  /\ stage \in {"edit", "parse", "run"}

MCNext ==
  \/ stage = "edit" /\ Next /\ UNCHANGED <<parseVars, shellVars, stage>>
  \/ stage = "parse" /\ Parse!Next /\ UNCHANGED <<vars, shellVars, stage>>
  \/ stage = "run" /\ NextShell /\ UNCHANGED <<vars, parseVars, stage>>

MCSpec == MCInit /\ [][MCNext]_<<vars, parseVars, shellVars, stage>>

-----------------------------------------------------------------------------
(* parse_command_line cuts a line into the pieces between its operators,   *)
(* whatever earlier lines left in the buffer.                              *)
CutAtOperators == Parse!CutAtOperators

(* parse_command points argv to the words of the command, in order. *)
ArgsAreWords == Parse!ArgsAreWords
=============================================================================
