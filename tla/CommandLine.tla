---------------------------- MODULE CommandLine ----------------------------
(***************************************************************************)
(* Parsing of a command line in place, in cmd_buffer (shell_v2.c):         *)
(* parse_command_line cuts it at the operators, parse_command cuts the one *)
(* command of a line without pipes into words.  A turn of either loop is a *)
(* step.  Behind the line's terminator the buffer still holds what earlier *)
(* lines left there.  Strings are named by the cell they start in.         *)
(***************************************************************************)
EXTENDS Integers, SequencesExt

CONSTANTS MAX_ARGS,
          MaxLine     \* bound: the longest line; at least two cells remain

Char == {"a", " ", "|", ">", "<", "&"}
NUL == "NUL"
Cells == 0 .. MaxLine + 1
Lines == UNION {[1 .. n -> Char] : n \in 1 .. MaxLine}
NULL == -1

VARIABLES cmd,       \* cmd_buffer
          line,      \* ghost: the line that was entered
          pc, i,
          parsed,    \* the ParsedCommand
          argv, in_token

vars == <<cmd, line, pc, i, parsed, argv, in_token>>

Cleared == [commands |-> <<>>, input_file |-> NULL, output_file |-> NULL,
            append_output |-> FALSE, background |-> FALSE]

TypeOK ==
  /\ cmd \in [Cells -> Char \cup {NUL}]
  /\ line \in Lines \cup {<<>>}
  /\ pc \in {"read", "split", "words"}
  /\ i \in Cells
  /\ parsed.commands \in Seq(Cells) /\ Len(parsed.commands) <= MAX_ARGS - 1
  /\ parsed.input_file \in Cells \cup {NULL}
  /\ parsed.output_file \in Cells \cup {NULL}
  /\ argv \in Seq(Cells) /\ Len(argv) <= MAX_ARGS - 1

Init ==
  /\ cmd = [k \in Cells |-> NUL] /\ line = <<>>
  /\ pc = "read" /\ i = 0
  /\ parsed = Cleared /\ argv = <<>> /\ in_token = FALSE

(* A line l as read_line leaves it in the buffer. *)
Entered(l) ==
  [k \in Cells |-> IF k < Len(l) THEN l[k + 1] ELSE IF k = Len(l) THEN NUL ELSE cmd[k]]

(* The first cell from k on that is no blank. *)
SkipBlanks(k) == CHOOSE j \in Cells : /\ k <= j /\ cmd[j] # " "
                                      /\ \A m \in k .. j - 1 : cmd[m] = " "

(* The head of parse_command_line: a trailing & is cut off. *)
MutBackground_Kept(l) == Entered(l)

WithoutAmpersand(l) ==
  IF l[Len(l)] = "&" THEN [Entered(l) EXCEPT ![Len(l) - 1] = NUL] ELSE Entered(l)

Read(l) ==
  /\ pc = "read"
  /\ cmd' = WithoutAmpersand(l)
  /\ line' = l
  /\ parsed' = [Cleared EXCEPT !.commands = <<0>>, !.background = l[Len(l)] = "&"]
  /\ pc' = "split" /\ i' = 0
  /\ UNCHANGED <<argv, in_token>>

(* Whether commands[] takes another one. *)
Room == Len(parsed.commands) < MAX_ARGS - 1

SplitPipe ==
  /\ pc = "split" /\ cmd[i] = "|"
  /\ cmd' = [cmd EXCEPT ![i] = NUL]
  /\ parsed' = IF Room THEN [parsed EXCEPT !.commands = Append(@, i + 1)] ELSE parsed
  /\ i' = i + 1
  /\ UNCHANGED <<line, pc, argv, in_token>>

SplitInput ==
  LET j == SkipBlanks(i + 1)
  IN /\ pc = "split" /\ cmd[i] = "<"
     /\ cmd' = [cmd EXCEPT ![i] = NUL]
     /\ parsed' = [parsed EXCEPT !.input_file = j]
     /\ i' = j + 1
     /\ UNCHANGED <<line, pc, argv, in_token>>

SplitChar ==
  /\ pc = "split" /\ cmd[i] \notin {"|", "<", ">", NUL}
  /\ i' = i + 1
  /\ UNCHANGED <<cmd, line, pc, parsed, argv, in_token>>

(* What shell_v2_main goes on with: one command is cut into words, two run *)
(* in children with memory of their own, more are refused.                 *)
Continue ==
  IF Len(parsed.commands) = 1
  THEN pc' = "words" /\ i' = parsed.commands[1] /\ argv' = <<>> /\ in_token' = FALSE
  ELSE pc' = "read" /\ i' = 0 /\ UNCHANGED <<argv, in_token>>

SplitEnd ==
  /\ pc = "split" /\ cmd[i] = NUL
  /\ Continue
  /\ UNCHANGED <<cmd, line, parsed>>

(* > or >>: the name behind it ends the loop. *)
SplitOutput ==
  LET append == cmd[i + 1] = ">"
      j == SkipBlanks(IF append THEN i + 2 ELSE i + 1)
  IN /\ pc = "split" /\ cmd[i] = ">"
     /\ cmd' = [cmd EXCEPT ![i] = NUL, ![i + 1] = IF append THEN NUL ELSE @]
     /\ parsed' = [parsed EXCEPT !.append_output = append, !.output_file = j]
     /\ Continue
     /\ UNCHANGED line

-----------------------------------------------------------------------------
(* parse_command *)
MoreWords == pc = "words" /\ cmd[i] # NUL /\ Len(argv) < MAX_ARGS - 1

WordsBlank ==
  /\ MoreWords /\ cmd[i] = " "
  /\ cmd' = IF in_token THEN [cmd EXCEPT ![i] = NUL] ELSE cmd
  /\ in_token' = FALSE
  /\ i' = i + 1
  /\ UNCHANGED <<line, pc, parsed, argv>>

MutStartsWord_Always == TRUE

StartsWord == ~ in_token

WordsChar ==
  /\ MoreWords /\ cmd[i] # " "
  /\ argv' = IF StartsWord THEN Append(argv, i) ELSE argv
  /\ in_token' = TRUE
  /\ i' = i + 1
  /\ UNCHANGED <<cmd, line, pc, parsed>>

WordsEnd ==
  /\ pc = "words" /\ (cmd[i] = NUL \/ Len(argv) = MAX_ARGS - 1)
  /\ pc' = "read" /\ i' = 0
  /\ UNCHANGED <<cmd, line, parsed, argv, in_token>>

Next == \/ \E l \in Lines : Read(l)
        \/ SplitPipe \/ SplitInput \/ SplitOutput \/ SplitChar \/ SplitEnd
        \/ WordsBlank \/ WordsChar \/ WordsEnd

Spec == Init /\ [][Next]_vars

-----------------------------------------------------------------------------
(* The reading of a line as a whole.  Body: the positions before the first *)
(* > and before a trailing &, where operators count.                       *)
Body ==
  LET stop == {k \in 1 .. Len(line) : line[k] = ">"}
                \cup {k \in {Len(line)} : line[k] = "&"} \cup {Len(line) + 1}
  IN 1 .. Min(stop) - 1

Pipes == {k \in Body : line[k] = "|"}

(* Every < names a file: a character that is no operator follows it. *)
NamesGiven ==
  \A k \in Body : line[k] = "<" =>
    \E j \in Body : j > k /\ line[j] = "a" /\ \A m \in k + 1 .. j - 1 : line[m] = " "

(* When the splitting is over, and each < names a file, the commands are   *)
(* the pieces between the pipes of the line that was entered, as many as   *)
(* there is room for, and no string handed on to be run or opened has a    *)
(* pipe or a < left in it, whatever the buffer held before.                *)
CutAtOperators ==
  [][pc = "split" /\ pc' # "split" /\ NamesGiven =>
       LET p == parsed'
       IN /\ Range(p.commands) \subseteq {0} \cup Pipes
          /\ Len(p.commands) = Min({MAX_ARGS - 1, 1 + Cardinality(Pipes)})
          /\ p.background <=> line[Len(line)] = "&"
          /\ \A c \in Range(p.commands) \cup ({p.input_file} \ {NULL}), k \in Cells :
               c <= k /\ (\A m \in c .. k : cmd'[m] # NUL) =>
                 cmd'[k] = "a" \/ cmd'[k] = " " \/ (cmd[k] = "&" /\ k < Len(line) - 1)]_vars

(* argv points to the words of the command, in order, up to its limit: a   *)
(* word starts where a non-blank follows a blank or the start of the line. *)
WordStarts ==
  {k \in 0 .. Len(line) - 1 :
     /\ k + 1 \in Body /\ ~ \E m \in 1 .. k + 1 : line[m] \in {"<", "|"}
     /\ line[k + 1] # " " /\ (k > 0 => line[k] = " ")}

ArgsAreWords ==
  [][pc = "words" /\ pc' = "read" /\ NamesGiven =>
       /\ Range(argv) \subseteq WordStarts
       /\ Len(argv) = Min({MAX_ARGS - 1, Cardinality(WordStarts)})
       /\ \A k \in 1 .. Len(argv) - 1 : argv[k] < argv[k + 1]]_vars

-----------------------------------------------------------------------------
(* What follows is said by comments of the code and refuted by TLC for the *)
(* code as it is (README, section 4).                                      *)

(* "Split by pipes": the commands that are run are pieces of the line that *)
(* was entered, so there is at most one more of them than it has pipes.  A *)
(* < without a name carries the loop past the terminator, into a former    *)
(* line.                                                                   *)
SplitByPipes ==
  [][pc = "split" /\ pc' # "split" =>
       Len(parsed.commands) <= 1 + Cardinality({k \in 1 .. Len(line) : line[k] = "|"})]_vars
=============================================================================
