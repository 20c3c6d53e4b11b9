------------------------------ MODULE LineEdit ------------------------------
(***************************************************************************)
(* Line editing and history of the shell (shell_v2.c): read_line, one turn *)
(* of its loop for each key, and add_to_history.  What is drawn on the     *)
(* screen is left out.  cmd_buffer is an array of characters, stale ones   *)
(* behind cmd_len included; an entry of history is the C string in it.     *)
(***************************************************************************)
EXTENDS Integers, Sequences

CONSTANTS MAX_CMD_LEN, HISTORY_SIZE,
          Letters,     \* printable characters other than the space
          Commands,    \* the names tab completion knows, as sequences
          MaxHistory   \* bound: lines added to the history

ASSUME SizesAssumption ==
  /\ MAX_CMD_LEN \in Nat \ {0} /\ HISTORY_SIZE \in Nat \ {0} /\ MaxHistory \in Nat

Space == " "
NUL == "NUL"
Printable == Letters \cup {Space}

ASSUME CharsAssumption == NUL \notin Printable /\ Commands \subseteq Seq(Printable)

Cells == 0 .. MAX_CMD_LEN - 1
Slots == 0 .. HISTORY_SIZE - 1

VARIABLES cmd_buffer, cmd_len, cmd_pos,
          history, history_count, history_pos,
          log      \* ghost: every line added to the history

line == <<cmd_buffer, cmd_len, cmd_pos>>
hist == <<history, history_count, log>>
vars == <<line, hist, history_pos>>

TypeOK ==
  /\ cmd_buffer \in [Cells -> Printable \cup {NUL}]
  /\ cmd_len \in Cells
  /\ cmd_pos \in 0 .. cmd_len
  /\ history \in [Slots -> Seq(Printable)]
  /\ history_count \in Nat
  /\ history_pos \in 0 .. history_count
  /\ log \in Seq(Seq(Printable))

(* The first n characters, and the C string, of a buffer. *)
Chars(b, n) == [i \in 1 .. n |-> b[i - 1]]

str_len(b) == CHOOSE n \in Cells : b[n] = NUL /\ \A i \in 0 .. n - 1 : b[i] # NUL

CString(b) == Chars(b, str_len(b))

(* str_cpy into cmd_buffer, terminator included. *)
str_cpy(b, s) == [i \in Cells |-> IF i < Len(s) THEN s[i + 1]
                                  ELSE IF i = Len(s) THEN NUL ELSE b[i]]

Init ==
  /\ cmd_buffer = [i \in Cells |-> NUL] /\ cmd_len = 0 /\ cmd_pos = 0
  /\ history = [i \in Slots |-> <<>>] /\ history_count = 0 /\ history_pos = 0
  /\ log = <<>>

-----------------------------------------------------------------------------
(* Insertion of s at the cursor: the rest moves right first. *)
Inserted(b, s) ==
  [i \in Cells |-> IF i < cmd_pos THEN b[i]
                   ELSE IF i < cmd_pos + Len(s) THEN s[i - cmd_pos + 1]
                   ELSE IF i <= cmd_len + Len(s) THEN b[i - Len(s)] ELSE b[i]]

Insert(s) ==
  /\ cmd_buffer' = Inserted(cmd_buffer, s)
  /\ cmd_len' = cmd_len + Len(s)
  /\ cmd_pos' = cmd_pos + Len(s)
  /\ UNCHANGED <<hist, history_pos>>

(* A printable character, while there is room for it and the terminator. *)
Room == cmd_len < MAX_CMD_LEN - 1

Type(c) ==
  /\ Room
  /\ cmd_buffer' = [Inserted(cmd_buffer, <<c>>) EXCEPT ![cmd_len + 1] = NUL]
  /\ cmd_len' = cmd_len + 1
  /\ cmd_pos' = cmd_pos + 1
  /\ UNCHANGED <<hist, history_pos>>

(* Backspace: the characters from the cursor on move back by one. *)
MutErased_FromCursor(b) ==
  [i \in Cells |-> IF cmd_pos <= i /\ i < cmd_len - 1 THEN b[i + 1] ELSE b[i]]

Erased(b) ==
  [i \in Cells |-> IF cmd_pos - 1 <= i /\ i < cmd_len - 1 THEN b[i + 1] ELSE b[i]]

Backspace ==
  /\ cmd_pos > 0
  /\ cmd_buffer' = Erased(cmd_buffer)
  /\ cmd_pos' = cmd_pos - 1
  /\ cmd_len' = cmd_len - 1
  /\ UNCHANGED <<hist, history_pos>>

Right ==
  /\ cmd_pos < cmd_len
  /\ cmd_pos' = cmd_pos + 1
  /\ UNCHANGED <<cmd_buffer, cmd_len, hist, history_pos>>

Left ==
  /\ cmd_pos > 0
  /\ cmd_pos' = cmd_pos - 1
  /\ UNCHANGED <<cmd_buffer, cmd_len, hist, history_pos>>

(* A history entry replaces the line. *)
Show(p) ==
  LET s == history[p % HISTORY_SIZE]
  IN /\ cmd_buffer' = str_cpy(cmd_buffer, s)
     /\ cmd_len' = Len(s)
     /\ cmd_pos' = Len(s)

Up ==
  /\ history_count > 0 /\ history_pos > 0
  /\ history_pos' = history_pos - 1
  /\ Show(history_pos - 1)
  /\ UNCHANGED hist

Down ==
  /\ history_pos < history_count
  /\ IF history_pos < history_count - 1
     THEN history_pos' = history_pos + 1 /\ Show(history_pos + 1)
     ELSE /\ history_pos' = history_count
          /\ cmd_buffer' = [cmd_buffer EXCEPT ![0] = NUL]
          /\ cmd_len' = 0 /\ cmd_pos' = 0
  /\ UNCHANGED hist

(* Tab: the word before the cursor, if it begins exactly one command and   *)
(* the rest fits.  Several matches are only listed.                        *)
IsWordStart(w) ==
  /\ w \in 0 .. cmd_pos
  /\ w > 0 => cmd_buffer[w - 1] = Space
  /\ \A i \in w .. cmd_pos - 1 : cmd_buffer[i] # Space

Matches(w) ==
  {m \in Commands : /\ cmd_pos - w <= Len(m)
                    /\ \A i \in 1 .. cmd_pos - w : m[i] = cmd_buffer[w + i - 1]}

Tab ==
  \E w \in Cells, m \in Commands :
    /\ IsWordStart(w)
    /\ Matches(w) = {m}
    /\ cmd_len + (Len(m) - (cmd_pos - w)) < MAX_CMD_LEN - 1
    /\ Insert(SubSeq(m, cmd_pos - w + 1, Len(m)))

(* add_to_history: not an empty line, not one equal to the last entry. *)
IsNew(cmd) ==
  history_count = 0 \/ history[(history_count - 1) % HISTORY_SIZE] # cmd

MutNextSlot_Saturates ==
  IF history_count < HISTORY_SIZE THEN history_count ELSE HISTORY_SIZE - 1

NextSlot == history_count % HISTORY_SIZE

add_to_history(cmd) ==
  IF cmd # <<>> /\ IsNew(cmd)
  THEN /\ history_count < MaxHistory
       /\ history' = [history EXCEPT ![NextSlot] = cmd]
       /\ history_count' = history_count + 1
       /\ log' = Append(log, cmd)
  ELSE UNCHANGED hist

(* Newline: the line ends here; shell_v2_main adds it to the history unless *)
(* it is empty, runs it, and calls read_line again.  Its parsers put more   *)
(* terminators into the finished line (CommandLine), all behind cmd_len now. *)
Enter ==
  /\ add_to_history(CString([cmd_buffer EXCEPT ![cmd_len] = NUL]))
  /\ cmd_buffer' = [cmd_buffer EXCEPT ![cmd_len] = NUL, ![0] = NUL]
  /\ cmd_len' = 0 /\ cmd_pos' = 0
  /\ history_pos' = history_count'

Next == \/ \E c \in Printable : Type(c)
        \/ Backspace \/ Right \/ Left \/ Up \/ Down \/ Tab \/ Enter

Spec == Init /\ [][Next]_vars

-----------------------------------------------------------------------------
Texts == {<<c>> : c \in Printable}
           \cup {SubSeq(m, i, Len(m)) : m \in Commands, i \in 1 .. MAX_CMD_LEN}

Editor == INSTANCE LineSpec WITH
            Limit <- MAX_CMD_LEN - 1,
            text <- Chars(cmd_buffer, cmd_len), cursor <- cmd_pos

(* Moving characters about in cmd_buffer is editing a text at a cursor:    *)
(* whatever mixture of typing, erasing, completing and recalling led to    *)
(* it, the line that is entered is the one that was edited, what is        *)
(* recalled was entered, and nothing behind cmd_len is ever part of it.    *)
ImplementsLineSpec == Editor!Spec

(* The history holds the last HISTORY_SIZE lines, whichever slots they are *)
(* in, and a line recalled among them is the one history_pos counts to.    *)
Oldest == IF history_count > HISTORY_SIZE THEN history_count - HISTORY_SIZE ELSE 0

HistoryIsRecent ==
  /\ Len(log) = history_count
  /\ \A i \in Oldest .. history_count - 1 : history[i % HISTORY_SIZE] = log[i + 1]

-----------------------------------------------------------------------------
(* What follows is said by comments of the code and refuted by TLC for the *)
(* code as it is (README, section 4).                                      *)

(* "Command History: Navigate previous commands with UP/DOWN arrows"       *)
(* (README.md): UP shows the command before the one shown.  It goes on     *)
(* past the oldest entry kept and shows the newest ones again.             *)
UpShowsPrevious ==
  [][Up => Chars(cmd_buffer, cmd_len)' = log[history_pos]]_vars
=============================================================================
