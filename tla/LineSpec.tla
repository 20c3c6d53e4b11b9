------------------------------ MODULE LineSpec ------------------------------
(***************************************************************************)
(* What a line editor with history promises: a text of at most Limit       *)
(* characters with a cursor in it, and the lines entered so far.           *)
(* Characters go in and out at the cursor; recalling replaces the text by  *)
(* a line that was entered, or by nothing, with the cursor at its end.     *)
(***************************************************************************)
EXTENDS Naturals, Sequences

CONSTANTS Limit,  \* longest text
          Texts   \* strings that can be typed at once

VARIABLES text, cursor,
          log     \* the lines entered

Init == text = <<>> /\ cursor = 0 /\ log = <<>>

(* A string is typed before the cursor. *)
Insert(s) == /\ Len(text) + Len(s) <= Limit
             /\ text' = SubSeq(text, 1, cursor) \o s \o SubSeq(text, cursor + 1, Len(text))
             /\ cursor' = cursor + Len(s)
             /\ UNCHANGED log

(* The character before the cursor goes. *)
Erase == /\ cursor > 0
         /\ text' = SubSeq(text, 1, cursor - 1) \o SubSeq(text, cursor + 1, Len(text))
         /\ cursor' = cursor - 1
         /\ UNCHANGED log

Move == cursor' \in 0 .. Len(text) /\ UNCHANGED <<text, log>>

Recall == /\ text' = <<>> \/ \E i \in 1 .. Len(log) : text' = log[i]
          /\ cursor' = Len(text')
          /\ UNCHANGED log

(* An empty line is not kept, nor one equal to the line before it. *)
Enter == /\ log' = IF text = <<>> \/ (log # <<>> /\ log[Len(log)] = text)
                   THEN log ELSE Append(log, text)
         /\ text' = <<>>
         /\ cursor' = 0

Next == (\E s \in Texts : Insert(s)) \/ Erase \/ Move \/ Recall \/ Enter

Spec == Init /\ [][Next]_<<text, cursor, log>>
=============================================================================
