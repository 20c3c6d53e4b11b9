------------------------------- MODULE KeySpec -------------------------------
(***************************************************************************)
(* What the keyboard driver promises its readers: a first-in first-out     *)
(* queue of at most Capacity characters.  A key press adds as many of its  *)
(* characters as there is room for; a read takes the oldest, or 0.         *)
(***************************************************************************)
EXTENDS Naturals, Sequences

CONSTANTS Capacity, Codes  \* Codes: the character sequences of the keys

NoChar == "0"

VARIABLES typed,  \* the characters not yet read, oldest first
          got     \* what the last read returned

(* The characters of a key that still fit. *)
Room(s) == IF Len(s) <= Capacity - Len(typed) THEN Len(s)
                                              ELSE Capacity - Len(typed)

Init == typed = <<>> /\ got = NoChar

Press(s) == typed' = typed \o SubSeq(s, 1, Room(s)) /\ UNCHANGED got

Read == /\ typed # <<>>
        /\ got' = Head(typed)
        /\ typed' = Tail(typed)

ReadNothing == typed = <<>> /\ got' = NoChar /\ UNCHANGED typed

Next == (\E s \in Codes : Press(s)) \/ Read \/ ReadNothing

Spec == Init /\ [][Next]_<<typed, got>>
=============================================================================
