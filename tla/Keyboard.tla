------------------------------ MODULE Keyboard ------------------------------
(***************************************************************************)
(* The keyboard driver (keyboard.c): the circular buffer between           *)
(* keyboard_callback, which runs as an interrupt handler, and the readers, *)
(* and the modifier keys.  keyboard_getchar is one step, as it is in       *)
(* sys_read, where interrupts are off.  The idle loop calls it with them   *)
(* on: a process that preempts it between its load and its advance reads   *)
(* the same character; that interleaving is not modelled.                  *)
(***************************************************************************)
EXTENDS Integers, Sequences

CONSTANTS Size,      \* 256: cells of kbd_buffer
          Letters,   \* the scancodes of keys with an entry in kbd_us
          Dead       \* scancodes with no entry, and releases of other keys

NoChar == "0"
ESC == "ESC"
Arrows == {"up", "down", "right", "left"}
FKeys == 0 .. 3      \* KEY_F1 .. KEY_F4, by the terminal they select
CtrlKeys == {"ctrl", "ctrl_release"}
AltKeys == {"alt", "alt_release"}
KeyC == "c"

ASSUME SizeAssumption == Size \in Nat \ {0, 1}
ASSUME KeysAssumption ==
  /\ KeyC \in Letters
  /\ Letters \cap (Dead \cup Arrows \cup CtrlKeys \cup AltKeys \cup {"tab"}) = {}
  /\ Dead \cap (Arrows \cup CtrlKeys \cup AltKeys \cup {"tab"}) = {}

Letter == [k \in Arrows |-> CASE k = "down" -> "B" [] k = "right" -> "C"
                              [] k = "left" -> "D" [] OTHER -> "A"]
Chars == Letters \cup {ESC, "[", "A", "B", "C", "D", "tab", NoChar}

VARIABLES ring,    \* kbd_buffer, kbd_read_pos, kbd_write_pos
          ctrl_pressed, alt_pressed,
          got,     \* what the last keyboard_getchar returned
          effect   \* what the last key did besides: echo, SIGINT, vt_switch

keyVars == <<ring, ctrl_pressed, alt_pressed, got, effect>>

Cells == 0 .. Size - 1
Rings == [buffer : [Cells -> Chars], read : Cells, write : Cells]

Effects == {<<"none">>, <<"SIGINT">>} \cup ({"echo"} \X Chars) \cup ({"vt_switch"} \X FKeys)

KeyTypeOK ==
  /\ ring \in Rings
  /\ ctrl_pressed \in BOOLEAN /\ alt_pressed \in BOOLEAN
  /\ got \in Chars
  /\ effect \in Effects

InitKeyboard ==
  /\ ring = [buffer |-> [i \in Cells |-> NoChar], read |-> 0, write |-> 0]
  /\ ctrl_pressed = FALSE /\ alt_pressed = FALSE
  /\ got = NoChar
  /\ effect = <<"none">>

-----------------------------------------------------------------------------
(* The position after i, in uint8_t arithmetic when Size is 256. *)
Advance(i) == (i + 1) % Size

(* One cell stays empty: a full buffer is told from an empty one. *)
MutPut_NoFullCheck(b, c) ==
  [b EXCEPT !.buffer[b.write] = c, !.write = Advance(@)]

Put(b, c) ==
  IF Advance(b.write) # b.read
  THEN [b EXCEPT !.buffer[b.write] = c, !.write = Advance(@)]
  ELSE b

(* An arrow key is ESC [ letter, each stored only when the one before was. *)
PutArrow(b, k) == Put(Put(Put(b, ESC), "["), Letter[k])

(* keyboard_callback, by what the scancode is. *)
Modifier(k) ==
  /\ k \in CtrlKeys \cup AltKeys
  /\ ctrl_pressed' = IF k \in CtrlKeys THEN k = "ctrl" ELSE ctrl_pressed
  /\ alt_pressed' = IF k \in AltKeys THEN k = "alt" ELSE alt_pressed
  /\ effect' = <<"none">>
  /\ UNCHANGED <<ring, got>>

(* Alt+F1..F4 selects a virtual terminal; without Alt these keys have no   *)
(* entry in kbd_us.                                                        *)
Function(f) ==
  /\ effect' = IF alt_pressed THEN <<"vt_switch", f>> ELSE <<"none">>
  /\ UNCHANGED <<ring, ctrl_pressed, alt_pressed, got>>

Arrow(k) ==
  /\ ring' = PutArrow(ring, k)
  /\ effect' = <<"none">>
  /\ UNCHANGED <<ctrl_pressed, alt_pressed, got>>

Tab ==
  /\ ring' = Put(ring, "tab")
  /\ effect' = <<"none">>
  /\ UNCHANGED <<ctrl_pressed, alt_pressed, got>>

(* Ctrl+C sends SIGINT and stores nothing (the signal is in Process). *)
CtrlC ==
  /\ ctrl_pressed
  /\ effect' = <<"SIGINT">>
  /\ UNCHANGED <<ring, ctrl_pressed, alt_pressed, got>>

(* Any other character: stored if there is room, and echoed even if not,   *)
(* except ESC.                                                             *)
Character(k) ==
  /\ ~ (ctrl_pressed /\ k = KeyC)
  /\ ring' = Put(ring, k)
  /\ effect' = IF k = ESC THEN <<"none">> ELSE <<"echo", k>>
  /\ UNCHANGED <<ctrl_pressed, alt_pressed, got>>

Ignored ==
  /\ effect' = <<"none">>
  /\ UNCHANGED <<ring, ctrl_pressed, alt_pressed, got>>

keyboard_callback ==
  \/ \E k \in CtrlKeys \cup AltKeys : Modifier(k)
  \/ \E f \in FKeys : Function(f)
  \/ \E k \in Arrows : Arrow(k)
  \/ Tab
  \/ CtrlC
  \/ \E k \in Letters : Character(k)
  \/ Dead # {} /\ Ignored

keyboard_has_char == ring.read # ring.write

keyboard_getchar ==
  /\ got' = IF keyboard_has_char THEN ring.buffer[ring.read] ELSE NoChar
  /\ ring' = IF keyboard_has_char THEN [ring EXCEPT !.read = Advance(@)] ELSE ring
  /\ UNCHANGED <<ctrl_pressed, alt_pressed, effect>>

NextKey == keyboard_callback \/ keyboard_getchar

SpecKeyboard == InitKeyboard /\ [][NextKey]_keyVars

-----------------------------------------------------------------------------
(* The characters in the buffer, from the read to the write position. *)
Count(b) == IF b.write >= b.read THEN b.write - b.read ELSE b.write + Size - b.read

Cell(b, i) == IF b.read + i < Size THEN b.read + i ELSE b.read + i - Size

Contents(b) == [i \in 1 .. Count(b) |-> b.buffer[Cell(b, i - 1)]]

Codes == {<<ESC, "[", Letter[k]>> : k \in Arrows} \cup {<<"tab">>} \cup {<<k>> : k \in Letters}

Queue == INSTANCE KeySpec WITH
           Capacity <- Size - 1, typed <- Contents(ring)

(* Whatever the positions and however often they wrap, the buffer is a     *)
(* first-in first-out queue of Size - 1 characters: no character is lost   *)
(* once stored, none is read twice, none is overwritten, and a reader gets *)
(* them in the order the keys were pressed.                                *)
ImplementsKeySpec == Queue!Spec

-----------------------------------------------------------------------------
(* What follows is said by comments of the code and refuted by TLC for the *)
(* code as it is (README, section 4).                                      *)

(* "Store escape sequence for arrow keys" (keyboard.c:82): a key stores    *)
(* its whole sequence or none of it.  The buffer can fill up in the middle *)
(* of an arrow key.                                                        *)
ArrowsWhole ==
  [][(\E k \in Arrows : Arrow(k)) => Count(ring') - Count(ring) \in {0, 3}]_keyVars
=============================================================================
