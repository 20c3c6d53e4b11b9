--------------------------------- MODULE Vt ---------------------------------
(***************************************************************************)
(* Virtual terminals (vt.c): a screen buffer and a cursor each, of which   *)
(* one is copied to VGA memory.  The buffer of a terminal is the start of  *)
(* a structure, the structures are an array: an index past the end of a    *)
(* buffer falls into the fields behind it (Fields words), or into the      *)
(* buffer of the next terminal.  Attributes are left out.                  *)
(***************************************************************************)
EXTENDS Integers

CONSTANTS Terminals,      \* NUM_VIRTUAL_TERMINALS
          Width, Height,  \* 80, 25
          TabStop,        \* 8
          Fields,         \* words of virtual_terminal_t behind its buffer
          Glyphs,         \* printable characters
          MaxX, MaxY      \* bounds: cursor columns and rows

ASSUME VtAssumption ==
  /\ Terminals \in 1 .. 4 /\ Width \in Nat \ {0} /\ Height \in Nat \ {0}
  /\ TabStop \in Nat \ {0} /\ Fields \in Nat /\ MaxX \in Nat /\ MaxY \in Nat

Vts == 0 .. Terminals - 1
Screen == Width * Height
VtCells == 0 .. Screen - 1
Struct == Screen + Fields
Blank == " "

(* vt_refresh writes [Fn] over the right end of the first row. *)
IndicatorAt == Width - 1

VARIABLES buffer, cursor_x, cursor_y,  \* by terminal
          current_terminal,
          vga, vga_cursor,
          astray    \* a write has hit something that is not a screen buffer

terms == <<buffer, cursor_x, cursor_y>>
vtVars == <<terms, current_terminal, vga, vga_cursor, astray>>

Indicator(t) == <<"[F1]", "[F2]", "[F3]", "[F4]">>[t + 1]
VtChars == Glyphs \cup {Blank}

VtTypeOK ==
  /\ buffer \in [Vts -> [VtCells -> VtChars]]
  /\ cursor_x \in [Vts -> 0 .. MaxX] /\ cursor_y \in [Vts -> 0 .. MaxY]
  /\ current_terminal \in Vts
  /\ vga \in [VtCells -> VtChars \cup {Indicator(t) : t \in Vts}]
  /\ vga_cursor \in Nat
  /\ astray \in BOOLEAN

BlankScreen == [i \in VtCells |-> Blank]

(* vt_refresh: the buffer of the current terminal, then its indicator. *)
Refreshed(b, t) == [b EXCEPT ![IndicatorAt] = Indicator(t)]

CursorOf(x, y) == y * Width + x

vt_init ==
  /\ buffer = [t \in Vts |-> BlankScreen]
  /\ cursor_x = [t \in Vts |-> 0] /\ cursor_y = [t \in Vts |-> 0]
  /\ current_terminal = 0
  /\ vga = Refreshed(BlankScreen, 0)

InitVt == vt_init /\ vga_cursor = 0 /\ astray = FALSE

-----------------------------------------------------------------------------
(* What a word written at an index of terminal t's buffer reaches: a cell  *)
(* of a terminal, or anything else behind it.                              *)
Target(t, i) == [vt |-> t + i \div Struct, cell |-> i % Struct]

InScreen(g) == g.vt \in Vts /\ g.cell \in VtCells

Written(t, i, c) ==
  LET g == Target(t, i)
  IN IF InScreen(g) THEN [buffer EXCEPT ![g.vt][g.cell] = c] ELSE buffer

(* The end of vt_putchar: t is the current terminal, so refresh and move   *)
(* the hardware cursor.                                                    *)
Show(t) ==
  /\ vga' = Refreshed(buffer'[t], t)
  /\ vga_cursor' = CursorOf(cursor_x'[t], cursor_y'[t])

Newline(t) ==
  /\ cursor_x' = [cursor_x EXCEPT ![t] = 0]
  /\ cursor_y[t] < MaxY
  /\ cursor_y' = [cursor_y EXCEPT ![t] = @ + 1]
  /\ UNCHANGED <<buffer, astray>>

CarriageReturn(t) ==
  /\ cursor_x' = [cursor_x EXCEPT ![t] = 0]
  /\ UNCHANGED <<buffer, cursor_y, astray>>

Backspace(t) ==
  IF cursor_x[t] > 0
  THEN LET i == CursorOf(cursor_x[t] - 1, cursor_y[t])
       IN /\ cursor_x' = [cursor_x EXCEPT ![t] = @ - 1]
          /\ buffer' = Written(t, i, Blank)
          /\ astray' = (astray \/ ~InScreen(Target(t, i)))
          /\ UNCHANGED cursor_y
  ELSE UNCHANGED <<terms, astray>>

(* (cursor_x + 8) & ~7, for a TabStop that is a power of two. *)
Tabulate(t) ==
  LET x == ((cursor_x[t] + TabStop) \div TabStop) * TabStop
  IN /\ x <= MaxX
     /\ cursor_x' = [cursor_x EXCEPT ![t] = x]
     /\ UNCHANGED <<buffer, cursor_y, astray>>

Scrolled(b) == [i \in VtCells |-> IF i < (Height - 1) * Width THEN b[i + Width] ELSE Blank]

(* A printable character wraps first, then scrolls, then is stored. *)
Glyph(t, c) ==
  LET wraps == cursor_x[t] >= Width
      x == IF wraps THEN 0 ELSE cursor_x[t]
      y == IF wraps THEN cursor_y[t] + 1 ELSE cursor_y[t]
      scrolls == y >= Height
      row == IF scrolls THEN Height - 1 ELSE y
      b == IF scrolls THEN Scrolled(buffer[t]) ELSE buffer[t]
  IN /\ buffer' = [buffer EXCEPT ![t] = [b EXCEPT ![CursorOf(x, row)] = c]]
     /\ cursor_x' = [cursor_x EXCEPT ![t] = x + 1]
     /\ cursor_y' = [cursor_y EXCEPT ![t] = row]
     /\ UNCHANGED astray

(* Nothing is said of what runs after a write into something else. *)
vt_putchar ==
  LET t == current_terminal
  IN /\ ~astray
     /\ \/ Newline(t) \/ CarriageReturn(t) \/ Backspace(t) \/ Tabulate(t)
        \/ \E c \in Glyphs : Glyph(t, c)
     /\ Show(t)
     /\ UNCHANGED current_terminal

MutSwitch_NoRefresh(t) ==
  /\ ~astray
  /\ t # current_terminal
  /\ current_terminal' = t
  /\ vga' = [vga EXCEPT ![IndicatorAt] = Indicator(t)]
  /\ vga_cursor' = CursorOf(cursor_x[t], cursor_y[t])
  /\ UNCHANGED <<terms, astray>>

vt_switch(t) ==
  /\ ~astray
  /\ t # current_terminal
  /\ current_terminal' = t
  /\ vga' = Refreshed(buffer[t], t)
  /\ vga_cursor' = CursorOf(cursor_x[t], cursor_y[t])
  /\ UNCHANGED <<terms, astray>>

NextVt == vt_putchar \/ \E t \in Vts : vt_switch(t)

SpecVt == InitVt /\ [][NextVt]_vtVars

-----------------------------------------------------------------------------
(* After every operation the screen is the current terminal's buffer under *)
(* its indicator, with the hardware cursor where that terminal writes      *)
(* next: what a terminal shows when it is switched to again is what was    *)
(* written to it, wherever the output of the others went meanwhile.        *)
ScreenShowsCurrent ==
  /\ vga = Refreshed(buffer[current_terminal], current_terminal)
  /\ vga_cursor = CursorOf(cursor_x[current_terminal], cursor_y[current_terminal])

-----------------------------------------------------------------------------
(* What follows is said by comments of the code and refuted by TLC for the *)
(* code as it is (README, section 4).                                      *)

(* "4 independent terminals" (README.md), each with "Character + attribute *)
(* for each cell" (vt.h): output to a terminal leaves the screens of the   *)
(* others as they are.  A newline in the last row moves the cursor below   *)
(* the buffer, a tab moves it off the margin, and a backspace writes there. *)
TerminalsIndependent ==
  [][\A t \in Vts \ {current_terminal} : buffer'[t] = buffer[t]]_vtVars
=============================================================================
