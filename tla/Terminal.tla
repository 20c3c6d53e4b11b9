------------------------------ MODULE Terminal ------------------------------
(***************************************************************************)
(* Text output before virtual terminals are enabled (terminal.c): one      *)
(* screen of VGA_WIDTH x VGA_HEIGHT cells in VGA memory, a cursor,         *)
(* scrolling.  An attribute is the same for every cell and left out.  The  *)
(* rows written since init_vga, including those that scrolled away, are    *)
(* kept in `rows`.                                                         *)
(***************************************************************************)
EXTENDS Integers, Sequences

CONSTANTS VGA_WIDTH, VGA_HEIGHT,
          EarlyGlyphs,   \* characters that are not \n, \r, \b
          MaxRows        \* bound: rows written in a behaviour

ASSUME ScreenAssumption == VGA_WIDTH \in Nat \ {0} /\ VGA_HEIGHT \in Nat \ {0}

Space == " "
ScreenCells == 0 .. VGA_WIDTH * VGA_HEIGHT - 1
EmptyRow == [x \in 0 .. VGA_WIDTH - 1 |-> Space]

VARIABLES screen,                          \* VGA_BUFFER
          terminal_row, terminal_column,
          rows                             \* ghost: every row so far

screenVars == <<screen, terminal_row, terminal_column, rows>>

ScreenTypeOK ==
  /\ screen \in [ScreenCells -> EarlyGlyphs \cup {Space}]
  /\ terminal_row \in 0 .. VGA_HEIGHT - 1
  /\ terminal_column \in 0 .. VGA_WIDTH - 1

init_vga ==
  /\ terminal_row = 0
  /\ terminal_column = 0
  /\ screen = [i \in ScreenCells |-> Space]

InitScreen == init_vga /\ rows = <<EmptyRow>>

(* All lines move up by one and the last one is cleared. *)
MutScroll_KeepsLast(v) ==
  [i \in ScreenCells |-> IF i < (VGA_HEIGHT - 1) * VGA_WIDTH THEN v[i + VGA_WIDTH] ELSE v[i]]

terminal_scroll(v) ==
  [i \in ScreenCells |-> IF i < (VGA_HEIGHT - 1) * VGA_WIDTH THEN v[i + VGA_WIDTH] ELSE Space]

(* ++terminal_row == VGA_HEIGHT: scroll, and stay in the last line. *)
NextLine(v) ==
  IF terminal_row + 1 = VGA_HEIGHT
  THEN screen' = terminal_scroll(v) /\ terminal_row' = VGA_HEIGHT - 1
  ELSE screen' = v /\ terminal_row' = terminal_row + 1

ScreenCursor == terminal_row * VGA_WIDTH + terminal_column

(* terminal_putchar, by its branches. *)
PutNewline ==
  /\ Len(rows) < MaxRows
  /\ terminal_column' = 0
  /\ NextLine(screen)
  /\ rows' = Append(rows, EmptyRow)

PutReturn ==
  /\ terminal_column' = 0
  /\ UNCHANGED <<screen, terminal_row, rows>>

PutBackspace ==
  IF terminal_column > 0
  THEN /\ terminal_column' = terminal_column - 1
       /\ screen' = [screen EXCEPT ![ScreenCursor - 1] = Space]
       /\ rows' = [rows EXCEPT ![Len(rows)][terminal_column - 1] = Space]
       /\ UNCHANGED terminal_row
  ELSE UNCHANGED screenVars

PutGlyph(c) ==
  LET v == [screen EXCEPT ![ScreenCursor] = c]
      r == [rows EXCEPT ![Len(rows)][terminal_column] = c]
  IN IF terminal_column + 1 = VGA_WIDTH
     THEN /\ Len(rows) < MaxRows
          /\ terminal_column' = 0
          /\ NextLine(v)
          /\ rows' = Append(r, EmptyRow)
     ELSE /\ terminal_column' = terminal_column + 1
          /\ screen' = v
          /\ rows' = r
          /\ UNCHANGED terminal_row

terminal_putchar == \/ PutNewline
                    \/ PutReturn
                    \/ PutBackspace
                    \/ \E c \in EarlyGlyphs : PutGlyph(c)

SpecScreen == InitScreen /\ [][terminal_putchar]_screenVars

-----------------------------------------------------------------------------
(* The screen shows the last VGA_HEIGHT rows of everything written, in     *)
(* order, each as it stood when the cursor left it, and the cursor is in   *)
(* the last one: no row is lost, repeated or left over when the output     *)
(* wraps at the right margin or scrolls at the bottom.                     *)
FirstShown == IF Len(rows) > VGA_HEIGHT THEN Len(rows) - VGA_HEIGHT ELSE 0

ShowsLastRows ==
  /\ FirstShown + terminal_row + 1 = Len(rows)
  /\ \A y \in 0 .. VGA_HEIGHT - 1, x \in 0 .. VGA_WIDTH - 1 :
       screen[y * VGA_WIDTH + x] =
         IF FirstShown + y + 1 <= Len(rows) THEN rows[FirstShown + y + 1][x] ELSE Space
=============================================================================
