---------------------------------- MODULE Vga ----------------------------------
(***************************************************************************)
(* The screen in text mode (video/vga_driver.c): what the kernel prints    *)
(* where it is at, and what programs write anywhere with print_screen. The *)
(* colours of a cell are left out.                                         *)
(***************************************************************************)
EXTENDS Integers, Sequences

CONSTANTS
  Width,    \* TEXT_WIDTH
  Height    \* TEXT_HEIGHT

ASSUME VgaAssumption == {Width, Height} \subseteq Nat \ {0} /\ Height > 1

VARIABLES
  vga_buffer,
  at          \* [index, next_line]: vga_index and next_line_index

Cells == 0 .. Width * Height - 1

VgaTypeOK == DOMAIN vga_buffer = Cells /\ {at.index, at.next_line} \subseteq Nat

Start == [index |-> 0, next_line |-> 1]

\* init_vga clears the screen, and prints go on where they were.
init_vga == [n \in Cells |-> "nul"]

Scrolled(b) == [n \in Cells |-> IF n < (Height - 1) * Width THEN b[n + Width] ELSE " "]

\* Faulty: the index is left in the line that moves up.
ScrollKeepsIndex(p) == [p EXCEPT !.next_line = @ - 1]

\* scroll, and the next line after it.
Scroll(p) == [index     |-> IF p.index < Width THEN 0 ELSE p.index - Width,
              next_line |-> p.next_line - 1]

Full(p) == p.next_line >= Height

\* print_new_line scrolls first.
NewLine(p) == LET q == IF Full(p) THEN Scroll(p) ELSE p
              IN [index |-> Width * q.next_line, next_line |-> q.next_line + 1]

NewLineOn(b, p) == IF Full(p) THEN Scrolled(b) ELSE b

Advance(p) == [index     |-> p.index + 1,
               next_line |-> p.next_line + IF (p.index + 1) % Width = 0 THEN 1 ELSE 0]

\* print_char scrolls last.
PrintAt(p, c) ==
  IF c = "\n" THEN NewLine(p)
  ELSE LET q == Advance(p) IN IF Full(q) THEN Scroll(q) ELSE q

PrintOn(b, p, c) ==
  IF c = "\n" THEN NewLineOn(b, p)
  ELSE LET d == [b EXCEPT ![p.index] = c] IN IF Full(Advance(p)) THEN Scrolled(d) ELSE d

\* print_screen and write_char, whose columns go one past the line.
WriteChar(b, x, y, c) == [b EXCEPT ![Width * y + IF x > Width THEN Width ELSE x] = c]

-----------------------------------------------------------------------------
\* The index, the number of the next line and the scroll agree, on every path through
\* both kinds of print: the next character is in the screen, and in the line before
\* next_line.
IndexInScreen ==
  /\ at.next_line \in 1 .. Height
  /\ Width * (at.next_line - 1) <= at.index /\ at.index < Width * at.next_line
=============================================================================
