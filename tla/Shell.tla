--------------------------------- MODULE Shell ---------------------------------
(***************************************************************************)
(* The shell (shell/shell.c) with the keyboard and the screen under it: a  *)
(* ring of lines, the place of the prompt in it, and a loop that asks for  *)
(* one key and does what it says. What a command does to the disk is left  *)
(* out; its output, or the program it runs, is any.                        *)
(***************************************************************************)
EXTENDS Keyboard, Vga

CONSTANTS
  Rows,       \* lines of bufs, 22 in the code
  MaxOutput,  \* bound: lines that ls or cat prints
  MaxPrints   \* bound: characters that programs print

ASSUME ShellAssumption == /\ Rows \in 2 .. Height - 1
                          /\ {MaxOutput, MaxPrints} \subseteq Nat

VARIABLES
  x, y, bufs,
  pc,       \* "loop", "child" while wait blocks for the program, "exited"
  prints,   \* history: characters printed by programs
  printed   \* history: whether the kernel printed since the screen was last drawn

shell_vars == <<x, y, bufs, pc, prints, printed>>
vars == <<keyboard_vars, vga_buffer, at, shell_vars>>

Lines   == 0 .. Rows - 1
Columns == 0 .. Width + 1
Letters == Typable \cup {" "}
Glyphs  == Letters \cup {Nul, "$", "_", "n", "b", "k", "c"}

TypeOK ==
  /\ KeyboardTypeOK /\ VgaTypeOK /\ vga_buffer \in [Cells -> Glyphs]
  /\ x \in Lines /\ y \in 2 .. Width + 1 /\ bufs \in [Lines -> [Columns -> Glyphs]]
  /\ pc \in {"loop", "child", "exited"}
  /\ prints \in 0 .. MaxPrints /\ printed \in BOOLEAN
-----------------------------------------------------------------------------
(* Lines and the screen.                                                   *)

Written(n, c) == [j \in Columns |-> IF j = n THEN c ELSE Nul]

empty_line == Written(0, "$")

\* What list_entries and read leave in a line: a name, a byte, or all it can take.
Listed == [empty_line EXCEPT ![2] = "n"]
OutputLines == {Listed, Written(0, "b"), [j \in Columns |-> IF j > Width THEN Nul ELSE "b"]}

\* Faulty: the newest line is drawn above the screen.
ScreenLineAbove(i, top) == i - top - 1 + IF i < top THEN Rows ELSE 0

\* Where line i goes when the prompt is in line top.
ScreenLine(i, top) == i - top - 1 + IF i < top + 1 THEN Rows ELSE 0

\* The calls of w, each <<column, line, character>>, one after the other.
WriteAll(v, w) ==
  LET screen[k \in 0 .. Len(w)] ==
        IF k = 0 THEN v ELSE WriteChar(screen[k - 1], w[k][1], w[k][2], w[k][3])
  IN screen[Len(w)]

\* The k-th call of print_lines.
PrintCall(b, top, k) ==
  LET i == (k - 1) \div (Width + 1)
      j == (k - 1) % (Width + 1)
  IN <<j, ScreenLine(i, top), b[i][j]>>

print_lines(v, b, top) ==
  WriteAll(v, [k \in 1 .. Rows * (Width + 1) |-> PrintCall(b, top, k)])

\* The bottom line of the screen is drawn again from column n.
RedrawFrom(v, n, line) ==
  WriteAll(v, [k \in 1 .. Width + 1 - n |-> <<n + k - 1, Rows - 1, line[n + k - 1]>>])

Init ==
  /\ KeyboardInit
  /\ x = 0 /\ y = 2 /\ bufs = [n \in Lines |-> empty_line]
  /\ at = NewLine(PrintAt(Start, "k"))
  /\ vga_buffer = print_lines(NewLineOn(PrintOn(init_vga, Start, "k"), PrintAt(Start, "k")), bufs, x)
  /\ pc = "loop" /\ prints = 0 /\ printed = FALSE

-----------------------------------------------------------------------------
(* The keys.                                                               *)

\* Faulty: one more character than line has room for.
HasRoomForMore == y < Width + 2

HasRoom == y < Width + 1

Type(v, c) ==
  /\ HasRoom
  /\ vga_buffer' = WriteChar(v, y, Rows - 1, c)
  /\ bufs' = [bufs EXCEPT ![x][y] = c] /\ y' = y + 1
  /\ UNCHANGED <<x, pc, prints>>

Erase(v) ==
  LET line == [j \in Columns |-> IF j < y - 1 \/ j > Width THEN bufs[x][j]
                                 ELSE IF j = Width THEN Nul ELSE bufs[x][j + 1]]
  IN /\ y > 2
     /\ bufs' = [bufs EXCEPT ![x] = line] /\ y' = y - 1
     /\ vga_buffer' = RedrawFrom(v, y - 1, line)
     /\ UNCHANGED <<x, pc, prints>>

Typed == y > 2

\* Faulty: the line after the output stays, and the prompt is in the next one.
OutputAndBlank(out) == IF out = <<>> THEN <<empty_line>> ELSE out \o <<empty_line, empty_line>>

\* The loops of ls and cat take a line more than they fill, and give it back: the new
\* prompt is in it.
Output(out) == Append(out, empty_line)

\* The lines of new come after the one of the prompt, in the place of the oldest.
NewLines(new) ==
  LET ring[n \in 0 .. Len(new)] ==
        IF n = 0 THEN [x |-> x, bufs |-> bufs]
        ELSE LET top == (ring[n - 1].x + 1) % Rows
             IN [x |-> top, bufs |-> [ring[n - 1].bufs EXCEPT ![top] = new[n]]]
  IN ring[Len(new)]

\* After a command: its output, the new prompt and the screen.
Prompt(v, out) ==
  LET ring == NewLines(Output(out))
  IN /\ x' = ring.x /\ bufs' = ring.bufs /\ y' = 2
     /\ vga_buffer' = print_lines(v, ring.bufs, ring.x)
     /\ pc' = "loop" /\ printed' = FALSE
     /\ UNCHANGED prints

\* ENTER: exit ends the shell, ls and cat print, another command of the shell does not,
\* and the rest is a program, which may not be found.
Enter(v) ==
  \/ /\ Typed
     /\ pc' = "exited" /\ vga_buffer' = v
     /\ UNCHANGED <<x, y, bufs, prints, printed>>
  \/ \E out \in BoundedSeq(IF Typed THEN OutputLines ELSE {}, MaxOutput) : Prompt(v, out)
  \/ /\ pc' = "child" /\ vga_buffer' = v
     /\ UNCHANGED <<x, y, bufs, prints, printed>>

\* keyboard_handler prints a line for one of the keys, over v.
Noise(key) == IF key.k = "grave" THEN NewLine(PrintAt(at, "c")) ELSE at

NoiseOn(v, key) ==
  IF key.k = "grave" THEN NewLineOn(PrintOn(v, at, "c"), PrintAt(at, "c")) ELSE v

Char(key) == IF key.type = 0 THEN key.k ELSE IF key.k = "SPACE" THEN " " ELSE Nul

Handle(v, key) ==
  IF key.type = 1 /\ key.k = "ENTER" THEN Enter(v)
  ELSE /\ printed' = (printed \/ key.k = "grave")
       /\ \/ Char(key) # Nul /\ Type(v, Char(key))
          \/ key.k = "BACKSPACE" /\ Erase(v)
          \/ /\ Char(key) # Nul => ~HasRoom
             /\ key.k = "BACKSPACE" => y = 2
             /\ vga_buffer' = v /\ UNCHANGED <<x, y, bufs, pc, prints>>

\* A turn of the loop of main. The cursor blinks; its two forms are not told apart.
Turn ==
  /\ pc = "loop"
  /\ \E key \in Keys :
       /\ KeyboardHandler(key)
       /\ Handle(NoiseOn(WriteChar(vga_buffer, y, Rows - 1, "_"), key), key)
       /\ at' = Noise(key)

-----------------------------------------------------------------------------
(* The program the shell waits for.                                        *)

ChildPrint ==
  /\ pc = "child" /\ prints < MaxPrints
  /\ \E c \in {"k", "\n"} : at' = PrintAt(at, c) /\ vga_buffer' = PrintOn(vga_buffer, at, c)
  /\ prints' = prints + 1
  /\ UNCHANGED <<keyboard_vars, x, y, bufs, pc, printed>>

ChildRead ==
  /\ pc = "child"
  /\ \E key \in Keys : KeyboardHandler(key) /\ at' = Noise(key) /\ vga_buffer' = NoiseOn(vga_buffer, key)
  /\ UNCHANGED shell_vars

ChildExit ==
  /\ pc = "child"
  /\ Prompt(vga_buffer, <<>>)
  /\ UNCHANGED <<keyboard_vars, at>>

-----------------------------------------------------------------------------
Keyboarding ==
  /\ \/ \E code \in Chars \cup Specials : PressKey(code)
     \/ PressShift \/ ReleaseShift \/ Repeat \/ MakeAvailable
  /\ UNCHANGED <<vga_buffer, at, shell_vars>>

Next == Keyboarding \/ Turn \/ ChildPrint \/ ChildRead \/ ChildExit

\* Interrupts are on while a program runs, and the shell is scheduled.
Fairness == WF_vars(MakeAvailable /\ UNCHANGED <<vga_buffer, at, shell_vars>>) /\ WF_vars(Turn)

Spec == Init /\ [][Next]_vars /\ Fairness

-----------------------------------------------------------------------------
(* Properties.                                                             *)

\* The screen shows the lines in their order, the prompt at the bottom, but for what the
\* kernel prints over it, the cursor, and the last column: it is drawn in the first
\* cell of the next line of the screen, and stays there under the last line of bufs.
ScreenIsRing ==
  pc = "loop" /\ ~printed =>
    \A r \in 0 .. Rows - 1, c \in 0 .. Width - 1 :
      \/ r = Rows - 1 /\ c = y
      \/ vga_buffer[Width * r + c] =
           IF c = 0 /\ r = Rows - 1 - x /\ r > 0 THEN bufs[Rows - 1][Width]
           ELSE bufs[(r + x + 1) % Rows][c]

\* The characters of a line that are seen.
Shown(line) ==
  LET upto[j \in 0 .. Width + 2] ==
        IF j = 0 THEN <<>>
        ELSE IF line[j - 1] = Nul THEN upto[j - 1] ELSE Append(upto[j - 1], line[j - 1])
  IN upto[Width + 2]

RingLines == [k \in 1 .. Rows |-> Shown(bufs[(x + k) % Rows])]

T == INSTANCE Terminal WITH
  lines   <- RingLines,
  Room    <- Width,
  Keys    <- Letters,
  Outputs <- {Shown(line) : line \in OutputLines}

\* The ring of lines is a terminal: output pushes out the oldest lines only, and keys
\* change only the end of the prompt line.
RingIsTerminal == T!Spec

\* While the shell reads keys, none waits for ever.
KeyRead == fifo # <<>> ~> (fifo = <<>> \/ pc # "loop")
================================================================================
