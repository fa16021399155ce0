--------------------------------- MODULE Editor --------------------------------
(***************************************************************************)
(* The editor (mini-vim): main.c, the lists of structures.c, the automaton *)
(* of the commands (normal_automata.c), the commands typed after ":"       *)
(* (command_handler.c) and what they load and save (buffer_handler.c).     *)
(*                                                                         *)
(* doc is the document: the heap of the lines, the heap of their cells,    *)
(* and the pointers and counters of main.c. A pointer used where it is not *)
(* one leaves doc Wild, and nothing is said of what follows. Each turn of  *)
(* the main loop handles one key, so it is one step; the colours that the  *)
(* loop computes first, from the file on, are in Syntax.                   *)
(***************************************************************************)
EXTENDS Lists, Syntax

CONSTANTS
  Letters,     \* characters typed into the text
  Keys,        \* characters typed in NORMAL mode
  Words,       \* characters typed after ":"
  Files,       \* contents of the files opened: sequences of lines
  Height,      \* VIDEO_H
  NLines,      \* bound: lines in memory, those of the file that was loaded included
  NCells,      \* bound: cells in memory
  MaxX,        \* bound: how far cursorX, which no deletion corrects, goes
  MaxCommand   \* bound: characters typed after ":"

FileLetters == UNION {UNION {ToSet(f[i]) : i \in DOMAIN f} : f \in Files}

ASSUME EditorAssumption ==
  /\ {Height, NLines, NCells, MaxX, MaxCommand} \subseteq Nat \ {0}
  /\ \A f \in Files : f # <<>> /\ f \in Seq(Seq(FileLetters)) /\ Len(f) <= NLines

VARIABLES doc, mode, node, command_buffer

vars == <<doc, mode, node, command_buffer>>

Space   == " "
Newline == "\n"

Cell(c) == [prev |-> Null, next |-> Null, c |-> c, cursor |-> FALSE]
LineNode(buffer, size) == [prev |-> Null, next |-> Null, buffer |-> buffer, size |-> size]

\* One line of one space. What was allocated before is forgotten: nothing points to it.
Blank(x, y, size) ==
  [lines |-> <<LineNode(1, size)>>, cells |-> <<[Cell(Space) EXCEPT !.cursor = TRUE]>>,
   file_buffer |-> 1, screen_start |-> 1, current_line |-> 1, current_text |-> 1,
   cursorX |-> x, cursorY |-> y, wild |-> FALSE]

NewFile == Blank(0, 0, 1)
Wild    == [NewFile EXCEPT !.wild = TRUE]

\* The rest of a handler, if the program gets there.
Then(d, op(_)) == IF d.wild THEN d ELSE op(d)

-----------------------------------------------------------------------------
(* Movements.                                                              *)

Flag(d, on) == [d EXCEPT !.cells[d.current_text].cursor = on]

\* Faulty: the cursor is left behind too.
MoveToLeaving(d, cell) == Flag([d EXCEPT !.current_text = cell], TRUE)

MoveTo(d, cell) == Flag([Flag(d, FALSE) EXCEPT !.current_text = cell], TRUE)

\* The column is compared without its sign.
Clamp(x, size) == IF x >= 0 /\ x < size THEN x ELSE size - 1

EnterLine(d, line) ==
  LET l == d.lines[line]
      x == Clamp(d.cursorX, l.size)
  IN IF l.buffer = Null THEN Wild
     ELSE MoveTo([d EXCEPT !.current_line = line, !.cursorX = x],
                 KShift(d.cells, l.buffer, x))

ScrollUp(d) ==
  IF d.cursorY > 0 THEN [d EXCEPT !.cursorY = @ - 1]
  ELSE [d EXCEPT !.cursorY = 0, !.screen_start = d.current_line]

\* Faulty: the row goes on under the screen.
ScrollDownBelow(d) ==
  IF d.cursorY + 1 < Height \/ d.screen_start = Null THEN [d EXCEPT !.cursorY = @ + 1]
  ELSE [d EXCEPT !.cursorY = @ + 1, !.screen_start = d.lines[@].next]

\* screen_start is Null once the line it was on is deleted and the screen goes on.
ScrollDown(d) ==
  IF d.cursorY + 1 < Height THEN [d EXCEPT !.cursorY = @ + 1]
  ELSE IF d.screen_start = Null THEN Wild
  ELSE [d EXCEPT !.cursorY = Height, !.screen_start = d.lines[@].next]

ApplyMove(d, dir) ==
  LET line == d.lines[d.current_line]
      text == d.cells[d.current_text]
  IN CASE dir = "UP" /\ line.prev # Null    -> Then(EnterLine(d, line.prev), ScrollUp)
       [] dir = "DOWN" /\ line.next # Null  -> Then(EnterLine(d, line.next), ScrollDown)
       [] dir = "RIGHT" /\ text.next # Null -> MoveTo([d EXCEPT !.cursorX = @ + 1], text.next)
       [] dir = "LEFT" /\ text.prev # Null  -> MoveTo([d EXCEPT !.cursorX = @ - 1], text.prev)
       [] OTHER -> d

-----------------------------------------------------------------------------
(* Insertions and deletions.                                               *)

AppendCell(d, c) == Append(d.cells, Cell(c))
AppendLine(d, buffer) == Append(d.lines, LineNode(buffer, 1))

\* Faulty: the cell is not given to the new line.
InsertBareLine(d) ==
  [d EXCEPT !.cells = AppendCell(d, Space),
            !.lines = InsertAfter(AppendLine(d, Null), d.current_line, Len(d.lines) + 1)]

InsertAfterLine(d) ==
  [d EXCEPT !.cells = AppendCell(d, Space),
            !.lines = InsertAfter(AppendLine(d, Len(d.cells) + 1), d.current_line,
                                  Len(d.lines) + 1)]

\* Faulty: a line is inserted above, which the file may not start with.
ApplyInsertAbove(d, dir) ==
  CASE dir = "DOWN" -> InsertAfterLine(d)
    [] dir = "UP" ->
         [d EXCEPT !.cells = AppendCell(d, Space),
                   !.lines = InsertBefore(AppendLine(d, Len(d.cells) + 1), d.current_line,
                                          Len(d.lines) + 1)]
    [] OTHER -> d

ApplyInsert(d, dir) ==
  CASE dir = "DOWN" -> InsertAfterLine(d)
    [] dir = "RIGHT" /\ d.cells[d.current_text].next = Null ->
         [d EXCEPT !.cells = InsertAfter(AppendCell(d, Space), d.current_text, Len(d.cells) + 1)]
    [] OTHER -> d

\* A character before the one under the cursor.
InsertChar(d, c) ==
  LET line == d.lines[d.current_line]
      new  == Len(d.cells) + 1
  IN [d EXCEPT !.cells = InsertBefore(AppendCell(d, c), d.current_text, new),
               !.lines[d.current_line] =
                 [line EXCEPT !.size = line.size + 1,
                              !.buffer = IF d.cells[d.current_text].prev = Null THEN new
                                         ELSE line.buffer]]

InsertSpace(d) == [InsertChar(d, Space) EXCEPT !.cursorX = @ + 1]

\* What the deleted cell held is forgotten: nothing points to it.
DeletedCell(h, n) == [DeleteNode(h, n) EXCEPT ![n] = Cell(Space)]

\* The cursor goes to the next cell, to the previous one at the end of the line.
DeleteChar(d) ==
  LET text   == d.cells[d.current_text]
      line   == d.lines[d.current_line]
      first  == IF text.prev = Null THEN text.next ELSE line.buffer
      cells  == DeletedCell(d.cells, d.current_text)
  IN IF text.next # Null
     THEN Flag([d EXCEPT !.cells = cells, !.current_text = text.next,
                         !.lines[d.current_line].buffer = first], TRUE)
     ELSE IF text.prev # Null
     THEN Flag([d EXCEPT !.cells = cells, !.current_text = text.prev], TRUE)
     ELSE [d EXCEPT !.cells[d.current_text].c = Space]

StartLine(d, line) ==
  LET cell == d.lines[line].buffer
  IN IF cell = Null THEN Wild
     ELSE Flag([d EXCEPT !.current_line = line, !.current_text = cell], TRUE)

\* file_buffer stays on a first line that is deleted, screen_start on any other.
DeleteLine(d) ==
  LET line  == d.lines[d.current_line]
      lines == DeleteNode(d.lines, d.current_line)
      start == IF line.prev = Null THEN line.next ELSE d.screen_start
  IN IF line.next # Null
     THEN StartLine([d EXCEPT !.lines = lines, !.screen_start = start], line.next)
     ELSE IF line.prev # Null
     THEN StartLine([d EXCEPT !.lines = lines, !.cursorY = d.cursorY - 1], line.prev)
     ELSE Blank(d.cursorX, d.cursorY, 1)

ApplyDelete(d, del) == IF del = 1 THEN DeleteChar(d) ELSE DeleteLine(d)

ApplyMoveDelete(d, dir) ==
  CASE dir = "RIGHT" -> ApplyMove(d, "LEFT")
    [] dir = "DOWN"  -> ApplyMove(d, "UP")
    [] OTHER -> d

-----------------------------------------------------------------------------
(* NORMAL mode: the commands, and the automaton that reads them.           *)

Cmd(new_mode, del, mov, dir) ==
  [new_mode |-> new_mode, del |-> del, mov |-> mov, dir |-> dir]

command_table ==
  {<<<<"j">>, Cmd("NORMAL", 0, 1, "DOWN")>>, <<<<"k">>, Cmd("NORMAL", 0, 1, "UP")>>,
   <<<<"l">>, Cmd("NORMAL", 0, 1, "RIGHT")>>, <<<<"h">>, Cmd("NORMAL", 0, 1, "LEFT")>>,
   <<<<"d", "j">>, Cmd("NORMAL", 3, 1, "DOWN")>>, <<<<"d", "k">>, Cmd("NORMAL", 3, 1, "UP")>>,
   <<<<"d", "l">>, Cmd("NORMAL", 1, 1, "RIGHT")>>, <<<<"d", "h">>, Cmd("NORMAL", 1, 1, "LEFT")>>,
   <<<<"d", "d">>, Cmd("NORMAL", 3, 0, "STILL")>>, <<<<"x">>, Cmd("NORMAL", 1, 0, "STILL")>>,
   <<<<"s">>, Cmd("INSERT", 1, 0, "STILL")>>, <<<<"o">>, Cmd("INSERT", 0, 1, "DOWN")>>,
   <<<<"O">>, Cmd("INSERT", 0, 1, "UP")>>, <<<<"a">>, Cmd("INSERT", 0, 1, "RIGHT")>>,
   <<<<":">>, Cmd("COMMAND", 0, 0, "STILL")>>, <<<<"i">>, Cmd("INSERT", 0, 0, "STILL")>>}

commands ==
  [lex \in {row[1] : row \in command_table} |->
    (CHOOSE row \in command_table : row[1] = lex)[2]]

\* The states of the automaton are the beginnings of the commands.
Nodes == UNION {{SubSeq(lex, 1, n) : n \in 0 .. Len(lex) - 1} : lex \in DOMAIN commands}

\* Faulty: apply_move_delete is given the direction, and moves back.
RunCommandBack(d, com) ==
  LET Delete(e) == IF com.del = 0 THEN e ELSE ApplyDelete(e, com.del)
      Insert(e) == IF com.new_mode = "INSERT" THEN ApplyInsert(e, com.dir) ELSE e
      Again(e)  == IF com.del = 0 THEN e ELSE ApplyDelete(e, com.del)
      Back(e)   == IF com.del = 0 THEN e ELSE Then(ApplyMoveDelete(e, com.dir), Again)
      Rest(e)   == Then(ApplyMove(Insert(e), com.dir), Back)
  IN IF com.mov = 0 THEN Delete(d) ELSE Then(Delete(d), Rest)

\* apply_move_delete is given mov, which is 1 like UP, where a direction is due.
RunCommand(d, com) ==
  LET Delete(e) == IF com.del = 0 THEN e ELSE ApplyDelete(e, com.del)
      Insert(e) == IF com.new_mode = "INSERT" THEN ApplyInsert(e, com.dir) ELSE e
      Move(e)   == ApplyMove(e, com.dir)
      Again(e)  == IF com.del = 0 THEN e ELSE ApplyDelete(ApplyMoveDelete(e, "UP"), com.del)
      Rest(e)   == Then(Move(Insert(e)), Again)
  IN IF com.mov = 0 THEN Delete(d) ELSE Then(Delete(d), Rest)

Fits(d) ==
  /\ Len(d.lines) <= NLines
  /\ Len(d.cells) <= NCells
  /\ d.cursorX \in -MaxX .. MaxX

\* enter_char, and the command it completes.
NormalKey(c) ==
  LET lex == Append(node, c)
  IN /\ mode = "NORMAL" /\ ~doc.wild
     /\ IF lex \in DOMAIN commands
        THEN /\ doc' = RunCommand(doc, commands[lex])
             /\ Fits(doc')
             /\ mode' = commands[lex].new_mode
             /\ node' = <<>>
        ELSE /\ node' = IF lex \in Nodes THEN lex ELSE <<>>
             /\ UNCHANGED <<doc, mode>>
     /\ UNCHANGED command_buffer

-----------------------------------------------------------------------------
(* INSERT mode. A special key in NORMAL mode is handled there too.         *)

Edit(new) ==
  /\ ~doc.wild
  /\ doc' = new
  /\ Fits(doc')
  /\ UNCHANGED <<node, command_buffer>>

Special == mode \in {"NORMAL", "INSERT"}

TypeChar(c) == mode = "INSERT" /\ Edit(InsertChar(doc, c)) /\ UNCHANGED mode

TypeSpace == Special /\ Edit(InsertSpace(doc)) /\ UNCHANGED mode

TypeTab == Special /\ Edit(InsertSpace(InsertSpace(doc))) /\ UNCHANGED mode

Escape == Special /\ Edit(doc) /\ mode' = "NORMAL"

\* At the start of a line, the line is deleted.
Backspace ==
  /\ Special
  /\ Edit(IF doc.cells[doc.current_text].prev # Null THEN DeleteChar(ApplyMove(doc, "LEFT"))
          ELSE IF doc.lines[doc.current_line].prev # Null THEN DeleteLine(doc)
          ELSE Then(DeleteLine(doc), LAMBDA d : ApplyMove(d, "UP")))
  /\ UNCHANGED mode

Enter ==
  /\ Special
  /\ Edit(LET Column0(d) == [Flag(d, TRUE) EXCEPT !.cursorX = 0]
          IN Then(ApplyMove(ApplyInsert(Flag(doc, FALSE), "DOWN"), "DOWN"), Column0))
  /\ UNCHANGED mode

-----------------------------------------------------------------------------
(* COMMAND mode.                                                           *)

Typed(new) ==
  /\ mode = "COMMAND" /\ ~doc.wild
  /\ Len(new) <= MaxCommand
  /\ command_buffer' = new
  /\ UNCHANGED <<doc, node>>

CommandChar(c) == Typed(Append(command_buffer, c)) /\ UNCHANGED mode

CommandBackspace ==
  /\ Typed(IF command_buffer = <<>> THEN <<>> ELSE Front(command_buffer))
  /\ mode' = IF command_buffer = <<>> THEN "NORMAL" ELSE "COMMAND"

CommandEscape == Typed(<<>>) /\ mode' = "NORMAL"

\* split_on: what comes before the first space.
Word ==
  LET Spaces == {i \in DOMAIN command_buffer : command_buffer[i] = Space}
  IN IF Spaces = {} THEN command_buffer ELSE SubSeq(command_buffer, 1, Min(Spaces) - 1)

\* Where each line of the file starts among the cells.
LineStarts(file) ==
  LET start[i \in 1 .. Len(file)] == IF i = 1 THEN 1 ELSE start[i - 1] + Len(file[i - 1])
  IN start

\* buffer_from_file. An empty line has no cell to start with, and what comes after the
\* last newline is lost: its line has no cells, so it cannot be the first. The code
\* counts up the size of a new line from whatever malloc left there; 0 is taken for
\* it, which nothing but the column after a change of line depends on.
Load(file) ==
  LET n       == Len(file)
      start   == LineStarts(file)
      LineOf(k) == CHOOSE i \in 1 .. n - 1 : k \in start[i] .. start[i + 1] - 1
  IN IF n = 1 \/ <<>> \in ToSet(Front(file)) THEN Wild
     ELSE [NewFile EXCEPT
             !.lines = [i \in 1 .. n |->
               [prev |-> i - 1, next |-> IF i = n THEN Null ELSE i + 1,
                buffer |-> IF i = n THEN Null ELSE start[i],
                size |-> IF i = n THEN 0 ELSE Len(file[i])]],
             !.cells = [k \in 1 .. start[n] - 1 |->
               LET i == LineOf(k)
               IN [prev |-> IF k = start[i] THEN Null ELSE k - 1,
                   next |-> IF k + 1 = start[i + 1] THEN Null ELSE k + 1,
                   c |-> file[i][k - start[i] + 1], cursor |-> k = 1]]]

\* interpret_command. The file that parm names is any of Files, or cannot be opened;
\* malloc may leave any pointer in the line without cells, and to_string writes from
\* an index that it never sets. For any other word the function ends without a return,
\* which leaves the 0 of its last strcmp, and main does nothing.
CommandEnter ==
  /\ mode = "COMMAND" /\ ~doc.wild
  /\ command_buffer' = <<>>
  /\ CASE Word = <<"e">> -> doc' \in {Load(f) : f \in Files} \cup {Blank(0, 0, 0), Wild}
       [] Word = <<"w">> -> doc' \in {doc, Wild}
       [] Word = <<"n">> -> doc' = NewFile
       [] OTHER          -> doc' = doc
  /\ mode' = IF Word = <<"q">> THEN "EXIT" ELSE "NORMAL"
  /\ UNCHANGED node

-----------------------------------------------------------------------------
Init ==
  /\ doc = NewFile
  /\ mode = "NORMAL"
  /\ node = <<>>
  /\ command_buffer = <<>>

Next ==
  \/ \E c \in Keys : NormalKey(c)
  \/ \E c \in Letters : TypeChar(c)
  \/ \E c \in Words \cup {Space} : CommandChar(c)
  \/ TypeSpace \/ TypeTab \/ Escape \/ Backspace \/ Enter
  \/ CommandBackspace \/ CommandEscape \/ CommandEnter

Spec == Init /\ [][Next]_vars

-----------------------------------------------------------------------------
(* Properties.                                                             *)

\* The lines of the text, from the first to the last.
Lines == ListOf(doc.lines, doc.current_line)

LineCells(d, l) == Along(d.cells, d.lines[l].buffer, "next")

\* Types; the row counted for the cursor is never under the screen by more than one.
TypeOK ==
  /\ \A l \in ToSet(doc.lines) :
       /\ {l.prev, l.next} \subseteq DOMAIN doc.lines \cup {Null}
       /\ l.buffer \in DOMAIN doc.cells \cup {Null} /\ l.size \in Nat
  /\ \A n \in ToSet(doc.cells) :
       /\ {n.prev, n.next} \subseteq DOMAIN doc.cells \cup {Null}
       /\ n.c \in Letters \cup {Space} \cup FileLetters
  /\ {doc.file_buffer, doc.current_line} \subseteq DOMAIN doc.lines
  /\ doc.screen_start \in DOMAIN doc.lines \cup {Null}
  /\ doc.current_text \in DOMAIN doc.cells
  /\ doc.cursorX \in Int /\ doc.cursorY \in -NLines .. Height
  /\ mode \in {"NORMAL", "INSERT", "COMMAND", "EXIT"}
  /\ node \in Nodes
  /\ command_buffer \in BoundedSeq(Words \cup {Space}, MaxCommand)

\* The lists stay lists under any sequence of insertions and deletions: their links
\* agree in both directions, each line starts at its first cell, the cursor is in the
\* line it says, and only the last line may have no cells.
ListsSound ==
  /\ Linked(doc.lines, doc.current_line)
  /\ doc.current_text \in ToSet(LineCells(doc, doc.current_line))
  /\ LET lines == Lines
     IN \A l \in ToSet(lines) :
          IF doc.lines[l].buffer = Null THEN l = Last(lines)
          ELSE /\ doc.cells[doc.lines[l].buffer].prev = Null
               /\ Linked(doc.cells, doc.lines[l].buffer)

\* One cell of the text is shown as the cursor, the one that the next key acts on.
OneCursor ==
  {n \in UNION {ToSet(LineCells(doc, l)) : l \in ToSet(Lines)} : doc.cells[n].cursor}
    = {doc.current_text}

\* :w saves the lines from file_buffer: none of those of the text is missing, and they
\* come last, in their order, after lines that were deleted at the start of the file.
SaveKeepsText ==
  IsSuffix(Lines, Along(doc.lines, doc.file_buffer, "next"))


\* The characters of each line, and of the lines from l.
CharsOf(d) ==
  [l \in DOMAIN d.lines |-> LET s == LineCells(d, l) IN [p \in DOMAIN s |-> d.cells[s[p]].c]]

TextFrom(d, l) == LET s == Along(d.lines, l, "next") IN [i \in DOMAIN s |-> CharsOf(d)[s[i]]]

\* What the document shows: its text, and the place of the cursor.
Shown(d) ==
  IF d.wild THEN [lines |-> <<>>, row |-> 0, col |-> 0]
  ELSE LET above == Along(d.lines, d.current_line, "prev")
           left  == Along(d.cells, d.current_text, "prev")
           from  == [l \in DOMAIN d.lines |-> TextFrom(d, l)]
       IN [lines |-> from[Last(above)], row |-> Len(above), col |-> Len(left)]

\* The last line is one a file left without cells, at most n lines under the cursor.
EmptyBelow(n) ==
  LET text == Shown(doc)
  IN Last(text.lines) = <<>> /\ Len(text.lines) <= text.row + n

\* The screen went past the end of the deleted line it was on, and would go on.
ScreenLost == doc.screen_start = Null /\ doc.cursorY + 1 >= Height

\* No key follows a pointer to nothing, whatever was inserted, deleted and loaded before,
\* but: :e and :w, which use what malloc left; a movement down, or a deletion of a line,
\* that comes to a last line without cells (dk and dj make two and three steps); and j,
\* o and ENTER when they scroll a screen that is lost. No other key, nor these elsewhere.
NoWildPointer ==
  [][doc'.wild =>
       \/ doc.wild
       \/ CommandEnter /\ Word \in {<<"e">>, <<"w">>}
       \/ (NormalKey("j") \/ NormalKey("d") \/ Backspace) /\ EmptyBelow(1)
       \/ NormalKey("k") /\ node = <<"d">> /\ EmptyBelow(2)
       \/ NormalKey("j") /\ node = <<"d">> /\ EmptyBelow(3)
       \/ (NormalKey("j") \/ NormalKey("o") \/ Enter) /\ ScreenLost]_vars

Texts == INSTANCE Text WITH Chars <- Letters, Files <- Files, t <- Shown(doc)

\* Each step does to the text one of the edits of Text, whatever the lists, the
\* counters and the lines deleted before.
TextEdited == Texts!Spec

\* The stretches that the loop colours are keywords, and within a line (the colours of
\* any other would be written through the start of a line), unless the scan dropped a
\* character before.
ColouredIsWord ==
  LET lines == TextFrom(doc, doc.file_buffer)
      text  == FlattenSeq([i \in DOMAIN lines |-> lines[i] \o <<Newline>>])
  IN \A trie \in Tries :
       LET scan == Scan(trie, text)
       IN \A w \in Coloured(scan) :
            \/ SubSeq(text, w[1] - w[2] + 1, w[1]) \in trie.words
            \/ \E i \in Dropped(trie, scan, text) : i < w[1]
=============================================================================
