--------------------------------- MODULE Text ----------------------------------
(***************************************************************************)
(* What the editor promises: a text, which is a sequence of lines of at    *)
(* least one character, a place in it, and what each command makes of them *)
(* as a set of outcomes. The column is kept only within a line: after a    *)
(* change of line it is anywhere in the new one. A file that was loaded    *)
(* ends in a line without characters, where no command goes. The text may  *)
(* be lost at any step; Editor says when.                                  *)
(***************************************************************************)
EXTENDS Integers, SequencesExt

CONSTANTS Chars, Files

VARIABLE t   \* [lines, row, col]

Space == " "
Lost  == [lines |-> <<>>, row |-> 0, col |-> 0]
Fresh == [lines |-> <<<<Space>>>>, row |-> 1, col |-> 1]

Then(S, op(_)) == UNION {op(a) : a \in S}

Line(a) == a.lines[a.row]

\* Row r, at any column of cols.
At(a, r, cols) ==
  IF a.lines[r] = <<>> THEN {} ELSE {[a EXCEPT !.row = r, !.col = c] : c \in cols}

Columns(a, r) == 1 .. Len(a.lines[r])

Up(a)    == IF a.row = 1 THEN {a} ELSE At(a, a.row - 1, Columns(a, a.row - 1))
Down(a)  == IF a.row = Len(a.lines) THEN {a} ELSE At(a, a.row + 1, Columns(a, a.row + 1))
Left(a)  == {[a EXCEPT !.col = IF @ = 1 THEN @ ELSE @ - 1]}
Right(a) == {[a EXCEPT !.col = IF @ = Len(Line(a)) THEN @ ELSE @ + 1]}

InsertChar(a, c) ==
  {[a EXCEPT !.lines[a.row] = InsertAt(@, a.col, c), !.col = @ + 1]}

\* A character after the last one, if the cursor is there.
Extend(a) ==
  {IF a.col = Len(Line(a)) THEN [a EXCEPT !.lines[a.row] = Append(@, Space)] ELSE a}

\* The last character of a line becomes a space.
DeleteChar(a) ==
  {IF Len(Line(a)) = 1 THEN [a EXCEPT !.lines[a.row] = <<Space>>]
   ELSE [a EXCEPT !.lines[a.row] = RemoveAt(@, a.col),
                  !.col = IF @ = Len(Line(a)) THEN @ - 1 ELSE @]}

NewLine(a) == {[a EXCEPT !.lines = InsertAt(@, a.row + 1, <<Space>>)]}

DeleteLine(a) ==
  IF Len(a.lines) = 1 THEN {Fresh}
  ELSE LET b == [a EXCEPT !.lines = RemoveAt(@, a.row)]
       IN At(b, IF a.row = Len(a.lines) THEN a.row - 1 ELSE a.row, {1})

\* At the start of a line, the line is deleted, with its characters.
Backspace(a) ==
  IF a.col > 1 THEN Then(Left(a), DeleteChar)
  ELSE IF a.row > 1 THEN DeleteLine(a) ELSE Then(DeleteLine(a), Up)

\* A deletion with a movement deletes at both ends of it.
Both(a, delete(_), move(_)) == Then(Then(delete(a), move), delete)

\* What is loaded: no line before the last one may be empty.
Loaded(file) ==
  IF Len(file) = 1 \/ <<>> \in ToSet(Front(file)) THEN {}
  ELSE {[lines |-> [file EXCEPT ![Len(file)] = <<>>], row |-> 1, col |-> 1]}

\* b is what a key makes of a. It may do nothing: a movement at an end, a change of
\* mode, :w.
Edit(a, b) ==
  \/ b = a
  \/ b \in Up(a) \/ b \in Down(a) \/ b \in Left(a) \/ b \in Right(a)
  \/ b \in DeleteChar(a) \/ b \in DeleteLine(a) \/ b \in Backspace(a)
  \/ \E c \in Chars \cup {Space} : b \in InsertChar(a, c)
  \/ b \in Then(Extend(a), Right)
  \/ b \in Then(NewLine(a), Down)
  \/ b \in Then(InsertChar(a, Space), LAMBDA c : InsertChar(c, Space))
  \/ b \in Both(a, DeleteLine, Down) \/ b \in Both(a, DeleteLine, Up)
  \/ b \in Both(a, DeleteChar, Left) \/ b \in Both(a, DeleteChar, Right)
  \/ b = Fresh
  \/ \E f \in Files : b \in Loaded(f)

Init == t = Fresh
Next == \E a \in {t}, b \in {t'} : a # Lost /\ (b = Lost \/ Edit(a, b))
Spec == Init /\ [][Next]_t
=============================================================================
