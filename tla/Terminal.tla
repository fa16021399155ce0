------------------------------- MODULE Terminal --------------------------------
(***************************************************************************)
(* What the shell promises of its lines: the last Rows lines, oldest first *)
(* and the prompt last. The user changes only the end of the prompt line;  *)
(* a command adds its output and a new prompt, and only the oldest lines   *)
(* are lost.                                                               *)
(***************************************************************************)
EXTENDS Integers, SequencesExt

CONSTANTS
  Rows,      \* lines on the screen
  Room,      \* characters in a prompt line, the prompt included
  Keys,      \* characters a user types
  Outputs,   \* lines a command prints
  MaxOutput  \* bound: lines of one command

VARIABLE lines

Prompt == <<"$">>

Init == lines = [k \in 1 .. Rows |-> Prompt]

Type(c) == /\ Len(lines[Rows]) < Room
           /\ lines' = [lines EXCEPT ![Rows] = Append(@, c)]

Erase == /\ lines[Rows] # Prompt
         /\ lines' = [lines EXCEPT ![Rows] = Front(@)]

Run(out) == LET all == lines \o Append(out, Prompt)
            IN lines' = SubSeq(all, Len(all) - Rows + 1, Len(all))

Next == \/ \E c \in Keys : Type(c)
        \/ Erase
        \/ \E out \in BoundedSeq(Outputs, MaxOutput) : Run(out)

Spec == Init /\ [][Next]_lines
================================================================================
