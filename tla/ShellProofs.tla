------------------------------ MODULE ShellProofs ------------------------------
(***************************************************************************)
(* What holds of the shell, the keyboard and the screen for any keys, any  *)
(* size of the controller's queue, of the ring and of the screen, and any  *)
(* commands.                                                               *)
(*                                                                         *)
(* The argument: whatever the shell and its programs do, the keyboard      *)
(* makes one of the steps KeyStep and the place of the next character one  *)
(* of the steps AtStep, so that an invariant of those is one of Spec.      *)
(* ScreenInv is of the shell's own state: the screen shows the ring, and   *)
(* the prompt line is the prompt, what was typed and nothing after it,     *)
(* which is what makes a key a change of the line's end. Of the loops that *)
(* draw, what counts is the last character in each cell; of the one that   *)
(* takes lines, which line of the ring each of them is at every turn.      *)
(***************************************************************************)
EXTENDS Shell, Numbers, SequenceTheorems

KeyStep ==
  \/ \E code \in Chars \cup Specials : PressKey(code)
  \/ PressShift \/ ReleaseShift \/ Repeat \/ MakeAvailable
  \/ \E key : KeyboardHandler(key)

AtStep == \E c : at' = PrintAt(at, c)

\* Noise is one character and one new line.
AtSteps == AtStep \/ \E c : at' = NewLine(PrintAt(at, c))

LEMMA ShellSteps == ASSUME [Next]_vars PROVE [KeyStep]_keyboard_vars /\ [AtSteps]_at
<1> USE DEF KeyStep, AtSteps, AtStep, vars
<1>1. CASE Keyboarding
  BY <1>1 DEF Keyboarding
<1>2. CASE Turn
  <2>1. PICK key \in Keys : KeyboardHandler(key) /\ at' = Noise(key)
    BY <1>2 DEF Turn
  <2> QED BY <2>1 DEF Noise
<1>3. CASE ChildPrint
  BY <1>3 DEF ChildPrint
<1>4. CASE ChildRead
  <2>1. PICK key \in Keys : KeyboardHandler(key) /\ at' = Noise(key)
    BY <1>4 DEF ChildRead
  <2> QED BY <2>1 DEF Noise
<1>5. CASE ChildExit
  BY <1>5 DEF ChildExit
<1>6. CASE UNCHANGED vars
  BY <1>6
<1> QED BY <1>1, <1>2, <1>3, <1>4, <1>5, <1>6 DEF Next

-----------------------------------------------------------------------------
(* The keyboard.                                                           *)

Moves(byte) == byte.code \in {"shift", "unshift"}

\* The shift key after a byte.
HeldAfter(byte) == IF Moves(byte) /\ ~byte.again THEN ~byte.held ELSE byte.held

KeyTypes ==
  /\ fifo \in Seq(Byte) /\ port \in Byte
  /\ irq \in BOOLEAN /\ available \in BOOLEAN /\ held \in BOOLEAN /\ inverted \in BOOLEAN
  /\ shift_key \in {0, 1}
  /\ stale \in Nat
  /\ last \in Codes

\* Only the shift key repeats; each byte starts where the one before it ends.
Chain ==
  /\ \A k \in 1 .. Len(fifo) : fifo[k].again => Moves(fifo[k])
  /\ \A k \in 1 .. Len(fifo) :
       HeldAfter(fifo[k]) = IF k = Len(fifo) THEN held ELSE fifo[k + 1].held

\* After the one read without a new byte, the flag and the interrupt are each for a byte
\* that is there.
Stale ==
  \/ stale = 0 /\ (irq /\ available => fifo # <<>>)
  \/ stale = 1 /\ (irq \/ available => fifo # <<>>) /\ ~(irq /\ available)

KeyInv == KeyTypes /\ Chain /\ ShiftFollowsKey /\ NoKeyStuck /\ Stale

LEMMA ShiftType ==
  ASSUME KeyTypes, NEW code
  PROVE  /\ Shift(code) \in {0, 1}
         /\ code \notin {"shift", "unshift"} => Shift(code) = shift_key
         /\ code \in {"shift", "unshift"} => (Shift(code) = 1 <=> shift_key # 1)
BY DEF KeyTypes, Shift, Toggles

LEMMA KeyInit == KeyboardInit => KeyInv
<1> SUFFICES ASSUME KeyboardInit PROVE KeyInv
  OBVIOUS
<1> USE DEF KeyboardInit
<1>1. None \in Byte /\ "none" \in Codes
  BY DEF None, Byte, Codes
<1>2. fifo \in Seq(Byte) /\ Len(fifo) = 0 /\ shift_key \in {0, 1} /\ stale \in Nat
  OBVIOUS
<1>3. {irq, available, held, inverted} \subseteq BOOLEAN
  OBVIOUS
<1>4. KeyTypes
  BY <1>1, <1>2, <1>3 DEF KeyTypes
<1>5. Chain
  BY <1>2 DEF Chain
<1>6. ShiftFollowsKey
  <2>1. (shift_key = 1) = FALSE
    OBVIOUS
  <2>2. (IF fifo = <<>> THEN held ELSE Head(fifo).held) = FALSE /\ inverted = FALSE
    OBVIOUS
  <2> QED BY <2>1, <2>2 DEF ShiftFollowsKey
<1>7. NoKeyStuck /\ Stale
  BY DEF NoKeyStuck, Stale
<1> QED BY <1>4, <1>5, <1>6, <1>7 DEF KeyInv

\* A byte is added.
LEMMA SendKeeps ==
  ASSUME KeyInv, NEW code \in Codes, NEW again \in BOOLEAN,
         Send(code, again), again => code = "shift",
         held' \in BOOLEAN, last' \in Codes,
         held' = HeldAfter([code |-> code, held |-> held, again |-> again])
  PROVE  KeyInv'
<1> DEFINE b == [code |-> code, held |-> held, again |-> again]
<1> USE DEF KeyInv
<1>1. b \in Byte /\ b.code = code /\ b.held = held /\ b.again = again
  BY DEF KeyTypes, Byte
<1>2. fifo' = Append(fifo, b) /\ fifo \in Seq(Byte)
  BY DEF Send, KeyTypes
<1> HIDE DEF b
<1>3. /\ fifo' \in Seq(Byte) /\ Len(fifo') = Len(fifo) + 1 /\ Len(fifo) \in Nat
      /\ fifo'[Len(fifo) + 1] = b /\ fifo' # <<>>
      /\ \A k \in 1 .. Len(fifo) : fifo'[k] = fifo[k]
  BY <1>1, <1>2
<1>4. /\ fifo = <<>> => Head(fifo') = b
      /\ fifo # <<>> => Head(fifo') = Head(fifo) /\ Len(fifo) \in Nat \ {0}
  BY <1>1, <1>2, <1>3
<1>5. KeyTypes'
  BY <1>3 DEF Send, KeyTypes
<1>6. Chain'
  <2> SUFFICES ASSUME NEW k \in 1 .. Len(fifo')
               PROVE  /\ fifo'[k].again => Moves(fifo'[k])
                      /\ HeldAfter(fifo'[k]) =
                           IF k = Len(fifo') THEN held' ELSE fifo'[k + 1].held
    BY DEF Chain
  <2>1. CASE k = Len(fifo) + 1
    BY <1>1, <1>3, <2>1 DEF Moves, b
  <2>2. CASE k = Len(fifo)
    BY <1>1, <1>3, <2>2 DEF Chain
  <2>3. CASE k < Len(fifo)
    BY <1>3, <2>3 DEF Chain
  <2> QED BY <1>3, <2>1, <2>2, <2>3
<1>7. ShiftFollowsKey'
  BY <1>1, <1>3, <1>4 DEF ShiftFollowsKey, Send
<1>8. NoKeyStuck' /\ Stale'
  BY <1>3 DEF Send, NoKeyStuck, Stale, KeyTypes
<1> QED BY <1>5, <1>6, <1>7, <1>8

\* The port is read.
LEMMA ReadKeeps ==
  ASSUME KeyInv, available, NEW byte, ReadPort(byte),
         available' = FALSE, shift_key' = Shift(byte.code), UNCHANGED <<held, last>>
  PROVE  KeyInv'
<1> USE DEF KeyInv
<1>1. CASE fifo = <<>>
  <2>1. /\ byte = port /\ stale' = stale + 1 /\ UNCHANGED <<fifo, port, irq>>
        /\ inverted' = (inverted # (byte.code \in {"shift", "unshift"}))
    BY <1>1 DEF ReadPort
  <2>2. KeyTypes'
    <3>1. inverted' \in BOOLEAN
      BY <2>1
    <3>2. shift_key' \in {0, 1}
      BY ShiftType
    <3>3. stale' \in Nat
      BY <2>1 DEF KeyTypes
    <3> QED BY <2>1, <3>1, <3>2, <3>3 DEF KeyTypes
  <2>3. Chain' /\ ShiftFollowsKey'
    <3>1. (shift_key = 1) = (held # inverted)
      BY <1>1 DEF ShiftFollowsKey
    <3>2. (shift_key' = 1) = (held # inverted')
      BY <2>1, <3>1, ShiftType DEF KeyTypes
    <3> QED BY <1>1, <2>1, <3>2 DEF ShiftFollowsKey, Chain, KeyTypes
  <2>4. NoKeyStuck' /\ Stale'
    BY <1>1, <2>1 DEF NoKeyStuck, Stale, KeyTypes
  <2> QED BY <2>2, <2>3, <2>4
<1>2. CASE fifo # <<>>
  <2>1. /\ byte = Head(fifo) /\ fifo' = Tail(fifo) /\ port' = byte
        /\ irq' = (irq \/ Len(fifo) > 1) /\ inverted' = (inverted # byte.again)
        /\ UNCHANGED stale
    BY <1>2 DEF ReadPort
  <2>2. /\ byte \in Byte /\ fifo' \in Seq(Byte) /\ byte = fifo[1]
        /\ Len(fifo) \in Nat \ {0} /\ Len(fifo') = Len(fifo) - 1
        /\ \A k \in 1 .. Len(fifo) - 1 : fifo'[k] = fifo[k + 1]
        /\ fifo' # <<>> <=> Len(fifo) > 1
        /\ fifo' # <<>> => Head(fifo') = fifo[2]
    BY <1>2, <2>1 DEF KeyTypes
  <2>3. KeyTypes'
    <3>1. inverted' \in BOOLEAN /\ irq' \in BOOLEAN
      BY <2>1
    <3> QED BY <2>1, <2>2, <3>1, ShiftType DEF KeyTypes
  <2>4. Chain'
    <3> SUFFICES ASSUME NEW k \in 1 .. Len(fifo')
                 PROVE  /\ fifo'[k].again => Moves(fifo'[k])
                        /\ HeldAfter(fifo'[k]) =
                             IF k = Len(fifo') THEN held' ELSE fifo'[k + 1].held
      BY DEF Chain
    <3>1. /\ k + 1 \in 1 .. Len(fifo) /\ fifo'[k] = fifo[k + 1]
          /\ k = Len(fifo') <=> k + 1 = Len(fifo)
          /\ k # Len(fifo') => fifo'[k + 1] = fifo[k + 1 + 1]
      BY <2>2
    <3> QED BY <3>1 DEF Chain
  <2>5. /\ HeldAfter(byte) = IF fifo' = <<>> THEN held ELSE Head(fifo').held
        /\ byte.again => Moves(byte)
    BY <2>2 DEF Chain
  <2>6. (shift_key = 1) = (byte.held # inverted)
    BY <1>2, <2>1 DEF ShiftFollowsKey
  <2>7. (shift_key' = 1) = (HeldAfter(byte) # inverted')
    BY <2>1, <2>2, <2>5, <2>6, ShiftType DEF KeyTypes, Byte, HeldAfter, Moves
  <2>8. ShiftFollowsKey'
    BY <2>5, <2>7 DEF ShiftFollowsKey
  <2>9. NoKeyStuck' /\ Stale'
    BY <1>2, <2>1, <2>2 DEF NoKeyStuck, Stale, KeyTypes
  <2> QED BY <2>3, <2>4, <2>8, <2>9
<1> QED BY <1>1, <1>2

LEMMA KeyNext == ASSUME KeyInv, [KeyStep]_keyboard_vars PROVE KeyInv'
<1> USE DEF KeyInv
<1>1. ASSUME NEW code \in Chars \cup Specials, PressKey(code) PROVE KeyInv'
  <2>1. code \notin {"shift", "unshift"} /\ code \in Codes
    BY KeyboardAssumption DEF Codes
  <2>2. held' = held /\ last' = code /\ Send(code, FALSE) /\ held \in BOOLEAN
    BY <1>1 DEF PressKey, KeyTypes
  <2> QED BY <2>1, <2>2, SendKeeps DEF HeldAfter, Moves
<1>2. CASE PressShift
  <2>1. held' = TRUE /\ held = FALSE /\ last' = "shift" /\ Send("shift", FALSE)
    BY <1>2 DEF PressShift, KeyTypes
  <2> QED BY <2>1, SendKeeps DEF HeldAfter, Moves, Codes
<1>3. CASE ReleaseShift
  <2>1. held' = FALSE /\ held = TRUE /\ last' = "none" /\ Send("unshift", FALSE)
    BY <1>3 DEF ReleaseShift, KeyTypes
  <2> QED BY <2>1, SendKeeps DEF HeldAfter, Moves, Codes
<1>4. CASE Repeat
  <2>1. held' = held /\ last' = last /\ held \in BOOLEAN /\ last \in Codes /\ Send("shift", TRUE)
    BY <1>4 DEF Repeat, KeyTypes
  <2> QED BY <2>1, SendKeeps DEF HeldAfter, Moves, Codes
<1>5. CASE MakeAvailable
  BY <1>5 DEF MakeAvailable, KeyTypes, Chain, ShiftFollowsKey, NoKeyStuck, Stale
<1>6. ASSUME NEW key, KeyboardHandler(key) PROVE KeyInv'
  <2>1. PICK byte : /\ IF available THEN ReadPort(byte)
                       ELSE byte = None /\ UNCHANGED <<fifo, port, irq, stale, inverted>>
                    /\ available' = FALSE /\ shift_key' = Shift(byte.code)
                    /\ UNCHANGED <<held, last>>
    BY <1>6 DEF KeyboardHandler
  <2>2. CASE available
    BY <2>1, <2>2, ReadKeeps
  <2>3. CASE ~available
    <3>1. UNCHANGED <<fifo, port, irq, stale, inverted, held, last, available, shift_key>>
      <4>1. byte.code = "none" /\ UNCHANGED <<fifo, port, irq, stale, inverted>>
        BY <2>1, <2>3 DEF None
      <4>2. available = FALSE
        BY <2>3 DEF KeyTypes
      <4> QED BY <2>1, <4>1, <4>2, ShiftType
    <3> QED BY <3>1 DEF KeyTypes, Chain, ShiftFollowsKey, NoKeyStuck, Stale
  <2> QED BY <2>2, <2>3
<1>7. CASE UNCHANGED keyboard_vars
  BY <1>7 DEF keyboard_vars, KeyTypes, Chain, ShiftFollowsKey, NoKeyStuck, Stale
<1> QED BY <1>1, <1>2, <1>3, <1>4, <1>5, <1>6, <1>7 DEF KeyStep

LEMMA KeyInvariant == Spec => []KeyInv
<1>1. Init => KeyInv
  BY KeyInit DEF Init
<1>2. KeyInv /\ [Next]_vars => KeyInv'
  BY ShellSteps, KeyNext
<1> QED BY <1>1, <1>2, PTL DEF Spec

\* However the keys, the interrupts and the reads interleave, a byte is never left
\* without the interrupt or the flag that tells of it.
THEOREM No_Key_Stuck == Spec => []NoKeyStuck
<1>1. KeyInv => NoKeyStuck
  BY DEF KeyInv
<1> QED BY <1>1, KeyInvariant, PTL

\* The flag that is set from the start costs at most one read without a new byte.
THEOREM One_Stale_Read == Spec => []OneStaleRead
<1>1. KeyInv => OneStaleRead
  BY DEF KeyInv, Stale, OneStaleRead
<1> QED BY <1>1, KeyInvariant, PTL

\* shift_key is the shift key as of the bytes read, inverted once for each of its bytes
\* that was repeated or read twice.
THEOREM Shift_Follows_Key == Spec => []ShiftFollowsKey
<1>1. KeyInv => ShiftFollowsKey
  BY DEF KeyInv
<1> QED BY <1>1, KeyInvariant, PTL
-----------------------------------------------------------------------------
(* The screen.                                                             *)

\* IndexInScreen, of a place.
InScreen(p) ==
  /\ p = [index |-> p.index, next_line |-> p.next_line]
  /\ p.index \in Int /\ p.next_line \in 1 .. Height
  /\ Width * (p.next_line - 1) <= p.index /\ p.index < Width * p.next_line

LEMMA ShellSizes ==
  /\ Rows \in Nat \ {0} /\ Rows > 1 /\ Rows <= Height - 1
  /\ Width \in Nat \ {0} /\ Height \in Nat /\ Height > 1
BY ShellAssumption, VgaAssumption

LEMMA Rows1 ==
  ASSUME NEW w \in Nat, NEW n \in Int
  PROVE  /\ w * n \in Int /\ w * (n - 1) = w * n - w /\ w * (n + 1) = w * n + w
         /\ w * (n - 2) = w * n - w - w
OBVIOUS

\* A print that ends a line is one that fills the last cell of that line.
LEMMA LineEnd ==
  ASSUME NEW w \in Nat \ {0}, NEW n \in Int, NEW i \in Int,
         w * (n - 1) <= i, i < w * n
  PROVE  (i + 1) % w = 0 <=> i + 1 = w * n
<1> DEFINE q == (i + 1) \div w
           r == (i + 1) % w
<1>1. q \in Int /\ r \in Int /\ i + 1 = w * q + r /\ 0 <= r /\ r < w
  OBVIOUS
<1> HIDE DEF q, r
<1>2. w * (n - 1) = w * n - w /\ w * n \in Int /\ w * q \in Int /\ w * (n + 1) = w * n + w
  BY <1>1, Rows1
<1>3. ASSUME r = 0 PROVE i + 1 = w * n
  <2>1. ~(q <= n - 1)
    BY <1>1, <1>2, <1>3, TimesGrows
  <2>2. ~(n + 1 <= q)
    BY <1>1, <1>2, <1>3, TimesGrows
  <2> QED BY <1>1, <1>3, <2>1, <2>2
<1>4. ASSUME i + 1 = w * n PROVE r = 0
  <2>1. ~(q <= n - 1)
    BY <1>1, <1>2, <1>4, TimesGrows
  <2>2. ~(n + 1 <= q)
    BY <1>1, <1>2, <1>4, TimesGrows
  <2>3. q = n
    BY <1>1, <2>1, <2>2
  <2> QED BY <1>1, <1>2, <1>4, <2>3
<1> QED BY <1>3, <1>4 DEF r

LEMMA NewLineInScreen == ASSUME NEW p, InScreen(p) PROVE InScreen(NewLine(p))
<1> DEFINE n == p.next_line
           i == p.index
<1>1. /\ i \in Int /\ n \in 1 .. Height
      /\ Width * (n - 1) <= i /\ i < Width * n
  BY DEF InScreen
<1>2. CASE Full(p)
  <2>1. NewLine(p) = [index |-> Width * (n - 1), next_line |-> n - 1 + 1]
    BY <1>2 DEF NewLine, Scroll
  <2> HIDE DEF n, i
  <2>2. n - 1 + 1 = n /\ Width * (n - 1) \in Int /\ Width * (n - 1) < Width * n
    BY <1>1, Rows1, ShellSizes
  <2> QED BY <1>1, <2>1, <2>2 DEF InScreen
<1>3. CASE ~Full(p)
  <2>1. NewLine(p) = [index |-> Width * n, next_line |-> n + 1]
    BY <1>3 DEF NewLine
  <2>2. n < Height
    BY <1>1, <1>3, ShellSizes DEF Full
  <2> HIDE DEF n, i
  <2>3. n + 1 - 1 = n /\ Width * n \in Int /\ Width * n < Width * (n + 1)
    BY <1>1, Rows1, ShellSizes
  <2> QED BY <1>1, <2>1, <2>2, <2>3, ShellSizes DEF InScreen
<1> QED BY <1>2, <1>3

LEMMA PrintInScreen == ASSUME NEW p, NEW c, InScreen(p) PROVE InScreen(PrintAt(p, c))
<1> DEFINE n == p.next_line
           i == p.index
           q == Advance(p)
<1>1. CASE c = "\n"
  BY <1>1, NewLineInScreen DEF PrintAt
<1>2. CASE c # "\n"
  <2>1. /\ i \in Int /\ n \in 1 .. Height
        /\ Width * (n - 1) <= i /\ i < Width * n
    BY DEF InScreen
  <2>2. PrintAt(p, c) = IF Full(q) THEN Scroll(q) ELSE q
    BY <1>2 DEF PrintAt
  <2>3. q = [index |-> i + 1, next_line |-> n + IF (i + 1) % Width = 0 THEN 1 ELSE 0]
    BY DEF Advance
  <2> HIDE DEF n, i
  <2>4. (i + 1) % Width = 0 <=> i + 1 = Width * n
    <3>1. Width \in Nat \ {0} /\ n \in Int /\ i \in Int /\ Width * (n - 1) <= i /\ i < Width * n
      BY <2>1, ShellSizes
    <3> QED BY ONLY <3>1, LineEnd, Zenon
  <2>5. /\ q.index = i + 1 /\ q.next_line \in {n, n + 1}
        /\ q.next_line = n + 1 <=> i + 1 = Width * n
        /\ q = [index |-> q.index, next_line |-> q.next_line]
    BY <2>1, <2>3, <2>4, ShellSizes
  <2> HIDE DEF q
  <2> DEFINE m == q.next_line
  <2>6. /\ m \in 1 .. Height + 1 /\ q.index \in Int
        /\ Width * (m - 1) <= q.index /\ q.index < Width * m
    <3>1. /\ Width * (n + 1) = Width * n + Width /\ Width * n \in Int
          /\ Width * (n - 1) \in Int
      BY <2>1, Rows1, ShellSizes
    <3>2. CASE m = n
      BY <2>1, <2>5, <3>1, <3>2, ShellSizes
    <3>3. CASE m = n + 1
      <4>1. m - 1 = n
        BY <2>1, <3>3
      <4> QED BY <2>1, <2>5, <3>1, <3>3, <4>1, ShellSizes
    <3> QED BY <2>5, <3>2, <3>3
  <2>7. CASE Full(q)
    <3>1. m >= 2 /\ m - 1 \in 1 .. Height
      BY <2>6, <2>7, ShellSizes DEF Full
    <3>2. /\ Width * (m - 1) = Width * m - Width /\ Width * m \in Int
          /\ Width * (m - 1 - 1) = Width * m - Width - Width
      <4>1. m \in Int /\ m - 1 - 1 = m - 2 /\ Width \in Nat
        BY <2>6, ShellSizes
      <4> HIDE DEF m
      <4> QED BY <4>1, Rows1
    <3>3. Width * 1 <= Width * (m - 1)
      <4>1. m - 1 \in Int /\ 1 <= m - 1
        BY <2>6, <3>1
      <4> QED BY <4>1, TimesGrows, ShellSizes
    <3>4. Scroll(q) = [index |-> q.index - Width, next_line |-> m - 1]
      BY <2>6, <3>2, <3>3, ShellSizes DEF Scroll
    <3> QED BY <2>2, <2>6, <2>7, <3>1, <3>2, <3>4, ShellSizes DEF InScreen
  <2>8. CASE ~Full(q)
    <3>1. m \in 1 .. Height
      BY <2>6, <2>8, ShellSizes DEF Full
    <3> QED BY <2>2, <2>5, <2>6, <2>8, <3>1 DEF InScreen
  <2> QED BY <2>7, <2>8
<1> QED BY <1>1, <1>2

LEMMA PlaceInvariant == Spec => []InScreen(at)
<1>1. Init => InScreen(at)
  <2>1. InScreen(Start)
    BY ShellSizes DEF InScreen, Start
  <2> QED BY <2>1, PrintInScreen, NewLineInScreen DEF Init
<1>2. InScreen(at) /\ [Next]_vars => InScreen(at)'
  <2> SUFFICES ASSUME InScreen(at), [Next]_vars PROVE InScreen(at')
    OBVIOUS
  <2>1. [AtSteps]_at
    BY ShellSteps
  <2> QED BY <2>1, PrintInScreen, NewLineInScreen DEF AtSteps, AtStep
<1> QED BY <1>1, <1>2, PTL DEF Spec

\* The kernel prints inside the screen, and on the line before next_line, however its
\* characters and new lines follow each other.
THEOREM Index_In_Screen == Spec => []IndexInScreen
<1>1. InScreen(at) => IndexInScreen
  BY DEF InScreen, IndexInScreen
<1> QED BY <1>1, PlaceInvariant, PTL

-----------------------------------------------------------------------------
(* What the calls of print_screen leave on the screen.                     *)

Place(column, line) == Width * line + IF column > Width THEN Width ELSE column

PlaceOf(call) == Place(call[1], call[2])

\* u is v after the first n calls of w: a cell has the character of the last one there.
Wrote(u, v, w, n) ==
  \A m \in Cells :
    \/ /\ u[m] = v[m]
       /\ \A k \in 1 .. n : PlaceOf(w[k]) # m
    \/ \E k \in 1 .. n : /\ PlaceOf(w[k]) = m /\ u[m] = w[k][3]
                         /\ \A l \in k + 1 .. n : PlaceOf(w[l]) # m

Screens(G) == [Cells -> G]
Calls(G)   == Seq(Nat \X Nat \X G)

LEMMA WriteCharIs ==
  ASSUME NEW G, NEW u \in Screens(G), NEW column, NEW line, NEW c \in G
  PROVE  /\ WriteChar(u, column, line, c) \in Screens(G)
         /\ \A m \in Cells : WriteChar(u, column, line, c)[m] =
                               IF Place(column, line) = m THEN c ELSE u[m]
BY DEF WriteChar, Place, Screens

LEMMA OneMore ==
  ASSUME NEW G, NEW v, NEW w \in Calls(G), NEW n \in 0 .. Len(w) - 1,
         NEW u \in Screens(G), Wrote(u, v, w, n),
         NEW t, t = WriteChar(u, w[n + 1][1], w[n + 1][2], w[n + 1][3])
  PROVE  Wrote(t, v, w, n + 1) /\ t \in Screens(G)
<1>1. w[n + 1] \in Nat \X Nat \X G
  BY DEF Calls
<1>2. /\ t \in Screens(G)
      /\ \A m \in Cells : t[m] = IF PlaceOf(w[n + 1]) = m THEN w[n + 1][3] ELSE u[m]
  BY <1>1, WriteCharIs DEF PlaceOf
<1>3. ASSUME NEW m \in Cells
      PROVE  \/ /\ t[m] = v[m]
                /\ \A k \in 1 .. n + 1 : PlaceOf(w[k]) # m
             \/ \E k \in 1 .. n + 1 : /\ PlaceOf(w[k]) = m /\ t[m] = w[k][3]
                                      /\ \A l \in k + 1 .. n + 1 : PlaceOf(w[l]) # m
  <2>1. CASE PlaceOf(w[n + 1]) = m
    <3>1. n + 1 \in 1 .. n + 1 /\ t[m] = w[n + 1][3] /\ (n + 1) + 1 .. n + 1 = {}
      BY <1>2, <2>1
    <3> QED BY <2>1, <3>1
  <2>2. CASE PlaceOf(w[n + 1]) # m
    <3>1. t[m] = u[m]
      BY <1>2, <2>2
    <3>2. CASE u[m] = v[m] /\ \A k \in 1 .. n : PlaceOf(w[k]) # m
      <4>1. \A k \in 1 .. n + 1 : k \in 1 .. n \/ k = n + 1
        OBVIOUS
      <4> QED BY <2>2, <3>1, <3>2, <4>1
    <3>3. ASSUME NEW k \in 1 .. n, PlaceOf(w[k]) = m, u[m] = w[k][3],
                 \A l \in k + 1 .. n : PlaceOf(w[l]) # m
          PROVE  \E i \in 1 .. n + 1 : /\ PlaceOf(w[i]) = m /\ t[m] = w[i][3]
                                       /\ \A l \in i + 1 .. n + 1 : PlaceOf(w[l]) # m
      <4>1. k \in 1 .. n + 1 /\ \A l \in k + 1 .. n + 1 : l \in k + 1 .. n \/ l = n + 1
        OBVIOUS
      <4>2. \A l \in k + 1 .. n + 1 : PlaceOf(w[l]) # m
        BY <2>2, <3>3, <4>1
      <4> QED BY <3>1, <3>3, <4>1, <4>2
    <3> QED BY <3>2, <3>3 DEF Wrote
  <2> QED BY <2>1, <2>2
<1> QED BY <1>2, <1>3 DEF Wrote

LEMMA WriteAllIs ==
  ASSUME NEW G, NEW v \in Screens(G), NEW w \in Calls(G)
  PROVE  WriteAll(v, w) \in Screens(G) /\ Wrote(WriteAll(v, w), v, w, Len(w))
<1> DEFINE n == Len(w)
           F == [p \in (1 .. n) \X Screens(G) |->
                   WriteChar(p[2], w[p[1]][1], w[p[1]][2], w[p[1]][3])]
           screen == CHOOSE g : g = [k \in 0 .. n |->
                       IF k = 0 THEN v ELSE WriteChar(g[k - 1], w[k][1], w[k][2], w[k][3])]
<1>1. n \in Nat
  BY DEF Calls
<1>2. ASSUME NEW k \in 1 .. n, NEW u \in Screens(G)
      PROVE  /\ F[<<k, u>>] = WriteChar(u, w[k][1], w[k][2], w[k][3])
             /\ F[<<k, u>>] \in Screens(G)
  <2>1. F[<<k, u>>] = WriteChar(u, w[k][1], w[k][2], w[k][3])
    OBVIOUS
  <2>2. w[k] \in Nat \X Nat \X G
    BY DEF Calls
  <2> HIDE DEF F
  <2> QED BY <2>1, <2>2, WriteCharIs
<1>3. PICK g \in [0 .. n -> Screens(G)] :
        g[0] = v /\ \A k \in 1 .. n : g[k] = F[<<k, g[k - 1]>>]
  <2>1. Loops(Screens(G), n, F)
    BY <1>2 DEF Loops
  <2> HIDE DEF F, n, screen
  <2> QED BY <1>1, <2>1, LoopExists
<1>4. g = [k \in 0 .. n |->
             IF k = 0 THEN v ELSE WriteChar(g[k - 1], w[k][1], w[k][2], w[k][3])]
  <2> HIDE DEF F, n
  <2>1. ASSUME NEW k \in 0 .. n, k # 0
        PROVE  F[<<k, g[k - 1]>>] = WriteChar(g[k - 1], w[k][1], w[k][2], w[k][3])
    <3>1. k \in 1 .. n /\ g[k - 1] \in Screens(G)
      BY <1>1, <2>1
    <3> QED BY <1>2, <3>1
  <2>2. g[0] = v /\ \A k \in 0 .. n : k # 0 => k \in 1 .. n
    BY <1>1, <1>3
  <2> QED BY <1>3, <2>1, <2>2
<1>5. screen = [k \in 0 .. n |->
             IF k = 0 THEN v ELSE WriteChar(screen[k - 1], w[k][1], w[k][2], w[k][3])]
  <2> HIDE DEF n
  <2> QED BY <1>4
<1>6. WriteAll(v, w) = screen[n]
  BY DEF WriteAll
<1> HIDE DEF screen, F, n
<1> DEFINE Good == {k \in 0 .. n : screen[k] \in Screens(G) /\ Wrote(screen[k], v, w, k)}
<1>7. 0 \in Good
  <2>1. screen[0] = v
    BY <1>1, <1>5
  <2> QED BY <1>1, <2>1 DEF Wrote
<1>8. ASSUME NEW k \in 0 .. n - 1, k \in Good PROVE k + 1 \in Good
  <2>1. k + 1 \in 0 .. n /\ k + 1 # 0 /\ (k + 1) - 1 = k
    BY <1>1
  <2>2. screen[k + 1] = WriteChar(screen[k], w[k + 1][1], w[k + 1][2], w[k + 1][3])
    BY <1>5, <2>1
  <2>3. screen[k] \in Screens(G) /\ Wrote(screen[k], v, w, k)
    BY <1>8
  <2>4. k \in 0 .. Len(w) - 1
    BY DEF n
  <2> QED BY <2>1, <2>2, <2>3, <2>4, OneMore
<1>9. n \in Good
  <2> HIDE DEF Good
  <2>1. 0 .. n \subseteq Good
    BY <1>1, <1>7, <1>8, BoundedInduction
  <2> QED BY <1>1, <2>1
<1> QED BY <1>6, <1>9 DEF n

-----------------------------------------------------------------------------
(* The lines of the ring on the screen.                                    *)

\* Beyond n, numbers are back at 0.
LEMMA Wraps ==
  ASSUME NEW n \in Nat \ {0}, NEW a \in 0 .. 2 * n - 1
  PROVE  a % n = IF a < n THEN a ELSE a - n
<1>1. CASE a < n
  <2>1. a \in 0 .. n - 1 /\ n * 0 + a = a
    BY <1>1
  <2>2. (n * 0 + a) % n = a
    BY <2>1, QuotientUnique
  <2> QED BY <1>1, <2>1, <2>2
<1>2. CASE ~(a < n)
  <2>1. a - n \in 0 .. n - 1 /\ n * 1 + (a - n) = a
    BY <1>2
  <2>2. (n * 1 + (a - n)) % n = a - n
    BY <2>1, QuotientUnique
  <2> QED BY <1>2, <2>1, <2>2
<1> QED BY <1>1, <1>2

\* The line of bufs that is in line r of the screen.
Shows(r, top) == IF r + top + 1 < Rows THEN r + top + 1 ELSE r + top + 1 - Rows

LEMMA ShowsIs ==
  ASSUME NEW r \in Lines, NEW top \in Lines
  PROVE  Shows(r, top) \in Lines /\ (r + top + 1) % Rows = Shows(r, top)
<1> DEFINE a == r + top + 1
<1>1. a \in 0 .. 2 * Rows - 1 /\ Rows \in Nat \ {0}
  BY ShellSizes DEF Lines
<1>2. Shows(r, top) = IF a < Rows THEN a ELSE a - Rows
  BY ShellSizes DEF Shows, Lines
<1>3. (r + top + 1) % Rows = a % Rows
  OBVIOUS
<1> HIDE DEF a
<1>4. a % Rows = IF a < Rows THEN a ELSE a - Rows
  BY <1>1, Wraps
<1>5. Shows(r, top) \in Lines
  BY <1>1, <1>2 DEF Lines
<1>6. (r + top + 1) % Rows = Shows(r, top)
  BY <1>2, <1>3, <1>4, Zenon
<1> QED BY <1>5, <1>6

LEMMA ScreenLineIs ==
  ASSUME NEW i \in Lines, NEW top \in Lines
  PROVE  /\ ScreenLine(i, top) \in Lines
         /\ \A r \in Lines : ScreenLine(i, top) = r <=> i = Shows(r, top)
BY ShellSizes DEF Lines, ScreenLine, Shows

\* The cell of the screen in a line and a column.
LEMMA CellIn ==
  ASSUME NEW r \in Lines, NEW c \in 0 .. Width
  PROVE  /\ Width * r + c \in Cells /\ Width * r \in Nat
         /\ Place(c, r) = Width * r + c
<1>1. Width * r \in Nat /\ Width * (r + 1) = Width * r + Width
  BY ShellSizes DEF Lines
<1>2. Width * (r + 1) <= Width * (Height - 1)
  <2>1. r + 1 \in Int /\ Height - 1 \in Int /\ r + 1 <= Height - 1 /\ Width \in Nat
    BY ShellSizes DEF Lines
  <2> QED BY <2>1, TimesGrows
<1>3. Width * (Height - 1) = Width * Height - Width /\ Width * Height \in Nat
  BY ShellSizes
<1> QED BY <1>1, <1>2, <1>3, ShellSizes DEF Cells, Place

\* Two places that are the same cell: the same one, or a last column and the next line.
LEMMA SameCell ==
  ASSUME NEW r \in Lines, NEW c \in 0 .. Width - 1, NEW q \in Lines, NEW d \in 0 .. Width
  PROVE  Width * q + d = Width * r + c <=> \/ q = r /\ d = c
                                           \/ q + 1 = r /\ d = Width /\ c = 0
<1>1. CASE d < Width
  <2>1. d \in 0 .. Width - 1 /\ q \in Int /\ r \in Int
    BY <1>1, ShellSizes DEF Lines
  <2>2. (Width * q + d) \div Width = q /\ (Width * q + d) % Width = d
    BY <2>1, QuotientUnique, ShellSizes
  <2>3. (Width * r + c) \div Width = r /\ (Width * r + c) % Width = c
    BY <2>1, QuotientUnique, ShellSizes
  <2> QED BY <1>1, <2>2, <2>3, ShellSizes
<1>2. CASE d = Width
  <2>1. q + 1 \in Int /\ r \in Int /\ 0 \in 0 .. Width - 1 /\ q \in Int
    BY ShellSizes DEF Lines
  <2>2. Width * (q + 1) + 0 = Width * q + d
    BY <1>2, ShellSizes DEF Lines
  <2>3. (Width * (q + 1) + 0) \div Width = q + 1 /\ (Width * (q + 1) + 0) % Width = 0
    BY <2>1, QuotientUnique, ShellSizes
  <2>4. (Width * r + c) \div Width = r /\ (Width * r + c) % Width = c
    BY <2>1, QuotientUnique, ShellSizes
  <2>5. q + 1 = r /\ c = 0 => Width * q + d = Width * r + c
    BY <2>2
  <2>6. Width * q + d = Width * r + c => q + 1 = r /\ c = 0
    BY <2>2, <2>3, <2>4
  <2>7. ~(q = r /\ d = c)
    BY <1>2, ShellSizes
  <2> QED BY <1>2, <2>5, <2>6, <2>7
<1> QED BY <1>1, <1>2, ShellSizes

\* The number of the call of print_lines for column j of line i.
Number(i, j) == (Width + 1) * i + j + 1

LEMMA NumberIs ==
  ASSUME NEW i \in Lines, NEW j \in 0 .. Width
  PROVE  /\ Number(i, j) \in 1 .. Rows * (Width + 1)
         /\ \A b, top : PrintCall(b, top, Number(i, j)) = <<j, ScreenLine(i, top), b[i][j]>>
<1> DEFINE n == Number(i, j)
<1>1. i \in 0 .. Rows - 1 /\ i \in Int /\ j \in 0 .. (Width + 1) - 1 /\ Width + 1 \in Nat \ {0}
  BY ShellSizes DEF Lines
<1>2. (Width + 1) * i + j \in Nat /\ (Width + 1) * i + j < (Width + 1) * Rows
  BY <1>1, BelowProduct, ShellSizes
<1>3. (Width + 1) * Rows = Rows * (Width + 1) /\ Rows * (Width + 1) \in Nat
  BY ShellSizes
<1>4. n - 1 = (Width + 1) * i + j
  BY <1>1, <1>2 DEF Number
<1>5. (n - 1) \div (Width + 1) = i /\ (n - 1) % (Width + 1) = j
  <2>1. /\ ((Width + 1) * i + j) \div (Width + 1) = i
        /\ ((Width + 1) * i + j) % (Width + 1) = j
    BY <1>1, QuotientUnique
  <2> HIDE DEF n
  <2> QED BY <1>4, <2>1
<1>6. n \in 1 .. Rows * (Width + 1)
  BY <1>2, <1>3 DEF Number
<1> HIDE DEF n
<1>7. \A b, top : PrintCall(b, top, n) = <<j, ScreenLine(i, top), b[i][j]>>
  BY <1>5 DEF PrintCall
<1> QED BY <1>6, <1>7 DEF n

LEMMA NumberOf ==
  ASSUME NEW k \in 1 .. Rows * (Width + 1)
  PROVE  \E i \in Lines, j \in 0 .. Width : k = Number(i, j)
<1> DEFINE i == (k - 1) \div (Width + 1)
           j == (k - 1) % (Width + 1)
<1>1. k - 1 \in Nat /\ Width + 1 \in Nat \ {0} /\ k - 1 < (Width + 1) * Rows /\ k - 1 \in Int
  <2>1. (Width + 1) * Rows = Rows * (Width + 1) /\ Rows * (Width + 1) \in Nat
    BY ShellSizes
  <2> QED BY <2>1, ShellSizes
<1>2. i \in 0 .. Rows - 1
  BY <1>1, QuotientBelow, ShellSizes
<1>3. j \in 0 .. (Width + 1) - 1 /\ k - 1 = (Width + 1) * i + j
  BY <1>1, Quotient
<1> HIDE DEF i, j
<1>4. (Width + 1) * i \in Int
  BY <1>1, <1>2
<1>5. k = Number(i, j) /\ i \in Lines /\ j \in 0 .. Width
  BY <1>2, <1>3, <1>4, ShellSizes DEF Number, Lines
<1> QED BY <1>5

\* A line is printed after the one before it.
LEMMA NumberGrows ==
  ASSUME NEW i \in Lines, NEW j \in 0 .. Width, NEW k \in Lines, NEW l \in 0 .. Width, i < k
  PROVE  Number(i, j) + 1 <= Number(k, l) /\ Number(i, j) \in Nat /\ Number(k, l) \in Nat
<1>1. i \in Int /\ k \in Int /\ i + 1 \in Int /\ i + 1 <= k /\ Width + 1 \in Nat
  BY ShellSizes DEF Lines
<1>2. (Width + 1) * (i + 1) <= (Width + 1) * k
  BY <1>1, TimesGrows
<1>3. /\ (Width + 1) * (i + 1) = (Width + 1) * i + (Width + 1)
      /\ (Width + 1) * i \in Nat /\ (Width + 1) * k \in Nat
  <2>1. i \in Nat /\ k \in Nat
    BY DEF Lines
  <2> QED BY <1>1, <2>1, Distributes
<1> QED BY <1>1, <1>2, <1>3, ShellSizes DEF Number

\* What the lines b are drawn as, with the prompt in line top.
Drawn(b, top, r, c) ==
  IF c = 0 /\ r = Rows - 1 - top /\ r > 0 THEN b[Rows - 1][Width] ELSE b[Shows(r, top)][c]

LEMMA PrintedLines ==
  ASSUME NEW G, NEW v \in Screens(G), NEW b \in [Lines -> [Columns -> G]], NEW top \in Lines
  PROVE  /\ print_lines(v, b, top) \in Screens(G)
         /\ \A r \in Lines, c \in 0 .. Width - 1 :
              print_lines(v, b, top)[Width * r + c] = Drawn(b, top, r, c)
<1> DEFINE N == Rows * (Width + 1)
           w == [k \in 1 .. N |-> PrintCall(b, top, k)]
           u == print_lines(v, b, top)
<1>1. N \in Nat
  BY ShellSizes
<1>2. ASSUME NEW i \in Lines, NEW j \in 0 .. Width
      PROVE  /\ Number(i, j) \in 1 .. N
             /\ w[Number(i, j)] = <<j, ScreenLine(i, top), b[i][j]>>
             /\ w[Number(i, j)] \in Nat \X Nat \X G
             /\ PlaceOf(w[Number(i, j)]) = Width * ScreenLine(i, top) + j
  <2>1. Number(i, j) \in 1 .. N /\ w[Number(i, j)] = <<j, ScreenLine(i, top), b[i][j]>>
    BY NumberIs
  <2>2. j \in Columns /\ j \in Nat /\ b[i][j] \in G
    BY ShellSizes DEF Columns
  <2>3. ScreenLine(i, top) \in Lines /\ ScreenLine(i, top) \in Nat
    BY ScreenLineIs DEF Lines
  <2>4. Place(j, ScreenLine(i, top)) = Width * ScreenLine(i, top) + j
    BY <2>3, CellIn
  <2> HIDE DEF w
  <2>5. w[Number(i, j)][1] = j /\ w[Number(i, j)][2] = ScreenLine(i, top)
    BY <2>1
  <2> QED BY <2>1, <2>2, <2>3, <2>4, <2>5 DEF PlaceOf
<1> HIDE DEF N
<1>3. w \in Calls(G) /\ Len(w) = N
  <2>1. ASSUME NEW k \in 1 .. N PROVE w[k] \in Nat \X Nat \X G
    <3>1. PICK i \in Lines, j \in 0 .. Width : k = Number(i, j)
      BY NumberOf DEF N
    <3> HIDE DEF w
    <3> QED BY <1>2, <3>1
  <2>2. w = [k \in 1 .. N |-> w[k]]
    OBVIOUS
  <2> HIDE DEF w
  <2>3. w \in [1 .. N -> Nat \X Nat \X G]
    BY <2>1, <2>2
  <2> QED BY <1>1, <2>3 DEF Calls
<1>4. u = WriteAll(v, w)
  BY DEF print_lines, N
<1> HIDE DEF w, u
<1>5. u \in Screens(G) /\ Wrote(u, v, w, N)
  BY <1>3, <1>4, WriteAllIs
<1>6. ASSUME NEW r \in Lines, NEW c \in 0 .. Width - 1
      PROVE  u[Width * r + c] = Drawn(b, top, r, c)
  <2> DEFINE m == Width * r + c
             i0 == Shows(r, top)
             j0 == Number(i0, c)
  <2>1. m \in Cells /\ c \in 0 .. Width
    <3>1. c \in 0 .. Width
      BY ShellSizes
    <3> QED BY <3>1, CellIn
  <2>2. i0 \in Lines /\ ScreenLine(i0, top) = r
    BY ShowsIs, ScreenLineIs
  <2>3. j0 \in 1 .. N /\ PlaceOf(w[j0]) = m /\ w[j0][3] = b[i0][c]
    <3> HIDE DEF i0
    <3> QED BY <1>2, <2>1, <2>2
  <2> HIDE DEF m
  <2>4. PICK k \in 1 .. N : /\ PlaceOf(w[k]) = m /\ u[m] = w[k][3]
                            /\ \A l \in k + 1 .. N : PlaceOf(w[l]) # m
    <3> HIDE DEF j0
    <3> QED BY <1>5, <2>1, <2>3 DEF Wrote
  <2>5. PICK i \in Lines, j \in 0 .. Width : k = Number(i, j)
    BY NumberOf DEF N
  <2>6. u[m] = b[i][j] /\ Width * ScreenLine(i, top) + j = m
    BY <1>2, <2>4, <2>5
  <2>7. \/ ScreenLine(i, top) = r /\ j = c
        \/ ScreenLine(i, top) + 1 = r /\ j = Width /\ c = 0
    BY <2>6, SameCell, ScreenLineIs DEF m
  <2>8. CASE ScreenLine(i, top) = r /\ j = c
    <3>1. i = i0
      BY <2>8, ScreenLineIs
    <3>2. ~(c = 0 /\ r = Rows - 1 - top /\ r > 0)
      <4> SUFFICES ASSUME c = 0, r = Rows - 1 - top, r > 0 PROVE FALSE
        OBVIOUS
      <4>1. i = 0 /\ Rows - 1 \in Lines /\ 0 \in Lines /\ 0 < Rows - 1
        BY <3>1, ShellSizes DEF Shows, Lines
      <4>2. ScreenLine(Rows - 1, top) + 1 = r /\ ScreenLine(Rows - 1, top) \in Lines
        BY ShellSizes DEF ScreenLine, Lines
      <4>3. Width \in 0 .. Width
        BY ShellSizes
      <4>4. PlaceOf(w[Number(Rows - 1, Width)]) = m /\ Number(Rows - 1, Width) \in 1 .. N
        <5>1. Width * ScreenLine(Rows - 1, top) + Width = m
          <6>1. Width * r + c = m /\ r = Rows - 1 - top
            BY DEF m
          <6>2. \A q \in Lines : q + 1 = r => Width * q + Width = Width * r + c
            BY <4>3, SameCell
          <6> QED BY <4>2, <6>1, <6>2
        <5> QED BY <1>2, <4>1, <4>3, <5>1
      <4>5. Number(Rows - 1, Width) \in k + 1 .. N
        <5> DEFINE l == Number(Rows - 1, Width)
        <5>1. Number(i, j) + 1 <= l /\ Number(i, j) \in Nat /\ l \in Nat
          BY <4>1, <4>3, NumberGrows
        <5> HIDE DEF l
        <5> QED BY <1>1, <2>5, <4>4, <5>1 DEF l
      <4> QED BY <2>4, <4>4, <4>5
    <3> QED BY <2>6, <2>8, <3>1, <3>2 DEF Drawn, m
  <2>9. CASE ScreenLine(i, top) + 1 = r /\ j = Width /\ c = 0
    <3>1. CASE r = Rows - 1 - top
      <4>1. i = Rows - 1 /\ r > 0
        BY <2>9, <3>1, ShellSizes DEF ScreenLine, Lines
      <4> QED BY <2>6, <2>9, <3>1, <4>1 DEF Drawn, m
    <3>2. CASE r # Rows - 1 - top
      <4>1. i < i0
        BY <2>9, <3>2, ShellSizes DEF ScreenLine, Lines, Shows
      <4>2. j0 \in k + 1 .. N
        <5>1. Number(i, j) + 1 <= Number(i0, c) /\ Number(i, j) \in Nat
          <6> HIDE DEF i0
          <6> QED BY <2>1, <2>2, <4>1, NumberGrows
        <5> QED BY <1>1, <2>3, <2>5, <5>1
      <4> QED BY <2>3, <2>4, <4>2
    <3> QED BY <3>1, <3>2
  <2> QED BY <2>7, <2>8, <2>9 DEF m
<1> QED BY <1>5, <1>6 DEF u

LEMMA Redrawn ==
  ASSUME NEW G, NEW v \in Screens(G), NEW line \in [Columns -> G], NEW n \in 1 .. Width
  PROVE  /\ RedrawFrom(v, n, line) \in Screens(G)
         /\ \A r \in Lines, c \in 0 .. Width - 1 :
              RedrawFrom(v, n, line)[Width * r + c] =
                IF r = Rows - 1 /\ c >= n THEN line[c] ELSE v[Width * r + c]
<1> DEFINE N == Width + 1 - n
           w == [k \in 1 .. N |-> <<n + k - 1, Rows - 1, line[n + k - 1]>>]
           u == RedrawFrom(v, n, line)
<1>1. N \in Nat /\ Rows - 1 \in Lines /\ Rows - 1 \in Nat
  BY ShellSizes DEF Lines
<1>2. ASSUME NEW k \in 1 .. N
      PROVE  /\ w[k] \in Nat \X Nat \X G /\ w[k][3] = line[n + k - 1]
             /\ n + k - 1 \in n .. Width
             /\ PlaceOf(w[k]) = Width * (Rows - 1) + (n + k - 1)
  <2>1. n + k - 1 \in n .. Width /\ n + k - 1 \in Nat /\ n + k - 1 \in Columns
        /\ n + k - 1 \in 0 .. Width
    BY ShellSizes DEF Columns
  <2>2. w[k] = <<n + k - 1, Rows - 1, line[n + k - 1]>> /\ line[n + k - 1] \in G
    BY <2>1
  <2> HIDE DEF w, N
  <2>3. Place(n + k - 1, Rows - 1) = Width * (Rows - 1) + (n + k - 1)
    BY <1>1, <2>1, CellIn
  <2>4. w[k][1] = n + k - 1 /\ w[k][2] = Rows - 1
    BY <2>2
  <2>5. PlaceOf(w[k]) = Place(n + k - 1, Rows - 1)
    BY <2>4 DEF PlaceOf
  <2> QED BY <1>1, <2>1, <2>2, <2>3, <2>5
<1>3. u = WriteAll(v, w)
  BY DEF RedrawFrom
<1>4. w \in Calls(G) /\ Len(w) = N
  <2>1. w = [k \in 1 .. N |-> w[k]]
    OBVIOUS
  <2> HIDE DEF w, N
  <2>2. w \in [1 .. N -> Nat \X Nat \X G]
    BY <1>2, <2>1
  <2> QED BY <1>1, <2>2 DEF Calls
<1> HIDE DEF w, u
<1>5. u \in Screens(G) /\ Wrote(u, v, w, N)
  <2> HIDE DEF N
  <2> QED BY <1>3, <1>4, WriteAllIs
<1>6. ASSUME NEW r \in Lines, NEW c \in 0 .. Width - 1
      PROVE  u[Width * r + c] = IF r = Rows - 1 /\ c >= n THEN line[c] ELSE v[Width * r + c]
  <2> DEFINE m == Width * r + c
  <2>1. m \in Cells
    <3>1. c \in 0 .. Width
      BY ShellSizes
    <3> QED BY <3>1, CellIn
  <2>2. ASSUME NEW k \in 1 .. N
        PROVE  PlaceOf(w[k]) = m <=> r = Rows - 1 /\ n + k - 1 = c
    <3>1. n + k - 1 \in n .. Width /\ n + k - 1 \in 0 .. Width
      BY <1>2
    <3>2. PlaceOf(w[k]) = Width * (Rows - 1) + (n + k - 1)
      BY <1>2
    <3>3. (Rows - 1) + 1 # r
      BY ShellSizes DEF Lines
    <3>4. Width * (Rows - 1) + (n + k - 1) = m <=>
            \/ Rows - 1 = r /\ n + k - 1 = c
            \/ (Rows - 1) + 1 = r /\ n + k - 1 = Width /\ c = 0
      BY <1>1, <3>1, SameCell
    <3> QED BY <3>2, <3>3, <3>4
  <2> HIDE DEF m
  <2>3. CASE r = Rows - 1 /\ c >= n
    <3>1. c - n + 1 \in 1 .. N /\ n + (c - n + 1) - 1 = c
      BY <2>3, ShellSizes
    <3>2. PlaceOf(w[c - n + 1]) = m
      BY <2>2, <2>3, <3>1
    <3>3. PICK k \in 1 .. N : PlaceOf(w[k]) = m /\ u[m] = w[k][3]
      <4> HIDE DEF N
      <4> QED BY <1>5, <2>1, <3>1, <3>2 DEF Wrote
    <3>4. u[m] = line[c]
      BY <1>2, <2>2, <3>3
    <3> QED BY <2>3, <3>4 DEF m
  <2>4. CASE ~(r = Rows - 1 /\ c >= n)
    <3>1. \A k \in 1 .. N : PlaceOf(w[k]) # m
      <4> SUFFICES ASSUME NEW k \in 1 .. N, r = Rows - 1, n + k - 1 = c PROVE FALSE
        BY <2>2
      <4> QED BY <2>4
    <3>2. u[m] = v[m]
      <4> HIDE DEF N
      <4> QED BY <1>5, <2>1, <3>1 DEF Wrote
    <3> QED BY <2>4, <3>2 DEF m
  <2> QED BY <2>3, <2>4
<1> QED BY <1>5, <1>6 DEF u

-----------------------------------------------------------------------------
(* The ring of lines.                                                      *)

Row   == [Columns -> Glyphs]
Rings == [x : Lines, bufs : [Lines -> Row]]

\* The k-th line of a ring, the oldest first.
LineAt(ring, k) == ring.bufs[Shows(k - 1, ring.x)]

LEMMA LineNumber ==
  ASSUME NEW top \in Lines, NEW k \in 1 .. Rows
  PROVE  (top + k) % Rows = Shows(k - 1, top) /\ k - 1 \in Lines /\ Shows(k - 1, top) \in Lines
<1>1. k - 1 \in Lines
  BY ShellSizes DEF Lines
<1>2. ((k - 1) + top + 1) % Rows = Shows(k - 1, top) /\ Shows(k - 1, top) \in Lines
  BY <1>1, ShowsIs
<1>3. (k - 1) + top + 1 = top + k
  BY ShellSizes DEF Lines
<1>4. ((k - 1) + top + 1) % Rows = (top + k) % Rows
  BY <1>3, Zenon
<1> QED BY <1>1, <1>2, <1>4, Zenon

\* A line comes in the place of the oldest one.
LEMMA NewLineAt ==
  ASSUME NEW ring \in Rings, NEW line \in Row, NEW top, top = (ring.x + 1) % Rows,
         NEW next, next = [x |-> top, bufs |-> [ring.bufs EXCEPT ![top] = line]]
  PROVE  /\ next \in Rings
         /\ \A k \in 1 .. Rows :
              LineAt(next, k) = IF k = Rows THEN line ELSE LineAt(ring, k + 1)
<1>1. ring.x \in Lines /\ ring.bufs \in [Lines -> Row]
  BY DEF Rings
<1>2. top = Shows(0, ring.x) /\ top \in Lines
  <2>1. 1 \in 1 .. Rows /\ 1 - 1 = 0
    BY ShellSizes
  <2>2. (ring.x + 1) % Rows = Shows(1 - 1, ring.x) /\ Shows(1 - 1, ring.x) \in Lines
    BY <1>1, <2>1, LineNumber
  <2> QED BY <2>1, <2>2
<1>3. next.x = top /\ next.bufs = [ring.bufs EXCEPT ![top] = line]
  OBVIOUS
<1>4. next \in Rings
  BY <1>1, <1>2 DEF Rings
<1>5. ASSUME NEW k \in 1 .. Rows
      PROVE  LineAt(next, k) = IF k = Rows THEN line ELSE LineAt(ring, k + 1)
  <2>1. CASE k = Rows
    <3>1. Shows(k - 1, top) = top
      BY <1>2, <2>1, ShellSizes DEF Shows, Lines
    <3> QED BY <1>1, <1>2, <1>3, <2>1, <3>1 DEF LineAt
  <2>2. CASE k # Rows
    <3>1. /\ Shows(k - 1, top) = Shows((k + 1) - 1, ring.x)
          /\ Shows(k - 1, top) # top
          /\ Shows(k - 1, top) \in Lines
      <4> DEFINE z == ring.x
      <4>1. z \in 0 .. Rows - 1 /\ k \in 1 .. Rows - 1 /\ Rows \in Nat
        BY <1>1, <2>2, ShellSizes DEF Lines
      <4>2. top = IF z + 1 < Rows THEN z + 1 ELSE 0
        BY <1>2, <4>1 DEF Shows
      <4> HIDE DEF z
      <4>3. Shows((k + 1) - 1, z) = IF k + z + 1 < Rows THEN k + z + 1 ELSE k + z + 1 - Rows
        BY <4>1 DEF Shows
      <4>4. CASE z + 1 < Rows
        <5>1. top = z + 1
          BY <4>2, <4>4
        <5>2. Shows(k - 1, top) = IF k + z + 1 < Rows THEN k + z + 1 ELSE k + z + 1 - Rows
          BY <4>1, <5>1 DEF Shows
        <5> QED BY <4>1, <4>3, <5>1, <5>2 DEF z, Lines
      <4>5. CASE ~(z + 1 < Rows)
        <5>1. top = 0 /\ z = Rows - 1
          BY <4>1, <4>2, <4>5
        <5>2. Shows(k - 1, top) = k
          BY <4>1, <5>1 DEF Shows
        <5>3. Shows((k + 1) - 1, z) = k
          BY <4>1, <4>3, <5>1
        <5> QED BY <4>1, <5>1, <5>2, <5>3 DEF z, Lines
      <4> QED BY <4>4, <4>5
    <3> QED BY <1>1, <1>2, <1>3, <2>2, <3>1 DEF LineAt
  <2> QED BY <2>1, <2>2
<1> QED BY <1>4, <1>5

\* A ring that follows first by the lines of new up to the n-th.
Follows(ring, first, new, n) ==
  \A k \in 1 .. Rows :
    LineAt(ring, k) = IF n + k <= Rows THEN LineAt(first, n + k) ELSE new[n + k - Rows]

Here == [x |-> x, bufs |-> bufs]

LEMMA NewLinesAre ==
  ASSUME x \in Lines, bufs \in [Lines -> Row], NEW new \in Seq(Row)
  PROVE  NewLines(new) \in Rings /\ Follows(NewLines(new), Here, new, Len(new))
<1> DEFINE N == Len(new)
           F == [p \in (1 .. N) \X Rings |->
                   LET top == (p[2].x + 1) % Rows
                   IN [x |-> top, bufs |-> [p[2].bufs EXCEPT ![top] = new[p[1]]]]]
           ring == CHOOSE g : g = [n \in 0 .. N |->
                     IF n = 0 THEN [x |-> x, bufs |-> bufs]
                     ELSE LET top == (g[n - 1].x + 1) % Rows
                          IN [x |-> top, bufs |-> [g[n - 1].bufs EXCEPT ![top] = new[n]]]]
<1>1. N \in Nat
  OBVIOUS
<1>2. ASSUME NEW n \in 1 .. N, NEW r \in Rings
      PROVE  /\ F[<<n, r>>] = LET top == (r.x + 1) % Rows
                              IN [x |-> top, bufs |-> [r.bufs EXCEPT ![top] = new[n]]]
             /\ F[<<n, r>>] \in Rings
  <2>1. F[<<n, r>>] = LET top == (r.x + 1) % Rows
                      IN [x |-> top, bufs |-> [r.bufs EXCEPT ![top] = new[n]]]
    OBVIOUS
  <2>2. new[n] \in Row
    OBVIOUS
  <2> HIDE DEF F
  <2>3. F[<<n, r>>] \in Rings
    BY <2>1, <2>2, NewLineAt
  <2> QED BY <2>1, <2>3
<1>3. Here \in Rings
  BY DEF Here, Rings
<1>4. PICK g \in [0 .. N -> Rings] : g[0] = Here /\ \A n \in 1 .. N : g[n] = F[<<n, g[n - 1]>>]
  <2>1. Loops(Rings, N, F)
    <3> HIDE DEF F, N
    <3> QED BY <1>2 DEF Loops
  <2> HIDE DEF F, N, ring
  <2>2. ASSUME NEW s \in Rings
        PROVE  \E g \in [0 .. N -> Rings] : g[0] = s /\ \A n \in 1 .. N : g[n] = F[<<n, g[n - 1]>>]
    BY ONLY <1>1, <2>1, LoopExists
  <2> QED BY <1>3, <2>2
<1>5. ASSUME NEW n \in 0 .. N, n # 0
      PROVE  g[n] = LET top == (g[n - 1].x + 1) % Rows
                    IN [x |-> top, bufs |-> [g[n - 1].bufs EXCEPT ![top] = new[n]]]
  <2>1. n \in 1 .. N /\ n - 1 \in 0 .. N
    BY <1>1, <1>5
  <2>2. g[n] = F[<<n, g[n - 1]>>] /\ g[n - 1] \in Rings
    <3> HIDE DEF F, N
    <3> QED BY <1>4, <2>1
  <2> HIDE DEF F, N
  <2> QED BY <1>2, <2>1, <2>2
<1>6. g = [n \in 0 .. N |->
             IF n = 0 THEN [x |-> x, bufs |-> bufs]
             ELSE LET top == (g[n - 1].x + 1) % Rows
                  IN [x |-> top, bufs |-> [g[n - 1].bufs EXCEPT ![top] = new[n]]]]
  <2> HIDE DEF F, N
  <2>1. g[0] = [x |-> x, bufs |-> bufs]
    BY <1>4 DEF Here
  <2> QED BY <1>4, <1>5, <2>1
<1>7. ring = [n \in 0 .. N |->
                IF n = 0 THEN [x |-> x, bufs |-> bufs]
                ELSE LET top == (ring[n - 1].x + 1) % Rows
                     IN [x |-> top, bufs |-> [ring[n - 1].bufs EXCEPT ![top] = new[n]]]]
  <2> HIDE DEF N
  <2> QED BY <1>6
<1>8. NewLines(new) = ring[N]
  BY DEF NewLines
<1> HIDE DEF ring, F, N
<1> DEFINE Good == {n \in 0 .. N : ring[n] \in Rings /\ Follows(ring[n], Here, new, n)}
<1>9. 0 \in Good
  <2>1. ring[0] = Here
    BY <1>1, <1>7 DEF Here
  <2>2. Follows(Here, Here, new, 0)
    BY ShellSizes DEF Follows
  <2> QED BY <1>1, <1>3, <2>1, <2>2
<1>10. ASSUME NEW n \in 0 .. N - 1, n \in Good PROVE n + 1 \in Good
  <2>1. n + 1 \in 0 .. N /\ n + 1 # 0 /\ (n + 1) - 1 = n /\ n + 1 \in 1 .. N
    BY <1>1
  <2>2. ring[n] \in Rings /\ Follows(ring[n], Here, new, n)
    BY <1>10
  <2>3. new[n + 1] \in Row
    BY <2>1 DEF N
  <2>4. ring[n + 1] = LET top == (ring[n].x + 1) % Rows
                      IN [x |-> top, bufs |-> [ring[n].bufs EXCEPT ![top] = new[n + 1]]]
    BY <1>7, <2>1
  <2>5. /\ ring[n + 1] \in Rings
        /\ \A k \in 1 .. Rows :
             LineAt(ring[n + 1], k) = IF k = Rows THEN new[n + 1] ELSE LineAt(ring[n], k + 1)
    BY <2>2, <2>3, <2>4, NewLineAt
  <2>6. ASSUME NEW k \in 1 .. Rows
        PROVE  LineAt(ring[n + 1], k) =
                 IF (n + 1) + k <= Rows THEN LineAt(Here, (n + 1) + k)
                 ELSE new[(n + 1) + k - Rows]
    <3>1. CASE k = Rows
      <4>1. (n + 1) + k - Rows = n + 1 /\ ~((n + 1) + k <= Rows)
        BY <3>1, ShellSizes
      <4> QED BY <2>5, <3>1, <4>1
    <3>2. CASE k # Rows
      <4>1. k + 1 \in 1 .. Rows /\ n + (k + 1) = (n + 1) + k
        BY <3>2, ShellSizes
      <4>2. LineAt(ring[n + 1], k) = LineAt(ring[n], k + 1)
        BY <2>5, <3>2
      <4>3. LineAt(ring[n], k + 1) = IF n + (k + 1) <= Rows THEN LineAt(Here, n + (k + 1))
                                     ELSE new[n + (k + 1) - Rows]
        BY <2>2, <4>1 DEF Follows
      <4>4. n + (k + 1) - Rows = (n + 1) + k - Rows /\ n + (k + 1) = (n + 1) + k
        BY <4>1, ShellSizes
      <4> HIDE DEF N
      <4> QED BY <4>2, <4>3, <4>4
    <3> QED BY <3>1, <3>2
  <2> QED BY <2>1, <2>5, <2>6 DEF Follows
<1>11. N \in Good
  <2> HIDE DEF Good
  <2>1. 0 .. N \subseteq Good
    BY <1>1, <1>9, <1>10, BoundedInduction
  <2> QED BY <1>1, <2>1
<1> QED BY <1>8, <1>11 DEF N

LEMMA WrittenRow == ASSUME NEW n, NEW c \in Glyphs PROVE Written(n, c) \in Row
BY DEF Written, Row, Glyphs

LEMMA OutputRows == empty_line \in Row /\ OutputLines \subseteq Row
<1>1. {"$", "n", "b", Nul} \subseteq Glyphs
  BY DEF Glyphs
<1>2. empty_line \in Row
  BY <1>1, WrittenRow DEF empty_line
<1>3. Listed \in Row
  BY <1>1, <1>2 DEF Listed, Row
<1>4. Written(0, "b") \in Row
  BY <1>1, WrittenRow
<1>5. [j \in Columns |-> IF j > Width THEN Nul ELSE "b"] \in Row
  BY <1>1 DEF Row
<1> QED BY <1>2, <1>3, <1>4, <1>5 DEF OutputLines

\* What a command prints: lines of ls or cat, or nothing.
Prints(out) ==
  \/ out \in BoundedSeq(OutputLines, MaxOutput)
  \/ out \in BoundedSeq({}, MaxOutput)
  \/ out = <<>>

LEMMA PrintedIs ==
  ASSUME NEW out, Prints(out)
  PROVE  /\ out \in Seq(OutputLines) /\ Len(out) \in 0 .. MaxOutput
         /\ Output(out) \in Seq(Row) /\ Len(Output(out)) = Len(out) + 1
         /\ \A k \in 1 .. Len(out) : Output(out)[k] = out[k] /\ out[k] \in OutputLines
         /\ Output(out)[Len(out) + 1] = empty_line
<1>1. MaxOutput \in Nat
  BY ShellAssumption
<1>2. out \in Seq(OutputLines) /\ Len(out) \in 0 .. MaxOutput
  <2>1. CASE out = <<>>
    BY <1>1, <2>1
  <2>2. ASSUME NEW S, S \subseteq OutputLines, out \in BoundedSeq(S, MaxOutput)
        PROVE  out \in Seq(OutputLines) /\ Len(out) \in 0 .. MaxOutput
    <3>1. PICK m \in 0 .. MaxOutput : out \in [1 .. m -> S]
      BY <2>2 DEF BoundedSeq, SeqOf
    <3>2. out \in [1 .. m -> OutputLines]
      BY <2>2, <3>1
    <3> QED BY <1>1, <3>1, <3>2
  <2>3. {} \subseteq OutputLines /\ OutputLines \subseteq OutputLines
    OBVIOUS
  <2> QED BY <2>1, <2>2, <2>3 DEF Prints
<1>3. out \in Seq(Row)
  BY <1>2, OutputRows
<1> QED BY <1>2, <1>3, OutputRows DEF Output

-----------------------------------------------------------------------------
(* The screen shows the ring.                                              *)

ShellTypes ==
  /\ vga_buffer \in Screens(Glyphs)
  /\ x \in Lines /\ y \in 2 .. Width + 1 /\ bufs \in [Lines -> Row]
  /\ pc \in {"loop", "child", "exited"}
  /\ prints \in 0 .. MaxPrints /\ printed \in BOOLEAN

\* The screen v shows the lines b, but for the cursor in column n of the bottom line.
RingShown(v, b, top, n) ==
  \A r \in Lines, c \in 0 .. Width - 1 :
    (r = Rows - 1 /\ c = n) \/ v[Width * r + c] = Drawn(b, top, r, c)

\* A prompt line with the cursor in column n.
PromptLine(line, n) ==
  /\ line[0] = "$" /\ line[1] = Nul
  /\ \A j \in 2 .. n - 1 : line[j] # Nul
  /\ \A j \in n .. Width + 1 : line[j] = Nul

Seen == pc = "loop" /\ ~printed => RingShown(vga_buffer, bufs, x, y)

ScreenInv == ShellTypes /\ Seen /\ PromptLine(bufs[x], y)

LEMMA SeenIs == ASSUME x \in Lines PROVE Seen <=> ScreenIsRing
<1>1. Lines = 0 .. Rows - 1
  BY DEF Lines
<1>2. ASSUME NEW r \in Lines, NEW c \in 0 .. Width - 1
      PROVE  Drawn(bufs, x, r, c) =
               IF c = 0 /\ r = Rows - 1 - x /\ r > 0 THEN bufs[Rows - 1][Width]
               ELSE bufs[(r + x + 1) % Rows][c]
  <2>1. (r + x + 1) % Rows = Shows(r, x)
    BY ShowsIs
  <2>2. bufs[(r + x + 1) % Rows][c] = bufs[Shows(r, x)][c]
    BY <2>1, Zenon
  <2> QED BY <2>2 DEF Drawn
<1> QED BY <1>1, <1>2 DEF Seen, ScreenIsRing, RingShown

LEMMA Bottom ==
  ASSUME NEW r \in Lines, NEW top \in Lines
  PROVE  Rows - 1 \in Lines /\ (Shows(r, top) = top <=> r = Rows - 1)
BY ShellSizes DEF Lines, Shows

\* A character of the bottom line.
LEMMA BottomCell ==
  ASSUME NEW G, NEW v \in Screens(G), NEW n \in 0 .. Width + 1, NEW ch \in G,
         NEW r \in Lines, NEW c \in 0 .. Width - 1
  PROVE  WriteChar(v, n, Rows - 1, ch)[Width * r + c] =
           IF r = Rows - 1 /\ c = n THEN ch ELSE v[Width * r + c]
<1> DEFINE d == IF n > Width THEN Width ELSE n
<1>1. Rows - 1 \in Lines /\ d \in 0 .. Width /\ c \in 0 .. Width /\ (Rows - 1) + 1 # r
  BY ShellSizes DEF Lines
<1>2. Place(n, Rows - 1) = Width * (Rows - 1) + d
  BY DEF Place
<1>3. c = d <=> c = n
  BY ShellSizes
<1> HIDE DEF d
<1>4. Width * (Rows - 1) + d = Width * r + c <=> Rows - 1 = r /\ d = c
  BY <1>1, SameCell
<1>5. Width * r + c \in Cells
  BY <1>1, CellIn
<1> QED BY <1>2, <1>3, <1>4, <1>5, WriteCharIs

LEMMA CursorShown ==
  ASSUME NEW v \in Screens(Glyphs), NEW b, NEW top, NEW n \in 0 .. Width + 1, NEW ch \in Glyphs,
         RingShown(v, b, top, n)
  PROVE  RingShown(WriteChar(v, n, Rows - 1, ch), b, top, n)
BY BottomCell DEF RingShown

LEMMA TypeShown ==
  ASSUME NEW v \in Screens(Glyphs), NEW b \in [Lines -> Row], NEW top \in Lines,
         NEW n \in 2 .. Width, NEW ch \in Glyphs, RingShown(v, b, top, n)
  PROVE  RingShown(WriteChar(v, n, Rows - 1, ch), [b EXCEPT ![top][n] = ch], top, n + 1)
<1> DEFINE a == [b EXCEPT ![top][n] = ch]
<1>1. n \in Columns /\ Width \in Columns /\ n \in 0 .. Width + 1
  BY ShellSizes DEF Columns
<1>2. /\ a \in [Lines -> Row]
      /\ \A i \in Lines, j \in Columns : a[i][j] = IF i = top /\ j = n THEN ch ELSE b[i][j]
  BY <1>1 DEF Row
<1> HIDE DEF a
<1> SUFFICES ASSUME NEW r \in Lines, NEW c \in 0 .. Width - 1
             PROVE  \/ r = Rows - 1 /\ c = n + 1
                    \/ WriteChar(v, n, Rows - 1, ch)[Width * r + c] = Drawn(a, top, r, c)
  BY DEF RingShown, a
<1>3. WriteChar(v, n, Rows - 1, ch)[Width * r + c] =
        IF r = Rows - 1 /\ c = n THEN ch ELSE v[Width * r + c]
  BY <1>1, BottomCell
<1>4. (r = Rows - 1 /\ c = n) \/ v[Width * r + c] = Drawn(b, top, r, c)
  BY DEF RingShown
<1>5. Shows(r, top) \in Lines /\ (Shows(r, top) = top <=> r = Rows - 1) /\ c \in Columns
  BY ShowsIs, Bottom, ShellSizes DEF Columns
<1>6. Drawn(a, top, r, c) = IF r = Rows - 1 /\ c = n THEN ch ELSE Drawn(b, top, r, c)
  <2>1. CASE c = 0 /\ r = Rows - 1 - top /\ r > 0
    <3>1. Rows - 1 # top /\ Rows - 1 \in Lines /\ c # n
      BY <2>1, ShellSizes DEF Lines
    <3> QED BY <1>1, <1>2, <2>1, <3>1 DEF Drawn
  <2>2. CASE ~(c = 0 /\ r = Rows - 1 - top /\ r > 0)
    BY <1>2, <1>5, <2>2 DEF Drawn
  <2> QED BY <2>1, <2>2
<1> QED BY <1>3, <1>4, <1>6

LEMMA EraseShown ==
  ASSUME NEW v \in Screens(Glyphs), NEW b \in [Lines -> Row], NEW top \in Lines,
         NEW n \in 2 .. Width, NEW line \in Row, \A j \in 0 .. n - 1 : line[j] = b[top][j],
         RingShown(v, b, top, n + 1)
  PROVE  RingShown(RedrawFrom(v, n, line), [b EXCEPT ![top] = line], top, n)
<1> DEFINE a == [b EXCEPT ![top] = line]
<1>1. n \in 1 .. Width /\ line \in [Columns -> Glyphs]
  BY DEF Row
<1>2. \A i \in Lines : a[i] = IF i = top THEN line ELSE b[i]
  OBVIOUS
<1> HIDE DEF a
<1> SUFFICES ASSUME NEW r \in Lines, NEW c \in 0 .. Width - 1
             PROVE  RedrawFrom(v, n, line)[Width * r + c] = Drawn(a, top, r, c)
  BY DEF RingShown, a
<1>3. RedrawFrom(v, n, line)[Width * r + c] =
        IF r = Rows - 1 /\ c >= n THEN line[c] ELSE v[Width * r + c]
  BY <1>1, Redrawn
<1>4. (r = Rows - 1 /\ c = n + 1) \/ v[Width * r + c] = Drawn(b, top, r, c)
  BY DEF RingShown
<1>5. Shows(r, top) \in Lines /\ (Shows(r, top) = top <=> r = Rows - 1)
  BY ShowsIs, Bottom
<1>6. Drawn(a, top, r, c) = IF r = Rows - 1 /\ c >= n THEN line[c] ELSE Drawn(b, top, r, c)
  <2>1. CASE c = 0 /\ r = Rows - 1 - top /\ r > 0
    <3>1. Rows - 1 # top /\ Rows - 1 \in Lines /\ ~(c >= n)
      BY <2>1, ShellSizes DEF Lines
    <3> QED BY <1>2, <2>1, <3>1 DEF Drawn
  <2>2. CASE ~(c = 0 /\ r = Rows - 1 - top /\ r > 0) /\ r = Rows - 1
    <3>1. Drawn(a, top, r, c) = line[c] /\ Drawn(b, top, r, c) = b[top][c]
      BY <1>2, <1>5, <2>2 DEF Drawn
    <3>2. ~(c >= n) => c \in 0 .. n - 1
      OBVIOUS
    <3> QED BY <2>2, <3>1, <3>2
  <2>3. CASE ~(c = 0 /\ r = Rows - 1 - top /\ r > 0) /\ r # Rows - 1
    BY <1>2, <1>5, <2>3 DEF Drawn
  <2> QED BY <2>1, <2>2, <2>3
<1> QED BY <1>3, <1>4, <1>6

Blank == " "

LEMMA GlyphsAre ==
  /\ {"$", "_", "n", "b", "k", "c", Blank, Nul} \subseteq Glyphs
  /\ Letters \subseteq Glyphs /\ Nul \notin Letters
<1>1. Nul \notin Typable
  <2>1. \A c \in Chars : c \in {"a", "&", "grave"}
    BY KeyboardAssumption
  <2>2. \A c \in Chars : shifter(c) \in {"A", "1", "grave"}
    BY <2>1 DEF shifter
  <2> QED BY <2>1, <2>2 DEF Typable, Nul
<1>2. Nul \notin Letters /\ Blank \in Letters
  BY <1>1, Zenon DEF Nul, Letters, Blank
<1> QED BY <1>2 DEF Glyphs
LEMMA ScrolledIs == ASSUME NEW u \in Screens(Glyphs) PROVE Scrolled(u) \in Screens(Glyphs)
<1>1. Blank \in Glyphs
  BY GlyphsAre
<1>2. (Height - 1) * Width = Width * Height - Width /\ Width * Height \in Nat
  BY ShellSizes
<1>3. \A m \in Cells : m < (Height - 1) * Width => m + Width \in Cells
  BY <1>2, ShellSizes DEF Cells
<1>4. Scrolled(u) = [n \in Cells |-> IF n < (Height - 1) * Width THEN u[n + Width] ELSE Blank]
  BY DEF Scrolled, Blank
<1> QED BY <1>1, <1>3, <1>4 DEF Screens

LEMMA PrintOnIs ==
  ASSUME NEW u \in Screens(Glyphs), NEW p, NEW c \in Glyphs \cup {"\n"}
  PROVE  NewLineOn(u, p) \in Screens(Glyphs) /\ PrintOn(u, p, c) \in Screens(Glyphs)
<1>1. NewLineOn(u, p) \in Screens(Glyphs)
  BY ScrolledIs DEF NewLineOn
<1>2. CASE c = "\n"
  BY <1>1, <1>2 DEF PrintOn
<1>3. CASE c # "\n"
  <2> DEFINE d == [u EXCEPT ![p.index] = c]
  <2>1. d \in Screens(Glyphs)
    BY <1>3 DEF Screens
  <2>2. Scrolled(d) \in Screens(Glyphs)
    <3> HIDE DEF d
    <3> QED BY <2>1, ScrolledIs
  <2>3. PrintOn(u, p, c) = IF Full(Advance(p)) THEN Scrolled(d) ELSE d
    BY <1>3 DEF PrintOn
  <2> HIDE DEF d
  <2> QED BY <1>1, <2>1, <2>2, <2>3
<1> QED BY <1>1, <1>2, <1>3

LEMMA NoiseOnIs ==
  ASSUME NEW u \in Screens(Glyphs), NEW key
  PROVE  NoiseOn(u, key) \in Screens(Glyphs) /\ (key.k # "grave" => NoiseOn(u, key) = u)
<1>1. "c" \in Glyphs
  BY GlyphsAre
<1>2. NewLineOn(PrintOn(u, at, "c"), PrintAt(at, "c")) \in Screens(Glyphs)
  BY <1>1, PrintOnIs
<1> QED BY <1>2 DEF NoiseOn

LEMMA EmptyPrompt == PromptLine(empty_line, 2)
<1>1. \A j \in 0 .. Width + 1 : empty_line[j] = IF j = 0 THEN "$" ELSE Nul
  BY DEF empty_line, Written, Columns
<1>2. 0 \in 0 .. Width + 1 /\ 1 \in 0 .. Width + 1 /\ 2 .. Width + 1 \subseteq 0 .. Width + 1
  BY ShellSizes
<1> QED BY <1>1, <1>2 DEF PromptLine

\* The lines that were printed and the prompt, on the screen too.
LEMMA PromptKeeps ==
  ASSUME ShellTypes, NEW v \in Screens(Glyphs), NEW out, Prints(out), Prompt(v, out)
  PROVE  /\ ScreenInv'
         /\ Follows([x |-> x', bufs |-> bufs'], Here, Output(out), Len(out) + 1)
<1> DEFINE new == Output(out)
           ring == NewLines(new)
<1>1. new \in Seq(Row) /\ Len(new) = Len(out) + 1 /\ new[Len(out) + 1] = empty_line
      /\ Len(out) \in Nat
  BY PrintedIs
<1>2. x \in Lines /\ bufs \in [Lines -> Row]
  BY DEF ShellTypes
<1>3. x' = ring.x /\ bufs' = ring.bufs /\ y' = 2 /\ vga_buffer' = print_lines(v, ring.bufs, ring.x)
      /\ pc' = "loop" /\ printed' = FALSE /\ prints' = prints
  BY DEF Prompt
<1> HIDE DEF new
<1>4. ring \in Rings /\ Follows(ring, Here, new, Len(new))
  BY <1>1, <1>2, NewLinesAre
<1> HIDE DEF ring
<1>5. ring.x \in Lines /\ ring.bufs \in [Lines -> [Columns -> Glyphs]] /\ ring.bufs \in [Lines -> Row]
      /\ ring = [x |-> ring.x, bufs |-> ring.bufs]
  BY <1>4 DEF Rings, Row
<1>6. /\ vga_buffer' \in Screens(Glyphs)
      /\ RingShown(vga_buffer', bufs', x', y')
  <2>1. /\ print_lines(v, ring.bufs, ring.x) \in Screens(Glyphs)
        /\ \A r \in Lines, c \in 0 .. Width - 1 :
             print_lines(v, ring.bufs, ring.x)[Width * r + c] = Drawn(ring.bufs, ring.x, r, c)
    BY <1>5, PrintedLines
  <2> QED BY <1>3, <2>1 DEF RingShown
<1>7. ShellTypes'
  <2>1. 2 \in 2 .. Width + 1
    BY ShellSizes
  <2> QED BY <1>3, <1>5, <1>6, <2>1 DEF ShellTypes
<1>8. bufs'[x'] = empty_line
  <2>1. Rows \in 1 .. Rows /\ ~(Len(new) + Rows <= Rows) /\ Len(new) + Rows - Rows = Len(out) + 1
    BY <1>1, ShellSizes
  <2>2. LineAt(ring, Rows) = new[Len(new) + Rows - Rows]
    BY <1>4, <2>1 DEF Follows
  <2>3. Shows(Rows - 1, ring.x) = ring.x
    BY <1>5, Bottom
  <2> QED BY <1>1, <1>3, <2>1, <2>2, <2>3 DEF LineAt
<1>9. PromptLine(bufs'[x'], y')
  BY <1>3, <1>8, EmptyPrompt
<1>10. Follows([x |-> x', bufs |-> bufs'], Here, new, Len(out) + 1)
  BY <1>1, <1>3, <1>4, <1>5
<1> QED BY <1>6, <1>7, <1>9, <1>10 DEF ScreenInv, Seen, new

LEMMA ScreenInit == ASSUME Init PROVE ScreenInv
<1> DEFINE u == NewLineOn(PrintOn(init_vga, Start, "k"), PrintAt(Start, "k"))
<1>1. /\ x = 0 /\ y = 2 /\ bufs = [n \in Lines |-> empty_line]
      /\ vga_buffer = print_lines(u, bufs, x)
      /\ pc = "loop" /\ prints = 0 /\ printed = FALSE
  BY DEF Init
<1>2. x \in Lines /\ y \in 2 .. Width + 1 /\ prints \in 0 .. MaxPrints
  BY <1>1, ShellSizes, ShellAssumption DEF Lines
<1>3. bufs \in [Lines -> Row] /\ bufs \in [Lines -> [Columns -> Glyphs]] /\ bufs[x] = empty_line
  BY <1>1, <1>2, OutputRows DEF Row
<1>4. u \in Screens(Glyphs)
  <2>1. init_vga \in Screens(Glyphs) /\ "k" \in Glyphs
    BY GlyphsAre DEF init_vga, Screens, Nul
  <2> QED BY <2>1, PrintOnIs
<1> HIDE DEF u
<1>5. /\ vga_buffer \in Screens(Glyphs)
      /\ \A r \in Lines, c \in 0 .. Width - 1 : vga_buffer[Width * r + c] = Drawn(bufs, x, r, c)
  BY <1>1, <1>2, <1>3, <1>4, PrintedLines
<1>6. ShellTypes
  BY <1>1, <1>2, <1>3, <1>5 DEF ShellTypes
<1>7. RingShown(vga_buffer, bufs, x, y)
  BY <1>5 DEF RingShown
<1> QED BY <1>1, <1>3, <1>6, <1>7, EmptyPrompt DEF ScreenInv, Seen

\* A character typed.
LEMMA TypeKeeps ==
  ASSUME ScreenInv, NEW v \in Screens(Glyphs), NEW c \in Letters, Type(v, c),
         printed' \in BOOLEAN,
         pc' = "loop" /\ ~printed' => RingShown(v, bufs, x, y)
  PROVE  ScreenInv'
<1>1. /\ y < Width + 1 /\ vga_buffer' = WriteChar(v, y, Rows - 1, c)
      /\ bufs' = [bufs EXCEPT ![x][y] = c] /\ y' = y + 1
      /\ x' = x /\ pc' = pc /\ prints' = prints
  BY DEF Type, HasRoom
<1>2. ShellTypes /\ PromptLine(bufs[x], y)
  BY DEF ScreenInv
<1>3. /\ x \in Lines /\ y \in 2 .. Width /\ bufs \in [Lines -> Row] /\ c \in Glyphs /\ c # Nul
      /\ y \in Columns
  <2>1. x \in Lines /\ y \in 2 .. Width + 1 /\ bufs \in [Lines -> Row]
    BY <1>2 DEF ShellTypes
  <2>2. y \in 2 .. Width
    BY <1>1, <2>1, ShellSizes
  <2>3. y \in Columns
    BY <2>2, ShellSizes DEF Columns
  <2>4. c \in Glyphs /\ c # Nul
    BY GlyphsAre
  <2> QED BY <2>1, <2>2, <2>3, <2>4
<1>4. vga_buffer' \in Screens(Glyphs)
  BY <1>1, <1>3, WriteCharIs
<1>5. bufs' \in [Lines -> Row] /\ bufs'[x] = [bufs[x] EXCEPT ![y] = c] /\ bufs[x] \in Row
  BY <1>1, <1>3 DEF Row
<1>6. ShellTypes'
  <2>1. y' \in 2 .. Width + 1
    BY <1>1, <1>3, ShellSizes
  <2> QED BY <1>1, <1>2, <1>4, <1>5, <2>1 DEF ShellTypes
<1>7. Seen'
  <2> SUFFICES ASSUME pc' = "loop", ~printed' PROVE RingShown(vga_buffer', bufs', x', y')
    BY DEF Seen
  <2> QED BY <1>1, <1>3, TypeShown
<1>8. PromptLine(bufs'[x'], y')
  <2>1. \A j \in Columns : bufs'[x][j] = IF j = y THEN c ELSE bufs[x][j]
    BY <1>3, <1>5 DEF Row
  <2>2. /\ 0 \in Columns /\ 1 \in Columns /\ y # 0 /\ y # 1
        /\ 2 .. y \subseteq Columns /\ y + 1 .. Width + 1 \subseteq Columns
    BY <1>3, ShellSizes DEF Columns
  <2>3. \A j \in 2 .. y : j = y \/ j \in 2 .. y - 1
    BY <1>3, ShellSizes
  <2>4. \A j \in y + 1 .. Width + 1 : j # y /\ j \in y .. Width + 1
    BY <1>3, ShellSizes
  <2>5. y' - 1 = y /\ y' = y + 1 /\ x' = x
    BY <1>1, <1>3, ShellSizes
  <2> QED BY <1>2, <1>3, <2>1, <2>2, <2>3, <2>4, <2>5 DEF PromptLine
<1> QED BY <1>6, <1>7, <1>8 DEF ScreenInv

\* The last character erased.
LEMMA EraseKeeps ==
  ASSUME ScreenInv, NEW v \in Screens(Glyphs), Erase(v),
         printed' \in BOOLEAN,
         pc' = "loop" /\ ~printed' => RingShown(v, bufs, x, y)
  PROVE  /\ ScreenInv'
         /\ \A j \in Columns : bufs'[x][j] = IF j = y - 1 THEN Nul ELSE bufs[x][j]
<1> DEFINE line == [j \in Columns |-> IF j < y - 1 \/ j > Width THEN bufs[x][j]
                                      ELSE IF j = Width THEN Nul ELSE bufs[x][j + 1]]
<1>1. /\ y > 2 /\ bufs' = [bufs EXCEPT ![x] = line] /\ y' = y - 1
      /\ vga_buffer' = RedrawFrom(v, y - 1, line)
      /\ x' = x /\ pc' = pc /\ prints' = prints
  BY DEF Erase
<1>2. ShellTypes /\ PromptLine(bufs[x], y)
  BY DEF ScreenInv
<1>3. /\ x \in Lines /\ y - 1 \in 2 .. Width /\ y \in Nat /\ bufs \in [Lines -> Row]
      /\ y - 1 \in 1 .. Width /\ (y - 1) + 1 = y /\ y \in 2 .. Width + 1
  BY <1>1, <1>2, ShellSizes DEF ShellTypes
<1>4. ASSUME NEW j \in Columns
      PROVE  line[j] = IF j = y - 1 THEN Nul ELSE bufs[x][j]
  <2>1. line[j] = IF j < y - 1 \/ j > Width THEN bufs[x][j]
                  ELSE IF j = Width THEN Nul ELSE bufs[x][j + 1]
    OBVIOUS
  <2>2. \A i \in y .. Width + 1 : bufs[x][i] = Nul
    BY <1>2 DEF PromptLine
  <2>3. j \in 0 .. Width + 1
    BY DEF Columns
  <2> HIDE DEF line
  <2>4. CASE j < y - 1 \/ j > Width
    <3>1. j # y - 1
      BY <1>3, <2>3, <2>4, ShellSizes
    <3> QED BY <2>1, <2>4, <3>1
  <2>5. CASE ~(j < y - 1 \/ j > Width) /\ j = y - 1
    <3>1. j # Width => j + 1 \in y .. Width + 1
      BY <1>3, <2>3, <2>5
    <3> QED BY <2>1, <2>2, <2>5, <3>1
  <2>6. CASE ~(j < y - 1 \/ j > Width) /\ j # y - 1
    <3>1. (j # Width => j + 1 \in y .. Width + 1) /\ j \in y .. Width + 1
      BY <1>3, <2>3, <2>6, ShellSizes
    <3> QED BY <2>1, <2>2, <2>6, <3>1
  <2> QED BY <2>4, <2>5, <2>6
<1>5. line \in Row /\ line \in [Columns -> Glyphs]
  <2>1. line = [j \in Columns |-> line[j]]
    OBVIOUS
  <2>2. bufs[x] \in [Columns -> Glyphs] /\ Nul \in Glyphs
    BY <1>3, GlyphsAre DEF Row
  <2> HIDE DEF line
  <2>3. line \in [Columns -> Glyphs]
    BY <1>4, <2>1, <2>2
  <2> QED BY <2>3 DEF Row
<1> HIDE DEF line
<1>6. bufs' \in [Lines -> Row] /\ bufs'[x] = line
  BY <1>1, <1>3, <1>5
<1>7. vga_buffer' \in Screens(Glyphs)
  BY <1>1, <1>3, <1>5, Redrawn
<1>8. ShellTypes'
  <2>1. y' \in 2 .. Width + 1
    BY <1>1, <1>3, ShellSizes
  <2> QED BY <1>1, <1>2, <1>6, <1>7, <2>1 DEF ShellTypes
<1>9. Seen'
  <2> SUFFICES ASSUME pc' = "loop", ~printed' PROVE RingShown(vga_buffer', bufs', x', y')
    BY DEF Seen
  <2>1. \A j \in 0 .. (y - 1) - 1 : line[j] = bufs[x][j]
    BY <1>3, <1>4, ShellSizes DEF Columns
  <2>2. RingShown(v, bufs, x, (y - 1) + 1)
    BY <1>3
  <2>3. RingShown(RedrawFrom(v, y - 1, line), [bufs EXCEPT ![x] = line], x, y - 1)
    BY <1>3, <1>5, <2>1, <2>2, EraseShown
  <2> QED BY <1>1, <2>3
<1>10. PromptLine(bufs'[x'], y')
  <2>1. /\ 0 \in Columns /\ 1 \in Columns /\ 0 # y - 1 /\ 1 # y - 1
        /\ 2 .. (y - 1) - 1 \subseteq Columns /\ y - 1 .. Width + 1 \subseteq Columns
    BY <1>3, ShellSizes DEF Columns
  <2>2. \A j \in 2 .. (y - 1) - 1 : j # y - 1 /\ j \in 2 .. y - 1
    BY <1>3
  <2>3. \A j \in y - 1 .. Width + 1 : j = y - 1 \/ j \in y .. Width + 1
    BY <1>3
  <2>4. bufs'[x'] = line /\ y' = y - 1
    BY <1>1, <1>6
  <2> QED BY <1>2, <1>4, <2>1, <2>2, <2>3, <2>4 DEF PromptLine
<1> QED BY <1>4, <1>6, <1>8, <1>9, <1>10 DEF ScreenInv

LEMMA CharIs == ASSUME NEW key \in Keys PROVE Char(key) \in Letters \cup {Nul}
<1>1. CASE key.type = 0
  <2>1. key.k \in Typable \cup {Nul}
    BY <1>1 DEF Keys
  <2>2. Char(key) = key.k
    BY <1>1, Zenon DEF Char
  <2> QED BY <2>1, <2>2, Zenon DEF Letters
<1>2. CASE key.type # 0
  <2>1. Char(key) = IF key.k = "SPACE" THEN Blank ELSE Nul
    BY <1>2, Zenon DEF Char, Blank
  <2>2. Blank \in Letters
    BY Zenon DEF Blank, Letters
  <2> QED BY <2>1, <2>2
<1> QED BY <1>1, <1>2

\* The same lines, on a screen that shows them or need not.
LEMMA SameLines ==
  ASSUME ScreenInv, UNCHANGED <<x, y, bufs, prints>>, vga_buffer' \in Screens(Glyphs),
         pc' \in {"loop", "child", "exited"}, printed' \in BOOLEAN,
         pc' = "loop" /\ ~printed' => RingShown(vga_buffer', bufs, x, y)
  PROVE  ScreenInv'
<1>1. ShellTypes' /\ Seen'
  BY DEF ScreenInv, ShellTypes, Seen
<1>2. PromptLine(bufs'[x'], y')
  BY DEF ScreenInv
<1> QED BY <1>1, <1>2 DEF ScreenInv

\* What the screen is when the key is handled.
LEMMA TurnScreen ==
  ASSUME ScreenInv, pc = "loop", NEW key
  PROVE  LET v == NoiseOn(WriteChar(vga_buffer, y, Rows - 1, "_"), key)
         IN /\ v \in Screens(Glyphs)
            /\ ~printed /\ key.k # "grave" => RingShown(v, bufs, x, y)
<1> DEFINE u == WriteChar(vga_buffer, y, Rows - 1, "_")
           v == NoiseOn(u, key)
<1>1. vga_buffer \in Screens(Glyphs) /\ y \in 0 .. Width + 1 /\ "_" \in Glyphs
  <2>1. "_" \in Glyphs
    BY GlyphsAre
  <2>2. vga_buffer \in Screens(Glyphs) /\ y \in 2 .. Width + 1
    BY DEF ScreenInv, ShellTypes
  <2>3. y \in 0 .. Width + 1
    BY <2>2, ShellSizes
  <2> QED BY <2>1, <2>2, <2>3
<1>2. u \in Screens(Glyphs)
  BY <1>1, WriteCharIs
<1>3. ~printed => RingShown(u, bufs, x, y)
  <2> SUFFICES ASSUME ~printed PROVE RingShown(u, bufs, x, y)
    OBVIOUS
  <2>1. RingShown(vga_buffer, bufs, x, y)
    BY DEF ScreenInv, Seen
  <2> QED BY <1>1, <2>1, CursorShown
<1> HIDE DEF u
<1>4. v \in Screens(Glyphs) /\ (key.k # "grave" => v = u)
  BY <1>2, NoiseOnIs
<1> HIDE DEF v
<1>5. ~printed /\ key.k # "grave" => RingShown(v, bufs, x, y)
  BY <1>3, <1>4
<1> QED BY <1>4, <1>5 DEF v, u

LEMMA TurnKeeps ==
  ASSUME ScreenInv, Turn
  PROVE  ScreenInv'
<1>1. PICK key \in Keys : Handle(NoiseOn(WriteChar(vga_buffer, y, Rows - 1, "_"), key), key)
  BY DEF Turn
<1>2. pc = "loop"
  BY DEF Turn
<1> DEFINE v == NoiseOn(WriteChar(vga_buffer, y, Rows - 1, "_"), key)
<1>3. v \in Screens(Glyphs) /\ (~printed /\ key.k # "grave" => RingShown(v, bufs, x, y))
  BY <1>2, TurnScreen
<1>4. Handle(v, key)
  BY <1>1
<1> HIDE DEF v
<1>5. ShellTypes
  BY DEF ScreenInv
<1>6. CASE key.type = 1 /\ key.k = "ENTER"
  <2>1. Enter(v)
    BY <1>4, <1>6 DEF Handle
  <2>2. ASSUME pc' \in {"exited", "child"}, vga_buffer' = v, UNCHANGED <<x, y, bufs, prints, printed>>
        PROVE  ScreenInv'
    <3>1. printed' \in BOOLEAN /\ pc' \in {"loop", "child", "exited"} /\ pc' # "loop"
      BY <1>5, <2>2 DEF ShellTypes
    <3> QED BY <1>3, <2>2, <3>1, SameLines
  <2>3. ASSUME NEW out \in BoundedSeq(IF Typed THEN OutputLines ELSE {}, MaxOutput), Prompt(v, out)
        PROVE  ScreenInv'
    BY <1>3, <1>5, <2>3, PromptKeeps DEF Prints
  <2> QED BY <2>1, <2>2, <2>3 DEF Enter
<1>7. CASE ~(key.type = 1 /\ key.k = "ENTER")
  <2>1. /\ printed' = (printed \/ key.k = "grave")
        /\ \/ Char(key) # Nul /\ Type(v, Char(key))
           \/ key.k = "BACKSPACE" /\ Erase(v)
           \/ vga_buffer' = v /\ UNCHANGED <<x, y, bufs, pc, prints>>
    BY <1>4, <1>7 DEF Handle
  <2>2. printed' \in BOOLEAN /\ (pc' = "loop" /\ ~printed' => RingShown(v, bufs, x, y))
    <3>1. printed \in BOOLEAN
      BY <1>5 DEF ShellTypes
    <3> QED BY <1>3, <2>1, <3>1
  <2>3. CASE Char(key) # Nul /\ Type(v, Char(key))
    <3>1. Char(key) \in Letters
      BY <2>3, CharIs
    <3> QED BY <1>3, <2>2, <2>3, <3>1, TypeKeeps
  <2>4. CASE Erase(v)
    BY <1>3, <2>2, <2>4, EraseKeeps
  <2>5. CASE vga_buffer' = v /\ UNCHANGED <<x, y, bufs, pc, prints>>
    <3>1. pc' \in {"loop", "child", "exited"}
      BY <1>5, <2>5 DEF ShellTypes
    <3> QED BY <1>3, <2>2, <2>5, <3>1, SameLines
  <2> QED BY <2>1, <2>3, <2>4, <2>5
<1> QED BY <1>6, <1>7

LEMMA ScreenNext == ASSUME ScreenInv, [Next]_vars PROVE ScreenInv'
<1>1. ShellTypes /\ Seen
  BY DEF ScreenInv
<1>2. CASE UNCHANGED <<vga_buffer, shell_vars>>
  BY <1>2 DEF shell_vars, ScreenInv, ShellTypes, Seen
<1>3. CASE ChildPrint
  <2>1. /\ pc = "child" /\ prints < MaxPrints /\ prints' = prints + 1
        /\ UNCHANGED <<x, y, bufs, pc, printed>>
    BY <1>3 DEF ChildPrint
  <2>2. PICK c \in {"k", "\n"} : vga_buffer' = PrintOn(vga_buffer, at, c)
    BY <1>3 DEF ChildPrint
  <2>3. vga_buffer' \in Screens(Glyphs)
    <3>1. c \in Glyphs \cup {"\n"}
      BY GlyphsAre
    <3>2. vga_buffer \in Screens(Glyphs)
      BY <1>1 DEF ShellTypes
    <3> QED BY <2>2, <3>1, <3>2, PrintOnIs
  <2>4. prints' \in 0 .. MaxPrints
    BY <1>1, <2>1, ShellAssumption DEF ShellTypes
  <2>5. ShellTypes' /\ Seen'
    BY <1>1, <2>1, <2>3, <2>4 DEF ShellTypes, Seen
  <2> QED BY <2>1, <2>5 DEF ScreenInv
<1>4. CASE ChildRead
  <2>1. pc = "child" /\ UNCHANGED shell_vars
    BY <1>4 DEF ChildRead
  <2>2. PICK key \in Keys : vga_buffer' = NoiseOn(vga_buffer, key)
    BY <1>4 DEF ChildRead
  <2>3. vga_buffer' \in Screens(Glyphs)
    BY <1>1, <2>2, NoiseOnIs DEF ShellTypes
  <2> QED BY <1>1, <2>1, <2>3 DEF shell_vars, ScreenInv, ShellTypes, Seen
<1>5. CASE ChildExit
  <2>1. Prompt(vga_buffer, <<>>)
    BY <1>5 DEF ChildExit
  <2> QED BY <1>1, <2>1, PromptKeeps DEF ShellTypes, Prints
<1>6. CASE Keyboarding
  <2>1. UNCHANGED <<vga_buffer, shell_vars>>
    BY <1>6 DEF Keyboarding
  <2> QED BY <1>2, <2>1
<1>7. CASE UNCHANGED vars
  <2>1. UNCHANGED <<vga_buffer, shell_vars>>
    BY <1>7 DEF vars
  <2> QED BY <1>2, <2>1
<1> QED BY <1>3, <1>4, <1>5, <1>6, <1>7, TurnKeeps DEF Next

LEMMA ScreenInvariant == Spec => []ScreenInv
<1>1. Init => ScreenInv
  BY ScreenInit
<1>2. ScreenInv /\ [Next]_vars => ScreenInv'
  BY ScreenNext
<1> QED BY <1>1, <1>2, PTL DEF Spec

\* Whatever is typed, erased, printed and run, the screen shows the ring of lines in order.
THEOREM Screen_Is_Ring == Spec => []ScreenIsRing
<1>1. ScreenInv => ScreenIsRing
  BY SeenIs DEF ScreenInv, ShellTypes
<1> QED BY <1>1, ScreenInvariant, PTL

-----------------------------------------------------------------------------
(* Types.                                                                  *)

\* What the controller keeps is bounded.
Bounded == Len(fifo) <= FifoLen /\ sent \in 0 .. MaxBytes

LEMMA KeyboardTypes == ASSUME KeyInv, Bounded PROVE KeyboardTypeOK
<1>1. KeyTypes /\ stale \in 0 .. 1 /\ FifoLen \in Nat
  BY KeyboardAssumption DEF KeyInv, Stale
<1>2. fifo \in BoundedSeq(Byte, FifoLen)
  <2>1. Len(fifo) \in 0 .. FifoLen /\ fifo \in [1 .. Len(fifo) -> Byte]
    BY <1>1 DEF KeyTypes, Bounded
  <2> QED BY <2>1 DEF BoundedSeq, SeqOf
<1>3. stale \in 0 .. 2
  BY <1>1
<1>4. {irq, available, held, inverted} \subseteq BOOLEAN
  BY <1>1, Zenon DEF KeyTypes
<1>5. port \in Byte /\ shift_key \in {0, 1} /\ last \in Codes
  BY <1>1 DEF KeyTypes
<1> QED BY <1>2, <1>3, <1>4, <1>5 DEF KeyboardTypeOK, Bounded

LEMMA BoundedNext == ASSUME KeyInv, Bounded, [KeyStep]_keyboard_vars PROVE Bounded'
<1>1. fifo \in Seq(Byte) /\ MaxBytes \in Nat /\ FifoLen \in Nat
  BY KeyboardAssumption DEF KeyInv, KeyTypes
<1>2. ASSUME NEW code, NEW again, Send(code, again) PROVE Bounded'
  BY <1>1, <1>2 DEF Send, Bounded
<1>3. ASSUME NEW key, KeyboardHandler(key) PROVE Bounded'
  <2>1. sent' = sent /\ (fifo' = fifo \/ (fifo # <<>> /\ fifo' = Tail(fifo)))
    BY <1>3 DEF KeyboardHandler, ReadPort
  <2> QED BY <1>1, <2>1 DEF Bounded
<1>4. CASE MakeAvailable
  BY <1>4 DEF MakeAvailable, Bounded
<1>5. CASE UNCHANGED keyboard_vars
  BY <1>5 DEF keyboard_vars, Bounded
<1> QED BY <1>2, <1>3, <1>4, <1>5 DEF KeyStep, PressKey, PressShift, ReleaseShift, Repeat

\* Every part keeps to its type: the cursor stays in the line and the lines in the ring,
\* the screen is never written outside, and the controller's queue is bounded.
THEOREM Type_OK == Spec => []TypeOK
<1>1. Init => Bounded
  <2>1. Init => fifo = <<>> /\ sent = 0
    BY DEF Init, KeyboardInit
  <2> QED BY <2>1, KeyboardAssumption DEF Bounded
<1>2. KeyInv /\ Bounded /\ [Next]_vars => Bounded'
  BY BoundedNext, ShellSteps
<1>3. ScreenInv /\ KeyInv /\ Bounded /\ InScreen(at) => TypeOK
  <2> SUFFICES ASSUME ScreenInv, KeyInv, Bounded, InScreen(at) PROVE TypeOK
    OBVIOUS
  <2>1. ShellTypes
    BY DEF ScreenInv
  <2>2. at.index \in Nat /\ at.next_line \in Nat
    <3> DEFINE n == at.next_line
    <3>1. n \in 1 .. Height /\ Width * (n - 1) <= at.index /\ at.index \in Int
      BY DEF InScreen
    <3> HIDE DEF n
    <3>2. n \in Nat /\ n - 1 \in Nat /\ Width \in Nat
      BY <3>1, ShellSizes
    <3>3. Width * (n - 1) \in Nat
      BY <3>2
    <3> QED BY <3>1, <3>2, <3>3 DEF n
  <2>3. VgaTypeOK
    BY <2>1, <2>2 DEF VgaTypeOK, ShellTypes, Screens
  <2> QED BY <2>1, <2>3, KeyboardTypes DEF TypeOK, ShellTypes, Screens, Row
<1> QED BY <1>1, <1>2, <1>3, ScreenInvariant, KeyInvariant, PlaceInvariant, PTL DEF Spec

-----------------------------------------------------------------------------
(* The ring implements the terminal.                                       *)

\* How many characters of a prompt line, with the cursor in column n, are seen in the
\* first j columns.
SeenIn(j, n) == IF j <= 1 THEN j ELSE IF j <= n THEN j - 1 ELSE n - 1

LEMMA ShownPrompt ==
  ASSUME NEW line \in Row, NEW n \in 2 .. Width + 1, PromptLine(line, n)
  PROVE  /\ Shown(line) \in Seq(Glyphs) /\ Len(Shown(line)) = n - 1
         /\ \A k \in 1 .. n - 1 : Shown(line)[k] = IF k = 1 THEN "$" ELSE line[k]
<1> DEFINE N == Width + 2
           S == Seq(Glyphs)
           F == [p \in (1 .. N) \X S |->
                   IF line[p[1] - 1] = Nul THEN p[2] ELSE Append(p[2], line[p[1] - 1])]
           upto == CHOOSE g : g = [j \in 0 .. N |->
                     IF j = 0 THEN <<>>
                     ELSE IF line[j - 1] = Nul THEN g[j - 1] ELSE Append(g[j - 1], line[j - 1])]
<1>1. N \in Nat /\ N = Width + 2
  BY ShellSizes
<1>2. ASSUME NEW j \in 1 .. N PROVE line[j - 1] \in Glyphs /\ j - 1 \in Columns
  <2>1. j - 1 \in Columns
    BY ShellSizes DEF Columns
  <2> QED BY <2>1 DEF Row
<1>3. ASSUME NEW j \in 1 .. N, NEW s \in S
      PROVE  /\ F[<<j, s>>] = IF line[j - 1] = Nul THEN s ELSE Append(s, line[j - 1])
             /\ F[<<j, s>>] \in S
  <2>1. F[<<j, s>>] = IF line[j - 1] = Nul THEN s ELSE Append(s, line[j - 1])
    OBVIOUS
  <2> HIDE DEF F, N
  <2> QED BY <1>2, <2>1
<1>4. PICK g \in [0 .. N -> S] : g[0] = <<>> /\ \A j \in 1 .. N : g[j] = F[<<j, g[j - 1]>>]
  <2> HIDE DEF F, N, upto
  <2>1. Loops(S, N, F)
    BY <1>3 DEF Loops
  <2> HIDE DEF S
  <2>2. ASSUME NEW s \in S
        PROVE  \E g \in [0 .. N -> S] : g[0] = s /\ \A j \in 1 .. N : g[j] = F[<<j, g[j - 1]>>]
    BY ONLY <1>1, <2>1, LoopExists
  <2>3. <<>> \in S
    BY DEF S
  <2> QED BY <2>2, <2>3
<1>5. ASSUME NEW j \in 0 .. N, j # 0
      PROVE  g[j] = IF line[j - 1] = Nul THEN g[j - 1] ELSE Append(g[j - 1], line[j - 1])
  <2>1. j \in 1 .. N /\ j - 1 \in 0 .. N
    BY <1>1, <1>5
  <2> HIDE DEF F, N, S
  <2>2. g[j] = F[<<j, g[j - 1]>>] /\ g[j - 1] \in S
    BY <1>4, <2>1
  <2> QED BY <1>3, <2>1, <2>2
<1>6. g = [j \in 0 .. N |->
             IF j = 0 THEN <<>>
             ELSE IF line[j - 1] = Nul THEN g[j - 1] ELSE Append(g[j - 1], line[j - 1])]
  <2> HIDE DEF F, N, S
  <2> QED BY <1>4, <1>5
<1>7. upto = [j \in 0 .. N |->
                IF j = 0 THEN <<>>
                ELSE IF line[j - 1] = Nul THEN upto[j - 1]
                ELSE Append(upto[j - 1], line[j - 1])]
  <2> HIDE DEF N
  <2> QED BY <1>6
<1>8. Shown(line) = upto[N]
  BY DEF Shown
<1> HIDE DEF upto, F, N
<1> DEFINE Good == {j \in 0 .. N : /\ upto[j] \in S /\ Len(upto[j]) = SeenIn(j, n)
                                   /\ \A k \in 1 .. SeenIn(j, n) :
                                        upto[j][k] = IF k = 1 THEN "$" ELSE line[k]}
<1>9. 0 \in Good
  <2>1. upto[0] = <<>> /\ SeenIn(0, n) = 0
    BY <1>1, <1>7 DEF SeenIn
  <2>2. 0 \in 0 .. N /\ <<>> \in S /\ Len(<<>>) = 0 /\ 1 .. 0 = {}
    BY <1>1
  <2> HIDE DEF S
  <2> QED BY <2>1, <2>2
<1>10. ASSUME NEW j \in 0 .. N - 1, j \in Good PROVE j + 1 \in Good
  <2>1. j + 1 \in 0 .. N /\ j + 1 # 0 /\ (j + 1) - 1 = j /\ j + 1 \in 1 .. N /\ j \in 0 .. Width + 1
    BY <1>1, ShellSizes
  <2>2. upto[j + 1] = IF line[j] = Nul THEN upto[j] ELSE Append(upto[j], line[j])
    BY <1>7, <2>1
  <2>3. /\ upto[j] \in S /\ Len(upto[j]) = SeenIn(j, n)
        /\ \A k \in 1 .. SeenIn(j, n) : upto[j][k] = IF k = 1 THEN "$" ELSE line[k]
    BY <1>10
  <2>4. line[j] \in Glyphs
    BY <1>2, <2>1
  <2>5. n \in Nat /\ n >= 2 /\ j \in Nat /\ SeenIn(j, n) \in Nat
    BY <2>1, ShellSizes DEF SeenIn
  <2> HIDE DEF Good
  <2>6. CASE line[j] = Nul
    <3>1. j = 1 \/ j >= n
      <4>1. j # 0
        BY <2>6 DEF PromptLine, Nul
      <4>2. ~(j \in 2 .. n - 1)
        BY <2>6 DEF PromptLine
      <4> QED BY <2>5, <4>1, <4>2
    <3>2. SeenIn(j + 1, n) = SeenIn(j, n)
      BY <2>5, <3>1 DEF SeenIn
    <3>3. upto[j + 1] = upto[j]
      BY <2>2, <2>6
    <3> QED BY <2>1, <2>3, <3>2, <3>3 DEF Good
  <2>7. CASE line[j] # Nul
    <3>1. j = 0 \/ j \in 2 .. n - 1
      <4>1. j # 1
        BY <2>7 DEF PromptLine
      <4>2. ~(j \in n .. Width + 1)
        BY <2>7 DEF PromptLine
      <4> QED BY <2>1, <2>5, <4>1, <4>2, ShellSizes
    <3>2. SeenIn(j + 1, n) = SeenIn(j, n) + 1 /\ (j # 0 => SeenIn(j + 1, n) = j)
      BY <2>5, <3>1 DEF SeenIn
    <3>3. upto[j + 1] = Append(upto[j], line[j])
      BY <2>2, <2>7
    <3>4. /\ upto[j + 1] \in S /\ Len(upto[j + 1]) = Len(upto[j]) + 1
          /\ \A k \in 1 .. Len(upto[j]) : upto[j + 1][k] = upto[j][k]
          /\ upto[j + 1][Len(upto[j]) + 1] = line[j]
      BY <2>3, <2>4, <3>3
    <3>5. line[j] = IF SeenIn(j + 1, n) = 1 THEN "$" ELSE line[SeenIn(j + 1, n)]
      <4>1. CASE j = 0
        BY <2>5, <4>1 DEF PromptLine, SeenIn
      <4>2. CASE j # 0
        BY <2>5, <3>1, <3>2, <4>2
      <4> QED BY <4>1, <4>2
    <3>6. \A k \in 1 .. SeenIn(j + 1, n) : k \in 1 .. SeenIn(j, n) \/ k = SeenIn(j + 1, n)
      BY <2>5, <3>2
    <3>7. \A k \in 1 .. SeenIn(j + 1, n) : upto[j + 1][k] = IF k = 1 THEN "$" ELSE line[k]
      BY <2>3, <2>5, <3>2, <3>4, <3>5, <3>6
    <3> QED BY <2>1, <2>3, <3>2, <3>4, <3>7 DEF Good
  <2> QED BY <2>6, <2>7
<1>11. N \in Good
  <2> HIDE DEF Good
  <2>1. 0 .. N \subseteq Good
    BY <1>1, <1>9, <1>10, BoundedInduction
  <2> QED BY <1>1, <2>1
<1>12. SeenIn(N, n) = n - 1
  BY <1>1, ShellSizes DEF SeenIn
<1> QED BY <1>8, <1>11, <1>12

LinesOf(ring) == [k \in 1 .. Rows |-> Shown(LineAt(ring, k))]

LEMMA RingLinesAre == ASSUME x \in Lines PROVE RingLines = LinesOf(Here)
<1>1. ASSUME NEW k \in 1 .. Rows PROVE Shown(bufs[(x + k) % Rows]) = Shown(LineAt(Here, k))
  <2>1. (x + k) % Rows = Shows(k - 1, x)
    BY LineNumber
  <2>2. LineAt(Here, k) = bufs[Shows(k - 1, x)]
    BY DEF LineAt, Here
  <2> QED BY <2>1, <2>2, Zenon
<1> QED BY <1>1 DEF RingLines, LinesOf

LEMMA RingLinesNext ==
  ASSUME x' \in Lines
  PROVE  RingLines' = LinesOf([x |-> x', bufs |-> bufs'])
<1>1. (x \in Lines => RingLines = LinesOf(Here))'
  BY RingLinesAre, PTL
<1> QED BY <1>1 DEF Here, LinesOf, LineAt, Shows

LEMMA BottomLine ==
  ASSUME NEW ring, ring.x \in Lines
  PROVE  /\ Rows \in 1 .. Rows /\ LinesOf(ring)[Rows] = Shown(ring.bufs[ring.x])
         /\ \A k \in 1 .. Rows : Shows(k - 1, ring.x) = ring.x <=> k = Rows
<1>1. Rows \in 1 .. Rows /\ Rows - 1 \in Lines
  BY ShellSizes DEF Lines
<1>2. Shows(Rows - 1, ring.x) = ring.x
  BY <1>1, Bottom
<1>3. ASSUME NEW k \in 1 .. Rows PROVE Shows(k - 1, ring.x) = ring.x <=> k = Rows
  <2>1. k - 1 \in Lines /\ (k - 1 = Rows - 1 <=> k = Rows)
    BY ShellSizes DEF Lines
  <2> QED BY <2>1, Bottom
<1> QED BY <1>1, <1>2, <1>3 DEF LinesOf, LineAt

\* Only the prompt line changes.
LEMMA BottomChanges ==
  ASSUME x \in Lines, x' = x, NEW line, bufs \in [Lines -> Row], bufs' = [bufs EXCEPT ![x] = line]
  PROVE  RingLines' = [RingLines EXCEPT ![Rows] = Shown(line)] /\ RingLines[Rows] = Shown(bufs[x])
<1> DEFINE next == [x |-> x', bufs |-> bufs']
<1>1. Here.x = x /\ Here.bufs = bufs /\ next.x = x /\ next.bufs = [bufs EXCEPT ![x] = line]
  BY DEF Here
<1>2. RingLines = LinesOf(Here) /\ RingLines' = LinesOf(next)
  BY RingLinesAre, RingLinesNext
<1> HIDE DEF next
<1>3. ASSUME NEW k \in 1 .. Rows
      PROVE  Shown(LineAt(next, k)) = IF k = Rows THEN Shown(line) ELSE Shown(LineAt(Here, k))
  <2>1. Shows(k - 1, x) \in Lines /\ (Shows(k - 1, x) = x <=> k = Rows)
    BY <1>1, BottomLine, LineNumber
  <2>2. LineAt(next, k) = IF k = Rows THEN line ELSE LineAt(Here, k)
    BY <1>1, <2>1 DEF LineAt
  <2> QED BY <2>2
<1>4. RingLines[Rows] = Shown(bufs[x])
  BY <1>1, <1>2, BottomLine
<1> QED BY <1>2, <1>3, <1>4 DEF LinesOf

LEMMA TypeStep ==
  ASSUME ScreenInv, ScreenInv', NEW v, NEW c \in Letters, Type(v, c)
  PROVE  T!Type(c)
<1>1. y < Width + 1 /\ bufs' = [bufs EXCEPT ![x][y] = c] /\ y' = y + 1 /\ x' = x
  BY DEF Type, HasRoom
<1>2. /\ x \in Lines /\ y \in 2 .. Width + 1 /\ bufs \in [Lines -> Row] /\ PromptLine(bufs[x], y)
      /\ bufs' \in [Lines -> Row] /\ PromptLine(bufs'[x'], y') /\ y' \in 2 .. Width + 1
  BY DEF ScreenInv, ShellTypes
<1> DEFINE line == [bufs[x] EXCEPT ![y] = c]
<1>3. bufs' = [bufs EXCEPT ![x] = line] /\ bufs'[x] = line /\ line \in Row
  BY <1>1, <1>2
<1>4. y \in Columns /\ y \in Nat /\ y - 1 \in Nat
  BY <1>1, <1>2, ShellSizes DEF Columns
<1>5. \A j \in Columns : line[j] = IF j = y THEN c ELSE bufs[x][j]
  BY <1>2 DEF Row
<1> HIDE DEF line
<1>6. RingLines' = [RingLines EXCEPT ![Rows] = Shown(line)] /\ RingLines[Rows] = Shown(bufs[x])
  BY <1>1, <1>2, <1>3, BottomChanges
<1>7. /\ Shown(bufs[x]) \in Seq(Glyphs) /\ Len(Shown(bufs[x])) = y - 1
      /\ \A k \in 1 .. y - 1 : Shown(bufs[x])[k] = IF k = 1 THEN "$" ELSE bufs[x][k]
  BY <1>2, ShownPrompt
<1>8. /\ Shown(line) \in Seq(Glyphs) /\ Len(Shown(line)) = y
      /\ \A k \in 1 .. y : Shown(line)[k] = IF k = 1 THEN "$" ELSE line[k]
  <2>1. (y + 1) - 1 = y /\ y + 1 \in 2 .. Width + 1
    BY <1>1, <1>2, <1>4, ShellSizes
  <2>3. PromptLine(line, y + 1)
    BY <1>1, <1>2, <1>3, Zenon
  <2>2. /\ Shown(line) \in Seq(Glyphs) /\ Len(Shown(line)) = (y + 1) - 1
        /\ \A k \in 1 .. (y + 1) - 1 : Shown(line)[k] = IF k = 1 THEN "$" ELSE line[k]
    BY <1>3, <2>1, <2>3, ShownPrompt
  <2> QED BY <2>1, <2>2
<1>9. Shown(line) = Append(Shown(bufs[x]), c)
  <2> DEFINE s == Shown(bufs[x])
             t == Shown(line)
  <2>1. c \in Glyphs
    BY GlyphsAre
  <2>2. Append(s, c) \in Seq(Glyphs) /\ Len(Append(s, c)) = y
    BY <1>4, <1>7, <2>1
  <2>3. ASSUME NEW k \in 1 .. y PROVE t[k] = Append(s, c)[k]
    <3>1. k \in Columns
      BY <1>2, <1>4, ShellSizes DEF Columns
    <3>2. CASE k = y
      <4>1. Append(s, c)[y] = c
        BY <1>4, <1>7
      <4>2. t[y] = c
        <5>1. y # 1
          BY <1>2
        <5> QED BY <1>4, <1>5, <1>8, <3>2, <5>1
      <4> QED BY <3>2, <4>1, <4>2
    <3>3. CASE k # y
      <4>1. k \in 1 .. y - 1
        BY <1>4, <3>3
      <4>2. Append(s, c)[k] = s[k]
        BY <1>7, <4>1
      <4>3. t[k] = IF k = 1 THEN "$" ELSE bufs[x][k]
        BY <1>5, <1>8, <3>1, <3>3
      <4> QED BY <1>7, <4>1, <4>2, <4>3
    <3> QED BY <3>2, <3>3
  <2> HIDE DEF s, t
  <2>4. t = Append(s, c)
    BY <1>8, <2>2, <2>3, SeqEqual DEF t
  <2> QED BY <2>4 DEF s, t
<1>10. Len(RingLines[Rows]) < Width
  BY <1>1, <1>4, <1>6, <1>7, ShellSizes
<1>11. RingLines' = [RingLines EXCEPT ![Rows] = Append(@, c)]
  BY <1>6, <1>9
<1> QED BY <1>10, <1>11 DEF T!Type

LEMMA EraseStep ==
  ASSUME ScreenInv, ScreenInv', NEW v, Erase(v),
         \A j \in Columns : bufs'[x][j] = IF j = y - 1 THEN Nul ELSE bufs[x][j]
  PROVE  T!Erase
<1> DEFINE line == bufs'[x]
<1>1. y > 2 /\ y' = y - 1 /\ x' = x
  BY DEF Erase
<1>2. /\ x \in Lines /\ y \in 2 .. Width + 1 /\ bufs \in [Lines -> Row] /\ PromptLine(bufs[x], y)
      /\ bufs' \in [Lines -> Row] /\ PromptLine(bufs'[x'], y') /\ y' \in 2 .. Width + 1
  BY DEF ScreenInv, ShellTypes
<1>3. bufs' = [bufs EXCEPT ![x] = line] /\ line \in Row
  <2>1. PICK l : bufs' = [bufs EXCEPT ![x] = l]
    BY DEF Erase
  <2> QED BY <1>2, <2>1
<1>4. y \in Nat /\ y - 1 \in Nat /\ y - 2 \in Nat /\ (y - 1) - 1 = y - 2
  BY <1>1, <1>2, ShellSizes
<1>5. RingLines' = [RingLines EXCEPT ![Rows] = Shown(line)] /\ RingLines[Rows] = Shown(bufs[x])
  <2> HIDE DEF line
  <2> QED BY <1>1, <1>2, <1>3, BottomChanges
<1>6. /\ Shown(bufs[x]) \in Seq(Glyphs) /\ Len(Shown(bufs[x])) = y - 1
      /\ \A k \in 1 .. y - 1 : Shown(bufs[x])[k] = IF k = 1 THEN "$" ELSE bufs[x][k]
  BY <1>2, ShownPrompt
<1>7. /\ Shown(line) \in Seq(Glyphs) /\ Len(Shown(line)) = y - 2
      /\ \A k \in 1 .. y - 2 : Shown(line)[k] = IF k = 1 THEN "$" ELSE line[k]
  <2>1. PromptLine(line, y - 1) /\ y - 1 \in 2 .. Width + 1
    BY <1>1, <1>2
  <2> HIDE DEF line
  <2>2. /\ Shown(line) \in Seq(Glyphs) /\ Len(Shown(line)) = (y - 1) - 1
        /\ \A k \in 1 .. (y - 1) - 1 : Shown(line)[k] = IF k = 1 THEN "$" ELSE line[k]
    BY <1>3, <2>1, ShownPrompt
  <2> QED BY <1>4, <2>2
<1>8. Shown(line) = Front(Shown(bufs[x]))
  <2> DEFINE s == Shown(bufs[x])
             t == Shown(line)
  <2>1. /\ Front(s) \in Seq(Glyphs) /\ Len(Front(s)) = y - 2
        /\ \A k \in 1 .. y - 2 : Front(s)[k] = s[k]
    <3> HIDE DEF s
    <3>1. s \in Seq(Glyphs) /\ Len(s) - 1 = y - 2 /\ Len(s) \in Nat
      BY <1>4, <1>6 DEF s
    <3> QED BY <1>4, <3>1 DEF Front
  <2>2. ASSUME NEW k \in 1 .. y - 2 PROVE t[k] = s[k]
    <3>1. k \in Columns /\ k # y - 1 /\ k \in 1 .. y - 1
      BY <1>2, <1>4, ShellSizes DEF Columns
    <3>2. line[k] = bufs[x][k]
      BY <3>1
    <3> HIDE DEF line
    <3> QED BY <1>6, <1>7, <3>1, <3>2
  <2>3. t \in Seq(Glyphs) /\ Len(t) = y - 2
    BY <1>7
  <2> HIDE DEF s, t
  <2>4. t = Front(s)
    BY <2>1, <2>2, <2>3, SeqEqual
  <2> QED BY <2>4 DEF s, t
<1>9. RingLines[Rows] # T!Prompt
  <2>1. Len(T!Prompt) = 1
    BY DEF T!Prompt
  <2>2. Len(RingLines[Rows]) # 1
    BY <1>1, <1>4, <1>5, <1>6
  <2> QED BY <2>1, <2>2
<1>10. RingLines' = [RingLines EXCEPT ![Rows] = Front(@)]
  <2> HIDE DEF line
  <2> QED BY <1>5, <1>8
<1> QED BY <1>9, <1>10 DEF T!Erase, T!Front, Front

LEMMA SubSeqIs ==
  ASSUME NEW S, NEW s \in Seq(S), NEW m \in Nat, NEW l \in Nat
  PROVE  SubSeq(s, m, l) = [k \in 1 .. l - m + 1 |-> s[m + k - 1]]
OBVIOUS

Seens == {Shown(line) : line \in OutputLines}

LEMMA EmptyShown == Shown(empty_line) = T!Prompt
<1>1. 2 \in 2 .. Width + 1 /\ 2 - 1 = 1
  BY ShellSizes
<1>2. /\ Shown(empty_line) \in Seq(Glyphs) /\ Len(Shown(empty_line)) = 2 - 1
      /\ \A k \in 1 .. 2 - 1 : Shown(empty_line)[k] = IF k = 1 THEN "$" ELSE empty_line[k]
  BY <1>1, EmptyPrompt, OutputRows, ShownPrompt
<1>3. <<"$">> \in Seq(Glyphs) /\ Len(<<"$">>) = 1 /\ <<"$">>[1] = "$"
  <2>1. "$" \in Glyphs
    BY GlyphsAre
  <2> QED BY <2>1
<1>4. Len(Shown(empty_line)) = 1 /\ Shown(empty_line)[1] = "$"
  BY <1>1, <1>2
<1>5. Shown(empty_line) = <<"$">>
  BY <1>2, <1>3, <1>4, SeqEqual
<1> QED BY <1>5 DEF T!Prompt

LEMMA RunStep ==
  ASSUME ShellTypes, ShellTypes', NEW out, Prints(out),
         Follows([x |-> x', bufs |-> bufs'], Here, Output(out), Len(out) + 1)
  PROVE  \E shown \in BoundedSeq(Seens, MaxOutput) : T!Run(shown)
<1> DEFINE n == Len(out)
           new == Output(out)
           next == [x |-> x', bufs |-> bufs']
           shown == [k \in 1 .. n |-> Shown(out[k])]
           ends == Append(shown, T!Prompt)
           all == RingLines \o ends
<1>1. /\ n \in 0 .. MaxOutput /\ n \in Nat
      /\ \A k \in 1 .. n : new[k] = out[k] /\ out[k] \in OutputLines
      /\ new[n + 1] = empty_line
  <2>1. n \in 0 .. MaxOutput
    BY PrintedIs
  <2> QED BY <2>1, PrintedIs, ShellAssumption
<1>2. x \in Lines /\ x' \in Lines
  BY DEF ShellTypes
<1>3. RingLines = LinesOf(Here) /\ RingLines' = LinesOf(next)
  BY <1>2, RingLinesAre, RingLinesNext
<1>4. Follows(next, Here, new, n + 1)
  OBVIOUS
<1> HIDE DEF next, new, n
<1>5. shown \in [1 .. n -> Seens] /\ shown \in Seq(Seens) /\ Len(shown) = n
  <2>1. shown \in [1 .. n -> Seens]
    BY <1>1 DEF Seens
  <2> HIDE DEF shown
  <2> QED BY <1>1, <2>1
<1>6. shown \in BoundedSeq(Seens, MaxOutput)
  <2> HIDE DEF shown
  <2> QED BY <1>1, <1>5 DEF BoundedSeq, SeqOf
<1>7. \A k \in 1 .. n : shown[k] = Shown(new[k])
  BY <1>1
<1> HIDE DEF shown
<1> DEFINE A == Seens \cup {T!Prompt} \cup {RingLines[k] : k \in 1 .. Rows}
<1>8. /\ ends \in Seq(A) /\ Len(ends) = n + 1
      /\ \A k \in 1 .. n + 1 : ends[k] = Shown(new[k])
  <2>1. shown \in Seq(A) /\ T!Prompt \in A
    <3>1. \A k \in 1 .. n : shown[k] \in A
      BY <1>5
    <3> HIDE DEF A
    <3>2. shown \in [1 .. n -> A]
      BY <1>5, <3>1
    <3>3. T!Prompt \in A
      BY DEF A
    <3> QED BY <1>1, <3>2, <3>3
  <2> HIDE DEF A
  <2>2. /\ ends \in Seq(A) /\ Len(ends) = n + 1
        /\ \A k \in 1 .. n : ends[k] = shown[k]
        /\ ends[n + 1] = T!Prompt
    BY <1>1, <1>5, <2>1
  <2> HIDE DEF ends
  <2>3. \A k \in 1 .. n + 1 : k \in 1 .. n \/ k = n + 1
    BY <1>1
  <2> QED BY <1>1, <1>7, <2>2, <2>3, EmptyShown
<1> HIDE DEF ends
<1>9. RingLines \in Seq(A) /\ Len(RingLines) = Rows
  <2>1. RingLines = [k \in 1 .. Rows |-> RingLines[k]]
    BY <1>3 DEF LinesOf
  <2>2. \A k \in 1 .. Rows : RingLines[k] \in A
    OBVIOUS
  <2> HIDE DEF A
  <2>3. RingLines \in [1 .. Rows -> A]
    BY <2>1, <2>2
  <2> QED BY <2>3, ShellSizes
<1> HIDE DEF A
<1>10. /\ all \in Seq(A) /\ Len(all) = Rows + (n + 1)
       /\ \A k \in 1 .. Rows : all[k] = RingLines[k]
       /\ \A k \in 1 .. n + 1 : all[Rows + k] = ends[k]
  <2>1. all \in Seq(A)
    BY <1>8, <1>9
  <2>2. Len(all) = Rows + (n + 1)
    BY <1>8, <1>9
  <2>3. \A k \in 1 .. Rows : all[k] = RingLines[k]
    BY <1>1, <1>8, <1>9, ShellSizes
  <2>4. ASSUME NEW k \in 1 .. n + 1 PROVE all[Rows + k] = ends[k]
    <3>1. Rows + k \in 1 .. Len(RingLines) + Len(ends) /\ ~(Rows + k <= Len(RingLines))
          /\ (Rows + k) - Len(RingLines) = k
      BY <1>1, <1>8, <1>9, ShellSizes
    <3> QED BY <1>8, <1>9, <3>1
  <2> QED BY <2>1, <2>2, <2>3, <2>4
<1> HIDE DEF all
<1> DEFINE part == SubSeq(all, Len(all) - Rows + 1, Len(all))
<1>11. Len(all) - Rows + 1 = n + 2 /\ Len(all) = Rows + n + 1 /\ Rows \in Nat /\ n + 2 \in Nat
  BY <1>1, <1>10, ShellSizes
<1>12. part = [k \in 1 .. Rows |-> all[n + 1 + k]]
  <2> DEFINE m == n + 2
             l == Rows + n + 1
  <2>1. part = SubSeq(all, m, l) /\ m \in Nat /\ l \in Nat
    BY <1>1, <1>11
  <2>2. l - m + 1 = Rows /\ \A k \in 1 .. Rows : m + k - 1 = n + 1 + k
    BY <1>1, <1>11
  <2> HIDE DEF part, m, l
  <2>3. SubSeq(all, m, l) = [k \in 1 .. l - m + 1 |-> all[m + k - 1]]
    BY <1>10, <2>1, SubSeqIs
  <2> QED BY <2>1, <2>2, <2>3
<1> HIDE DEF part
<1>13. ASSUME NEW k \in 1 .. Rows PROVE RingLines'[k] = all[n + 1 + k]
  <2>1. RingLines'[k] = Shown(LineAt(next, k))
    BY <1>3 DEF LinesOf
  <2>2. LineAt(next, k) = IF (n + 1) + k <= Rows THEN LineAt(Here, (n + 1) + k)
                          ELSE new[(n + 1) + k - Rows]
    BY <1>4 DEF Follows
  <2>3. CASE (n + 1) + k <= Rows
    <3>1. (n + 1) + k \in 1 .. Rows
      BY <1>1, <2>3, ShellSizes
    <3>2. all[(n + 1) + k] = RingLines[(n + 1) + k]
      BY <1>10, <3>1
    <3>3. RingLines[(n + 1) + k] = Shown(LineAt(Here, (n + 1) + k))
      BY <1>3, <3>1 DEF LinesOf
    <3> QED BY <2>1, <2>2, <2>3, <3>2, <3>3
  <2>4. CASE ~((n + 1) + k <= Rows)
    <3> DEFINE j == (n + 1) + k - Rows
    <3>1. j \in 1 .. n + 1 /\ Rows + j = (n + 1) + k
      BY <1>1, <2>4, ShellSizes
    <3> HIDE DEF j
    <3>2. all[Rows + j] = Shown(new[j])
      BY <1>8, <1>10, <3>1
    <3>3. LineAt(next, k) = new[j]
      BY <2>2, <2>4 DEF j
    <3> QED BY <2>1, <3>1, <3>2, <3>3
  <2> QED BY <2>3, <2>4
<1>14. RingLines' = part
  <2>1. RingLines' = [k \in 1 .. Rows |-> RingLines'[k]]
    BY <1>3 DEF LinesOf
  <2> QED BY <1>12, <1>13, <2>1
<1>15. T!Run(shown)
  BY <1>14 DEF T!Run, part, all, ends
<1> QED BY <1>6, <1>15

LEMMA SameRing == ASSUME UNCHANGED <<x, bufs>> PROVE RingLines' = RingLines
BY DEF RingLines, Shown

LEMMA TerminalStep ==
  ASSUME ScreenInv, ScreenInv', [Next]_vars
  PROVE  [T!Next]_RingLines
<1>1. ShellTypes /\ ShellTypes'
  BY DEF ScreenInv
<1>2. ASSUME NEW v \in Screens(Glyphs), NEW out, Prints(out), Prompt(v, out)
      PROVE  T!Next
  <2>1. Follows([x |-> x', bufs |-> bufs'], Here, Output(out), Len(out) + 1)
    BY <1>1, <1>2, PromptKeeps
  <2>2. \E shown \in BoundedSeq(Seens, MaxOutput) : T!Run(shown)
    BY <1>1, <1>2, <2>1, RunStep
  <2> QED BY <2>2 DEF T!Next, Seens, T!BoundedSeq, T!SeqOf, BoundedSeq, SeqOf
<1>3. CASE UNCHANGED <<x, bufs>>
  BY <1>3, SameRing
<1>4. CASE Turn
  <2>1. PICK key \in Keys : Handle(NoiseOn(WriteChar(vga_buffer, y, Rows - 1, "_"), key), key)
    BY <1>4 DEF Turn
  <2> DEFINE v == NoiseOn(WriteChar(vga_buffer, y, Rows - 1, "_"), key)
  <2>2. v \in Screens(Glyphs) /\ (~printed /\ key.k # "grave" => RingShown(v, bufs, x, y))
    BY <1>4, TurnScreen DEF Turn
  <2>3. Handle(v, key)
    BY <2>1
  <2> HIDE DEF v
  <2>4. CASE key.type = 1 /\ key.k = "ENTER"
    <3>1. \/ UNCHANGED <<x, bufs>>
          \/ \E out \in BoundedSeq(IF Typed THEN OutputLines ELSE {}, MaxOutput) : Prompt(v, out)
      BY <2>3, <2>4 DEF Handle, Enter
    <3>2. ASSUME NEW out \in BoundedSeq(IF Typed THEN OutputLines ELSE {}, MaxOutput), Prompt(v, out)
          PROVE  T!Next
      BY <1>2, <2>2, <3>2 DEF Prints
    <3> QED BY <1>3, <3>1, <3>2
  <2>5. CASE ~(key.type = 1 /\ key.k = "ENTER")
    <3>1. /\ printed' = (printed \/ key.k = "grave")
          /\ \/ Char(key) # Nul /\ Type(v, Char(key))
             \/ Erase(v)
             \/ UNCHANGED <<x, bufs>>
      BY <2>3, <2>5 DEF Handle
    <3>2. CASE Char(key) # Nul /\ Type(v, Char(key))
      <4>1. Char(key) \in Letters
        BY <3>2, CharIs
      <4>2. T!Type(Char(key))
        BY <3>2, <4>1, TypeStep
      <4> QED BY <4>1, <4>2 DEF T!Next
    <3>3. CASE Erase(v)
      <4>1. pc' = pc /\ pc = "loop"
        BY <1>4, <3>3 DEF Erase, Turn
      <4>2. printed' \in BOOLEAN /\ (pc' = "loop" /\ ~printed' => RingShown(v, bufs, x, y))
        BY <1>1, <2>2, <3>1 DEF ShellTypes
      <4>3. \A j \in Columns : bufs'[x][j] = IF j = y - 1 THEN Nul ELSE bufs[x][j]
        BY <2>2, <3>3, <4>2, EraseKeeps
      <4>4. T!Erase
        BY <3>3, <4>3, EraseStep
      <4> QED BY <4>4 DEF T!Next
    <3> QED BY <1>3, <3>1, <3>2, <3>3
  <2> QED BY <2>4, <2>5
<1>5. CASE ChildExit
  <2>1. Prompt(vga_buffer, <<>>)
    BY <1>5 DEF ChildExit
  <2> QED BY <1>1, <1>2, <2>1 DEF ShellTypes, Prints
<1>6. CASE Keyboarding \/ ChildPrint \/ ChildRead \/ UNCHANGED vars
  <2>1. UNCHANGED <<x, bufs>>
    BY <1>6 DEF Keyboarding, ChildPrint, ChildRead, vars, shell_vars
  <2> QED BY <1>3, <2>1
<1> QED BY <1>4, <1>5, <1>6 DEF Next

\* The ring of lines is a terminal: a key changes the end of the prompt line alone, output
\* comes after the prompt and pushes out the oldest lines only, wherever the ring is.
THEOREM Ring_Is_Terminal == Spec => RingIsTerminal
<1>1. Init => T!Init
  <2> SUFFICES ASSUME Init PROVE T!Init
    OBVIOUS
  <2>1. x \in Lines /\ bufs = [n \in Lines |-> empty_line]
    BY ShellSizes DEF Init, Lines
  <2>2. RingLines = LinesOf(Here)
    BY <2>1, RingLinesAre
  <2>3. ASSUME NEW k \in 1 .. Rows PROVE Shown(LineAt(Here, k)) = T!Prompt
    <3>1. LineAt(Here, k) = empty_line
      BY <2>1, LineNumber DEF LineAt, Here
    <3> QED BY <3>1, EmptyShown
  <2> QED BY <2>2, <2>3 DEF T!Init, LinesOf
<1>2. ScreenInv /\ ScreenInv' /\ [Next]_vars => [T!Next]_RingLines
  BY TerminalStep
<1> QED BY <1>1, <1>2, ScreenInvariant, PTL DEF Spec, RingIsTerminal, T!Spec
===============================================================================
