-------------------------------- MODULE Keyboard -------------------------------
(***************************************************************************)
(* The keyboard: its controller, the interrupt that says a byte has come,  *)
(* and the driver that a system call asks for a key (common/keyboard.c).   *)
(* The controller is external: it keeps the bytes in order, shows one in   *)
(* its port, and raises the interrupt for each byte it shows; a read takes *)
(* the byte, and a read with no new byte gets the last one again.          *)
(***************************************************************************)
EXTENDS Integers, SequencesExt

CONSTANTS
  Chars,      \* keys of a character, as codes
  Specials,   \* keys of the other kind, but the left shift key
  FifoLen,    \* bytes the controller keeps
  MaxBytes    \* bound: bytes the keyboard sends

ASSUME KeyboardAssumption ==
  /\ FifoLen \in Nat \ {0} /\ MaxBytes \in Nat
  /\ Chars \subseteq {"a", "&", "grave"}
  /\ Specials \cap {"shift", "unshift", "none"} = {}

VARIABLES
  fifo,        \* the bytes not yet read; the first one is in the port
  port,        \* the last one that was read
  irq,         \* the interrupt is raised
  available, shift_key,
  held,        \* the shift key is held
  last,        \* the key that repeats
  sent,        \* history: how many bytes were sent
  stale,       \* history: how often the port was read without a new byte
  inverted     \* history: whether repeated or stale bytes of the shift key inverted it

keyboard_vars ==
  <<fifo, port, irq, available, shift_key, held, last, sent, stale, inverted>>

Nul  == "nul"
None == [code |-> "none", held |-> FALSE, again |-> FALSE]

Codes == Chars \cup Specials \cup {"shift", "unshift", "none"}

\* A byte, whether shift was held before it, and whether the key was already down.
Byte == [code : Codes, held : BOOLEAN, again : BOOLEAN]

KeyboardTypeOK ==
  /\ fifo \in BoundedSeq(Byte, FifoLen) /\ port \in Byte
  /\ {irq, available, held, inverted} \subseteq BOOLEAN
  /\ shift_key \in {0, 1}
  /\ last \in Codes
  /\ sent \in 0 .. MaxBytes /\ stale \in 0 .. 2

KeyboardInit ==
  /\ fifo = <<>> /\ port = None
  /\ irq = FALSE /\ available = TRUE /\ shift_key = 0
  /\ held = FALSE /\ last = "none"
  /\ sent = 0 /\ stale = 0 /\ inverted = FALSE

-----------------------------------------------------------------------------
(* The controller.                                                         *)

Send(code, again) ==
  /\ Len(fifo) < FifoLen /\ sent < MaxBytes
  /\ fifo' = Append(fifo, [code |-> code, held |-> held, again |-> again])
  /\ irq' = (irq \/ fifo = <<>>)
  /\ sent' = sent + 1
  /\ UNCHANGED <<port, available, shift_key, stale, inverted>>

PressKey(code) == Send(code, FALSE) /\ last' = code /\ UNCHANGED held

PressShift   == ~held /\ Send("shift", FALSE) /\ held' = TRUE /\ last' = "shift"
ReleaseShift == held /\ Send("unshift", FALSE) /\ held' = FALSE /\ last' = "none"

\* A key that stays down sends its byte again.
Repeat == held /\ last = "shift" /\ Send("shift", TRUE) /\ UNCHANGED <<held, last>>

-----------------------------------------------------------------------------
(* The driver.                                                             *)

\* Faulty: the flag is inverted.
MakeAvailableToggles ==
  /\ irq
  /\ irq' = FALSE
  /\ available' = ~available
  /\ UNCHANGED <<fifo, port, shift_key, held, last, sent, stale, inverted>>

\* make_available, the handler of the interrupt.
MakeAvailable ==
  /\ irq
  /\ irq' = FALSE
  /\ available' = TRUE
  /\ UNCHANGED <<fifo, port, shift_key, held, last, sent, stale, inverted>>

shifter(c) == CASE c = "a" -> "A" [] c = "&" -> "1" [] OTHER -> c

\* Faulty: only the byte of the key going down does.
TogglesDown(code) == code = "shift"

\* azerty_config: each byte of the left shift key, down or up, inverts shift_key.
Toggles(code) == code \in {"shift", "unshift"}

Shift(code) == IF Toggles(code) THEN 1 - shift_key ELSE shift_key

azerty_config(code) ==
  IF code \in Chars
  THEN [type |-> 0, k |-> IF Shift(code) = 1 THEN shifter(code) ELSE code]
  ELSE IF code = "none" THEN [type |-> 0, k |-> Nul] ELSE [type |-> 1, k |-> code]

Typable == Chars \cup {shifter(c) : c \in Chars}
Keys == [type : {0}, k : Typable \cup {Nul}] \cup [type : {1}, k : Codes \ {"none"}]

\* get_scancode: the port, and what follows in it.
ReadPort(byte) ==
  IF fifo = <<>>
  THEN /\ byte = port
       /\ stale' = stale + 1
       /\ inverted' = (inverted # (byte.code \in {"shift", "unshift"}))
       /\ UNCHANGED <<fifo, port, irq>>
  ELSE /\ byte = Head(fifo)
       /\ fifo' = Tail(fifo) /\ port' = byte
       /\ irq' = (irq \/ Len(fifo) > 1)
       /\ inverted' = (inverted # byte.again)
       /\ UNCHANGED stale

\* Faulty: the flag is left set.
KeyboardHandlerKeeps(key) ==
  \E byte \in {port, None} \cup ToSet(fifo) :
    /\ IF available THEN ReadPort(byte)
       ELSE byte = None /\ UNCHANGED <<fifo, port, irq, stale, inverted>>
    /\ key = azerty_config(byte.code)
    /\ shift_key' = Shift(byte.code)
    /\ UNCHANGED <<available, held, last, sent>>

\* keyboard_handler, in a system call: interrupts are off. key is its answer.
KeyboardHandler(key) ==
  \E byte \in {port, None} \cup ToSet(fifo) :
    /\ IF available THEN ReadPort(byte)
       ELSE byte = None /\ UNCHANGED <<fifo, port, irq, stale, inverted>>
    /\ available' = FALSE
    /\ key = azerty_config(byte.code)
    /\ shift_key' = Shift(byte.code)
    /\ UNCHANGED <<held, last, sent>>

-----------------------------------------------------------------------------
(* Properties.                                                             *)

\* No byte is left in the port with nothing to tell the program: the interrupt is only
\* raised again once the port is read, so the keyboard would be dead for good.
NoKeyStuck == fifo # <<>> => irq \/ available

\* The port is read at most once without a new byte: available is set from the start,
\* so that the interrupt of a key may come after the key was read.
OneStaleRead == stale <= 1

\* Characters come with the case they were typed in, but for the bytes that a shift key
\* that stays down repeats, and for a stale one: each inverts all that follows.
ShiftFollowsKey ==
  (shift_key = 1) = ((IF fifo = <<>> THEN held ELSE Head(fifo).held) # inverted)
=============================================================================
