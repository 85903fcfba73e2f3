------------------------------ MODULE Keyboard ------------------------------
(***************************************************************************)
(* From the keyboard to the keys the TTY task gets (kernel/keyboard.c):    *)
(* the interrupt handler puts scan codes into a ring; the clock informs    *)
(* TTY (kernel/clock.c), which takes them out and decodes them.            *)
(*                                                                         *)
(* A key is pressed or let go, its scan codes come one interrupt at a      *)
(* time, and TTY may be anywhere in keyboard_read when one does.           *)
(***************************************************************************)
EXTENDS Integers, Sequences

CONSTANTS KB_IN_BYTES,   \* slots of the ring
          Keys,          \* the keys that are used, of the domain of Scan
          MaxEvents      \* bound: keys pressed and let go

\* The make codes the hardware sends; a break code has the top bit set.
Scan == [a |-> <<\h1E>>, shift |-> <<\h2A>>, caps |-> <<\h3A>>,
         num |-> <<\h45>>, pad |-> <<\h48>>, up |-> <<\hE0, \h48>>]

ASSUME KeyboardAssumption ==
    KB_IN_BYTES \in Nat \ {0} /\ Keys \subseteq DOMAIN Scan

PausePress   == <<\hE1, \h1D, \h45, \hE1, \h9D, \hC5>>
PrintPress   == <<\hE0, \h2A, \hE0, \h37>>
PrintRelease == <<\hE0, \hB7, \hE0, \hAA>>

Byte == 0..255

VARIABLES
    ring, p_head, p_tail, count,    \* kb_in
    pending,       \* history: the bytes accepted and not yet taken, in order
    key_pressed, tty_has_int_msg,
    at,            \* TTY: "read", "receive", "blocked" or "hard_int"
    taken,         \* the bytes of the turn of keyboard_read's loop
    key, make,     \* what keyboard_read keeps from turn to turn
    shift_l, caps_lock, num_lock,
    given,         \* what in_process was called with, make codes only
    wire, down, caps_on, num_on,    \* the keyboard itself
    typed,         \* what the keys mean, by the state of the keyboard
    events,        \* how many were pressed or let go
    lost           \* a byte was dropped or swallowed

ringVars == <<ring, p_head, p_tail, count, pending>>
ttyVars  == <<at, taken, key, make, shift_l, caps_lock, num_lock, given>>
userVars == <<down, caps_on, num_on, typed, events>>
keyVars == <<ringVars, key_pressed, tty_has_int_msg, ttyVars, wire, userVars, lost>>

RingInit ==
    /\ ring = [i \in 0..(KB_IN_BYTES - 1) |-> 0]
    /\ p_head = 0 /\ p_tail = 0 /\ count = 0 /\ pending = <<>>

KeyInit ==
    /\ RingInit
    /\ key_pressed = FALSE /\ tty_has_int_msg = FALSE
    /\ at = "read" /\ taken = <<>> /\ key = "none"
    /\ make = "unset"
    /\ shift_l = FALSE /\ caps_lock = FALSE /\ num_lock = TRUE /\ given = <<>>
    /\ wire = <<>> /\ down = {} /\ caps_on = FALSE /\ num_on = TRUE
    /\ typed = <<>> /\ events = 0 /\ lost = FALSE

-----------------------------------------------------------------------------
(* The keyboard and its user *)

Shifted == "shift" \in down

\* What a user means by pressing k.
Meaning(k) ==
    CASE k = "a"   -> <<IF Shifted # caps_on THEN "A" ELSE "a">>
      [] k = "pad" -> <<IF Shifted \/ num_on THEN "8" ELSE "UP">>
      [] k = "up"  -> <<IF Shifted THEN "shift UP" ELSE "UP">>
      [] OTHER     -> <<>>

Event(codes) ==
    /\ wire = <<>> /\ wire' = codes
    /\ events < MaxEvents /\ events' = events + 1
    /\ UNCHANGED <<ringVars, key_pressed, tty_has_int_msg, ttyVars, lost>>

Press(k) ==
    /\ k \notin down
    /\ Event(Scan[k])
    /\ down' = down \cup {k}
    /\ caps_on' = (caps_on # (k = "caps"))
    /\ num_on' = (num_on # (k = "num"))
    /\ typed' = typed \o Meaning(k)

Break(code) == code + 128

LetGo(k) ==
    /\ k \in down
    /\ Event([Scan[k] EXCEPT ![Len(Scan[k])] = Break(@)])
    /\ down' = down \ {k}
    /\ UNCHANGED <<caps_on, num_on, typed>>

\* Pause has no break code; PrintScreen is pressed and let go at any time.
PressSpecial(codes) ==
    /\ Event(codes)
    /\ UNCHANGED <<down, caps_on, num_on, typed>>

-----------------------------------------------------------------------------
(* The ring *)

\* Seeded fault: the head does not wrap around in time.
NextSlotLate(p) == IF p = KB_IN_BYTES - 1 THEN p ELSE p + 1

NextSlot(p) == IF p + 1 = KB_IN_BYTES THEN 0 ELSE p + 1

Put(code) ==
    /\ count < KB_IN_BYTES
    /\ ring' = [ring EXCEPT ![p_head] = code]
    /\ p_head' = NextSlot(p_head)
    /\ count' = count + 1
    /\ pending' = Append(pending, code)
    /\ UNCHANGED p_tail

Get ==
    /\ count > 0
    /\ p_tail' = NextSlot(p_tail)
    /\ count' = count - 1
    /\ pending' = Tail(pending)
    /\ UNCHANGED <<ring, p_head>>

keyboard_handler ==
    /\ wire # <<>>
    /\ wire' = Tail(wire)
    /\ key_pressed' = TRUE
    /\ \/ Put(Head(wire)) /\ UNCHANGED lost
       \/ count = KB_IN_BYTES /\ lost' = TRUE /\ UNCHANGED ringVars
    /\ UNCHANGED <<tty_has_int_msg, ttyVars, userVars>>

-----------------------------------------------------------------------------
(* Decoding *)

StartOf(codes) == {SubSeq(codes, 1, n) : n \in 0..(Len(codes) - 1)}

\* keyboard_read needs another byte to finish the turn.
Unfinished(t) == t \in UNION {StartOf(c) : c \in {PausePress, PrintPress, PrintRelease}}

IsPrint(t) == t \in {PrintPress, PrintRelease}

\* The code that is looked up, and whether it came behind an E0.
ScanCode(t) == IF t[1] = \hE1 THEN \hE1 ELSE t[Len(t)]
WithE0(t) == Len(t) \in {2, 4} /\ t[1] = \hE0 /\ t[Len(t) - 1] = \hE0

\* Seeded fault: Caps Lock wins over Shift.
ColumnOr(letter) == shift_l \/ (caps_lock /\ letter)

\* Whether the key is taken from column 1.
Column(letter) == IF caps_lock /\ letter THEN ~shift_l ELSE shift_l

\* keymap
Lookup(t) ==
    LET code == ScanCode(t) % 128
    IN  IF WithE0(t)
        THEN CASE code = \h48 -> "UP"
               [] code = \h1D -> "CTRL_R"
               [] OTHER       -> "nothing"
        ELSE CASE code = \h1E -> IF Column(TRUE) THEN "A" ELSE "a"
               [] code = \h48 -> IF Column(FALSE) THEN "8" ELSE "PAD_UP"
               [] code = \h2A -> "SHIFT_L"
               [] code = \h3A -> "CAPS_LOCK"
               [] code = \h45 -> "NUM_LOCK"
               [] code = \h37 -> "*"
               [] code = \h1D -> "CTRL_L"
               [] OTHER       -> "nothing"

\* What in_process makes of a key: characters go to the TTY, a shifted UP
\* scrolls; with nothing but modifiers and dead keys TTY does nothing.
Process(k) ==
    CASE k \in {"a", "A", "8", "*"} -> <<k>>
      [] k = "UP"     -> <<IF shift_l' THEN "shift UP" ELSE "UP">>
      [] k = "PAD_UP" -> <<IF num_lock' THEN "8"
                           ELSE IF shift_l' THEN "shift UP" ELSE "UP">>
      [] OTHER -> <<>>

\* A turn that finds PrintScreen or Pause from the turn before decodes
\* nothing; the flags of shift, or-ed into a key that is pressed, hide it.
Stuck == key \in {"PRINTSCREEN", "PAUSEBREAK"}
KeyAfter(k, pressed) == IF pressed /\ shift_l THEN "other" ELSE k

\* make is a local without a first value; a Pause may be the first to use it.
Value(m) == IF m = "unset" THEN {"make", "break"} ELSE {m}

DecodeSpecial(t) ==
    /\ make' \in CASE t = PrintPress   -> {"make"}
                   [] t = PrintRelease -> {"break"}
                   [] OTHER            -> Value(make)
    /\ key' = KeyAfter(IF IsPrint(t) THEN "PRINTSCREEN"
                       ELSE IF t = PausePress THEN "PAUSEBREAK" ELSE key,
                       make' = "make")
    /\ lost' = (lost \/ (Stuck /\ ~IsPrint(t) /\ t # PausePress))
    /\ UNCHANGED <<shift_l, caps_lock, num_lock, given>>

DecodeCode(t) ==
    LET k       == Lookup(t)
        pressed == ScanCode(t) < 128
    IN  /\ make' = IF pressed THEN "make" ELSE "break"
        /\ shift_l' = IF k = "SHIFT_L" THEN pressed ELSE shift_l
        /\ caps_lock' = (caps_lock # (k = "CAPS_LOCK" /\ pressed))
        /\ num_lock' = (num_lock # (k = "NUM_LOCK" /\ pressed))
        /\ given' = IF pressed THEN given \o Process(k) ELSE given
        /\ key' = "other"
        /\ UNCHANGED lost

Decode(t) ==
    IF Stuck \/ IsPrint(t) \/ t = PausePress THEN DecodeSpecial(t) ELSE DecodeCode(t)

\* get_byte_from_kb_buf, and the rest of the turn when the last byte is here.
keyboard_read ==
    /\ at = "read" /\ Get
    /\ LET t == Append(taken, ring[p_tail])
       IN  IF Unfinished(t)
           THEN taken' = t /\ UNCHANGED <<key, make, shift_l, caps_lock, num_lock, given, lost>>
           ELSE taken' = <<>> /\ Decode(t)
    /\ UNCHANGED <<at, key_pressed, tty_has_int_msg, wire, userVars>>

-----------------------------------------------------------------------------
(* TTY sleeps and wakes *)

\* The ring is empty at the head of the loop: keyboard_read returns.
ReadDone ==
    /\ at = "read" /\ taken = <<>> /\ count = 0
    /\ at' = "receive" /\ key' = "none" /\ make' = "unset"
    /\ UNCHANGED <<ringVars, key_pressed, tty_has_int_msg, taken, shift_l,
                   caps_lock, num_lock, given, wire, userVars, lost>>

TtyReceive ==
    /\ at = "receive"
    /\ at' = IF tty_has_int_msg THEN "hard_int" ELSE "blocked"
    /\ tty_has_int_msg' = FALSE
    /\ UNCHANGED <<ringVars, key_pressed, taken, key, make, shift_l, caps_lock,
                   num_lock, given, wire, userVars, lost>>

\* A message of FS makes TTY run through its loop, too.
TtyMessage ==
    /\ at = "blocked" /\ at' = "read"
    /\ UNCHANGED <<ringVars, key_pressed, tty_has_int_msg, taken, key, make, shift_l,
                   caps_lock, num_lock, given, wire, userVars, lost>>

TtyHardInt ==
    /\ at = "hard_int" /\ at' = "read"
    /\ key_pressed' = FALSE
    /\ UNCHANGED <<ringVars, tty_has_int_msg, taken, key, make, shift_l, caps_lock,
                   num_lock, given, wire, userVars, lost>>

\* Seeded fault: TTY is not informed while it runs.
InformBlocked ==
    /\ at' = IF at = "blocked" THEN "hard_int" ELSE at
    /\ key_pressed' = FALSE /\ UNCHANGED tty_has_int_msg

\* inform_int
Inform ==
    /\ at' = IF at = "blocked" THEN "hard_int" ELSE at
    /\ tty_has_int_msg' = (at # "blocked")
    /\ UNCHANGED key_pressed

clock_handler ==
    /\ key_pressed /\ Inform
    /\ UNCHANGED <<ringVars, taken, key, make, shift_l, caps_lock, num_lock,
                   given, wire, userVars, lost>>

TaskTty == keyboard_read \/ ReadDone \/ TtyReceive \/ TtyHardInt

KeyNext ==
    \/ \E k \in Keys : Press(k) \/ LetGo(k)
    \/ \E codes \in {PausePress, PrintPress, PrintRelease} : PressSpecial(codes)
    \/ keyboard_handler \/ clock_handler
    \/ TaskTty \/ TtyMessage

\* The scheduler runs TTY, and interrupts come.
KeyFairness == WF_keyVars(TaskTty) /\ WF_keyVars(clock_handler) /\ WF_keyVars(keyboard_handler)

KeySpec == KeyInit /\ [][KeyNext]_keyVars /\ KeyFairness
-----------------------------------------------------------------------------
Index   == 0..(KB_IN_BYTES - 1)
RingSlot(p) == IF p >= KB_IN_BYTES THEN p - KB_IN_BYTES ELSE p

(* Head, tail and count of the ring agree however the interrupt handler and *)
(* get_byte_from_kb_buf take turns, and between tail and head lie the bytes *)
(* accepted and not yet taken, in their order.                              *)
RingExact ==
    /\ count \in 0..KB_IN_BYTES /\ count = Len(pending)
    /\ p_head \in Index /\ p_tail \in Index
    /\ p_head = RingSlot(p_tail + count)
    /\ \A i \in 1..count : ring[RingSlot(p_tail + i - 1)] = pending[i]

(* Unless a byte was dropped (a full ring) or swallowed (behind PrintScreen *)
(* or Pause, read in one go), TTY gets what was typed, with the right case  *)
(* and the right lock state, in order; all of it once it has caught up,     *)
(* and then no modifier is stuck.                                           *)
KeysExact ==
    lost \/
    /\ Len(given) <= Len(typed) /\ given = SubSeq(typed, 1, Len(given))
    /\ wire = <<>> /\ count = 0 /\ taken = <<>> =>
          given = typed /\ shift_l = Shifted /\ caps_lock = caps_on /\ num_lock = num_on

(* No key press is slept through: a byte in the ring is always taken, even *)
(* if its interrupt came while TTY was on its way to sleep.                *)
KeysNoticed == (count > 0) ~> (count = 0)

\* The inductive invariant of KernelProof: RingExact, and the types it needs.
RingInv ==
    /\ ring \in [Index -> Byte] /\ pending \in Seq(Byte) /\ wire \in Seq(Byte)
    /\ RingExact
=============================================================================
