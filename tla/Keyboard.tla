------------------------------ MODULE Keyboard -------------------------------
(***************************************************************************)
(* The keyboard driver, kernel/src/kb.c, and the programs that take turns  *)
(* at its one key handler: donut.c, the prompt and the print command of    *)
(* tty.c.  Of donut.c the loop matters, its colour and its pause, the      *)
(* milisleep of libc's time.c; of the programs of tty.c, when they listen. *)
(*                                                                         *)
(* Of the modifiers the two that choose a character are modelled; nothing  *)
(* reads the bits of control, alt, number and scroll lock.                 *)
(***************************************************************************)
EXTENDS Naturals

CONSTANTS
  TickMod,   \* the tick counter wraps here: 2^32
  Nap,       \* the pause of a frame in ticks: 15
  Colours    \* the colours the color command and the donut choose from

ASSUME KeyboardAssumption == TickMod \in Nat /\ Nap \in Nat /\ Nap < TickMod

Grey == "grey"   \* light grey on black
Keys == {"h", "arrow", "lshift", "rshift", "caps"}
Modifiers == {"lshift", "rshift", "caps"}

VARIABLES
  down,       \* the modifiers that are down
  caps_on,    \* caps lock as its user counts it: every stroke toggles it
  shift, caps_lock,   \* bits of mods
  kb_key_handler,     \* "NULL", "donut" or "tty"
  main,       \* what main does next
  quit,       \* donut's __quit
  tty_color, saved,   \* the colour, and donut's copy of it
  raced,      \* history: a key was pressed between donut's test and its store
  ticks, stop_time,
  stroke      \* history: the key the prompt or the print command received in
              \* the last step

keyboardVars == <<down, caps_on, shift, caps_lock, kb_key_handler, main, quit,
                  tty_color, saved, raced, ticks, stop_time, stroke>>
keys == <<down, caps_on, shift, caps_lock>>
clock == <<ticks, stop_time>>
colours == <<tty_color, saved, raced>>

NoStroke == [held |-> {}, meant |-> "none", got |-> "none"]

KeyboardInit ==
  /\ down = {} /\ caps_on = FALSE
  /\ shift = FALSE /\ caps_lock = FALSE
  /\ kb_key_handler = "NULL"
  /\ main = "boot" /\ quit = FALSE
  /\ tty_color = Grey /\ saved = Grey /\ raced = FALSE
  /\ ticks = 0 /\ stop_time = 0
  /\ stroke = NoStroke

-----------------------------------------------------------------------------
\* kb_layout_us, as numbers: H has the code of KEY_UP.
kb_layout_us(i, k) == IF k = "h" THEN (IF i THEN 72 ELSE 104) ELSE 72

\* What the switches over the keys take a code for.
Reading(code) == IF code = 104 THEN "h" ELSE "up"

\* What the user means by a key while other keys are down.
Meant(k, held, caps) ==
  IF k = "arrow" THEN "up"
  ELSE IF ({"lshift", "rshift"} \cap held # {}) # caps THEN "H" ELSE "h"

kb_set_key_handler_First(h) ==
  kb_key_handler' = IF kb_key_handler = "NULL" THEN h ELSE kb_key_handler
kb_set_key_handler(h) ==
  kb_key_handler' = IF kb_key_handler = "NULL" \/ h = "NULL" THEN h ELSE kb_key_handler

\* The handler gives the low byte of the saved attribute back, which holds
\* both its colours.
Restored_Kept == tty_color
Restored == saved

__donut_key_handler ==
  /\ quit' = TRUE
  /\ kb_set_key_handler("NULL")
  /\ tty_color' = Restored
  /\ raced' = (raced \/ main = "paint")
  /\ stroke' = NoStroke

__tty_read_key(k) ==
  /\ stroke' = [held |-> down, meant |-> Meant(k, down, caps_on),
                got |-> Reading(kb_layout_us(caps_lock # shift, k))]
  /\ UNCHANGED <<quit, kb_key_handler, tty_color, raced>>

\* __kb_handler for a key that goes down, or repeats.
Press(k) ==
  /\ down' = down \cup ({k} \cap Modifiers)
  /\ caps_on' = IF k = "caps" /\ k \notin down THEN ~caps_on ELSE caps_on
  /\ shift' = (k = "lshift" \/ shift)
  /\ IF k \in Modifiers \/ kb_key_handler = "NULL"
     THEN UNCHANGED <<quit, kb_key_handler, tty_color, raced>> /\ stroke' = NoStroke
     ELSE IF kb_key_handler = "donut" THEN __donut_key_handler ELSE __tty_read_key(k)
  /\ UNCHANGED <<caps_lock, main, saved, clock>>

\* And for one that is released; the right shift starts a process.
CapsOnRelease_Set(k) == IF k = "caps" THEN TRUE ELSE caps_lock
CapsOnRelease(k) == IF k = "caps" THEN ~caps_lock ELSE caps_lock

Release(k) ==
  /\ k \in down /\ down' = down \ {k}
  /\ shift' = (k # "lshift" /\ shift)
  /\ caps_lock' = CapsOnRelease(k)
  /\ stroke' = NoStroke
  /\ UNCHANGED <<caps_on, kb_key_handler, main, quit, colours, clock>>

Tick ==
  /\ ticks' = (ticks + 1) % TickMod
  /\ stroke' = NoStroke
  /\ UNCHANGED <<keys, kb_key_handler, main, quit, colours, stop_time>>

-----------------------------------------------------------------------------
\* donut, called by main at boot and by its command.
Donut ==
  /\ main \in {"boot", "command"}
  /\ saved' = tty_color /\ raced' = FALSE
  /\ kb_set_key_handler("donut")
  /\ main' = "test"
  /\ UNCHANGED <<keys, quit, tty_color, clock>>

\* The head of its loop.
Test ==
  /\ main = "test"
  /\ quit' = FALSE
  /\ main' = IF quit THEN "returned" ELSE "paint"
  /\ UNCHANGED <<keys, kb_key_handler, colours, clock>>

Paint ==
  /\ main = "paint"
  /\ tty_color' \in Colours
  /\ main' = "draw"
  /\ UNCHANGED <<keys, kb_key_handler, quit, saved, raced, clock>>

\* The frame is drawn, and milisleep computes when to stop.
Draw ==
  /\ main = "draw"
  /\ stop_time' = (ticks + Nap) % TickMod
  /\ main' = "nap"
  /\ UNCHANGED <<keys, kb_key_handler, quit, colours, ticks>>

\* milisleep looks at the clock; while it is early it goes on looking.
NapOver_Later == ticks > stop_time
NapOver == ticks >= stop_time

Wake ==
  /\ main = "nap" /\ NapOver
  /\ main' = "test" /\ stop_time' = 0
  /\ UNCHANGED <<keys, kb_key_handler, quit, colours, ticks>>

\* Its variables are dead.
Return ==
  /\ main = "returned"
  /\ main' = "prompt" /\ saved' = Grey /\ raced' = FALSE
  /\ UNCHANGED <<keys, kb_key_handler, quit, tty_color, clock>>

\* tty_read begins, and ends with Enter or a full line.
ReadBegins ==
  /\ main = "prompt"
  /\ kb_set_key_handler("tty")
  /\ main' = "reading"
  /\ UNCHANGED <<keys, quit, colours, clock>>

ReadEnds ==
  /\ main = "reading"
  /\ kb_set_key_handler("NULL")
  /\ main' = "command"
  /\ UNCHANGED <<keys, quit, colours, clock>>

\* The commands: print leaves its handler installed and the colour grey; color
\* has read its two numbers with tty_read; the others touch neither.
PrintCommand ==
  /\ main = "command"
  /\ kb_set_key_handler("tty")
  /\ main' = "viewer"
  /\ UNCHANGED <<keys, quit, colours, clock>>

ViewerQuits ==
  /\ main = "viewer"
  /\ tty_color' = Grey
  /\ main' = "prompt"
  /\ UNCHANGED <<keys, kb_key_handler, quit, saved, raced, clock>>

OtherCommand ==
  /\ main = "command"
  /\ tty_color' \in Colours \cup {tty_color}
  /\ main' = "prompt"
  /\ UNCHANGED <<keys, kb_key_handler, quit, saved, raced, clock>>

DonutStep == (Test \/ Paint \/ Draw \/ Return) /\ stroke' = NoStroke
WakeStep == Wake /\ stroke' = NoStroke
OtherStep ==
  /\ Donut \/ ReadBegins \/ ReadEnds \/ PrintCommand \/ ViewerQuits \/ OtherCommand
  /\ stroke' = NoStroke

KeyboardNext ==
  \/ \E k \in Keys : Press(k) \/ Release(k)
  \/ Tick
  \/ DonutStep \/ WakeStep \/ OtherStep

KeyboardSpec == KeyboardInit /\ [][KeyboardNext]_keyboardVars

-----------------------------------------------------------------------------
\* The character or key a program receives is the one its user meant, whatever
\* was held, locked and released before, except that a capital H (K, M, P) is
\* taken for an arrow, that the right shift does not shift, and that caps lock
\* acts when it is released (kb.c:50-89, kb.h:18-21, tty.c:300-373, 519-528).
StrokeMeant ==
  stroke.got # stroke.meant =>
    \/ stroke.meant = "H" /\ stroke.got = "up"
    \/ "rshift" \in stroke.held /\ "lshift" \notin stroke.held
    \/ "caps" \in stroke.held

\* The program that waits for a key has its handler installed, although
\* kb_set_key_handler keeps a handler that is there and the print command never
\* takes its own away; and no key pressed earlier ends the donut
\* (kb.c:91-95, tty.c:391, 399, 482, donut.c:50-66).
Listening ==
  /\ main \in {"reading", "viewer"} => kb_key_handler = "tty"
  /\ main \in {"test", "paint", "draw", "nap"} /\ ~quit => kb_key_handler = "donut"
  /\ quit => main \in {"test", "paint", "draw", "nap"} /\ kb_key_handler = "NULL"

\* The donut leaves the colour it found, unless the key that ended it came
\* between the test of __quit and the colour of the next frame, which then
\* stays (donut.c:50-54, 61-68).
ColourRestored == main = "returned" => tty_color = saved \/ raced

\* A key ends the donut, on whichever side of a pause it comes and although
\* the tick counter wraps (donut.c:63-67, 103, time.c:4-7).
KeyEndsDonut == quit ~> main = "returned"

=============================================================================
