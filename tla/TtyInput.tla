------------------------------ MODULE TtyInput ------------------------------
(***************************************************************************)
(* kernel/src/tty.c, tty_read: the one-key mailbox that the keyboard       *)
(* interrupt fills and tty_read empties, around the line of LineEditor.    *)
(*                                                                         *)
(* What the keys do to the screen is not part of this module.  A line that *)
(* fills its row is copied, with its terminator, past the end of the       *)
(* caller's array: what follows is not modelled.                           *)
(***************************************************************************)
EXTENDS LineEditor

VARIABLES
  pc,          \* "call" outside tty_read, "loop" at the test of its loop,
               \* "take" and "act" inside __tty_handle_key
  has_key, last_key,   \* tty_has_key_ready, tty_last_key
  kb_handler,  \* __tty_read_key is the key handler of kb.c
  stop_read,
  key,         \* __tty_handle_key's key
  line,        \* what the last tty_read copied to its caller
  overrun,     \* that copy went past the array of the caller
  fresh        \* history: the last key pressed was not read yet

vars == <<pc, has_key, last_key, kb_handler, stop_read, key, editor, line,
          overrun, fresh>>
mailbox == <<has_key, last_key, fresh>>

\* tty_init.
Init ==
  /\ pc = "call"
  /\ has_key = FALSE /\ last_key = "enter" /\ fresh = FALSE
  /\ kb_handler = FALSE /\ stop_read = TRUE /\ key = "enter"
  /\ EditorInit
  /\ line = <<>> /\ overrun = FALSE

-----------------------------------------------------------------------------
__tty_read_key(k) == has_key' = TRUE /\ last_key' = k

\* The keyboard interrupt, __kb_handler, for a key that is not a modifier.
\* Without a handler the key is dropped.
Press(k) ==
  /\ kb_handler
  /\ __tty_read_key(k) /\ fresh' = TRUE
  /\ UNCHANGED <<pc, kb_handler, stop_read, key, editor, line, overrun>>

-----------------------------------------------------------------------------
\* tty_read up to its loop.
ReadStart ==
  /\ pc = "call" /\ ~overrun
  /\ StartLine
  /\ stop_read' = FALSE
  /\ kb_handler' = TRUE
  /\ pc' = "loop"
  /\ UNCHANGED <<mailbox, key, line, overrun>>

Reading == input_len < InputSize /\ ~stop_read

\* __tty_handle_key: first the flag is cleared ...
KeyClear ==
  /\ pc = "loop" /\ Reading /\ has_key
  /\ has_key' = FALSE
  /\ pc' = "take"
  /\ UNCHANGED <<last_key, fresh, kb_handler, stop_read, key, editor,
                 line, overrun>>

\* ... then the key is read ...
KeyTake ==
  /\ pc = "take"
  /\ key' = last_key /\ fresh' = FALSE
  /\ pc' = "act"
  /\ UNCHANGED <<has_key, last_key, kb_handler, stop_read, editor,
                 line, overrun>>

\* ... and acts on the line.
KeyAct_Clears ==
  /\ pc = "act"
  /\ stop_read' = (key = "enter")
  /\ EditLine(key)
  /\ key' = "enter" /\ has_key' = FALSE
  /\ pc' = "loop"
  /\ UNCHANGED <<last_key, fresh, kb_handler, line, overrun>>

KeyAct ==
  /\ pc = "act"
  /\ stop_read' = (key = "enter")
  /\ EditLine(key)
  /\ key' = "enter"
  /\ pc' = "loop"
  /\ UNCHANGED <<mailbox, kb_handler, line, overrun>>

\* The end of tty_read.
ReadEnd ==
  /\ pc = "loop" /\ ~Reading
  /\ kb_handler' = FALSE
  /\ line' = history[buf]
  /\ overrun' = (input_len + 1 > InputSize)
  /\ pc' = "call"
  /\ UNCHANGED <<mailbox, stop_read, key, editor>>

ReadStep == KeyClear \/ KeyTake \/ KeyAct \/ ReadEnd

Next ==
  \/ \E k \in Keys : Press(k)
  \/ ReadStart
  \/ ReadStep

\* tty_read goes on once called; the user owes no key.
Spec == Init /\ [][Next]_vars /\ WF_vars(ReadStep)

-----------------------------------------------------------------------------
\* Every variable stays in its range, the cursor in the line and the line in
\* its row (tty.c:35-47, 294-376).
TypeOK ==
  /\ pc \in {"call", "loop", "take", "act"}
  /\ has_key \in BOOLEAN /\ fresh \in BOOLEAN /\ last_key \in Keys /\ key \in Keys
  /\ kb_handler \in BOOLEAN /\ stop_read \in BOOLEAN /\ overrun \in BOOLEAN
  /\ EditorTypeOK
  /\ line \in Seq(Chars)

\* Every step keeps the ranges above, and walking the history goes to the line
\* before or after, and never from the oldest row to the newest or past them,
\* wherever the ring starts and whatever was recalled, edited, erased or
\* repeated before (tty.c:216-281).
WalkStaysInHistory ==
  [][/\ TypeOK'
     /\ (pc = "act" /\ history_ptr' # history_ptr) =>
          /\ Age(history_ptr') <= Age(history_lst)
          /\ Age(history_ptr') \in {Age(history_ptr) + 1, Age(history_ptr) - 1}]_vars

\* A line that was entered is the newest of the history when the next one is
\* read, unless it is empty or history_ptr strayed from the row it was typed
\* in: that happens once a recalled line has been erased (tty.c:226, 386).
EnteredIsRecorded ==
  [][(pc = "call" /\ pc' = "loop" /\ line # <<>> /\ history_ptr = buf)
       => history'[(history_lst' + (Rows - 1)) % Rows] = line]_vars

\* Starting a line drops at most the oldest one: the other recorded lines keep
\* their text and their place (tty.c:228-246).
StartKeepsHistory ==
  [][(pc = "call" /\ pc' = "loop" /\ history_lst # NoRow) =>
       \A r \in 0 .. Rows - 1 :
         (1 <= Age(r) /\ Age(r) < Age(history_lst)) => history'[r] = history[r]]_vars

\* The last key pressed during a read acts, or the read ends before: it is not
\* lost to the race of the interrupt with __tty_handle_key, although earlier
\* ones are, and a key may act twice (tty.c:289-296).
KeyServed == (fresh /\ pc # "call") ~> (~fresh \/ pc = "call")

=============================================================================
