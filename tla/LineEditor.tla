----------------------------- MODULE LineEditor -----------------------------
(***************************************************************************)
(* kernel/src/tty.c: the line that tty_read edits, and the ring of rows    *)
(* that is both its buffer and the history of the prompt.                  *)
(*                                                                         *)
(* A row is the string up to its terminator or, for the row under edit,    *)
(* its first tty_input_len characters; bytes further on are never read.    *)
(* TtyInput adds the keys as they come from the keyboard interrupt, and    *)
(* TtyScreen what they do to the screen.                                   *)
(***************************************************************************)
EXTENDS Integers, SequencesExt

CONSTANTS
  Rows,        \* TTY_HISTORY_SIZE
  InputSize,   \* TTY_INPUT_SIZE
  Chars        \* the characters that stand for themselves

ASSUME LineEditorAssumption ==
  /\ Rows \in Nat \ {0, 1} /\ InputSize \in Nat \ {0}

Moves == {"up", "down", "left", "right", "home", "end", "backspace", "delete"}
ASSUME KeysAssumption == (Moves \cup {"enter"}) \cap Chars = {}
Keys == Chars \cup Moves \cup {"enter"}

NoRow == Rows   \* history_fst and history_lst hold -1

VARIABLES
  history,     \* tty_history
  history_ptr, history_fst, history_lst,
  buf,         \* the row tty_input_buf points to
  input_ptr

ring == <<history_ptr, history_fst, history_lst>>
editor == <<history, ring, buf, input_ptr>>

input_len == Len(history[buf])

\* tty_init.
EditorInit ==
  /\ history = [r \in 0 .. Rows - 1 |-> <<>>]
  /\ history_ptr = 0 /\ history_fst = NoRow /\ history_lst = NoRow
  /\ buf = 0 /\ input_ptr = 0

-----------------------------------------------------------------------------
\* __history_new_buf: the row history_ptr is at becomes the newest line,
\* unless it is empty or repeats the line before.  The array and the three
\* indices that result:
Following(r) == (r + 1) % Rows
Before(r) == (r + (Rows - 1)) % Rows

State(rows, at, first, last) == [rows |-> rows, ptr |-> at, fst |-> first, lst |-> last]

\* The last statements of __history_new_buf: history_lst moved on to last, and
\* the oldest line makes room for it if it has to.
Closed(rows, last) ==
  State(rows, last,
        IF history_fst = last THEN Following(history_fst) ELSE history_fst, last)

\* The line repeats the newest one.
Repeats_Itself == history[history_ptr] = history[history_lst]
Repeats == history[history_ptr] = history[Before(history_lst)]

Repeated_Both == Closed([history EXCEPT ![Before(history_lst)] = <<>>], history_lst)
Repeated == Closed([history EXCEPT ![history_lst] = <<>>], history_lst)

__history_new_buf ==
  IF history_lst = NoRow THEN State(history, history_ptr, 0, 0)
  ELSE IF history[history_ptr] = <<>>
       THEN State(history, history_ptr, history_fst, history_lst)
  ELSE IF Repeats THEN Repeated
  ELSE Closed([history EXCEPT ![history_lst] = history[history_ptr]],
              Following(history_lst))

\* tty_read up to its loop; the edited row starts empty.
StartLine ==
  /\ LET s == __history_new_buf
     IN /\ history' = [s.rows EXCEPT ![s.lst] = <<>>]
        /\ history_ptr' = s.ptr /\ history_fst' = s.fst /\ history_lst' = s.lst
        /\ buf' = s.lst
  /\ input_ptr' = 0

-----------------------------------------------------------------------------
\* __history_move, once the test of its caller succeeded.
HistoryMove(r) ==
  /\ history_ptr' = r /\ buf' = r
  /\ input_ptr' = Len(history[r])
  /\ UNCHANGED <<history, history_fst, history_lst>>

Cursor(i) == input_ptr' = i /\ UNCHANGED <<history, ring, buf>>

Edit(text, i) ==
  /\ history' = [history EXCEPT ![buf] = text]
  /\ input_ptr' = i
  /\ UNCHANGED <<ring, buf>>

MayGoUp_Filled == history[Before(history_ptr)] # <<>>
MayGoUp == history_ptr # history_fst

MayErase == input_len > 0 /\ input_ptr > 0

Acts(k) ==
  \/ k = "up" /\ MayGoUp /\ HistoryMove(Before(history_ptr))
  \/ k = "down" /\ history_ptr # history_lst /\ HistoryMove(Following(history_ptr))
  \/ k = "left" /\ input_ptr > 0 /\ Cursor(input_ptr - 1)
  \/ k = "right" /\ input_ptr < input_len /\ Cursor(input_ptr + 1)
  \/ k = "home" /\ Cursor(0)
  \/ k = "end" /\ Cursor(input_len)
  \/ k = "backspace" /\ MayErase /\ Edit(RemoveAt(history[buf], input_ptr), input_ptr - 1)
  \/ k = "delete" /\ input_ptr < input_len
       /\ Edit(RemoveAt(history[buf], input_ptr + 1), input_ptr)
  \/ k \in Chars /\ Edit(InsertAt(history[buf], input_ptr + 1, k), input_ptr + 1)

\* The keys whose test fails, and Enter.
Ignored(k) ==
  \/ k = "up" /\ ~MayGoUp
  \/ k = "down" /\ history_ptr = history_lst
  \/ k \in {"left", "backspace"} /\ input_ptr = 0
  \/ k \in {"right", "delete"} /\ input_ptr = input_len
  \/ k = "enter"

EditLine(k) == Acts(k) \/ (Ignored(k) /\ UNCHANGED editor)

-----------------------------------------------------------------------------
\* The cursor is in the line, and each line in its row.
EditorTypeOK ==
  /\ history \in [0 .. Rows - 1 -> Seq(Chars)]
  /\ \A r \in 0 .. Rows - 1 : Len(history[r]) <= InputSize
  /\ history_ptr \in 0 .. Rows - 1
  /\ history_fst \in 0 .. NoRow /\ history_lst \in 0 .. NoRow
  /\ buf \in 0 .. Rows - 1
  /\ input_ptr \in 0 .. input_len

\* How many rows after the oldest row r is.
Age(r) == (r + (Rows - history_fst)) % Rows

=============================================================================
