----------------------------- MODULE TtyScreen ------------------------------
(***************************************************************************)
(* kernel/src/tty.c, output: the text buffer of the screen, the position   *)
(* tty_ptr in it, scrolling, and the echo of the line of LineEditor, whose *)
(* keys are taken here without the mailbox.                                *)
(*                                                                         *)
(* A cell is its character; colours are left out, and the character 0 of a *)
(* scrolled-in row looks like a space.  The video memory goes on after the *)
(* screen: text may run past it before it is scrolled, and stays there.    *)
(***************************************************************************)
EXTENDS LineEditor, FiniteSets

CONSTANTS
  Width, Height,   \* VGA_WIDTH, VGA_HEIGHT
  Cells,           \* bound: the cells of video memory that are modelled
  Outputs,         \* the strings that are printed
  MaxActs          \* bound: lines, outputs and clears in all

Blank == " "
Prompt == ">"
Newline == "newline"
Back == "back"

Glyphs == Chars \cup {Blank, Prompt}
ScreenSize == Width * Height

\* A line fits on the screen with a row to spare, and twice; both are so by far.
ASSUME ScreenAssumption ==
  /\ Width \in Nat \ {0} /\ Height \in Nat \ {0}
  /\ InputSize + Width <= ScreenSize /\ 2 * InputSize <= ScreenSize
  /\ Cells \in Nat /\ 3 * ScreenSize <= Cells /\ MaxActs \in Nat

ASSUME CharsAssumption == Chars \cap {Newline, Back} = {}

\* How far the first n characters of a text may move the cursor.
Advance(text, n) ==
  n + Cardinality({j \in 1 .. n : text[j] = Newline}) * (Width - 1)

\* What is printed at once moves it by a screen at most, and never back.
ASSUME OutputsAssumption ==
  \A text \in Outputs : /\ text \in Seq(Glyphs \cup {Newline})
                        /\ Advance(text, Len(text)) <= ScreenSize

VARIABLES
  acts,            \* how many lines, outputs and clears there were
  mode,            \* "shell", "read" in tty_read, "stop" after an overrun
  cells,           \* tty_buffer
  tty_ptr, tty_prompt_ptr,
  stale,           \* history: the line does not begin at tty_prompt_ptr
  astray,          \* history: and it was redrawn there, or printed over
  littered         \* history: other text stood where the line goes

ghosts == <<stale, astray, littered>>
screenVars == <<editor, acts, mode, cells, tty_ptr, tty_prompt_ptr, ghosts>>

Memory == 0 .. Cells - 1
Screen(c, at, up) == [cells |-> c, ptr |-> at, rolled |-> up]
Now == Screen(cells, tty_ptr, FALSE)

\* tty_init.
ScreenInit ==
  /\ EditorInit
  /\ acts = 0 /\ mode = "shell"
  /\ cells = [i \in Memory |-> Blank]
  /\ tty_ptr = 0 /\ tty_prompt_ptr = 0
  /\ stale = FALSE /\ astray = FALSE /\ littered = FALSE

-----------------------------------------------------------------------------
\* __tty_write_char.
WriteChar(s, c) ==
  CASE c = Newline -> [s EXCEPT !.ptr = @ + (Width - (@ % Width))]
    [] c = Back -> [s EXCEPT !.ptr = @ - 1]
    [] OTHER -> [s EXCEPT !.cells[s.ptr] = c, !.ptr = @ + 1]

\* tty_scroll.
ScrolledCells(c, gap) ==
  [i \in Memory |-> IF i < ScreenSize - gap THEN c[i + gap]
                    ELSE IF i < ScreenSize THEN Blank ELSE c[i]]

Scroll(s, gap) == Screen(ScrolledCells(s.cells, gap), s.ptr - gap, TRUE)

\* tty_update_cursor: as many rows as bring tty_ptr back, a screen at most.
Overflow(s) == s.ptr >= ScreenSize
Gap(s) == LET n == (s.ptr \div Width - Height + 1) * Width
          IN IF n > ScreenSize THEN ScreenSize ELSE n
UpdateCursor(s) == IF Overflow(s) THEN Scroll(s, Gap(s)) ELSE s

\* The screens while text is written, one character after the other.
Writing(s, text) ==
  LET w[n \in 0 .. Len(text)] == IF n = 0 THEN s ELSE WriteChar(w[n - 1], text[n])
  IN w
WriteAll(s, text) == Writing(s, text)[Len(text)]
tty_puts(s, text) == UpdateCursor(WriteAll(s, text))
tty_putc(s, c) == UpdateCursor(WriteChar(s, c))

At(s, at) == [s EXCEPT !.ptr = at]
Move(s, at) == UpdateCursor(At(s, at))

\* The cells from lo on take those on their right, up to hi, or on their left.
ShiftLeft(s, lo, hi) ==
  [s EXCEPT !.cells = [i \in Memory |-> IF lo <= i /\ i < hi THEN @[i + 1] ELSE @[i]]]
ShiftRight(s, lo, hi) ==
  [s EXCEPT !.cells = [i \in Memory |-> IF lo < i /\ i <= hi THEN @[i - 1] ELSE @[i]]]
Put(s, at, c) == [s EXCEPT !.cells[at] = c]

-----------------------------------------------------------------------------
\* The echo of __history_move: the other line is written over this one from
\* the prompt on, and what is left of this one is blanked.
Blanks(n) == [j \in 1 .. n |-> Blank]

Wiped_Rest(n, m) == IF n > m + 1 THEN n - m - 1 ELSE 0
Wiped(n, m) == IF n > m THEN n ELSE 0

Redraw(text) ==
  LET shown == tty_puts(At(Now, tty_prompt_ptr), text)
      wiped == WriteAll(shown, Blanks(Wiped(input_len, Len(text))))
  IN At(wiped, tty_prompt_ptr + Len(text))

\* __tty_handle_key's effect on the screen, for a key that acts.
EraseEcho ==
  IF input_ptr = input_len THEN tty_puts(Now, <<Back, Blank, Back>>)
  ELSE LET shifted == ShiftLeft(Now, tty_ptr - 1, tty_ptr + input_len - 1)
           ended == Put(shifted, tty_ptr + input_len, Blank)
       IN Move(ended, tty_ptr - 1)

DeleteEcho ==
  UpdateCursor(Put(ShiftLeft(Now, tty_ptr, tty_ptr + input_len - 1),
                   tty_ptr + input_len - 1, Blank))

TypeEcho(c) == tty_putc(ShiftRight(Now, tty_ptr, tty_ptr + input_len - input_ptr), c)

Echo(k) ==
  CASE k = "up" -> Redraw(history[Before(history_ptr)])
    [] k = "down" -> Redraw(history[Following(history_ptr)])
    [] k = "left" -> Move(Now, tty_ptr - 1)
    [] k = "right" -> Move(Now, tty_ptr + 1)
    [] k = "home" -> Move(Now, tty_ptr - input_ptr)
    [] k = "end" -> Move(Now, tty_ptr + (input_len - input_ptr))
    [] k = "backspace" -> EraseEcho
    [] k = "delete" -> DeleteEcho
    [] OTHER -> TypeEcho(k)

Act == acts < MaxActs /\ acts' = acts + 1

Show(s) == cells' = s.cells /\ tty_ptr' = s.ptr

-----------------------------------------------------------------------------
\* A line that was left with the cursor in a row above its last one stands
\* where the next line is going to be, and text past the screen stays there.
Littered(c, at) == \E i \in Memory : i >= at /\ c[i] # Blank

\* tty_prompt up to the loop of tty_read.
PromptRead ==
  /\ Act
  /\ mode = "shell"
  /\ Show(tty_putc(Now, Prompt))
  /\ tty_prompt_ptr' = tty_ptr'
  /\ StartLine
  /\ mode' = "read"
  /\ stale' = FALSE /\ astray' = FALSE /\ littered' = Littered(cells', tty_ptr')

\* A command prints, and may then read a line of its own, as color does.
Output(text) ==
  /\ Act
  /\ mode = "shell"
  /\ Show(tty_puts(Now, text))
  /\ UNCHANGED <<editor, mode, tty_prompt_ptr, ghosts>>

CommandRead ==
  /\ Act
  /\ mode = "shell" /\ history_lst # NoRow   \* the command was a line itself
  /\ StartLine
  /\ mode' = "read"
  /\ stale' = (tty_ptr # tty_prompt_ptr)
  /\ astray' = FALSE /\ littered' = Littered(cells, tty_ptr)
  /\ UNCHANGED <<cells, tty_ptr, tty_prompt_ptr>>

\* __tty_clear_scr.
Clear ==
  /\ Act
  /\ mode = "shell"
  /\ cells' = [i \in Memory |-> IF i < ScreenSize THEN Blank ELSE cells[i]]
  /\ tty_ptr' = 0
  /\ UNCHANGED <<editor, mode, tty_prompt_ptr, ghosts>>

\* An interrupt handler, or another process, prints while a line is edited.
Intrude(text) ==
  /\ Act
  /\ mode = "read"
  /\ Show(tty_puts(Now, text))
  /\ astray' = TRUE
  /\ UNCHANGED <<editor, mode, tty_prompt_ptr, stale, littered>>

\* Where the line begins, as the cursor tells.
Start == tty_ptr - input_ptr

Recalls(k) == k \in {"up", "down"}

\* An insertion moves the end of the line past the screen, where no scroll
\* brings it back from.
PushesOff(k) == k \in Chars /\ input_ptr < input_len /\ Start + input_len >= ScreenSize

\* __tty_handle_key, for a key other than Enter.
Key(k) ==
  /\ mode = "read" /\ input_len < InputSize
  /\ k # "enter"
  /\ \/ /\ Acts(k)
        /\ Show(Echo(k))
        /\ stale' = (stale \/ Echo(k).rolled)
        /\ astray' = (astray \/ (Recalls(k) /\ stale') \/ PushesOff(k))
     \/ /\ Ignored(k)
        /\ UNCHANGED <<editor, cells, tty_ptr, stale, astray>>
  /\ UNCHANGED <<acts, mode, tty_prompt_ptr, littered>>

\* Enter, or a full row: the end of tty_read.
EndLine ==
  /\ mode = "read"
  /\ Show(tty_putc(Now, Newline))
  /\ mode' = IF input_len + 1 > InputSize THEN "stop" ELSE "shell"
  /\ UNCHANGED <<editor, acts, tty_prompt_ptr, ghosts>>

ScreenNext ==
  \/ PromptRead \/ CommandRead \/ Clear \/ EndLine
  \/ \E text \in Outputs : Output(text) \/ Intrude(text)
  \/ \E k \in Keys : Key(k)

ScreenSpec == ScreenInit /\ [][ScreenNext]_screenVars

-----------------------------------------------------------------------------
\* Every variable stays in its range: tty_ptr on the screen, but for the
\* position a recall leaves it at, and text in the video memory (tty.c:30-33).
ScreenTypeOK ==
  /\ EditorTypeOK
  /\ acts \in 0 .. MaxActs /\ mode \in {"shell", "read", "stop"}
  /\ cells \in [Memory -> Glyphs]
  /\ tty_ptr \in Memory /\ tty_prompt_ptr \in 0 .. ScreenSize - 1
  /\ (~astray \/ mode # "read") => tty_ptr < ScreenSize
  /\ stale \in BOOLEAN /\ astray \in BOOLEAN /\ littered \in BOOLEAN

\* What stands on the screen is the line being edited, in its place before
\* and behind the cursor, after every insertion, deletion, recall and scroll;
\* and no character of a longer line is left behind its end.  The echo goes
\* wrong only if something else prints, or if another line is recalled after
\* the screen scrolled or in a line that did not begin at tty_prompt_ptr,
\* because tty_prompt_ptr stays where it was (tty.c:249-269, 294-376).
EchoIsLine ==
  /\ ScreenTypeOK
  /\ (mode = "read" /\ ~astray) =>
       /\ \A j \in 1 .. input_len : cells[Start + j - 1] = history[buf][j]
       /\ (~littered /\ Start + input_len < ScreenSize) => cells[Start + input_len] = Blank

=============================================================================
