---------------------------- MODULE PacketViewer ----------------------------
(***************************************************************************)
(* kernel/src/tty.c, __pctprint_command: the loop of the print command,    *)
(* which polls the key mailbox and the number of packets, draws the list   *)
(* of headers, and shows one packet on Enter, while the keyboard and the   *)
(* network card interrupt it between any two of its reads.                 *)
(*                                                                         *)
(* A packet is its number in the order of arrival.  The list is the ring   *)
(* of headers of rtl8139.c, whose handler is one step here.                *)
(***************************************************************************)
EXTENDS Naturals, Sequences

CONSTANTS
  NHeaders,    \* 256
  Above,       \* rows drawn above the selection: 6
  WindowRows,  \* rows drawn at most: 11
  MaxPackets   \* bound: the packets that arrive

ASSUME ViewerAssumption ==
  /\ NHeaders \in Nat \ {0} /\ WindowRows \in Nat /\ MaxPackets \in Nat
  /\ Above \in Nat /\ Above < WindowRows

None == 0   \* no packet: an entry never written, a row without a packet
Keys == {"up", "down", "enter", "q", "other"}
NoKey == "none"   \* tty_last_key = 0

VARIABLES
  pc,          \* "shell" outside the command, else what the loop does next
  has_key, last_key,   \* tty_has_key_ready, tty_last_key
  ethHeaders, firstHeader, nHeaders,
  arrived,     \* the packets received so far
  selectedIndex, lastNHeaders, lastSelectedIndex,
  rows,        \* the lines of the list on the screen: the packet its protocol
               \* was read from, and the one its addresses were read from
  lit,         \* the packet of the line drawn as selected
  frame,       \* the packet rtl_printFrame shows; None while the list is shown
  moved        \* history: the list gave an entry up since the drawing began

vars == <<pc, has_key, last_key, ethHeaders, firstHeader, nHeaders, arrived,
          selectedIndex, lastNHeaders, lastSelectedIndex, rows, lit, frame, moved>>
mailbox == <<has_key, last_key>>
list == <<ethHeaders, firstHeader, nHeaders, arrived>>
selection == <<selectedIndex, lastNHeaders, lastSelectedIndex>>
screen == <<rows, lit, frame>>

Slots == 0 .. NHeaders - 1

Init ==
  /\ pc = "shell"
  /\ has_key = FALSE /\ last_key = "enter"
  /\ ethHeaders = [i \in Slots |-> None]
  /\ firstHeader = 0 /\ nHeaders = 0 /\ arrived = 0
  /\ selectedIndex = 0 /\ lastNHeaders = 0 /\ lastSelectedIndex = 0
  /\ rows = <<>> /\ lit = None /\ frame = None
  /\ moved = FALSE

-----------------------------------------------------------------------------
\* The keyboard interrupt while the command runs.
Press(k) ==
  /\ pc # "shell"
  /\ has_key' = TRUE /\ last_key' = k
  /\ UNCHANGED <<pc, list, selection, screen, moved>>

\* The network card's interrupt: a full list gives its first header up.
Arrive ==
  /\ arrived < MaxPackets
  /\ arrived' = arrived + 1
  /\ IF nHeaders = NHeaders
     THEN /\ firstHeader' = (firstHeader + 1) % NHeaders
          /\ nHeaders' = nHeaders
          /\ moved' = TRUE
     ELSE /\ nHeaders' = nHeaders + 1
          /\ UNCHANGED <<firstHeader, moved>>
  /\ ethHeaders' = [ethHeaders EXCEPT ![(firstHeader' + nHeaders' - 1) % NHeaders] = arrived']
  /\ UNCHANGED <<pc, mailbox, selection, screen>>

getHeaderIndex(i) == (firstHeader + i) % NHeaders

-----------------------------------------------------------------------------
\* The command starts: the key read last is the Enter that ended its line.
Command ==
  /\ pc = "shell"
  /\ last_key' = "enter" /\ has_key' = FALSE
  /\ selectedIndex' = 0 /\ lastNHeaders' = 0 /\ lastSelectedIndex' = 0
  /\ rows' = <<>> /\ lit' = None /\ frame' = None
  /\ moved' = FALSE
  /\ pc' = "poll"
  /\ UNCHANGED list

\* The test at the head of the loop, which goes round until it has work.
Wanted == has_key \/ lastNHeaders # nHeaders \/ lastSelectedIndex # selectedIndex

Poll ==
  /\ pc = "poll" /\ Wanted
  /\ pc' = "note"
  /\ UNCHANGED <<mailbox, list, selection, screen, moved>>

\* What is about to be drawn is remembered, and the screen cleared.
Note_EmptiesMailbox ==
  /\ pc = "note"
  /\ lastNHeaders' = nHeaders /\ lastSelectedIndex' = selectedIndex
  /\ rows' = <<>> /\ lit' = None /\ frame' = None
  /\ moved' = FALSE
  /\ pc' = "row"
  /\ has_key' = FALSE /\ last_key' = NoKey
  /\ UNCHANGED <<list, selectedIndex>>

Note ==
  /\ pc = "note"
  /\ lastNHeaders' = nHeaders /\ lastSelectedIndex' = selectedIndex
  /\ rows' = <<>> /\ lit' = None /\ frame' = None
  /\ moved' = FALSE
  /\ pc' = "row"
  /\ UNCHANGED <<mailbox, list, selectedIndex>>

viewOffset == IF selectedIndex < Above THEN 0 ELSE selectedIndex - Above
NextRow == viewOffset + Len(rows)
MoreRows == NextRow < nHeaders /\ NextRow < viewOffset + WindowRows

\* __pctprint_command_write_line takes the address of the header and reads
\* the protocol, then the addresses.
Row(slot) ==
  /\ pc = "row" /\ MoreRows
  /\ slot = getHeaderIndex(NextRow)
  /\ rows' = Append(rows, [slot |-> slot, kind |-> ethHeaders[slot], ips |-> None])
  /\ lit' = IF NextRow = selectedIndex THEN ethHeaders[slot] ELSE lit
  /\ pc' = "ips"
  /\ UNCHANGED <<mailbox, list, selection, frame, moved>>

RowAddresses ==
  /\ pc = "ips"
  /\ rows' = [rows EXCEPT ![Len(rows)].ips = ethHeaders[rows[Len(rows)].slot]]
  /\ pc' = "row"
  /\ UNCHANGED <<mailbox, list, selection, lit, frame, moved>>

RowsEnd ==
  /\ pc = "row" /\ ~MoreRows
  /\ pc' = "switch"
  /\ UNCHANGED <<mailbox, list, selection, screen, moved>>

\* The switch over the last key, whether or not a new one came.
Select(i) == selectedIndex' = i /\ pc' = "clear"

MayGoDown == selectedIndex + 1 < nHeaders

KeySwitch ==
  /\ pc = "switch"
  /\ \/ last_key = "up"
        /\ Select(IF selectedIndex > 0 THEN selectedIndex - 1 ELSE selectedIndex)
     \/ last_key = "down"
        /\ Select(IF MayGoDown THEN selectedIndex + 1 ELSE selectedIndex)
     \/ last_key \in {"other", NoKey} /\ Select(selectedIndex)
     \/ last_key = "enter" /\ pc' = "enter" /\ UNCHANGED selectedIndex
     \/ last_key = "q" /\ pc' = "leave" /\ UNCHANGED selectedIndex
  /\ UNCHANGED <<mailbox, list, lastNHeaders, lastSelectedIndex, screen, moved>>

\* The two keys that end the drawing clear the flag themselves, after the switch
\* has read the key: one that comes in between is dropped.  q clears the screen
\* before that; of the shell's screen nothing is said.
Enter ==
  /\ pc = "enter"
  /\ has_key' = FALSE
  /\ pc' = "frame"
  /\ UNCHANGED <<last_key, list, selection, screen, moved>>

Leave ==
  /\ pc = "leave"
  /\ has_key' = FALSE
  /\ pc' = "quit"
  /\ UNCHANGED <<last_key, list, selection, screen, moved>>

\* rtl_printFrame copies the i-th slot of the array, not the i-th header.
FrameSlot_Newest(i) == (firstHeader + nHeaders + NHeaders - 1 - i) % NHeaders
FrameSlot(i) == i

Frame ==
  /\ pc = "frame"
  /\ frame' = ethHeaders[FrameSlot(selectedIndex)]
  /\ rows' = <<>>
  /\ pc' = "hold"
  /\ UNCHANGED <<mailbox, list, selection, lit, moved>>

\* The packet is shown until a key comes.
Hold ==
  /\ pc = "hold" /\ has_key
  /\ pc' = "clear"
  /\ UNCHANGED <<mailbox, list, selection, screen, moved>>

\* The mailbox is emptied in two stores, and a delay follows.
ClearFlag ==
  /\ pc = "clear"
  /\ has_key' = FALSE
  /\ pc' = "zero"
  /\ UNCHANGED <<last_key, list, selection, screen, moved>>

ClearKey_Remembers ==
  /\ pc = "zero"
  /\ last_key' = NoKey
  /\ lastNHeaders' = nHeaders
  /\ pc' = "poll"
  /\ UNCHANGED <<has_key, list, selectedIndex, lastSelectedIndex, screen, moved>>

ClearKey ==
  /\ pc = "zero"
  /\ last_key' = NoKey
  /\ pc' = "poll"
  /\ UNCHANGED <<has_key, list, selection, screen, moved>>

Quit ==
  /\ pc = "quit"
  /\ last_key' = NoKey
  /\ pc' = "shell"
  /\ UNCHANGED <<has_key, list, selection, screen, moved>>

LoopStep ==
  \/ Poll \/ Note
  \/ (\E slot \in Slots : Row(slot)) \/ RowAddresses \/ RowsEnd
  \/ KeySwitch \/ Enter \/ Leave \/ Frame \/ Hold \/ ClearFlag \/ ClearKey \/ Quit

Next ==
  \/ \E k \in Keys : Press(k)
  \/ Arrive
  \/ Command
  \/ LoopStep

\* The loop goes on; nobody owes a key, a packet or a command.
Spec == Init /\ [][Next]_vars /\ WF_vars(LoopStep)

-----------------------------------------------------------------------------
Line == [slot : Slots, kind : 0 .. MaxPackets, ips : 0 .. MaxPackets]

\* Every variable stays in its range, and the selection in the list, although
\* the list changes under it (tty.c:485-487, 519-529).
TypeOK ==
  /\ pc \in {"shell", "poll", "note", "row", "ips", "switch", "enter", "frame",
             "hold", "clear", "zero", "leave", "quit"}
  /\ has_key \in BOOLEAN /\ last_key \in Keys \cup {NoKey}
  /\ arrived \in 0 .. MaxPackets
  /\ ethHeaders \in [Slots -> 0 .. MaxPackets]
  /\ firstHeader \in Slots /\ nHeaders \in 0 .. NHeaders
  /\ selectedIndex \in Slots /\ (selectedIndex = 0 \/ selectedIndex < nHeaders)
  /\ lastNHeaders \in 0 .. NHeaders /\ lastSelectedIndex \in 0 .. NHeaders
  /\ rows \in Seq(Line)
  /\ lit \in 0 .. MaxPackets /\ frame \in 0 .. MaxPackets
  /\ moved \in BOOLEAN

\* When the loop has nothing to do and the list is on the screen, it is the
\* list as it is now, each line about one packet: an arrival during the
\* drawing is noticed.  Only a full list changes unnoticed, for its length
\* stays the same (tty.c:490-494, 503-515).
ScreenCatchesUp ==
  (pc = "poll" /\ ~Wanted /\ frame = None) =>
    \/ moved
    \/ /\ ~MoreRows
       /\ \A j \in 1 .. Len(rows) :
            LET packet == ethHeaders[getHeaderIndex(viewOffset + j - 1)]
            IN rows[j].kind = packet /\ rows[j].ips = packet

\* Whatever arrives, the selected index is one of the list, and
\* Enter shows the packet that was drawn as selected, until the list is full
\* and gives entries up (tty.c:504, 530-534, rtl8139.c:239).
FrameIsHighlighted ==
  /\ TypeOK
  /\ pc = "hold" => frame = lit \/ lit = None \/ moved \/ firstHeader # 0

\* A q that is in the mailbox when the loop looks at it ends the command,
\* unless another key replaces it first; a q that comes while the mailbox is
\* being emptied may be lost (tty.c:519, 536-545).
QuitServed ==
  (pc = "poll" /\ has_key /\ last_key = "q")
    ~> (pc = "quit" \/ last_key \notin {"q", NoKey})

=============================================================================
