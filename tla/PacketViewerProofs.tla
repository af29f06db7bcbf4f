------------------------- MODULE PacketViewerProofs -------------------------
(***************************************************************************)
(* The packet viewer shows the list as it is and the packet it drew as     *)
(* selected, for every size of the list, every window and every order of   *)
(* arrivals and keys.                                                      *)
(***************************************************************************)
EXTENDS PacketViewer, TLAPS

\* The list is full once it gives entries up, and holds a packet in every slot
\* up to its length.
ListFilled ==
  /\ firstHeader # 0 => nHeaders = NHeaders
  /\ \A i \in Slots : i < nHeaders => ethHeaders[i] # None

\* From the drawing to the switch, the selection is the one that is drawn.
Drawing ==
  /\ lastNHeaders <= nHeaders
  /\ pc \in {"row", "ips", "switch", "enter", "frame"} => frame = None /\ lastSelectedIndex = selectedIndex
  /\ pc = "ips" => Len(rows) > 0

\* The packet drawn as selected is one of the list, and its slot is not written
\* before the list moves.
LitFollows ==
  /\ lit # None => selectedIndex < nHeaders
  /\ pc \in {"row", "ips", "switch", "enter", "frame"} /\ lit # None /\ ~moved /\ firstHeader = 0
       => lit = ethHeaders[selectedIndex]
  /\ pc = "hold" => frame = lit \/ lit = None \/ moved \/ firstHeader # 0

\* The screen shows the list, drawn for the selection as it is now.
Shown == ~moved /\ frame = None /\ lastSelectedIndex = selectedIndex

RowsFollow ==
  Shown =>
    /\ NextRow <= nHeaders
    /\ \A j \in 1 .. Len(rows) :
         LET slot == getHeaderIndex(viewOffset + j - 1)
         IN /\ rows[j].slot = slot
            /\ rows[j].kind = ethHeaders[slot]
            /\ j < Len(rows) \/ pc # "ips" => rows[j].ips = ethHeaders[slot]

\* A drawing ends when the packets that were noted, or the window, are used up.
RowsComplete ==
  Shown /\ pc \notin {"row", "ips"} =>
    NextRow >= lastNHeaders \/ Len(rows) >= WindowRows

Inv ==
  TypeOK /\ ListFilled /\ Drawing /\ LitFollows /\ RowsFollow /\ RowsComplete

-----------------------------------------------------------------------------
LEMMA Slot ==
  ASSUME NEW x \in Nat
  PROVE  /\ x % NHeaders \in Slots
         /\ x < NHeaders => x % NHeaders = x
<1>1. NHeaders \in Nat \ {0} BY ViewerAssumption
<1>2. x % NHeaders \in 0 .. NHeaders - 1 /\ (x < NHeaders => x % NHeaders = x)
  BY <1>1
<1> QED BY <1>2 DEF Slots

LEMMA SlotBehind ==
  ASSUME NEW x \in Slots, NEW n \in Nat \ {0}
  PROVE  (x + n - 1) % NHeaders \in Slots
<1>1. x + n - 1 \in Nat BY DEF Slots
<1> QED BY <1>1, Slot

\* The first line drawn is no further than the selection.
LEMMA Offset ==
  ASSUME NEW i \in Slots, NEW n \in 0 .. NHeaders, i = 0 \/ i < n
  PROVE  LET v == IF i < Above THEN 0 ELSE i - Above
         IN v \in Nat /\ v <= i /\ v <= n
BY ViewerAssumption DEF Slots

LEMMA Numbers ==
  ASSUME TypeOK
  PROVE  /\ NHeaders \in Nat \ {0} /\ firstHeader \in Nat /\ nHeaders \in Nat
         /\ nHeaders <= NHeaders /\ selectedIndex \in Nat /\ viewOffset \in Nat
         /\ viewOffset <= selectedIndex /\ viewOffset <= nHeaders
         /\ Len(rows) \in Nat /\ NextRow \in Nat /\ selectedIndex < NHeaders
         /\ lastNHeaders \in Nat /\ lastSelectedIndex \in Nat
<1>1. rows \in Seq(Line) BY DEF TypeOK
<1>2. Len(rows) \in Nat BY <1>1
<1>3. /\ NHeaders \in Nat \ {0} /\ firstHeader \in Slots /\ nHeaders \in 0 .. NHeaders
      /\ selectedIndex \in Slots /\ (selectedIndex = 0 \/ selectedIndex < nHeaders)
      /\ lastNHeaders \in 0 .. NHeaders /\ lastSelectedIndex \in 0 .. NHeaders
  BY ViewerAssumption DEF TypeOK
<1>4. viewOffset \in Nat /\ viewOffset <= selectedIndex /\ viewOffset <= nHeaders
  BY <1>3, ViewerAssumption DEF viewOffset, Slots
<1> QED BY <1>2, <1>3, <1>4 DEF NextRow, Slots

\* Where an arrival is stored: behind the list, in the slot it gives up when it
\* is full.
LEMMA ArriveSlot ==
  ASSUME TypeOK, ListFilled, Arrive
  PROVE  \E s \in Slots :
           /\ ethHeaders' = [ethHeaders EXCEPT ![s] = arrived + 1]
           /\ arrived + 1 \in 1 .. MaxPackets
           /\ firstHeader' \in Slots /\ nHeaders' \in 0 .. NHeaders
           /\ nHeaders < NHeaders => /\ s = nHeaders /\ nHeaders' = nHeaders + 1
                                     /\ firstHeader = 0 /\ firstHeader' = 0
                                     /\ moved' = moved
           /\ nHeaders = NHeaders => nHeaders' = nHeaders /\ moved' = TRUE
<1> DEFINE s == (firstHeader' + nHeaders' - 1) % NHeaders
<1>1. /\ ethHeaders' = [ethHeaders EXCEPT ![s] = arrived + 1]
      /\ arrived + 1 \in 1 .. MaxPackets
  BY ViewerAssumption DEF Arrive, TypeOK
<1>2. NHeaders \in Nat \ {0} /\ firstHeader \in Nat /\ nHeaders \in Nat /\ nHeaders <= NHeaders
  BY Numbers
<1>3. CASE nHeaders = NHeaders
  <2>1. firstHeader' \in Slots /\ nHeaders' = nHeaders /\ moved' = TRUE
    BY <1>2, <1>3, Slot DEF Arrive
  <2>2. nHeaders' \in Nat \ {0}
    BY <1>2, <1>3, <2>1
  <2>3. s \in Slots BY <2>1, <2>2, SlotBehind
  <2> HIDE DEF s
  <2>4. nHeaders' \in 0 .. NHeaders /\ ~(nHeaders < NHeaders) BY <1>2, <1>3, <2>1
  <2> QED BY <1>1, <2>1, <2>3, <2>4
<1>4. CASE nHeaders # NHeaders
  <2>1. firstHeader = 0 /\ firstHeader' = 0 /\ nHeaders' = nHeaders + 1 /\ moved' = moved
    BY <1>2, <1>4 DEF Arrive, ListFilled
  <2>2. nHeaders < NHeaders /\ s = nHeaders % NHeaders
    BY <1>2, <1>4, <2>1
  <2>3. s = nHeaders BY <1>2, <2>2, Slot
  <2> HIDE DEF s
  <2>4. s \in Slots /\ firstHeader' \in Slots /\ nHeaders' \in 0 .. NHeaders
    BY <1>2, <2>1, <2>2, <2>3 DEF Slots
  <2> QED BY <1>1, <1>4, <2>1, <2>3, <2>4
<1> QED BY <1>3, <1>4

-----------------------------------------------------------------------------
LEMMA InitInv == ASSUME Init PROVE Inv
<1>1. rows = <<>> /\ Len(rows) = 0 /\ rows \in Seq(Line) BY DEF Init
<1>2. TypeOK
  <2>1. 0 \in Slots /\ 0 \in 0 .. MaxPackets /\ 0 \in 0 .. NHeaders
    BY ViewerAssumption DEF Slots
  <2>2. /\ ethHeaders \in [Slots -> 0 .. MaxPackets]
        /\ arrived \in 0 .. MaxPackets /\ firstHeader \in Slots /\ nHeaders \in 0 .. NHeaders
        /\ selectedIndex \in Slots /\ selectedIndex = 0
        /\ lastNHeaders \in 0 .. NHeaders /\ lastSelectedIndex \in 0 .. NHeaders
        /\ lit \in 0 .. MaxPackets /\ frame \in 0 .. MaxPackets
    BY <2>1 DEF Init, None
  <2>3. /\ pc = "shell" /\ has_key \in BOOLEAN /\ moved \in BOOLEAN
        /\ last_key \in Keys \cup {NoKey}
    BY DEF Init, Keys
  <2> QED BY <1>1, <2>2, <2>3 DEF TypeOK
<1>3. ListFilled /\ Drawing /\ LitFollows
  BY ViewerAssumption DEF Init, ListFilled, Drawing, LitFollows, Slots
<1>4. viewOffset = 0 /\ NextRow = 0
  BY <1>1, ViewerAssumption DEF Init, viewOffset, NextRow
<1>5. RowsFollow /\ RowsComplete
  BY <1>1, <1>4 DEF Init, RowsFollow, RowsComplete
<1> QED BY <1>2, <1>3, <1>5 DEF Inv

\* Steps that leave the list, the selection and the screen alone.
LEMMA Still ==
  ASSUME Inv, UNCHANGED <<list, selection, screen, moved>>,
         has_key' \in BOOLEAN, last_key' \in Keys \cup {NoKey},
         \/ pc' = pc
         \/ pc' \in {"poll", "note", "zero", "clear", "quit", "shell"}
            /\ pc \notin {"row", "ips"}
         \/ pc = "enter" /\ pc' = "frame"
  PROVE  Inv'
<1>1. TypeOK' BY DEF Inv, TypeOK, list, selection, screen
<1>2. (ListFilled /\ Drawing /\ LitFollows)'
  BY DEF Inv, ListFilled, Drawing, LitFollows, list, selection, screen
<1>3. viewOffset' = viewOffset /\ NextRow' = NextRow
      /\ (\A i : getHeaderIndex(i)' = getHeaderIndex(i)) /\ Shown' = Shown
  BY DEF viewOffset, NextRow, getHeaderIndex, Shown, list, selection, screen
<1>4. (RowsFollow /\ RowsComplete)'
  BY <1>3 DEF Inv, RowsFollow, RowsComplete, list, selection, screen
<1> QED BY <1>1, <1>2, <1>4 DEF Inv

LEMMA ArriveInv == ASSUME Inv, Arrive PROVE Inv'
<1> USE DEF Inv
<1>1. PICK s \in Slots :
           /\ ethHeaders' = [ethHeaders EXCEPT ![s] = arrived + 1]
           /\ arrived + 1 \in 1 .. MaxPackets
           /\ firstHeader' \in Slots /\ nHeaders' \in 0 .. NHeaders
           /\ nHeaders < NHeaders => /\ s = nHeaders /\ nHeaders' = nHeaders + 1
                                     /\ firstHeader = 0 /\ firstHeader' = 0
                                     /\ moved' = moved
           /\ nHeaders = NHeaders => nHeaders' = nHeaders /\ moved' = TRUE
  BY ArriveSlot
<1>2. arrived' = arrived + 1 /\ UNCHANGED <<pc, mailbox, selection, screen>>
  BY DEF Arrive
<1>3. NHeaders \in Nat \ {0} /\ nHeaders \in Nat /\ nHeaders <= NHeaders /\ viewOffset \in Nat
      /\ Len(rows) \in Nat
  BY Numbers
<1>4. /\ nHeaders' >= nHeaders /\ nHeaders' \in Nat
      /\ ~moved' => nHeaders < NHeaders /\ ~moved
  BY <1>1, <1>3
<1>5. TypeOK'
  <2>1. /\ ethHeaders' \in [Slots -> 0 .. MaxPackets] /\ arrived' \in 0 .. MaxPackets
        /\ firstHeader' \in Slots /\ nHeaders' \in 0 .. NHeaders
    BY <1>1, <1>2, ViewerAssumption DEF TypeOK
  <2>2. selectedIndex' \in Slots /\ (selectedIndex' = 0 \/ selectedIndex' < nHeaders')
    BY <1>2, <1>3, <1>4 DEF TypeOK, Slots, selection
  <2>3. moved' \in BOOLEAN BY DEF Arrive, TypeOK
  <2> QED BY <1>2, <2>1, <2>2, <2>3 DEF TypeOK, mailbox, selection, screen
<1>6. ListFilled'
  <2>1. ASSUME NEW i \in Slots, i < nHeaders' PROVE ethHeaders'[i] # None
    <3>1. CASE i = s
      BY <1>1, <3>1 DEF TypeOK, None
    <3>2. CASE i # s
      <4>1. i < nHeaders BY <1>1, <1>3, <2>1, <3>2 DEF Slots
      <4> QED BY <1>1, <3>2, <4>1 DEF ListFilled, TypeOK
    <3> QED BY <3>1, <3>2
  <2>2. firstHeader' # 0 => nHeaders' = NHeaders
    BY <1>1, <1>3
  <2> QED BY <2>1, <2>2 DEF ListFilled
<1>7. Drawing'
  BY <1>2, <1>3, <1>4 DEF Drawing, selection, screen, TypeOK
<1>8. ASSUME NEW i \in Nat, i < nHeaders, ~moved'
      PROVE  getHeaderIndex(i) = i /\ getHeaderIndex(i)' = i /\ ethHeaders'[i] = ethHeaders[i]
  <2>1. firstHeader = 0 /\ firstHeader' = 0 /\ s = nHeaders
    BY <1>1, <1>4, <1>8
  <2>2. i < NHeaders /\ i \in Slots /\ i # s BY <1>3, <1>8, <2>1 DEF Slots
  <2>3. i % NHeaders = i BY <2>2, Slot
  <2>4. ethHeaders'[i] = ethHeaders[i] BY <1>1, <2>2 DEF TypeOK
  <2>5. firstHeader + i = i /\ firstHeader' + i = i BY <2>1
  <2> QED BY <2>3, <2>4, <2>5 DEF getHeaderIndex
<1>9. LitFollows'
  <2>1. lit' # None => selectedIndex' < nHeaders'
    BY <1>2, <1>4, <1>3 DEF LitFollows, TypeOK, selection, screen, Slots
  <2>2. ASSUME pc' \in {"row", "ips", "switch", "enter", "frame"}, lit' # None, ~moved', firstHeader' = 0
        PROVE  lit' = ethHeaders'[selectedIndex']
    <3>1. selectedIndex \in Nat /\ selectedIndex < nHeaders /\ firstHeader = 0 /\ ~moved
      BY <1>1, <1>2, <1>4, <2>2, Numbers DEF LitFollows, screen
    <3> QED BY <1>2, <1>8, <2>2, <3>1 DEF LitFollows, selection, screen
  <2>3. pc' = "hold" => frame' = lit' \/ lit' = None \/ moved' \/ firstHeader' # 0
    BY <1>1, <1>2, <1>4 DEF LitFollows, screen
  <2> QED BY <2>1, <2>2, <2>3 DEF LitFollows
<1>10. RowsFollow' /\ RowsComplete'
  <2> SUFFICES ASSUME Shown' PROVE RowsFollow' /\ RowsComplete'
    BY DEF RowsFollow, RowsComplete
  <2>1. Shown /\ ~moved' BY <1>2, <1>4 DEF Shown, selection, screen
  <2>2. viewOffset' = viewOffset /\ NextRow' = NextRow /\ UNCHANGED <<rows, pc, lastNHeaders>>
    BY <1>2 DEF viewOffset, NextRow, selection, screen
  <2>3. NextRow <= nHeaders BY <2>1 DEF RowsFollow
  <2>4. NextRow' <= nHeaders' BY <1>3, <1>4, <2>2, <2>3, Numbers
  <2>5. ASSUME NEW j \in 1 .. Len(rows)
        PROVE  /\ getHeaderIndex(viewOffset + j - 1)' = getHeaderIndex(viewOffset + j - 1)
               /\ ethHeaders'[getHeaderIndex(viewOffset + j - 1)]
                    = ethHeaders[getHeaderIndex(viewOffset + j - 1)]
    <3>1. viewOffset + j - 1 \in Nat /\ viewOffset + j - 1 < nHeaders
      BY <1>3, <2>3 DEF NextRow
    <3>2. getHeaderIndex(viewOffset + j - 1)' = (firstHeader' + (viewOffset + j - 1)) % NHeaders
      BY <2>2 DEF getHeaderIndex
    <3> HIDE DEF Inv
    <3> DEFINE i == viewOffset + j - 1
    <3>3. getHeaderIndex(i) = i /\ (firstHeader' + i) % NHeaders = i /\ ethHeaders'[i] = ethHeaders[i]
      <4> HIDE DEF i
      <4>1. i \in Nat /\ i < nHeaders BY <3>1 DEF i
      <4> QED BY <1>8, <2>1, <4>1 DEF getHeaderIndex
    <3> QED BY <3>2, <3>3
  <2>6. RowsFollow'
    BY <2>1, <2>2, <2>4, <2>5 DEF RowsFollow
  <2>7. RowsComplete'
    BY <2>1, <2>2 DEF RowsComplete
  <2> QED BY <2>6, <2>7
<1> QED BY <1>5, <1>6, <1>7, <1>9, <1>10

\* The drawing begins anew.
LEMMA CommandInv == ASSUME Inv, Command \/ Note PROVE Inv'
<1> USE DEF Inv
<1>1. /\ rows' = <<>> /\ lit' = None /\ frame' = None /\ moved' = FALSE
      /\ pc' \in {"poll", "row"} /\ lastSelectedIndex' = selectedIndex'
      /\ UNCHANGED list
  BY DEF Command, Note
<1>2. rows' \in Seq(Line) /\ Len(rows') = 0 /\ pc' # "ips" /\ pc' # "hold"
  BY <1>1
<1>3. 0 \in Slots /\ 0 \in 0 .. MaxPackets /\ 0 \in 0 .. NHeaders /\ nHeaders \in Nat
      /\ nHeaders \in 0 .. NHeaders
  BY ViewerAssumption DEF Slots, TypeOK
<1>4. /\ selectedIndex' \in Slots /\ (selectedIndex' = 0 \/ selectedIndex' < nHeaders')
      /\ lastSelectedIndex' \in 0 .. NHeaders
      /\ lastNHeaders' \in 0 .. NHeaders /\ lastNHeaders' <= nHeaders'
      /\ pc' = "poll" => lastNHeaders' = 0
  <2>1. CASE Command
    BY <1>3, <2>1 DEF Command, list
  <2>2. CASE Note
    <3>1. selectedIndex \in 0 .. NHeaders BY ViewerAssumption DEF TypeOK, Slots
    <3>2. lastNHeaders' = nHeaders /\ nHeaders' = nHeaders BY <2>2 DEF Note, list
    <3>3. lastNHeaders' <= nHeaders' BY <1>3, <3>2
    <3> QED BY <1>3, <2>2, <3>1, <3>2, <3>3 DEF Note, list, TypeOK
  <2> QED BY <2>1, <2>2
<1>5. TypeOK'
  <2>1. has_key' \in BOOLEAN /\ last_key' \in Keys \cup {NoKey}
    BY DEF Command, Note, mailbox, Keys, TypeOK
  <2> QED BY <1>1, <1>2, <1>3, <1>4, <2>1 DEF TypeOK, list, None
<1>6. ListFilled' BY <1>1 DEF ListFilled, list
<1>7. Drawing' BY <1>1, <1>2, <1>4 DEF Drawing
<1>8. LitFollows' BY <1>1, <1>2 DEF LitFollows
<1>9. viewOffset' \in Nat /\ NextRow' = viewOffset' /\ NextRow' <= nHeaders'
  <2>1. viewOffset' \in Nat /\ viewOffset' <= nHeaders'
    BY <1>4, <1>5, Offset DEF viewOffset, TypeOK
  <2>2. ASSUME NEW v \in Nat PROVE v + 0 = v OBVIOUS
  <2> QED BY <1>2, <2>1, <2>2 DEF NextRow
<1>10. RowsFollow' BY <1>2, <1>9 DEF RowsFollow
<1>11. RowsComplete'
  <2>1. CASE pc' = "poll"
    <3>1. lastNHeaders' = 0 BY <1>4, <2>1
    <3>2. NextRow' >= lastNHeaders' BY <1>9, <3>1
    <3> QED BY <3>2 DEF RowsComplete
  <2>2. CASE pc' = "row"
    BY <2>2 DEF RowsComplete
  <2> QED BY <1>1, <2>1, <2>2
<1> QED BY <1>5, <1>6, <1>7, <1>8, <1>10, <1>11

LEMMA RowInv == ASSUME Inv, NEW slot \in Slots, Row(slot) PROVE Inv'
<1> USE DEF Inv
<1> DEFINE line == [slot |-> slot, kind |-> ethHeaders[slot], ips |-> None]
<1>1. /\ pc = "row" /\ pc' = "ips" /\ NextRow < nHeaders
      /\ slot = (firstHeader + NextRow) % NHeaders
      /\ rows' = Append(rows, line)
      /\ lit' = IF NextRow = selectedIndex THEN ethHeaders[slot] ELSE lit
      /\ UNCHANGED <<mailbox, list, selection, frame, moved>>
  BY DEF Row, MoreRows, getHeaderIndex
<1>2. /\ rows \in Seq(Line) /\ Len(rows) \in Nat /\ viewOffset \in Nat
      /\ NextRow = viewOffset + Len(rows) /\ nHeaders \in Nat
  BY Numbers DEF TypeOK, NextRow
<1>3. line \in Line /\ ethHeaders[slot] \in 0 .. MaxPackets
  BY ViewerAssumption DEF TypeOK, Line, None
<1>4. line.slot = slot /\ line.kind = ethHeaders[slot]
  OBVIOUS
<1> HIDE DEF line
<1>5. /\ rows' \in Seq(Line) /\ Len(rows') = Len(rows) + 1
      /\ rows'[Len(rows) + 1] = line
      /\ \A j \in 1 .. Len(rows) : rows'[j] = rows[j]
  BY <1>1, <1>2, <1>3
<1>6. TypeOK'
  <2>1. lit' \in 0 .. MaxPackets BY <1>1, <1>3 DEF TypeOK
  <2> QED BY <1>1, <1>5, <2>1 DEF TypeOK, mailbox, list, selection
<1>7. ListFilled' BY <1>1 DEF ListFilled, list
<1>8. Drawing'
  <2>1. Len(rows') > 0 BY <1>2, <1>5
  <2> QED BY <1>1, <2>1 DEF Drawing, list, selection
<1>9. LitFollows'
  <2>1. CASE NextRow = selectedIndex
    <3>1. selectedIndex' < nHeaders' BY <1>1, <2>1 DEF list, selection
    <3>2. ASSUME firstHeader = 0 PROVE slot = selectedIndex
      <4>1. NextRow \in Nat /\ NextRow < NHeaders /\ firstHeader + NextRow = NextRow
        BY <1>2, <2>1, <3>2, Numbers
      <4> QED BY <1>1, <2>1, <4>1, Slot
    <3> QED BY <1>1, <2>1, <3>1, <3>2 DEF LitFollows, list, selection
  <2>2. CASE NextRow # selectedIndex
    BY <1>1, <2>2 DEF LitFollows, list, selection
  <2> QED BY <2>1, <2>2
<1>10. RowsFollow'
  <2> SUFFICES ASSUME Shown' PROVE RowsFollow' BY DEF RowsFollow
  <2>1. Shown /\ viewOffset' = viewOffset /\ UNCHANGED <<ethHeaders, firstHeader, nHeaders>>
    BY <1>1 DEF Shown, viewOffset, selection, list
  <2>2. NextRow' = NextRow + 1 BY <1>2, <1>5, <2>1 DEF NextRow
  <2>3. NextRow' <= nHeaders' BY <1>1, <1>2, <2>1, <2>2, Numbers
  <2>4. ASSUME NEW j \in 1 .. Len(rows')
        PROVE  LET at == getHeaderIndex(viewOffset + j - 1)
               IN /\ rows'[j].slot = at /\ rows'[j].kind = ethHeaders[at]
                  /\ j < Len(rows') => rows'[j].ips = ethHeaders[at]
    <3>1. CASE j = Len(rows) + 1
      <4>1. viewOffset + j - 1 = NextRow BY <1>2, <3>1
      <4>2. getHeaderIndex(viewOffset + j - 1) = slot BY <1>1, <4>1 DEF getHeaderIndex
      <4>3. ~(j < Len(rows')) BY <1>2, <1>5, <3>1
      <4> QED BY <1>4, <1>5, <3>1, <4>2, <4>3
    <3>2. CASE j # Len(rows) + 1
      <4>1. j \in 1 .. Len(rows) BY <1>2, <1>5, <3>2
      <4> QED BY <1>1, <1>5, <2>1, <4>1 DEF RowsFollow
    <3> QED BY <3>1, <3>2
  <2>5. \A i : getHeaderIndex(i)' = getHeaderIndex(i) BY <2>1 DEF getHeaderIndex
  <2> QED BY <1>1, <2>1, <2>3, <2>4, <2>5 DEF RowsFollow
<1>11. RowsComplete' BY <1>1 DEF RowsComplete
<1> QED BY <1>6, <1>7, <1>8, <1>9, <1>10, <1>11

LEMMA RowAddressesInv == ASSUME Inv, RowAddresses PROVE Inv'
<1> USE DEF Inv
<1> DEFINE n == Len(rows)
<1> DEFINE e == ethHeaders[rows[n].slot]
<1>1. /\ pc = "ips" /\ pc' = "row"
      /\ rows' = [rows EXCEPT ![n].ips = e]
      /\ UNCHANGED <<mailbox, list, selection, lit, frame, moved>>
  BY DEF RowAddresses
<1>2. /\ rows \in Seq(Line) /\ n \in Nat /\ n > 0 /\ n \in 1 .. n
  BY <1>1, Numbers DEF TypeOK, Drawing
<1>3. rows[n] \in Line BY <1>2
<1>4. e \in 0 .. MaxPackets BY <1>3 DEF TypeOK, Line
<1> HIDE DEF e
<1>5. [rows[n] EXCEPT !.ips = e] \in Line BY <1>3, <1>4 DEF Line
<1>6. /\ rows' \in Seq(Line) /\ Len(rows') = n
      /\ \A j \in 1 .. n : j # n => rows'[j] = rows[j]
      /\ rows'[n] = [rows[n] EXCEPT !.ips = e]
  BY <1>1, <1>2, <1>5
<1>7. rows'[n].slot = rows[n].slot /\ rows'[n].kind = rows[n].kind /\ rows'[n].ips = e
  BY <1>3, <1>6 DEF Line
<1>8. TypeOK' BY <1>1, <1>6 DEF TypeOK, mailbox, list, selection
<1>9. ListFilled' /\ Drawing' /\ LitFollows'
  BY <1>1 DEF ListFilled, Drawing, LitFollows, list, selection
<1>10. RowsFollow'
  <2> SUFFICES ASSUME Shown' PROVE RowsFollow' BY DEF RowsFollow
  <2>1. Shown /\ viewOffset' = viewOffset /\ UNCHANGED <<ethHeaders, firstHeader, nHeaders>>
    BY <1>1 DEF Shown, viewOffset, selection, list
  <2>2. NextRow' = NextRow BY <1>6, <2>1 DEF NextRow
  <2>3. ASSUME NEW j \in 1 .. n
        PROVE  LET at == getHeaderIndex(viewOffset + j - 1)
               IN rows'[j].slot = at /\ rows'[j].kind = ethHeaders[at] /\ rows'[j].ips = ethHeaders[at]
    <3>1. CASE j = n
      BY <1>2, <1>7, <2>1, <3>1 DEF RowsFollow, e
    <3>2. CASE j # n
      <4>1. j < n BY <1>2, <3>2
      <4> QED BY <1>2, <1>6, <2>1, <3>2, <4>1 DEF RowsFollow
    <3> QED BY <3>1, <3>2
  <2>4. \A i : getHeaderIndex(i)' = getHeaderIndex(i) BY <2>1 DEF getHeaderIndex
  <2> QED BY <1>6, <2>1, <2>2, <2>3, <2>4 DEF RowsFollow
<1>11. RowsComplete' BY <1>1 DEF RowsComplete
<1> QED BY <1>8, <1>9, <1>10, <1>11

LEMMA RowsEndInv == ASSUME Inv, RowsEnd PROVE Inv'
<1> USE DEF Inv
<1>1. pc = "row" /\ pc' = "switch" /\ UNCHANGED <<mailbox, list, selection, screen, moved>>
  BY DEF RowsEnd
<1>2. TypeOK' /\ ListFilled' /\ Drawing' /\ LitFollows'
  BY <1>1 DEF TypeOK, ListFilled, Drawing, LitFollows, mailbox, list, selection, screen
<1>3. viewOffset' = viewOffset /\ NextRow' = NextRow /\ Shown' = Shown
      /\ \A i : getHeaderIndex(i)' = getHeaderIndex(i)
  BY <1>1 DEF viewOffset, NextRow, Shown, getHeaderIndex, list, selection, screen
<1>4. RowsFollow'
  BY <1>1, <1>3 DEF RowsFollow, list, screen
<1>5. NextRow >= lastNHeaders \/ Len(rows) >= WindowRows
  <2>1. ~(NextRow < nHeaders) \/ ~(NextRow < viewOffset + WindowRows)
    BY DEF RowsEnd, MoreRows
  <2> QED BY <2>1, Numbers, ViewerAssumption DEF Drawing, NextRow
<1>6. RowsComplete'
  BY <1>1, <1>3, <1>5 DEF RowsComplete, selection, screen
<1> QED BY <1>2, <1>4, <1>6

LEMMA KeySwitchInv == ASSUME Inv, KeySwitch PROVE Inv'
<1> USE DEF Inv
<1>1. /\ pc = "switch" /\ pc' \in {"clear", "enter", "leave"}
      /\ pc' = "enter" => selectedIndex' = selectedIndex
      /\ UNCHANGED <<list, lastNHeaders, lastSelectedIndex, screen, moved>>
  BY DEF KeySwitch, Select
<1>2. has_key' \in BOOLEAN /\ last_key' = last_key
  BY DEF KeySwitch, TypeOK, mailbox
<1>3. selectedIndex \in Nat /\ selectedIndex < NHeaders /\ NHeaders \in Nat /\ nHeaders \in Nat
      /\ nHeaders <= NHeaders /\ (selectedIndex = 0 \/ selectedIndex < nHeaders)
  BY Numbers DEF TypeOK
<1>4. /\ selectedIndex' \in Slots /\ (selectedIndex' = 0 \/ selectedIndex' < nHeaders)
      /\ selectedIndex < nHeaders => selectedIndex' < nHeaders
  <2>1. CASE selectedIndex' = selectedIndex
    BY <1>3, <2>1 DEF Slots
  <2>2. CASE selectedIndex > 0 /\ selectedIndex' = selectedIndex - 1
    BY <1>3, <2>2 DEF Slots
  <2>3. CASE MayGoDown /\ selectedIndex' = selectedIndex + 1
    BY <1>3, <2>3 DEF Slots, MayGoDown
  <2> QED BY <2>1, <2>2, <2>3 DEF KeySwitch, Select
<1>5. TypeOK' BY <1>1, <1>2, <1>4 DEF TypeOK, list, screen
<1>6. ListFilled' BY <1>1 DEF ListFilled, list
<1>7. Drawing' BY <1>1 DEF Drawing, list, screen
<1>8. LitFollows' BY <1>1, <1>4 DEF LitFollows, list, screen
<1>9. CASE ~Shown'
  BY <1>5, <1>6, <1>7, <1>8, <1>9 DEF RowsFollow, RowsComplete
<1>10. CASE Shown'
  <2>1. selectedIndex' = selectedIndex /\ Shown
    BY <1>1, <1>10 DEF Drawing, Shown, screen
  <2>2. viewOffset' = viewOffset /\ NextRow' = NextRow
        /\ \A i : getHeaderIndex(i)' = getHeaderIndex(i)
    BY <1>1, <2>1 DEF viewOffset, NextRow, getHeaderIndex, list, screen
  <2>3. RowsFollow' /\ RowsComplete'
    BY <1>1, <2>1, <2>2 DEF RowsFollow, RowsComplete, list, screen
  <2> QED BY <1>5, <1>6, <1>7, <1>8, <2>3
<1> QED BY <1>9, <1>10

\* An Enter on an empty list shows no packet, and there was none to draw.
LEMMA FrameInv == ASSUME Inv, Frame PROVE Inv'
<1> USE DEF Inv
<1>1. /\ pc = "frame" /\ pc' = "hold" /\ frame' = ethHeaders[selectedIndex]
      /\ rows' = <<>>
      /\ UNCHANGED <<mailbox, list, selection, lit, moved>>
  BY DEF Frame, FrameSlot
<1>2. rows' \in Seq(Line) /\ Len(rows') = 0 /\ frame' \in 0 .. MaxPackets
  BY <1>1 DEF TypeOK
<1>3. TypeOK' BY <1>1, <1>2 DEF TypeOK, mailbox, list, selection
<1>4. ListFilled' /\ Drawing' BY <1>1 DEF ListFilled, Drawing, list, selection
<1>5. LitFollows' BY <1>1 DEF LitFollows, list, selection
<1>6. viewOffset' = viewOffset /\ NextRow' = viewOffset
  <2>1. viewOffset' = viewOffset BY <1>1 DEF viewOffset, selection
  <2> QED BY <1>2, <2>1, Numbers DEF NextRow
<1>7. viewOffset <= nHeaders BY Numbers
<1>8. RowsFollow' BY <1>1, <1>2, <1>6, <1>7 DEF RowsFollow, list
<1>9. frame' = None => lastNHeaders = 0
  <2>1. ASSUME frame' = None PROVE lastNHeaders = 0
    <3>1. ~(selectedIndex < nHeaders) BY <1>1, <2>1 DEF ListFilled, TypeOK
    <3>2. selectedIndex = 0 BY <3>1 DEF TypeOK
    <3> QED BY <3>1, <3>2, Numbers DEF Drawing
  <2> QED BY <2>1
<1>10. RowsComplete'
  <2> SUFFICES ASSUME Shown' PROVE NextRow' >= lastNHeaders'
    BY DEF RowsComplete
  <2>1. lastNHeaders' = 0 BY <1>1, <1>9 DEF Shown, selection
  <2> QED BY <1>6, <2>1, Numbers
<1> QED BY <1>3, <1>4, <1>5, <1>8, <1>10

LEMMA NextInv == ASSUME Inv, [Next]_vars PROVE Inv'
<1>1. ASSUME NEW k \in Keys, Press(k) PROVE Inv'
  BY <1>1, Still DEF Press
<1>2. CASE Poll \/ Enter \/ Leave \/ Hold \/ ClearFlag \/ ClearKey \/ Quit
  <2>1. has_key \in BOOLEAN /\ last_key \in Keys \cup {NoKey} BY DEF Inv, TypeOK
  <2>2. UNCHANGED <<list, selection, screen, moved>>
        /\ has_key' \in BOOLEAN /\ last_key' \in Keys \cup {NoKey}
        /\ \/ pc' \in {"poll", "note", "zero", "clear", "quit", "shell"} /\ pc \notin {"row", "ips"}
           \/ pc = "enter" /\ pc' = "frame"
    BY <1>2, <2>1 DEF Poll, Enter, Leave, Hold, ClearFlag, ClearKey, Quit, mailbox
  <2> QED BY <2>2, Still
<1>3. CASE UNCHANGED vars
  BY <1>3, Still DEF vars, list, selection, screen, Inv, TypeOK
<1> QED BY <1>1, <1>2, <1>3, ArriveInv, CommandInv, RowInv, RowAddressesInv, RowsEndInv,
           KeySwitchInv, FrameInv DEF Next, LoopStep

-----------------------------------------------------------------------------
\* Enter shows the packet that was drawn as selected, and the selection stays
\* in the list, until the list is full and gives entries up.
THEOREM EnterShowsTheSelected == Spec => []FrameIsHighlighted
<1>1. Init => Inv BY InitInv
<1>2. Inv /\ [Next]_vars => Inv' BY NextInv
<1>3. Inv => FrameIsHighlighted
  BY DEF Inv, FrameIsHighlighted, LitFollows
<1> QED BY <1>1, <1>2, <1>3, PTL DEF Spec

\* When the loop has nothing to do, the list on the screen is the list.
THEOREM ScreenShowsTheList == Spec => []ScreenCatchesUp
<1>1. Init => Inv BY InitInv
<1>2. Inv /\ [Next]_vars => Inv' BY NextInv
<1>3. Inv => ScreenCatchesUp
  <2> SUFFICES ASSUME Inv, pc = "poll", ~Wanted, frame = None, ~moved
               PROVE  /\ ~MoreRows
                      /\ \A j \in 1 .. Len(rows) :
                           LET packet == ethHeaders[getHeaderIndex(viewOffset + j - 1)]
                           IN rows[j].kind = packet /\ rows[j].ips = packet
    BY DEF ScreenCatchesUp
  <2>1. Shown /\ lastNHeaders = nHeaders BY DEF Wanted, Shown
  <2>2. NextRow >= nHeaders \/ Len(rows) >= WindowRows
    BY <2>1 DEF Inv, RowsComplete
  <2>3. ~MoreRows
    BY <2>2, Numbers, ViewerAssumption DEF Inv, MoreRows, NextRow
  <2> QED BY <2>1, <2>3 DEF Inv, RowsFollow
<1> QED BY <1>1, <1>2, <1>3, PTL DEF Spec

=============================================================================
