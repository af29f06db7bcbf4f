----------------------------- MODULE TtyProofs ------------------------------
(***************************************************************************)
(* The prompt.  Its history keeps what was entered, and walking it never   *)
(* leaves it; and the line under edit is what the screen shows.  Both for  *)
(* every number and size of rows and of the screen, and every order of     *)
(* keys, interrupts and outputs.                                           *)
(***************************************************************************)
EXTENDS TtyInput, TtyScreen, SequenceTheorems, FiniteSetTheorems, WellFoundedInduction, TLAPS

AllRows == 0 .. Rows - 1

\* Before the first line there is no row of the history, and nothing was typed.
RingInv ==
  /\ history_fst = NoRow <=> history_lst = NoRow
  /\ history_lst = NoRow => pc = "call" /\ history_ptr = 0
  /\ history_lst # NoRow => Age(history_ptr) <= Age(history_lst)

\* What tty_read copied is still in its row until the next call; a key acts on
\* a row that is not full.
LineInv ==
  /\ pc = "call" => line = history[buf]
  /\ history_lst = NoRow => line = <<>>
  /\ pc \in {"take", "act"} => input_len < InputSize

Inv == TypeOK /\ RingInv /\ LineInv

-----------------------------------------------------------------------------
\* Arithmetic of the ring: the age of r when f is the oldest row.
Dist(f, r) == (r + (Rows - f)) % Rows

LEMMA ModOnce ==
  ASSUME NEW R \in Nat \ {0}, NEW x \in 0 .. 2 * R - 1
  PROVE  x % R = IF x < R THEN x ELSE x - R
OBVIOUS

LEMMA Neighbours ==
  ASSUME NEW r \in AllRows
  PROVE  /\ Following(r) = IF r = Rows - 1 THEN 0 ELSE r + 1
         /\ Before(r) = IF r = 0 THEN Rows - 1 ELSE r - 1
<1>1. Rows \in Nat \ {0} /\ Rows >= 2 /\ r \in Nat /\ r < Rows
  BY LineEditorAssumption DEF AllRows
<1> DEFINE x == r + 1
<1> DEFINE y == r + (Rows - 1)
<1>2. x \in 0 .. 2 * Rows - 1 /\ y \in 0 .. 2 * Rows - 1
  BY <1>1
<1>3. Following(r) = x % Rows /\ Before(r) = y % Rows
  BY DEF Following, Before
<1> HIDE DEF x, y
<1>4. x % Rows = IF x < Rows THEN x ELSE x - Rows
  BY <1>1, <1>2, ModOnce
<1>5. y % Rows = IF y < Rows THEN y ELSE y - Rows
  BY <1>1, <1>2, ModOnce
<1>6. Following(r) = IF x < Rows THEN x ELSE x - Rows
  BY <1>3, <1>4
<1>7. Before(r) = IF y < Rows THEN y ELSE y - Rows
  BY <1>3, <1>5
<1> QED BY <1>1, <1>6, <1>7 DEF x, y

LEMMA NeighbourRows ==
  ASSUME NEW r \in AllRows
  PROVE  /\ Following(r) \in AllRows /\ Before(r) \in AllRows
         /\ Following(r) # r /\ Before(r) # r
         /\ Before(Following(r)) = r
<1>1. Rows \in Nat /\ Rows >= 2 /\ r \in Nat /\ r < Rows
  BY LineEditorAssumption DEF AllRows
<1>2. Following(r) \in AllRows /\ Before(r) \in AllRows /\ Following(r) # r /\ Before(r) # r
  BY <1>1, Neighbours DEF AllRows
<1>3. Before(Following(r)) = IF Following(r) = 0 THEN Rows - 1 ELSE Following(r) - 1
  BY <1>2, Neighbours
<1> QED BY <1>1, <1>2, <1>3, Neighbours

LEMMA DistIs ==
  ASSUME NEW f \in AllRows, NEW r \in AllRows
  PROVE  /\ Dist(f, r) = IF r >= f THEN r - f ELSE r + Rows - f
         /\ Dist(f, r) \in AllRows
<1>1. Rows \in Nat \ {0} /\ r \in Nat /\ r < Rows /\ f \in Nat /\ f < Rows
  BY LineEditorAssumption DEF AllRows
<1> DEFINE x == r + (Rows - f)
<1>2. x \in 0 .. 2 * Rows - 1
  BY <1>1
<1>3. Dist(f, r) = x % Rows
  BY DEF Dist
<1> HIDE DEF x
<1>4. x % Rows = IF x < Rows THEN x ELSE x - Rows
  BY <1>1, <1>2, ModOnce
<1>5. Dist(f, r) = IF x < Rows THEN x ELSE x - Rows
  BY <1>3, <1>4
<1> QED BY <1>1, <1>5 DEF AllRows, x

\* The row before is one younger than the oldest allows, the following one older.
LEMMA DistWalk ==
  ASSUME NEW f \in AllRows, NEW l \in AllRows, NEW r \in AllRows, Dist(f, r) <= Dist(f, l)
  PROVE  /\ r # f => /\ Dist(f, Before(r)) = Dist(f, r) - 1
                     /\ Dist(f, Before(r)) <= Dist(f, l)
         /\ r # l => /\ Dist(f, Following(r)) = Dist(f, r) + 1
                     /\ Dist(f, Following(r)) <= Dist(f, l)
<1>1. Rows \in Nat /\ r \in 0 .. Rows - 1 /\ f \in 0 .. Rows - 1 /\ l \in 0 .. Rows - 1
  BY LineEditorAssumption DEF AllRows
<1>2. /\ Dist(f, r) = IF r >= f THEN r - f ELSE r + Rows - f
      /\ Dist(f, l) = IF l >= f THEN l - f ELSE l + Rows - f
  BY DistIs
<1>3. Before(r) \in AllRows /\ Following(r) \in AllRows
  BY NeighbourRows
<1>4. /\ Dist(f, Before(r)) = IF Before(r) >= f THEN Before(r) - f ELSE Before(r) + Rows - f
      /\ Dist(f, Following(r)) = IF Following(r) >= f THEN Following(r) - f
                                 ELSE Following(r) + Rows - f
  BY <1>3, DistIs
<1>5. /\ Following(r) = IF r = Rows - 1 THEN 0 ELSE r + 1
      /\ Before(r) = IF r = 0 THEN Rows - 1 ELSE r - 1
  BY Neighbours
<1> QED BY <1>1, <1>2, <1>4, <1>5

\* The row after the newest one is the oldest, or older than none.
LEMMA DistNext ==
  ASSUME NEW f \in AllRows, NEW l \in AllRows
  PROVE  Dist(f, Following(l)) = 0 \/ Dist(f, Following(l)) > Dist(f, l)
<1>1. Rows \in Nat /\ f \in 0 .. Rows - 1 /\ l \in 0 .. Rows - 1
  BY LineEditorAssumption DEF AllRows
<1>2. /\ Dist(f, Following(l)) = IF Following(l) >= f THEN Following(l) - f
                                 ELSE Following(l) + Rows - f
      /\ Dist(f, l) = IF l >= f THEN l - f ELSE l + Rows - f
  BY DistIs, NeighbourRows
<1>3. Following(l) = IF l = Rows - 1 THEN 0 ELSE l + 1
  BY Neighbours
<1> QED BY <1>1, <1>2, <1>3

-----------------------------------------------------------------------------
\* Lines: the one with a character less, and the one with a character more.
LEMMA Removed ==
  ASSUME NEW t \in Seq(Chars), NEW i \in 1 .. Len(t)
  PROVE  /\ RemoveAt(t, i) \in Seq(Chars) /\ Len(RemoveAt(t, i)) = Len(t) - 1
         /\ \A j \in 1 .. Len(t) - 1 : RemoveAt(t, i)[j] = IF j < i THEN t[j] ELSE t[j + 1]
<1> DEFINE a == SubSeq(t, 1, i - 1)
<1> DEFINE b == SubSeq(t, i + 1, Len(t))
<1>1. Len(t) \in Nat /\ i \in Nat /\ 1 <= i /\ i <= Len(t) OBVIOUS
<1>2. a \in Seq(Chars) /\ Len(a) = i - 1 /\ \A j \in 1 .. i - 1 : a[j] = t[j]
  BY <1>1, SubSeqProperties
<1>3. b \in Seq(Chars) /\ Len(b) = Len(t) - i /\ \A j \in 1 .. Len(t) - i : b[j] = t[i + j]
  <2>1. \A j \in 1 .. Len(t) - i : b[j] = t[i + 1 + j - 1]
    BY <1>1, SubSeqProperties
  <2>2. \A j \in 1 .. Len(t) - i : i + 1 + j - 1 = i + j BY <1>1
  <2>3. b \in Seq(Chars) /\ Len(b) = Len(t) - i BY <1>1, SubSeqProperties
  <2> HIDE DEF b
  <2> QED BY <2>1, <2>2, <2>3
<1> HIDE DEF a, b
<1>4. /\ a \o b \in Seq(Chars) /\ Len(a \o b) = Len(a) + Len(b)
      /\ \A j \in 1 .. Len(a) + Len(b) : (a \o b)[j] = IF j <= Len(a) THEN a[j] ELSE b[j - Len(a)]
  BY <1>2, <1>3, ConcatProperties
<1>5. Len(a \o b) = Len(t) - 1 BY <1>1, <1>2, <1>3, <1>4
<1>6. ASSUME NEW j \in 1 .. Len(t) - 1
      PROVE  (a \o b)[j] = IF j < i THEN t[j] ELSE t[j + 1]
  <2>1. j \in 1 .. Len(a) + Len(b) /\ j \in Nat BY <1>1, <1>2, <1>3
  <2>2. CASE j < i
    <3>1. j <= Len(a) /\ j \in 1 .. i - 1 BY <1>1, <1>2, <2>1, <2>2
    <3> QED BY <1>2, <1>4, <2>1, <2>2, <3>1
  <2>3. CASE ~(j < i)
    <3>1. ~(j <= Len(a)) /\ j - Len(a) \in 1 .. Len(t) - i /\ i + (j - Len(a)) = j + 1
      BY <1>1, <1>2, <2>1, <2>3
    <3> QED BY <1>3, <1>4, <2>1, <2>3, <3>1
  <2> QED BY <2>2, <2>3
<1> QED BY <1>4, <1>5, <1>6 DEF RemoveAt, a, b

LEMMA Inserted ==
  ASSUME NEW t \in Seq(Chars), NEW i \in 1 .. Len(t) + 1, NEW c \in Chars
  PROVE  /\ InsertAt(t, i, c) \in Seq(Chars) /\ Len(InsertAt(t, i, c)) = Len(t) + 1
         /\ \A j \in 1 .. Len(t) + 1 :
              InsertAt(t, i, c)[j] = IF j < i THEN t[j] ELSE IF j = i THEN c ELSE t[j - 1]
<1> DEFINE a == SubSeq(t, 1, i - 1)
<1> DEFINE b == SubSeq(t, i, Len(t))
<1>1. Len(t) \in Nat /\ i \in Nat /\ 1 <= i /\ i <= Len(t) + 1 OBVIOUS
<1>2. a \in Seq(Chars) /\ Len(a) = i - 1 /\ \A j \in 1 .. i - 1 : a[j] = t[j]
  BY <1>1, SubSeqProperties
<1>3. b \in Seq(Chars) /\ Len(b) = Len(t) - i + 1
      /\ \A j \in 1 .. Len(t) - i + 1 : b[j] = t[i + j - 1]
  BY <1>1, SubSeqProperties
<1>4. <<c>> \in Seq(Chars) /\ Len(<<c>>) = 1 /\ <<c>>[1] = c OBVIOUS
<1> DEFINE d == <<c>>
<1> HIDE DEF a, b, d
<1>5. /\ a \o d \in Seq(Chars) /\ Len(a \o d) = i
      /\ \A j \in 1 .. i : (a \o d)[j] = IF j < i THEN t[j] ELSE c
  <2>1. /\ a \o d \in Seq(Chars) /\ Len(a \o d) = Len(a) + Len(d)
        /\ \A j \in 1 .. Len(a) + Len(d) : (a \o d)[j] = IF j <= Len(a) THEN a[j] ELSE d[j - Len(a)]
    BY <1>2, <1>4, ConcatProperties DEF d
  <2>2. Len(a) + Len(d) = i BY <1>1, <1>2, <1>4 DEF d
  <2>3. ASSUME NEW j \in 1 .. i PROVE (a \o d)[j] = IF j < i THEN t[j] ELSE c
    <3>1. (a \o d)[j] = IF j <= Len(a) THEN a[j] ELSE d[j - Len(a)] BY <2>1, <2>2
    <3>2. j < i => j <= Len(a) /\ j \in 1 .. i - 1 BY <1>1, <1>2
    <3>3. ~(j < i) => ~(j <= Len(a)) /\ j - Len(a) = 1 BY <1>1, <1>2
    <3> QED BY <1>2, <1>4, <3>1, <3>2, <3>3 DEF d
  <2> QED BY <2>1, <2>2, <2>3
<1> DEFINE e == a \o d
<1> HIDE DEF e
<1>6. /\ e \o b \in Seq(Chars) /\ Len(e \o b) = Len(e) + Len(b)
      /\ \A j \in 1 .. Len(e) + Len(b) : (e \o b)[j] = IF j <= Len(e) THEN e[j] ELSE b[j - Len(e)]
  <2>1. e \in Seq(Chars) /\ b \in Seq(Chars) BY <1>3, <1>5 DEF e
  <2> QED BY <2>1, ConcatProperties
<1>7. Len(e) = i /\ Len(e \o b) = Len(t) + 1
  BY <1>1, <1>2, <1>3, <1>5, <1>6 DEF e
<1>8. ASSUME NEW j \in 1 .. Len(t) + 1
      PROVE  (e \o b)[j] = IF j < i THEN t[j] ELSE IF j = i THEN c ELSE t[j - 1]
  <2>1. (e \o b)[j] = IF j <= i THEN e[j] ELSE b[j - i]
    BY <1>6, <1>7
  <2>2. CASE j <= i
    <3>1. j \in 1 .. i /\ (~(j < i) => j = i) BY <1>1, <2>2
    <3> QED BY <1>5, <2>1, <2>2, <3>1 DEF e
  <2>3. CASE ~(j <= i)
    <3>1. j - i \in 1 .. Len(t) - i + 1 /\ i + (j - i) - 1 = j - 1 /\ ~(j < i) /\ j # i
      BY <1>1, <2>3
    <3> QED BY <1>3, <2>1, <2>3, <3>1
  <2> QED BY <2>2, <2>3
<1> QED BY <1>6, <1>7, <1>8 DEF InsertAt, a, b, d, e

-----------------------------------------------------------------------------
\* The four ways a line starts.
FirstLine ==
  /\ history_lst = NoRow
  /\ history_ptr' = history_ptr /\ history_fst' = 0 /\ history_lst' = 0
  /\ history' = [history EXCEPT ![0] = <<>>]

NothingEntered ==
  /\ history_lst # NoRow /\ history[history_ptr] = <<>>
  /\ history_ptr' = history_ptr /\ history_fst' = history_fst /\ history_lst' = history_lst
  /\ history' = [history EXCEPT ![history_lst] = <<>>]

Closing(last) ==
  /\ history_ptr' = last /\ history_lst' = last
  /\ history_fst' = IF history_fst = last THEN Following(history_fst) ELSE history_fst

EnteredAgain ==
  /\ history_lst # NoRow /\ history[history_ptr] # <<>>
  /\ history[history_ptr] = history[Before(history_lst)]
  /\ Closing(history_lst)
  /\ history' = [history EXCEPT ![history_lst] = <<>>]

EnteredNew ==
  /\ history_lst # NoRow /\ history[history_ptr] # <<>>
  /\ Closing(Following(history_lst))
  /\ history' = [[history EXCEPT ![history_lst] = history[history_ptr]]
                   EXCEPT ![Following(history_lst)] = <<>>]

LEMMA StartCases ==
  ASSUME Inv, StartLine
  PROVE  /\ FirstLine \/ NothingEntered \/ EnteredAgain \/ EnteredNew
         /\ buf' = history_lst' /\ input_ptr' = 0
<1> DEFINE s == __history_new_buf
<1>1. /\ history' = [s.rows EXCEPT ![s.lst] = <<>>]
      /\ history_ptr' = s.ptr /\ history_fst' = s.fst /\ history_lst' = s.lst
      /\ buf' = s.lst /\ input_ptr' = 0
  BY DEF StartLine
<1>2. CASE history_lst = NoRow
  <2>1. s = State(history, history_ptr, 0, 0) BY <1>2 DEF __history_new_buf
  <2> HIDE DEF s
  <2> QED BY <1>1, <1>2, <2>1 DEF FirstLine, State
<1>3. CASE history_lst # NoRow /\ history[history_ptr] = <<>>
  <2>1. s = State(history, history_ptr, history_fst, history_lst)
    BY <1>3 DEF __history_new_buf
  <2> HIDE DEF s
  <2> QED BY <1>1, <1>3, <2>1 DEF NothingEntered, State
<1>4. CASE history_lst # NoRow /\ history[history_ptr] # <<>> /\ Repeats
  <2>1. s = Repeated
    BY <1>4 DEF __history_new_buf
  <2> HIDE DEF s
  <2>2. /\ s.rows = [history EXCEPT ![history_lst] = <<>>]
        /\ s.ptr = history_lst /\ s.lst = history_lst
        /\ s.fst = IF history_fst = history_lst THEN Following(history_fst) ELSE history_fst
    BY <2>1 DEF Repeated, Closed, State
  <2>3. history' = [history EXCEPT ![history_lst] = <<>>]
    BY <1>1, <2>2 DEF Inv, TypeOK, EditorTypeOK
  <2> QED BY <1>1, <1>4, <2>2, <2>3 DEF EnteredAgain, Closing, Repeats
<1>5. CASE history_lst # NoRow /\ history[history_ptr] # <<>> /\ ~Repeats
  <2>1. s = Closed([history EXCEPT ![history_lst] = history[history_ptr]], Following(history_lst))
    BY <1>5 DEF __history_new_buf
  <2> HIDE DEF s
  <2>2. /\ s.rows = [history EXCEPT ![history_lst] = history[history_ptr]]
        /\ s.ptr = Following(history_lst) /\ s.lst = Following(history_lst)
        /\ s.fst = IF history_fst = Following(history_lst) THEN Following(history_fst)
                   ELSE history_fst
    BY <2>1 DEF Closed, State
  <2> QED BY <1>1, <1>5, <2>2 DEF EnteredNew, Closing
<1> QED BY <1>1, <1>2, <1>3, <1>4, <1>5

LEMMA Typed ==
  ASSUME Inv
  PROVE  /\ Rows \in Nat /\ 0 \in AllRows
         /\ history \in [AllRows -> Seq(Chars)]
         /\ \A r \in AllRows : Len(history[r]) <= InputSize
         /\ history_ptr \in AllRows /\ buf \in AllRows
         /\ history_lst # NoRow => history_lst \in AllRows /\ history_fst \in AllRows
<1>1. Rows \in Nat /\ Rows >= 2
  BY LineEditorAssumption
<1>2. /\ history \in [AllRows -> Seq(Chars)] /\ history_ptr \in AllRows /\ buf \in AllRows
      /\ \A r \in AllRows : Len(history[r]) <= InputSize
      /\ history_fst \in 0 .. NoRow /\ history_lst \in 0 .. NoRow
      /\ history_fst = NoRow <=> history_lst = NoRow
  BY DEF Inv, TypeOK, EditorTypeOK, RingInv, AllRows
<1>3. history_lst # NoRow => history_lst \in AllRows /\ history_fst \in AllRows
  BY <1>1, <1>2 DEF AllRows, NoRow
<1> QED BY <1>1, <1>2, <1>3 DEF AllRows

\* What becomes of the ring and of the rows.
LEMMA StartRing ==
  ASSUME Inv, StartLine
  PROVE  /\ history_lst' \in AllRows /\ history_fst' \in AllRows /\ history_ptr' \in AllRows
         /\ Dist(history_fst', history_ptr') <= Dist(history_fst', history_lst')
<1>1. CASE FirstLine
  <2>1. history_ptr = 0 /\ 0 \in AllRows BY <1>1, Typed DEF Inv, RingInv, FirstLine
  <2>2. Dist(0, 0) \in AllRows BY <2>1, DistIs
  <2>3. Dist(0, 0) <= Dist(0, 0) BY <2>2 DEF AllRows
  <2> QED BY <1>1, <2>1, <2>3 DEF FirstLine
<1>2. CASE NothingEntered
  <2>1. Dist(history_fst, history_ptr) <= Dist(history_fst, history_lst)
    BY <1>2 DEF Inv, RingInv, NothingEntered, Age, Dist
  <2> QED BY <1>2, <2>1, Typed DEF NothingEntered
<1>3. ASSUME NEW last \in AllRows, Closing(last), history_lst # NoRow
      PROVE  /\ history_lst' \in AllRows /\ history_fst' \in AllRows /\ history_ptr' \in AllRows
             /\ Dist(history_fst', history_ptr') <= Dist(history_fst', history_lst')
  <2>1. history_fst' \in AllRows
    BY <1>3, Typed, NeighbourRows DEF Closing
  <2>2. history_ptr' = last /\ history_lst' = last
    BY <1>3 DEF Closing
  <2>3. Dist(history_fst', last) \in AllRows BY <2>1, DistIs
  <2>4. Dist(history_fst', last) <= Dist(history_fst', last) BY <2>3 DEF AllRows
  <2> QED BY <2>1, <2>2, <2>4
<1>4. CASE EnteredAgain
  BY <1>3, <1>4, Typed DEF EnteredAgain
<1>5. CASE EnteredNew
  BY <1>3, <1>5, Typed, NeighbourRows DEF EnteredNew
<1> QED BY <1>1, <1>2, <1>4, <1>5, StartCases

LEMMA StartRows ==
  ASSUME Inv, StartLine
  PROVE  /\ history' \in [AllRows -> Seq(Chars)]
         /\ \A r \in AllRows : Len(history'[r]) <= InputSize
         /\ history'[history_lst'] = <<>>
<1>1. <<>> \in Seq(Chars) /\ Len(<<>>) = 0 /\ 0 <= InputSize
  BY LineEditorAssumption
<1>2. ASSUME NEW h \in [AllRows -> Seq(Chars)], NEW l \in AllRows,
             \A r \in AllRows : Len(h[r]) <= InputSize
      PROVE  LET k == [h EXCEPT ![l] = <<>>]
             IN /\ k \in [AllRows -> Seq(Chars)] /\ k[l] = <<>>
                /\ \A r \in AllRows : Len(k[r]) <= InputSize
  BY <1>1, <1>2
<1>3. CASE FirstLine \/ NothingEntered \/ EnteredAgain
  <2>1. history' = [history EXCEPT ![history_lst'] = <<>>] /\ history_lst' \in AllRows
    BY <1>3, Typed DEF FirstLine, NothingEntered, EnteredAgain, Closing
  <2> QED BY <1>2, <2>1, Typed
<1>4. CASE EnteredNew
  <2> DEFINE h == [history EXCEPT ![history_lst] = history[history_ptr]]
  <2>1. history_lst \in AllRows /\ Following(history_lst) \in AllRows
    BY <1>4, Typed, NeighbourRows DEF EnteredNew
  <2>2. h \in [AllRows -> Seq(Chars)] /\ \A r \in AllRows : Len(h[r]) <= InputSize
    BY <2>1, Typed
  <2>3. history' = [h EXCEPT ![Following(history_lst)] = <<>>]
        /\ history_lst' = Following(history_lst)
    BY <1>4 DEF EnteredNew, Closing
  <2> HIDE DEF h
  <2> QED BY <1>2, <2>1, <2>2, <2>3
<1> QED BY <1>3, <1>4, StartCases

-----------------------------------------------------------------------------
LEMMA InitInv == ASSUME Init PROVE Inv
<1>1. Rows \in Nat /\ Rows >= 2 /\ InputSize \in Nat /\ InputSize > 0 BY LineEditorAssumption
<1>2. 0 \in 0 .. Rows - 1 /\ 0 # Rows /\ Rows \in 0 .. Rows BY <1>1
<1>3. <<>> \in Seq(Chars) /\ Len(<<>>) = 0 /\ 0 <= InputSize /\ 0 \in 0 .. 0 BY <1>1
<1>4. /\ history = [r \in 0 .. Rows - 1 |-> <<>>] /\ history_ptr = 0 /\ buf = 0
      /\ history_fst = Rows /\ history_lst = Rows /\ input_ptr = 0
  BY DEF Init, EditorInit, NoRow
<1>5. /\ history \in [0 .. Rows - 1 -> Seq(Chars)]
      /\ \A r \in 0 .. Rows - 1 : history[r] = <<>>
  BY <1>3, <1>4
<1>6. input_len = 0 BY <1>2, <1>3, <1>4, <1>5 DEF input_len
<1>7. EditorTypeOK
  BY <1>2, <1>3, <1>4, <1>5, <1>6 DEF EditorTypeOK, NoRow
<1>8. TypeOK
  BY <1>3, <1>7 DEF Init, TypeOK, Keys
<1>9. RingInv /\ LineInv
  BY <1>2, <1>4, <1>5 DEF Init, RingInv, LineInv, NoRow
<1> QED BY <1>8, <1>9 DEF Inv

\* Steps that leave the line and its history alone.
LEMMA Still ==
  ASSUME Inv, UNCHANGED <<editor, line>>,
         pc' \in {"call", "loop", "take", "act"},
         pc' = "call" <=> pc = "call",
         pc' \in {"take", "act"} => input_len < InputSize,
         has_key' \in BOOLEAN, fresh' \in BOOLEAN, last_key' \in Keys, key' \in Keys,
         kb_handler' \in BOOLEAN, stop_read' \in BOOLEAN, overrun' \in BOOLEAN
  PROVE  Inv'
<1>1. UNCHANGED <<history, history_ptr, history_fst, history_lst, buf, input_ptr>>
  BY DEF editor, ring
<1>2. input_len' = input_len /\ Age(history_ptr)' = Age(history_ptr)
      /\ Age(history_lst)' = Age(history_lst)
  BY <1>1 DEF input_len, Age
<1>3. EditorTypeOK'
  BY <1>1, <1>2 DEF Inv, TypeOK, EditorTypeOK
<1>4. TypeOK' BY <1>3 DEF Inv, TypeOK
<1>5. history_lst = NoRow => pc' = "call"
  BY DEF Inv, RingInv, TypeOK
<1>6. RingInv' BY <1>1, <1>2, <1>5 DEF Inv, RingInv, NoRow
<1>7. LineInv' BY <1>1, <1>2 DEF Inv, LineInv, NoRow
<1> QED BY <1>4, <1>6, <1>7 DEF Inv

LEMMA ReadStartInv == ASSUME Inv, ReadStart PROVE Inv'
<1>1. /\ StartLine /\ pc' = "loop" /\ kb_handler' = TRUE /\ stop_read' = FALSE
      /\ UNCHANGED <<mailbox, key, line, overrun>>
  BY DEF ReadStart
<1>2. /\ history_lst' \in AllRows /\ history_fst' \in AllRows /\ history_ptr' \in AllRows
      /\ Dist(history_fst', history_ptr') <= Dist(history_fst', history_lst')
  BY <1>1, StartRing
<1>3. /\ history' \in [AllRows -> Seq(Chars)]
      /\ \A r \in AllRows : Len(history'[r]) <= InputSize
      /\ history'[history_lst'] = <<>>
  BY <1>1, StartRows
<1>4. buf' = history_lst' /\ input_ptr' = 0
  BY <1>1, StartCases
<1>5. AllRows \subseteq 0 .. NoRow /\ NoRow \notin AllRows
  BY LineEditorAssumption DEF AllRows, NoRow
<1>6. input_ptr' \in 0 .. input_len'
  <2>1. input_len' = 0 BY <1>3, <1>4 DEF input_len
  <2> QED BY <1>4, <2>1
<1>7. EditorTypeOK'
  <2>1. history_fst' \in 0 .. NoRow /\ history_lst' \in 0 .. NoRow BY <1>2, <1>5
  <2> QED BY <1>2, <1>3, <1>4, <1>6, <2>1 DEF EditorTypeOK, AllRows, NoRow
<1>8. TypeOK' BY <1>1, <1>7 DEF Inv, TypeOK, mailbox
<1>9. history_lst' # NoRow /\ history_fst' # NoRow BY <1>2, <1>5
<1>10. RingInv'
  BY <1>2, <1>9 DEF RingInv, Age, Dist, NoRow
<1>11. LineInv' BY <1>1, <1>9 DEF LineInv, NoRow
<1> QED BY <1>8, <1>10, <1>11 DEF Inv

LEMMA ReadEndInv == ASSUME Inv, ReadEnd PROVE Inv'
<1>1. /\ pc = "loop" /\ pc' = "call" /\ kb_handler' = FALSE /\ line' = history[buf]
      /\ overrun' \in BOOLEAN
      /\ UNCHANGED <<history, history_ptr, history_fst, history_lst, buf, input_ptr>>
      /\ UNCHANGED <<mailbox, stop_read, key>>
  BY DEF ReadEnd, editor, ring
<1>2. input_len' = input_len BY <1>1 DEF input_len
<1>3. EditorTypeOK' BY <1>1, <1>2 DEF Inv, TypeOK, EditorTypeOK
<1>4. line' \in Seq(Chars) BY <1>1, Typed
<1>5. TypeOK' BY <1>1, <1>3, <1>4 DEF Inv, TypeOK, mailbox
<1>6. history_lst # NoRow BY <1>1 DEF Inv, RingInv
<1>7. RingInv' BY <1>1, <1>6 DEF Inv, RingInv, Age, NoRow
<1>8. LineInv' BY <1>1, <1>6 DEF LineInv, NoRow
<1> QED BY <1>5, <1>7, <1>8 DEF Inv

-----------------------------------------------------------------------------
\* What a key may do to the line and to the place in the history.
LEMMA KeyWalk ==
  ASSUME Inv, NEW r \in AllRows, HistoryMove(r), history_lst # NoRow,
         Dist(history_fst, r) <= Dist(history_fst, history_lst)
  PROVE  EditorTypeOK' /\ RingInv'
<1>1. /\ history_ptr' = r /\ buf' = r /\ input_ptr' = Len(history[r])
      /\ UNCHANGED <<history, history_fst, history_lst>>
  BY DEF HistoryMove
<1>2. input_len' = Len(history[r]) /\ Len(history[r]) \in Nat
  <2>1. history[r] \in Seq(Chars) BY Typed
  <2> QED BY <1>1, <2>1 DEF input_len
<1>3. input_ptr' \in 0 .. input_len' BY <1>1, <1>2
<1>4. EditorTypeOK'
  BY <1>1, <1>3 DEF Inv, TypeOK, EditorTypeOK, AllRows
<1>5. RingInv' BY <1>1 DEF Inv, RingInv, Age, Dist, NoRow
<1> QED BY <1>4, <1>5

LEMMA KeyCursor ==
  ASSUME Inv, NEW i \in 0 .. input_len, Cursor(i), history_lst # NoRow
  PROVE  EditorTypeOK' /\ RingInv'
<1>1. input_ptr' = i /\ UNCHANGED <<history, history_ptr, history_fst, history_lst, buf>>
  BY DEF Cursor, ring
<1>2. input_len' = input_len BY <1>1 DEF input_len
<1>3. EditorTypeOK' BY <1>1, <1>2 DEF Inv, TypeOK, EditorTypeOK
<1> QED BY <1>1, <1>3 DEF Inv, RingInv, Age, NoRow

LEMMA KeyEdit ==
  ASSUME Inv, NEW t \in Seq(Chars), Len(t) <= InputSize, NEW i \in 0 .. Len(t),
         Edit(t, i), history_lst # NoRow
  PROVE  EditorTypeOK' /\ RingInv'
<1>1. /\ history' = [history EXCEPT ![buf] = t] /\ input_ptr' = i
      /\ UNCHANGED <<history_ptr, history_fst, history_lst, buf>>
  BY DEF Edit, ring
<1>2. /\ history' \in [AllRows -> Seq(Chars)] /\ history'[buf] = t
      /\ \A r \in AllRows : Len(history'[r]) <= InputSize
  BY <1>1, Typed
<1>3. input_ptr' \in 0 .. input_len' BY <1>1, <1>2 DEF input_len
<1>4. EditorTypeOK'
  BY <1>1, <1>2, <1>3 DEF Inv, TypeOK, EditorTypeOK, AllRows
<1> QED BY <1>1, <1>4 DEF Inv, RingInv, Age, NoRow

LEMMA EditLineInv ==
  ASSUME Inv, NEW k \in Keys, EditLine(k), pc = "act"
  PROVE  EditorTypeOK' /\ RingInv'
<1>1. /\ history_lst # NoRow /\ history_lst \in AllRows /\ history_fst \in AllRows
      /\ history_ptr \in AllRows
      /\ Dist(history_fst, history_ptr) <= Dist(history_fst, history_lst)
  <2>1. history_lst # NoRow BY DEF Inv, RingInv
  <2> QED BY <2>1, Typed DEF Inv, RingInv, Age, Dist
<1> DEFINE t == history[buf]
<1>2. t \in Seq(Chars) /\ Len(t) \in Nat /\ Len(t) = input_len
  BY Typed DEF input_len
<1>3. input_len < InputSize /\ InputSize \in Nat /\ input_ptr \in 0 .. input_len
  BY LineEditorAssumption DEF Inv, LineInv, TypeOK, EditorTypeOK
<1>4. CASE k = "up" /\ MayGoUp /\ HistoryMove(Before(history_ptr))
  <2>1. Before(history_ptr) \in AllRows BY <1>1, NeighbourRows
  <2>2. Dist(history_fst, Before(history_ptr)) <= Dist(history_fst, history_lst)
    BY <1>1, <1>4, DistWalk DEF MayGoUp
  <2> QED BY <1>1, <1>4, <2>1, <2>2, KeyWalk
<1>5. CASE k = "down" /\ history_ptr # history_lst /\ HistoryMove(Following(history_ptr))
  <2>1. Following(history_ptr) \in AllRows BY <1>1, NeighbourRows
  <2>2. Dist(history_fst, Following(history_ptr)) <= Dist(history_fst, history_lst)
    BY <1>1, <1>5, DistWalk
  <2> QED BY <1>1, <1>5, <2>1, <2>2, KeyWalk
<1>6. ASSUME NEW i \in 0 .. input_len, Cursor(i) PROVE EditorTypeOK' /\ RingInv'
  BY <1>1, <1>6, KeyCursor
<1>7. CASE k = "left" /\ input_ptr > 0 /\ Cursor(input_ptr - 1)
  <2>1. input_ptr - 1 \in 0 .. input_len BY <1>2, <1>3, <1>7
  <2> QED BY <1>6, <1>7, <2>1
<1>8. CASE k = "right" /\ input_ptr < input_len /\ Cursor(input_ptr + 1)
  <2>1. input_ptr + 1 \in 0 .. input_len BY <1>2, <1>3, <1>8
  <2> QED BY <1>6, <1>8, <2>1
<1>9. CASE (k = "home" /\ Cursor(0)) \/ (k = "end" /\ Cursor(input_len))
  <2>1. 0 \in 0 .. input_len /\ input_len \in 0 .. input_len BY <1>2
  <2> QED BY <1>6, <1>9, <2>1
<1>10. CASE k = "backspace" /\ MayErase /\ Edit(RemoveAt(history[buf], input_ptr), input_ptr - 1)
  <2>1. input_ptr \in 1 .. Len(t) BY <1>2, <1>3, <1>10 DEF MayErase
  <2> DEFINE u == RemoveAt(t, input_ptr)
  <2>2. u \in Seq(Chars) /\ Len(u) = Len(t) - 1 BY <1>2, <2>1, Removed
  <2>3. Edit(u, input_ptr - 1) BY <1>10
  <2> HIDE DEF u, t
  <2>4. Len(u) <= InputSize /\ input_ptr - 1 \in 0 .. Len(u) BY <1>2, <1>3, <2>1, <2>2
  <2> QED BY <1>1, <2>2, <2>3, <2>4, KeyEdit
<1>11. CASE k = "delete" /\ input_ptr < input_len
            /\ Edit(RemoveAt(history[buf], input_ptr + 1), input_ptr)
  <2>1. input_ptr + 1 \in 1 .. Len(t) BY <1>2, <1>3, <1>11
  <2> DEFINE u == RemoveAt(t, input_ptr + 1)
  <2>2. u \in Seq(Chars) /\ Len(u) = Len(t) - 1 BY <1>2, <2>1, Removed
  <2>3. Edit(u, input_ptr) BY <1>11
  <2> HIDE DEF u, t
  <2>4. Len(u) <= InputSize /\ input_ptr \in 0 .. Len(u) BY <1>2, <1>3, <2>1, <2>2
  <2> QED BY <1>1, <2>2, <2>3, <2>4, KeyEdit
<1>12. CASE k \in Chars /\ Edit(InsertAt(history[buf], input_ptr + 1, k), input_ptr + 1)
  <2>1. input_ptr + 1 \in 1 .. Len(t) + 1 BY <1>2, <1>3
  <2> DEFINE u == InsertAt(t, input_ptr + 1, k)
  <2>2. u \in Seq(Chars) /\ Len(u) = Len(t) + 1 BY <1>2, <1>12, <2>1, Inserted
  <2>3. Edit(u, input_ptr + 1) BY <1>12
  <2> HIDE DEF u, t
  <2>4. Len(u) <= InputSize /\ input_ptr + 1 \in 0 .. Len(u) BY <1>2, <1>3, <2>1, <2>2
  <2> QED BY <1>1, <2>2, <2>3, <2>4, KeyEdit
<1>13. CASE UNCHANGED editor
  <2>1. UNCHANGED <<history, history_ptr, history_fst, history_lst, buf, input_ptr>>
    BY <1>13 DEF editor, ring
  <2>2. input_len' = input_len BY <2>1 DEF input_len
  <2> QED BY <1>1, <2>1, <2>2 DEF Inv, TypeOK, EditorTypeOK, RingInv, Age, NoRow
<1>14. CASE Acts(k)
  BY <1>4, <1>5, <1>7, <1>8, <1>9, <1>10, <1>11, <1>12, <1>14 DEF Acts
<1> QED BY <1>13, <1>14 DEF EditLine

LEMMA KeyActInv == ASSUME Inv, KeyAct PROVE Inv'
<1>1. /\ pc = "act" /\ pc' = "loop" /\ EditLine(key) /\ key' = "enter" /\ stop_read' \in BOOLEAN
      /\ UNCHANGED <<mailbox, kb_handler, line, overrun>>
  BY DEF KeyAct
<1>2. key \in Keys BY DEF Inv, TypeOK
<1>3. EditorTypeOK' /\ RingInv' BY <1>1, <1>2, EditLineInv
<1>4. TypeOK' BY <1>1, <1>3 DEF Inv, TypeOK, mailbox, Keys
<1>5. history_lst' = history_lst
  BY <1>1 DEF EditLine, Acts, HistoryMove, Cursor, Edit, editor, ring
<1>6. LineInv'
  BY <1>1, <1>5 DEF Inv, RingInv, LineInv, NoRow
<1> QED BY <1>3, <1>4, <1>6 DEF Inv

LEMMA NextInv == ASSUME Inv, [Next]_vars PROVE Inv'
<1>1. TypeOK BY DEF Inv
<1>2. ASSUME NEW k \in Keys, Press(k) PROVE Inv'
  BY <1>1, <1>2, Still DEF Press, __tty_read_key, TypeOK, Inv, LineInv
<1>3. CASE KeyClear
  BY <1>1, <1>3, Still DEF KeyClear, TypeOK, Reading
<1>4. CASE KeyTake
  BY <1>1, <1>4, Still DEF KeyTake, TypeOK, Inv, LineInv
<1>5. CASE UNCHANGED vars
  BY <1>1, <1>5, Still DEF vars, TypeOK, Inv, LineInv
<1> QED BY <1>2, <1>3, <1>4, <1>5, ReadStartInv, KeyActInv, ReadEndInv DEF Next, ReadStep

-----------------------------------------------------------------------------
LEMMA RingRows ==
  ASSUME Inv, pc # "call"
  PROVE  /\ history_lst \in AllRows /\ history_fst \in AllRows /\ history_ptr \in AllRows
         /\ Dist(history_fst, history_ptr) <= Dist(history_fst, history_lst)
<1>1. history_lst # NoRow BY DEF Inv, RingInv
<1> QED BY <1>1, Typed DEF Inv, RingInv, Age, Dist

LEMMA WalkStep ==
  ASSUME Inv, [Next]_vars, pc = "act", history_ptr' # history_ptr
  PROVE  /\ Age(history_ptr') <= Age(history_lst)
         /\ Age(history_ptr') \in {Age(history_ptr) + 1, Age(history_ptr) - 1}
<1>1. EditLine(key)
  BY DEF Next, Press, ReadStart, ReadStep, KeyClear, KeyTake, KeyAct, ReadEnd, vars, editor, ring
<1>2. \/ MayGoUp /\ HistoryMove(Before(history_ptr))
      \/ history_ptr # history_lst /\ HistoryMove(Following(history_ptr))
  BY <1>1 DEF EditLine, Acts, Cursor, Edit, editor, ring
<1>3. /\ history_lst \in AllRows /\ history_fst \in AllRows /\ history_ptr \in AllRows
      /\ Dist(history_fst, history_ptr) <= Dist(history_fst, history_lst)
  BY RingRows
<1>4. \A r : Age(r) = Dist(history_fst, r) BY DEF Age, Dist
<1>5. CASE MayGoUp /\ HistoryMove(Before(history_ptr))
  <2>1. history_ptr' = Before(history_ptr) /\ history_ptr # history_fst
    BY <1>5 DEF HistoryMove, MayGoUp
  <2> QED BY <1>3, <1>4, <2>1, DistWalk
<1>6. CASE history_ptr # history_lst /\ HistoryMove(Following(history_ptr))
  <2>1. history_ptr' = Following(history_ptr)
    BY <1>6 DEF HistoryMove
  <2> QED BY <1>3, <1>4, <1>6, <2>1, DistWalk
<1> QED BY <1>2, <1>5, <1>6

\* Walking the history goes from a line to the one before or after, and never
\* past the oldest or the newest; every variable stays in its range.
THEOREM WalkingStays == Spec => WalkStaysInHistory
<1>1. Init => Inv BY InitInv
<1>2. Inv /\ [Next]_vars => Inv' BY NextInv
<1>3. Inv /\ Inv' /\ [Next]_vars =>
        [/\ TypeOK'
         /\ (pc = "act" /\ history_ptr' # history_ptr) =>
              /\ Age(history_ptr') <= Age(history_lst)
              /\ Age(history_ptr') \in {Age(history_ptr) + 1, Age(history_ptr) - 1}]_vars
  <2>1. Inv' => TypeOK' BY DEF Inv
  <2> QED BY <2>1, WalkStep
<1> QED BY <1>1, <1>2, <1>3, PTL DEF Spec, WalkStaysInHistory

LEMMA StartStep ==
  ASSUME [Next]_vars, pc = "call", pc' = "loop"
  PROVE  StartLine
BY DEF Next, Press, ReadStart, ReadStep, KeyClear, KeyTake, KeyAct, ReadEnd, vars

LEMMA RecordStep ==
  ASSUME Inv, StartLine, pc = "call", line # <<>>, history_ptr = buf
  PROVE  history'[Before(history_lst')] = line
<1>1. history_lst # NoRow /\ history[history_ptr] = line
  BY DEF Inv, LineInv
<1>2. /\ history \in [AllRows -> Seq(Chars)] /\ history_lst \in AllRows
      /\ Following(history_lst) \in AllRows /\ Before(history_lst) \in AllRows
      /\ Following(history_lst) # history_lst /\ Before(history_lst) # history_lst
      /\ Before(Following(history_lst)) = history_lst
  BY <1>1, Typed, NeighbourRows
<1>3. CASE EnteredAgain
  <2>1. /\ history' = [history EXCEPT ![history_lst] = <<>>] /\ history_lst' = history_lst
        /\ history[Before(history_lst)] = line
    BY <1>1, <1>3 DEF EnteredAgain, Closing
  <2> QED BY <1>2, <2>1
<1>4. CASE EnteredNew
  <2>1. /\ history' = [[history EXCEPT ![history_lst] = line]
                         EXCEPT ![Following(history_lst)] = <<>>]
        /\ history_lst' = Following(history_lst)
    BY <1>1, <1>4 DEF EnteredNew, Closing
  <2>2. history'[history_lst] = line BY <1>2, <2>1
  <2> QED BY <1>2, <2>1, <2>2
<1> QED BY <1>1, <1>3, <1>4, StartCases DEF FirstLine, NothingEntered

\* An entered line is the newest of the history when the next one is read.
THEOREM EnteredLinesAreRecorded == Spec => EnteredIsRecorded
<1>1. Init => Inv BY InitInv
<1>2. Inv /\ [Next]_vars => Inv' BY NextInv
<1>3. Inv /\ [Next]_vars =>
        [(pc = "call" /\ pc' = "loop" /\ line # <<>> /\ history_ptr = buf)
           => history'[(history_lst' + (Rows - 1)) % Rows] = line]_vars
  BY StartStep, RecordStep DEF Before
<1> QED BY <1>1, <1>2, <1>3, PTL DEF Spec, EnteredIsRecorded

LEMMA KeepStep ==
  ASSUME Inv, StartLine, history_lst # NoRow, NEW r \in AllRows,
         1 <= Age(r), Age(r) < Age(history_lst)
  PROVE  history'[r] = history[r]
<1>1. /\ history \in [AllRows -> Seq(Chars)]
      /\ history_lst \in AllRows /\ history_fst \in AllRows
  BY Typed
<1>2. Age(r) = Dist(history_fst, r) /\ Age(history_lst) = Dist(history_fst, history_lst)
  BY DEF Age, Dist
<1>3. /\ Dist(history_fst, r) \in Nat /\ Dist(history_fst, history_lst) \in Nat
      /\ Following(history_lst) \in AllRows
  BY <1>1, DistIs, NeighbourRows DEF AllRows
<1>4. r # history_lst BY <1>2, <1>3
<1>5. r # Following(history_lst)
  BY <1>1, <1>2, <1>3, DistNext
<1>6. CASE NothingEntered \/ EnteredAgain
  BY <1>1, <1>4, <1>6 DEF NothingEntered, EnteredAgain
<1>7. CASE EnteredNew
  BY <1>1, <1>3, <1>4, <1>5, <1>7 DEF EnteredNew
<1> QED BY <1>6, <1>7, StartCases DEF FirstLine

\* Starting a line drops at most the oldest one.
THEOREM StartingKeepsLines == Spec => StartKeepsHistory
<1>1. Init => Inv BY InitInv
<1>2. Inv /\ [Next]_vars => Inv' BY NextInv
<1>3. Inv /\ [Next]_vars =>
        [(pc = "call" /\ pc' = "loop" /\ history_lst # NoRow) =>
           \A r \in 0 .. Rows - 1 :
             (1 <= Age(r) /\ Age(r) < Age(history_lst)) => history'[r] = history[r]]_vars
  BY StartStep, KeepStep DEF AllRows
<1> QED BY <1>1, <1>2, <1>3, PTL DEF Spec, StartKeepsHistory

-----------------------------------------------------------------------------
\* The screen.  Numbers first: the least of a set, induction, and the rows a
\* cursor is scrolled by.
LEMMA Least ==
  ASSUME NEW S \in SUBSET Nat, S # {}
  PROVE  \E m \in S : \A k \in S : m <= k
<1> DEFINE R == OpToRel(<, Nat)
<1>1. IsWellFoundedOn(R, Nat) BY NatLessThanWellFounded
<1>2. \A x, y \in Nat : y < x => <<y, x>> \in R BY DEF OpToRel
<1> HIDE DEF R
<1>3. \E m \in S : \A k \in S : <<k, m>> \notin R BY <1>1, WFMin
<1>4. PICK m \in S : \A k \in S : <<k, m>> \notin R BY <1>3
<1>5. ASSUME NEW k \in S PROVE m <= k
  <2>1. k \in Nat /\ m \in Nat OBVIOUS
  <2>2. ~(k < m) BY <1>2, <1>4, <2>1
  <2> QED BY <2>1, <2>2
<1> QED BY <1>4, <1>5

\* Induction over the numbers up to N, for a set.
LEMMA Climbs ==
  ASSUME NEW N \in Nat, NEW S, 0 \in S,
         \A n \in 0 .. N - 1 : n \in S => n + 1 \in S
  PROVE  0 .. N \subseteq S
<1> DEFINE M == {n \in 0 .. N : n \notin S}
<1>1. SUFFICES ASSUME M # {} PROVE FALSE OBVIOUS
<1>2. M \in SUBSET Nat OBVIOUS
<1>3. PICK m \in M : \A k \in M : m <= k BY <1>1, <1>2, Least
<1>4. m \in 0 .. N /\ m \notin S /\ m # 0 OBVIOUS
<1>5. m - 1 \in 0 .. N - 1 /\ m - 1 \notin M
  <2>1. m - 1 \in 0 .. N - 1 BY <1>4
  <2>2. ~(m <= m - 1) BY <1>4
  <2> HIDE DEF M
  <2> QED BY <1>3, <2>1, <2>2
<1>6. m - 1 \in S BY <1>5
<1>7. m - 1 + 1 = m BY <1>4
<1> HIDE DEF M
<1> QED BY <1>4, <1>5, <1>6, <1>7

LEMMA Sizes ==
  /\ Width \in Nat /\ 1 <= Width /\ Height \in Nat /\ 1 <= Height
  /\ ScreenSize \in Nat /\ Width <= ScreenSize
  /\ InputSize \in Nat /\ 1 <= InputSize
  /\ InputSize + Width <= ScreenSize /\ 2 * InputSize <= ScreenSize
  /\ Cells \in Nat /\ 3 * ScreenSize <= Cells
<1>1. ScreenSize \in Nat BY ScreenAssumption DEF ScreenSize
<1> QED BY <1>1, ScreenAssumption, LineEditorAssumption

\* Products of the width.
LEMMA Multiples ==
  ASSUME NEW a \in Int, NEW b \in Int
  PROVE  /\ a * Width \in Int /\ b * Width \in Int
         /\ a < b <=> a * Width < b * Width
         /\ a < b => a * Width + Width <= b * Width
         /\ (a + b) * Width = a * Width + b * Width
         /\ (a - b) * Width = a * Width - b * Width
         /\ 1 * Width = Width
<1>1. Width \in Nat /\ 1 <= Width BY Sizes
<1>2. ASSUME NEW x \in Int, NEW y \in Int, x < y PROVE x * Width + Width <= y * Width
  <2>1. PICK d \in Nat : y = x + 1 + d
    <3>1. y - x - 1 \in Nat BY <1>2
    <3> QED BY <1>2, <3>1
  <2>2. d * Width \in Nat /\ x * Width \in Int BY <1>1
  <2>3. y * Width = x * Width + Width + d * Width BY <1>1, <2>1
  <2> QED BY <1>1, <2>2, <2>3
<1>3. a * Width \in Int /\ b * Width \in Int BY <1>1
<1>4. /\ (a + b) * Width = a * Width + b * Width
      /\ (a - b) * Width = a * Width - b * Width
      /\ 1 * Width = Width
  BY <1>1
<1>5. a < b => a * Width + Width <= b * Width BY <1>2
<1>6. a * Width < b * Width => a < b
  <2> SUFFICES ASSUME a * Width < b * Width, ~(a < b) PROVE FALSE OBVIOUS
  <2>1. a = b \/ b < a OBVIOUS
  <2>2. b < a => b * Width + Width <= a * Width BY <1>2
  <2> QED BY <1>1, <1>3, <2>1, <2>2
<1> QED BY <1>1, <1>3, <1>4, <1>5, <1>6

LEMMA Division ==
  ASSUME NEW p \in Int, NEW w \in Nat \ {0}
  PROVE  /\ p \div w \in Int /\ p % w \in Nat /\ p % w < w
         /\ p = (p \div w) * w + (p % w)
OBVIOUS

\* The rows a cursor is scrolled by.
LEMMA GapIs ==
  ASSUME NEW s, s.ptr \in Nat, ScreenSize <= s.ptr, s.ptr < 3 * ScreenSize
  PROVE  /\ Gap(s) \in Nat /\ Gap(s) <= ScreenSize /\ ScreenSize - Width <= s.ptr - Gap(s)
         /\ s.ptr < 2 * ScreenSize => s.ptr - Gap(s) < ScreenSize
         /\ s.ptr >= 2 * ScreenSize => Gap(s) = ScreenSize
         /\ s.ptr = ScreenSize => Gap(s) = Width
<1> DEFINE q == s.ptr \div Width
<1> DEFINE r == s.ptr % Width
<1> DEFINE n == (q - Height + 1) * Width
<1>1. Width \in Nat /\ 1 <= Width /\ Height \in Nat /\ 1 <= Height /\ ScreenSize \in Nat
      /\ Width <= ScreenSize
  BY Sizes
<1>2. q \in Int /\ r \in Nat /\ r < Width /\ s.ptr = q * Width + r
  <2>1. s.ptr \in Int /\ Width \in Nat \ {0} BY <1>1
  <2> QED BY <2>1, Division
<1>3. ScreenSize = Height * Width BY <1>1 DEF ScreenSize
<1> HIDE DEF q, r
<1>4. n = q * Width - ScreenSize + Width /\ n \in Int
  <2>1. q - Height \in Int BY <1>1, <1>2
  <2>2. n = (q - Height) * Width + 1 * Width /\ (q - Height) * Width \in Int
    BY <1>1, <2>1, Multiples
  <2>3. (q - Height) * Width = q * Width - Height * Width /\ q * Width \in Int
    BY <1>1, <1>2, Multiples
  <2> QED BY ONLY <1>1, <1>3, <2>2, <2>3
<1>5. Gap(s) = IF n > ScreenSize THEN ScreenSize ELSE n
  BY DEF Gap, q
<1> DEFINE m == q * Width
<1>6. m \in Int BY <1>1, <1>2
<1>7. s.ptr = m + r /\ n = m - ScreenSize + Width
  BY <1>2, <1>4
<1>8. ScreenSize <= m
  <2>1. q < Height => m + Width <= ScreenSize BY <1>1, <1>2, <1>3, Multiples
  <2>2. q >= Height => ScreenSize <= m
    <3>1. q >= Height /\ q # Height => Height < q BY <1>1, <1>2
    <3>2. Height < q => Height * Width + Width <= q * Width BY <1>1, <1>2, Multiples
    <3> QED BY <1>1, <1>3, <1>6, <3>1, <3>2
  <2> HIDE DEF m
  <2> QED BY <1>1, <1>2, <1>6, <1>7, <2>1, <2>2
<1>9. s.ptr < 2 * ScreenSize => n <= ScreenSize
  <2> SUFFICES ASSUME s.ptr < 2 * ScreenSize PROVE n <= ScreenSize OBVIOUS
  <2>1. q < 2 * Height
    <3>1. (Height + Height) * Width = ScreenSize + ScreenSize BY <1>1, <1>3, Multiples
    <3>2. q * Width < (Height + Height) * Width BY <1>1, <1>2, <1>6, <1>7, <3>1
    <3>3. q < Height + Height BY <1>1, <1>2, <3>2, Multiples
    <3> QED BY <1>1, <1>2, <3>3
  <2>2. m + Width <= ScreenSize + ScreenSize
    <3>1. (Height + Height) * Width = ScreenSize + ScreenSize BY <1>1, <1>3, Multiples
    <3>2. q < Height + Height BY <1>1, <1>2, <2>1
    <3> QED BY <1>1, <1>2, <3>1, <3>2, Multiples
  <2> HIDE DEF m, n
  <2> QED BY <1>1, <1>6, <1>7, <2>2
<1>10. s.ptr >= 2 * ScreenSize => n > ScreenSize
  <2> SUFFICES ASSUME s.ptr >= 2 * ScreenSize PROVE n > ScreenSize OBVIOUS
  <2>1. m >= 2 * ScreenSize
    <3>1. (Height + Height) * Width = ScreenSize + ScreenSize BY <1>1, <1>3, Multiples
    <3>2. q < Height + Height => q * Width + Width <= (Height + Height) * Width
      BY <1>1, <1>2, Multiples
    <3>3. ~(q < Height + Height) BY <1>1, <1>2, <1>6, <1>7, <3>1, <3>2
    <3>4. q # Height + Height => Height + Height < q BY <1>1, <1>2, <3>3
    <3>5. Height + Height < q => (Height + Height) * Width + Width <= q * Width
      BY <1>1, <1>2, Multiples
    <3> QED BY <1>1, <1>2, <3>1, <3>4, <3>5
  <2> HIDE DEF m, n
  <2> QED BY <1>1, <1>6, <1>7, <2>1
<1>11. s.ptr = ScreenSize => m = ScreenSize
  BY <1>1, <1>2, <1>6, <1>7, <1>8
<1> HIDE DEF m, n
<1>12. Gap(s) \in Nat /\ Gap(s) <= ScreenSize
  BY <1>1, <1>4, <1>5, <1>6, <1>7, <1>8
<1>13. ScreenSize - Width <= s.ptr - Gap(s)
  <2>1. CASE s.ptr < 2 * ScreenSize
    <3>1. Gap(s) = m - ScreenSize + Width BY <1>1, <1>4, <1>5, <1>7, <1>9, <2>1
    <3> QED BY <1>1, <1>2, <1>6, <1>7, <3>1
  <2>2. CASE s.ptr >= 2 * ScreenSize
    <3>1. Gap(s) = ScreenSize BY <1>5, <1>10, <2>2
    <3> QED BY <1>1, <2>2, <3>1
  <2> QED BY <1>1, <2>1, <2>2
<1>14. s.ptr < 2 * ScreenSize => s.ptr - Gap(s) < ScreenSize
  <2> SUFFICES ASSUME s.ptr < 2 * ScreenSize PROVE s.ptr - Gap(s) < ScreenSize OBVIOUS
  <2>1. Gap(s) = m - ScreenSize + Width BY <1>1, <1>4, <1>5, <1>7, <1>9
  <2> QED BY <1>1, <1>2, <1>6, <1>7, <2>1
<1>15. s.ptr >= 2 * ScreenSize => Gap(s) = ScreenSize BY <1>5, <1>10
<1>16. s.ptr = ScreenSize => Gap(s) = Width
  BY <1>1, <1>4, <1>5, <1>6, <1>7, <1>11
<1> QED BY <1>12, <1>13, <1>14, <1>15, <1>16

-----------------------------------------------------------------------------
Screens == [cells : [Memory -> Glyphs], ptr : Nat, rolled : BOOLEAN]

LEMMA ScreenIs ==
  ASSUME NEW c, NEW at, NEW up
  PROVE  /\ Screen(c, at, up).cells = c /\ Screen(c, at, up).ptr = at
         /\ Screen(c, at, up).rolled = up
         /\ c \in [Memory -> Glyphs] /\ at \in Nat /\ up \in BOOLEAN => Screen(c, at, up) \in Screens
BY DEF Screen, Screens

LEMMA ScreensAre ==
  ASSUME NEW s \in Screens
  PROVE  /\ s.cells \in [Memory -> Glyphs] /\ s.ptr \in Nat /\ s.rolled \in BOOLEAN
         /\ s = Screen(s.cells, s.ptr, s.rolled)
BY DEF Screen, Screens

LEMMA GlyphsAre ==
  /\ Newline \notin Glyphs /\ Back \notin Glyphs /\ Newline # Back
  /\ Chars \subseteq Glyphs /\ Blank \in Glyphs /\ Prompt \in Glyphs
BY CharsAssumption DEF Glyphs, Newline, Back, Blank, Prompt

LEMMA ScrolledIs ==
  ASSUME NEW c \in [Memory -> Glyphs], NEW gap \in Nat, gap <= ScreenSize
  PROVE  /\ ScrolledCells(c, gap) \in [Memory -> Glyphs]
         /\ \A i \in Memory : i < ScreenSize - gap =>
              i + gap \in Memory /\ ScrolledCells(c, gap)[i] = c[i + gap]
         /\ \A i \in Memory : ScreenSize - gap <= i /\ i < ScreenSize =>
              ScrolledCells(c, gap)[i] = Blank
         /\ \A i \in Memory : ScreenSize <= i => ScrolledCells(c, gap)[i] = c[i]
<1>1. ScreenSize \in Nat /\ Cells \in Nat /\ ScreenSize <= Cells BY Sizes
<1>2. ASSUME NEW i \in Memory, i < ScreenSize - gap PROVE i + gap \in Memory
  BY <1>1, <1>2 DEF Memory
<1>3. Memory \subseteq Nat BY DEF Memory
<1> QED BY <1>1, <1>2, <1>3, GlyphsAre DEF ScrolledCells

\* tty_update_cursor leaves a cursor on the screen alone, and otherwise scrolls
\* it into the last row; only a text longer than a screen stays below.
LEMMA Updated ==
  ASSUME NEW s \in Screens, s.ptr < 3 * ScreenSize
  PROVE  /\ UpdateCursor(s) \in Screens
         /\ s.ptr < ScreenSize => UpdateCursor(s) = s
         /\ s.ptr >= ScreenSize => /\ UpdateCursor(s).ptr >= ScreenSize - Width
                                   /\ UpdateCursor(s).rolled = TRUE
         /\ s.ptr < 2 * ScreenSize => UpdateCursor(s).ptr < ScreenSize
         /\ s.ptr >= 2 * ScreenSize => UpdateCursor(s).ptr = s.ptr - ScreenSize
         /\ s.ptr = ScreenSize => UpdateCursor(s) = Scroll(s, Width)
<1> DEFINE g == Gap(s)
<1>1. s.ptr \in Nat /\ s.cells \in [Memory -> Glyphs] BY ScreensAre
<1>2. ScreenSize \in Nat /\ Width \in Nat /\ Width <= ScreenSize BY Sizes
<1>3. CASE s.ptr < ScreenSize
  <2>1. UpdateCursor(s) = s BY <1>1, <1>2, <1>3 DEF UpdateCursor, Overflow
  <2> QED BY <1>1, <1>2, <1>3, <2>1
<1>4. CASE s.ptr >= ScreenSize
  <2>1. /\ g \in Nat /\ g <= ScreenSize /\ ScreenSize - Width <= s.ptr - g
        /\ s.ptr < 2 * ScreenSize => s.ptr - g < ScreenSize
        /\ s.ptr >= 2 * ScreenSize => g = ScreenSize
        /\ s.ptr = ScreenSize => g = Width
    BY <1>1, <1>2, <1>4, GapIs
  <2>2. UpdateCursor(s) = Screen(ScrolledCells(s.cells, g), s.ptr - g, TRUE)
    BY <1>4 DEF UpdateCursor, Overflow, Scroll
  <2>3. s.ptr = ScreenSize => UpdateCursor(s) = Scroll(s, Width)
    BY <2>1, <2>2 DEF Scroll
  <2> HIDE DEF g
  <2>4. s.ptr - g \in Nat BY <1>1, <1>2, <2>1
  <2>5. ScrolledCells(s.cells, g) \in [Memory -> Glyphs] BY <1>1, <2>1, ScrolledIs
  <2>6. UpdateCursor(s) \in Screens BY <2>2, <2>4, <2>5 DEF Screen, Screens
  <2>7. UpdateCursor(s).ptr = s.ptr - g /\ UpdateCursor(s).rolled = TRUE
    BY <2>2 DEF Screen
  <2> QED BY <1>1, <1>2, <1>4, <2>1, <2>3, <2>6, <2>7
<1>5. s.ptr < ScreenSize \/ s.ptr >= ScreenSize BY <1>1, <1>2
<1> QED BY <1>3, <1>4, <1>5

LEMMA CharWritten ==
  ASSUME NEW s \in Screens, s.ptr < Cells
  PROVE  /\ \A c \in Glyphs :
              /\ WriteChar(s, c) = Screen([s.cells EXCEPT ![s.ptr] = c], s.ptr + 1, s.rolled)
              /\ WriteChar(s, c) \in Screens
         /\ WriteChar(s, Newline) = Screen(s.cells, s.ptr + (Width - (s.ptr % Width)), s.rolled)
         /\ WriteChar(s, Newline) \in Screens
         /\ s.ptr < WriteChar(s, Newline).ptr /\ WriteChar(s, Newline).ptr <= s.ptr + Width
         /\ WriteChar(s, Back) = Screen(s.cells, s.ptr - 1, s.rolled)
<1>1. s.ptr \in Nat /\ s.cells \in [Memory -> Glyphs] /\ s.rolled \in BOOLEAN BY ScreensAre
<1>2. Width \in Nat \ {0} BY Sizes
<1>3. s.ptr % Width \in Nat /\ s.ptr % Width < Width BY <1>1, <1>2, Division
<1> DEFINE m == s.ptr % Width
<1> HIDE DEF m
<1>4. m \in Nat /\ m < Width BY <1>3 DEF m
<1>5. WriteChar(s, Newline) = Screen(s.cells, s.ptr + (Width - m), s.rolled)
  BY GlyphsAre DEF WriteChar, Screen, Screens, m
<1>6. WriteChar(s, Back) = Screen(s.cells, s.ptr - 1, s.rolled)
  BY GlyphsAre DEF WriteChar, Screen, Screens
<1>7. s.ptr + (Width - m) \in Nat /\ s.ptr < s.ptr + (Width - m)
      /\ s.ptr + (Width - m) <= s.ptr + Width
  BY <1>1, <1>2, <1>4
<1>8. ASSUME NEW c \in Glyphs
      PROVE  /\ WriteChar(s, c) = Screen([s.cells EXCEPT ![s.ptr] = c], s.ptr + 1, s.rolled)
             /\ WriteChar(s, c) \in Screens
  <2>1. c # Newline /\ c # Back BY GlyphsAre
  <2>2. WriteChar(s, c) = Screen([s.cells EXCEPT ![s.ptr] = c], s.ptr + 1, s.rolled)
    BY <2>1 DEF WriteChar, Screen, Screens
  <2>3. [s.cells EXCEPT ![s.ptr] = c] \in [Memory -> Glyphs] BY <1>1
  <2> QED BY <1>1, <2>2, <2>3, ScreenIs
<1>9. WriteChar(s, Newline).ptr = s.ptr + (Width - m) BY <1>5, ScreenIs
<1>10. WriteChar(s, Newline) \in Screens BY <1>1, <1>5, <1>7, ScreenIs
<1> QED BY <1>5, <1>6, <1>7, <1>8, <1>9, <1>10 DEF m

\* The screens while text is written exist, and each comes from the one before.
LEMMA WritingIs ==
  ASSUME NEW s, NEW text, Len(text) \in Nat
  PROVE  /\ Writing(s, text)[0] = s
         /\ \A n \in 0 .. Len(text) - 1 :
              Writing(s, text)[n + 1] = WriteChar(Writing(s, text)[n], text[n + 1])
<1> DEFINE Upto(N, g) == g = [n \in 0 .. N |-> IF n = 0 THEN s ELSE WriteChar(g[n - 1], text[n])]
<1> DEFINE S == {N \in Nat : \E g : Upto(N, g)}
<1>1. 0 \in S
  <2>1. Upto(0, [n \in 0 .. 0 |-> s]) OBVIOUS
  <2> QED BY <2>1
<1>2. ASSUME NEW N \in Nat, N \in S PROVE N + 1 \in S
  <2>1. PICK g : Upto(N, g) BY <1>2
  <2> DEFINE h == [n \in 0 .. N + 1 |-> IF n = N + 1 THEN WriteChar(g[N], text[N + 1]) ELSE g[n]]
  <2>2. DOMAIN h = 0 .. N + 1 OBVIOUS
  <2>3. ASSUME NEW n \in 0 .. N + 1
        PROVE  h[n] = IF n = 0 THEN s ELSE WriteChar(h[n - 1], text[n])
    <3>1. \A k \in 0 .. N : h[k] = g[k] OBVIOUS
    <3>2. h[N + 1] = WriteChar(g[N], text[N + 1]) OBVIOUS
    <3>3. \A k \in 0 .. N : g[k] = IF k = 0 THEN s ELSE WriteChar(g[k - 1], text[k]) BY <2>1
    <3> HIDE DEF h, Upto
    <3>4. CASE n = N + 1
      <4>1. N \in 0 .. N /\ n - 1 = N /\ n # 0 BY <3>4
      <4> QED BY <3>1, <3>2, <3>4, <4>1
    <3>5. CASE n # N + 1 /\ n # 0
      <4>1. n \in 0 .. N /\ n - 1 \in 0 .. N BY <3>5
      <4> QED BY <3>1, <3>3, <3>5, <4>1
    <3>6. CASE n # N + 1 /\ n = 0
      <4>1. n \in 0 .. N BY <3>6
      <4> QED BY <3>1, <3>3, <3>6, <4>1
    <3> QED BY <3>4, <3>5, <3>6
  <2>4. Upto(N + 1, h)
    <3> HIDE DEF h
    <3>1. h = [n \in 0 .. N + 1 |-> h[n]] BY <2>2 DEF h
    <3> QED BY <2>3, <3>1
  <2> HIDE DEF Upto, h
  <2> QED BY <2>4
<1>3. Len(text) \in S
  <2> HIDE DEF S
  <2>1. 0 .. Len(text) \subseteq S BY <1>1, <1>2, Climbs
  <2> QED BY <2>1
<1>4. \E g : Upto(Len(text), g) BY <1>3
<1>5. Upto(Len(text), Writing(s, text))
  BY <1>4 DEF Writing
<1> QED BY <1>5

-----------------------------------------------------------------------------
Breaks(text, n) == {j \in 1 .. n : text[j] = Newline}

LEMMA BreaksAre ==
  ASSUME NEW text, NEW n \in Nat, NEW m \in Nat, n <= m
  PROVE  /\ IsFiniteSet(Breaks(text, n)) /\ Cardinality(Breaks(text, n)) \in Nat
         /\ Cardinality(Breaks(text, n)) <= Cardinality(Breaks(text, m))
<1>1. /\ IsFiniteSet(1 .. m) /\ Breaks(text, m) \subseteq 1 .. m
      /\ Breaks(text, n) \subseteq Breaks(text, m)
  <2>1. 1 .. n \subseteq 1 .. m OBVIOUS
  <2> QED BY <2>1, FS_Interval DEF Breaks
<1>2. IsFiniteSet(Breaks(text, m)) BY <1>1, FS_Subset
<1>3. IsFiniteSet(Breaks(text, n)) /\ Cardinality(Breaks(text, n)) <= Cardinality(Breaks(text, m))
  BY <1>1, <1>2, FS_Subset
<1>4. Cardinality(Breaks(text, n)) \in Nat BY <1>3, FS_CardinalityType
<1> QED BY <1>3, <1>4

LEMMA AdvanceIs ==
  ASSUME NEW text, NEW n \in Nat
  PROVE  /\ Advance(text, n) \in Nat
         /\ Advance(text, 0) = 0
         /\ Advance(text, n + 1) =
              Advance(text, n) + (IF text[n + 1] = Newline THEN Width ELSE 1)
         /\ \A m \in Nat : n < m => Advance(text, n) < Advance(text, m)
<1>1. Width - 1 \in Nat /\ Width \in Nat
  <2>1. Width \in Nat /\ 1 <= Width BY Sizes
  <2> QED BY ONLY <2>1
<1> DEFINE w == Width - 1
<1> DEFINE c(k) == Cardinality(Breaks(text, k))
<1>2. ASSUME NEW k \in Nat PROVE c(k) \in Nat /\ Advance(text, k) = k + c(k) * w
  <2>1. k <= k OBVIOUS
  <2>2. c(k) \in Nat BY <2>1, BreaksAre
  <2>3. Advance(text, k) = k + c(k) * w BY DEF Advance, Breaks
  <2> QED BY <2>2, <2>3
<1>3. c(0) = 0
  <2>1. Breaks(text, 0) = {} BY DEF Breaks
  <2> QED BY <2>1, FS_EmptySet
<1>4. c(n + 1) = c(n) + (IF text[n + 1] = Newline THEN 1 ELSE 0)
  <2>1. 1 .. n + 1 = 1 .. n \cup {n + 1} /\ n + 1 \notin 1 .. n OBVIOUS
  <2>2. CASE text[n + 1] = Newline
    <3>1. Breaks(text, n + 1) = Breaks(text, n) \cup {n + 1} /\ n + 1 \notin Breaks(text, n)
      BY <2>1, <2>2 DEF Breaks
    <3>2. IsFiniteSet(Breaks(text, n)) BY BreaksAre
    <3> QED BY <2>2, <3>1, <3>2, FS_AddElement
  <2>3. CASE text[n + 1] # Newline
    <3>1. Breaks(text, n + 1) = Breaks(text, n) BY <2>1, <2>3 DEF Breaks
    <3>2. c(n) \in Nat BY <1>2
    <3> HIDE DEF c
    <3>3. c(n + 1) = c(n) BY <3>1 DEF c
    <3> QED BY <2>3, <3>2, <3>3
  <2> QED BY <2>2, <2>3
<1>5. \A m \in Nat : n < m => c(n) <= c(m) BY BreaksAre
<1> HIDE DEF c, w
<1>6. w \in Nat /\ Width = w + 1 BY <1>1 DEF w
<1>7. Advance(text, n) \in Nat /\ Advance(text, 0) = 0
  <2>1. c(n) * w \in Nat /\ 0 * w = 0 BY <1>2, <1>6
  <2> QED BY <1>2, <1>3, <2>1
<1>8. Advance(text, n + 1) = Advance(text, n) + (IF text[n + 1] = Newline THEN Width ELSE 1)
  <2>1. Advance(text, n + 1) = n + 1 + c(n + 1) * w /\ Advance(text, n) = n + c(n) * w /\ c(n) \in Nat
    BY <1>2
  <2>2. CASE text[n + 1] = Newline
    <3>1. c(n + 1) = c(n) + 1 BY <1>4, <2>2
    <3>2. (c(n) + 1) * w = c(n) * w + w /\ c(n) * w \in Nat BY <1>6, <2>1
    <3> QED BY <1>6, <2>1, <2>2, <3>1, <3>2
  <2>3. CASE text[n + 1] # Newline
    <3>1. c(n + 1) = c(n) BY <1>4, <2>1, <2>3
    <3>2. c(n) * w \in Nat BY <1>6, <2>1
    <3> QED BY <2>1, <2>3, <3>1, <3>2
  <2> QED BY <2>2, <2>3
<1>9. ASSUME NEW m \in Nat, n < m PROVE Advance(text, n) < Advance(text, m)
  <2>1. c(n) \in Nat /\ c(m) \in Nat /\ c(n) <= c(m) BY <1>2, <1>5, <1>9
  <2>2. PICK d \in Nat : c(m) = c(n) + d
    <3>1. c(m) - c(n) \in Nat BY <2>1
    <3> QED BY <2>1, <3>1
  <2>3. c(m) * w = c(n) * w + d * w /\ d * w \in Nat /\ c(n) * w \in Nat BY <1>6, <2>1, <2>2
  <2>4. Advance(text, n) = n + c(n) * w /\ Advance(text, m) = m + c(m) * w BY <1>2
  <2> QED BY <1>9, <2>3, <2>4
<1> QED BY <1>7, <1>8, <1>9

\* Any text leaves a screen, with the cursor as far on as Advance says.
LEMMA TextWritten ==
  ASSUME NEW s \in Screens, NEW text \in Seq(Glyphs \cup {Newline}),
         s.ptr + Advance(text, Len(text)) < Cells
  PROVE  /\ WriteAll(s, text) \in Screens
         /\ s.ptr <= WriteAll(s, text).ptr
         /\ WriteAll(s, text).ptr <= s.ptr + Advance(text, Len(text))
<1> DEFINE w == Writing(s, text)
<1> DEFINE L == Len(text)
<1> DEFINE A(n) == Advance(text, n)
<1> DEFINE S == {n \in 0 .. L : w[n] \in Screens /\ s.ptr <= w[n].ptr /\ w[n].ptr <= s.ptr + A(n)}
<1>1. L \in Nat /\ s.ptr \in Nat /\ Cells \in Nat /\ Width \in Nat BY ScreensAre, Sizes
<1>2. w[0] = s /\ \A n \in 0 .. L - 1 : w[n + 1] = WriteChar(w[n], text[n + 1])
  BY <1>1, WritingIs
<1>3. A(0) = 0 /\ A(L) \in Nat
  <2>1. 0 \in Nat OBVIOUS
  <2> QED BY <1>1, <2>1, AdvanceIs
<1> HIDE DEF w, A
<1>4. 0 \in S BY <1>1, <1>2, <1>3
<1>5. ASSUME NEW n \in 0 .. L - 1, n \in S PROVE n + 1 \in S
  <2>1. n \in Nat /\ n < L /\ n + 1 \in 1 .. L /\ n + 1 \in 0 .. L BY <1>1
  <2>2. /\ A(n) \in Nat /\ A(n) < A(L)
        /\ A(n + 1) = A(n) + (IF text[n + 1] = Newline THEN Width ELSE 1)
    BY <1>1, <2>1, AdvanceIs DEF A
  <2>3. /\ w[n] \in Screens /\ w[n].ptr \in Nat /\ s.ptr <= w[n].ptr /\ w[n].ptr <= s.ptr + A(n)
    <3>1. w[n] \in Screens /\ s.ptr <= w[n].ptr /\ w[n].ptr <= s.ptr + A(n) BY <1>5
    <3> QED BY <3>1, ScreensAre
  <2>4. w[n].ptr < Cells
    <3>1. s.ptr + A(L) < Cells BY DEF A
    <3> QED BY <1>1, <1>3, <2>2, <2>3, <3>1
  <2>5. w[n + 1] = WriteChar(w[n], text[n + 1]) BY <1>2
  <2>6. text[n + 1] \in Glyphs \cup {Newline} BY <2>1
  <2>7. ASSUME NEW x \in Nat, NEW y \in Nat, NEW d \in Nat, x = w[n].ptr, x < y, y <= x + d
        PROVE  s.ptr <= y /\ y <= s.ptr + (A(n) + d)
    <3> DEFINE q == s.ptr
    <3> DEFINE a == A(n)
    <3>1. q \in Nat /\ a \in Nat /\ q <= x /\ x <= q + a BY <1>1, <2>2, <2>3, <2>7
    <3> HIDE DEF q, a
    <3>2. q <= y /\ y <= q + (a + d) BY ONLY <2>7, <3>1, x \in Nat, y \in Nat, d \in Nat
    <3> QED BY <3>2 DEF q, a
  <2>8. CASE text[n + 1] = Newline
    <3>1. /\ w[n + 1] \in Screens /\ w[n].ptr < w[n + 1].ptr /\ w[n + 1].ptr <= w[n].ptr + Width
      BY <2>3, <2>4, <2>5, <2>8, CharWritten
    <3>2. w[n + 1].ptr \in Nat BY <3>1, ScreensAre
    <3>3. A(n + 1) = A(n) + Width BY <2>2, <2>8
    <3>4. s.ptr <= w[n + 1].ptr /\ w[n + 1].ptr <= s.ptr + (A(n) + Width)
      BY <1>1, <2>3, <2>7, <3>1, <3>2
    <3> QED BY <2>1, <3>1, <3>3, <3>4
  <2>9. CASE text[n + 1] # Newline
    <3>1. text[n + 1] \in Glyphs BY <2>6, <2>9
    <3>2. /\ w[n + 1] \in Screens
          /\ w[n + 1] = Screen([w[n].cells EXCEPT ![w[n].ptr] = text[n + 1]], w[n].ptr + 1, w[n].rolled)
      BY <2>3, <2>4, <2>5, <3>1, CharWritten
    <3>3. w[n + 1].ptr = w[n].ptr + 1 BY <3>2 DEF Screen
    <3>4. A(n + 1) = A(n) + 1 BY <2>2, <2>9
    <3>5. /\ w[n].ptr < w[n + 1].ptr /\ w[n + 1].ptr <= w[n].ptr + 1 /\ w[n + 1].ptr \in Nat
      BY <2>3, <3>3
    <3>6. s.ptr <= w[n + 1].ptr /\ w[n + 1].ptr <= s.ptr + (A(n) + 1)
      BY <2>3, <2>7, <3>5
    <3> QED BY <2>1, <3>2, <3>4, <3>6
  <2> QED BY <2>8, <2>9
<1>6. 0 .. L \subseteq S
  <2> HIDE DEF S, L
  <2> QED BY <1>1, <1>4, <1>5, Climbs
<1>7. L \in S BY <1>1, <1>6
<1> QED BY <1>7 DEF WriteAll, w, A

\* A text without newlines stands in the cells from the cursor on.
Covered(s, text, n) ==
  [i \in Memory |-> IF s.ptr <= i /\ i < s.ptr + n THEN text[i - s.ptr + 1] ELSE s.cells[i]]

LEMMA LineWritten ==
  ASSUME NEW s \in Screens, NEW text \in Seq(Glyphs), s.ptr + Len(text) <= Cells
  PROVE  /\ WriteAll(s, text) \in Screens
         /\ WriteAll(s, text).ptr = s.ptr + Len(text)
         /\ WriteAll(s, text).rolled = s.rolled
         /\ \A i \in Memory : WriteAll(s, text).cells[i] =
              IF s.ptr <= i /\ i < s.ptr + Len(text) THEN text[i - s.ptr + 1] ELSE s.cells[i]
<1> DEFINE w == Writing(s, text)
<1> DEFINE L == Len(text)
<1> DEFINE S == {n \in 0 .. L : w[n] = Screen(Covered(s, text, n), s.ptr + n, s.rolled)}
<1>1. L \in Nat /\ s.ptr \in Nat /\ Cells \in Nat /\ s.cells \in [Memory -> Glyphs]
      /\ s.rolled \in BOOLEAN
  BY ScreensAre, Sizes
<1>2. w[0] = s /\ \A n \in 0 .. L - 1 : w[n + 1] = WriteChar(w[n], text[n + 1])
  BY <1>1, WritingIs
<1>3. \A n \in 0 .. L : Covered(s, text, n) \in [Memory -> Glyphs]
  <2> SUFFICES ASSUME NEW n \in 0 .. L, NEW i \in Memory, s.ptr <= i, i < s.ptr + n
               PROVE  text[i - s.ptr + 1] \in Glyphs
    BY <1>1 DEF Covered
  <2>1. i \in Nat BY DEF Memory
  <2>2. i - s.ptr + 1 \in 1 .. L BY <1>1, <2>1
  <2> QED BY <2>2
<1>4. \A n \in 0 .. L : Screen(Covered(s, text, n), s.ptr + n, s.rolled) \in Screens
  <2> SUFFICES ASSUME NEW n \in 0 .. L
               PROVE  Screen(Covered(s, text, n), s.ptr + n, s.rolled) \in Screens
    OBVIOUS
  <2>1. s.ptr + n \in Nat BY <1>1
  <2> QED BY <1>1, <1>3, <2>1 DEF Screen, Screens
<1> HIDE DEF w
<1>5. 0 \in S
  <2>1. Covered(s, text, 0) = s.cells
    <3>1. \A i \in Memory : ~(s.ptr <= i /\ i < s.ptr + 0) BY <1>1 DEF Memory
    <3> QED BY <1>1, <3>1 DEF Covered
  <2>2. s.ptr + 0 = s.ptr BY <1>1
  <2>3. w[0] = Screen(Covered(s, text, 0), s.ptr + 0, s.rolled)
    BY <1>2, <2>1, <2>2, ScreensAre
  <2> QED BY <1>1, <2>3
<1>6. ASSUME NEW n \in 0 .. L - 1, n \in S PROVE n + 1 \in S
  <2>1. n \in 0 .. L /\ n + 1 \in 0 .. L /\ n + 1 \in 1 .. L /\ s.ptr + n < Cells BY <1>1
  <2>2. w[n] = Screen(Covered(s, text, n), s.ptr + n, s.rolled) BY <1>6
  <2>3. w[n] \in Screens /\ w[n].ptr = s.ptr + n /\ w[n].cells = Covered(s, text, n)
        /\ w[n].rolled = s.rolled
    BY <1>4, <2>1, <2>2, ScreenIs
  <2>4. text[n + 1] \in Glyphs BY <2>1
  <2>5. w[n + 1] = Screen([Covered(s, text, n) EXCEPT ![s.ptr + n] = text[n + 1]],
                          s.ptr + n + 1, s.rolled)
    BY <1>2, <2>1, <2>3, <2>4, CharWritten
  <2>6. [Covered(s, text, n) EXCEPT ![s.ptr + n] = text[n + 1]] = Covered(s, text, n + 1)
    <3>1. ASSUME NEW i \in Memory
          PROVE  [Covered(s, text, n) EXCEPT ![s.ptr + n] = text[n + 1]][i]
                   = Covered(s, text, n + 1)[i]
      <4>1. i \in Nat BY DEF Memory
      <4>2. CASE i = s.ptr + n
        <5>1. i - s.ptr + 1 = n + 1 /\ s.ptr <= i /\ i < s.ptr + (n + 1) BY <1>1, <2>1, <4>2
        <5> QED BY <4>2, <5>1 DEF Covered
      <4>3. CASE i # s.ptr + n
        <5>1. n \in Nat BY <1>1
        <5>2. i < s.ptr + n <=> i < s.ptr + (n + 1) BY ONLY <1>1, <4>1, <4>3, <5>1
        <5> QED BY <4>3, <5>2 DEF Covered
      <4> QED BY <4>2, <4>3
    <3> QED BY <3>1 DEF Covered
  <2>7. s.ptr + n + 1 = s.ptr + (n + 1) BY <1>1, <2>1
  <2> QED BY <2>1, <2>5, <2>6, <2>7
<1>7. 0 .. L \subseteq S
  <2> HIDE DEF S, L
  <2> QED BY <1>1, <1>5, <1>6, Climbs
<1>8. WriteAll(s, text) = Screen(Covered(s, text, L), s.ptr + L, s.rolled)
  BY <1>1, <1>7 DEF WriteAll, w
<1>9. WriteAll(s, text) \in Screens BY <1>1, <1>4, <1>8
<1> QED BY <1>8, <1>9 DEF Screen, Covered

LEMMA OneErased ==
  ASSUME NEW s \in Screens, 0 < s.ptr, s.ptr < Cells
  PROVE  WriteAll(s, <<Back, Blank, Back>>)
           = Screen([s.cells EXCEPT ![s.ptr - 1] = Blank], s.ptr - 1, s.rolled)
<1> DEFINE text == <<Back, Blank, Back>>
<1> DEFINE w == Writing(s, text)
<1>1. Len(text) = 3 /\ text[1] = Back /\ text[2] = Blank /\ text[3] = Back OBVIOUS
<1>2. s.ptr \in Nat /\ s.cells \in [Memory -> Glyphs] /\ s.rolled \in BOOLEAN /\ Cells \in Nat
  BY ScreensAre, Sizes
<1> HIDE DEF text
<1>3. /\ w[0] = s /\ w[1] = WriteChar(w[0], Back) /\ w[2] = WriteChar(w[1], Blank)
      /\ w[3] = WriteChar(w[2], Back)
  <2>1. w[0] = s /\ \A n \in 0 .. 2 : w[n + 1] = WriteChar(w[n], text[n + 1])
    <3>1. Len(text) \in Nat /\ Len(text) - 1 = 2 BY <1>1
    <3>2. w[0] = s /\ \A n \in 0 .. Len(text) - 1 : w[n + 1] = WriteChar(w[n], text[n + 1])
      BY ONLY <3>1, WritingIs
    <3> HIDE DEF w
    <3> QED BY <3>1, <3>2
  <2>2. 0 + 1 = 1 /\ 1 + 1 = 2 /\ 2 + 1 = 3 /\ 0 \in 0 .. 2 /\ 1 \in 0 .. 2 /\ 2 \in 0 .. 2 OBVIOUS
  <2> HIDE DEF w
  <2>3. w[1] = WriteChar(w[0], text[1]) /\ w[2] = WriteChar(w[1], text[2])
        /\ w[3] = WriteChar(w[2], text[3])
    BY <2>1, <2>2
  <2> QED BY <1>1, <2>1, <2>3
<1> HIDE DEF w
<1> DEFINE c == [s.cells EXCEPT ![s.ptr - 1] = Blank]
<1>4. s.ptr - 1 \in Nat /\ s.ptr - 1 < Cells /\ s.ptr - 1 + 1 = s.ptr BY <1>2
<1>5. c \in [Memory -> Glyphs] BY <1>2, GlyphsAre
<1>6. w[1] = Screen(s.cells, s.ptr - 1, s.rolled) BY <1>3, CharWritten
<1>7. w[1] \in Screens /\ w[1].ptr = s.ptr - 1 /\ w[1].cells = s.cells /\ w[1].rolled = s.rolled
  BY <1>2, <1>4, <1>6, ScreenIs
<1>8. w[2] = Screen(c, s.ptr, s.rolled)
  BY <1>3, <1>4, <1>7, CharWritten, GlyphsAre
<1> HIDE DEF c
<1>9. w[2] \in Screens /\ w[2].ptr = s.ptr /\ w[2].cells = c /\ w[2].rolled = s.rolled
  BY <1>2, <1>5, <1>8, ScreenIs
<1>10. w[3] = Screen(c, s.ptr - 1, s.rolled) BY <1>3, <1>9, CharWritten
<1> QED BY <1>1, <1>10 DEF WriteAll, w, text, c

-----------------------------------------------------------------------------
\* The types of the rows and of the cursor, and what keeps them.
LEMMA EditorTyped ==
  ASSUME EditorTypeOK
  PROVE  /\ Rows \in Nat /\ 0 \in AllRows
         /\ history \in [AllRows -> Seq(Chars)]
         /\ \A r \in AllRows : Len(history[r]) \in Nat /\ Len(history[r]) <= InputSize
         /\ history_ptr \in AllRows /\ buf \in AllRows
         /\ history_lst # NoRow => history_lst \in AllRows
         /\ history_fst # NoRow => history_fst \in AllRows
         /\ input_ptr \in Nat /\ input_len \in Nat
         /\ input_ptr <= input_len /\ input_len <= InputSize
<1>1. Rows \in Nat /\ Rows >= 2 /\ InputSize \in Nat BY LineEditorAssumption
<1>2. history \in [AllRows -> Seq(Chars)] /\ buf \in AllRows /\ history_ptr \in AllRows
  BY DEF EditorTypeOK, AllRows
<1>3. ASSUME NEW r \in AllRows PROVE Len(history[r]) \in Nat /\ Len(history[r]) <= InputSize
  <2>1. history[r] \in Seq(Chars) BY <1>2
  <2> QED BY <2>1 DEF EditorTypeOK, AllRows
<1>4. input_len \in Nat /\ input_len <= InputSize BY <1>2, <1>3 DEF input_len
<1>5. input_ptr \in Nat /\ input_ptr <= input_len BY <1>4 DEF EditorTypeOK
<1>6. history_lst # NoRow => history_lst \in AllRows
  BY <1>1 DEF EditorTypeOK, NoRow, AllRows
<1>7. history_fst # NoRow => history_fst \in AllRows
  BY <1>1 DEF EditorTypeOK, NoRow, AllRows
<1>8. 0 \in AllRows BY <1>1 DEF AllRows
<1> QED BY <1>1, <1>2, <1>3, <1>4, <1>5, <1>6, <1>7, <1>8

\* What makes the rows, the ring and the cursor well typed in the next state.
LEMMA EditorRetyped ==
  ASSUME EditorTypeOK,
         history' \in [AllRows -> Seq(Chars)],
         \A r \in AllRows : Len(history'[r]) <= InputSize,
         history_ptr' \in AllRows, history_fst' \in AllRows \cup {NoRow},
         history_lst' \in AllRows \cup {NoRow}, buf' \in AllRows,
         input_ptr' \in 0 .. Len(history'[buf'])
  PROVE  EditorTypeOK'
<1>1. Rows \in Nat BY EditorTyped
<1>2. AllRows \cup {NoRow} \subseteq 0 .. NoRow BY <1>1 DEF AllRows, NoRow
<1> QED BY <1>2 DEF EditorTypeOK, AllRows, input_len

LEMMA StartTypes ==
  ASSUME EditorTypeOK, StartLine
  PROVE  EditorTypeOK' /\ input_ptr' = 0 /\ input_len' = 0
<1> DEFINE s == __history_new_buf
<1>1. /\ history' = [s.rows EXCEPT ![s.lst] = <<>>]
      /\ history_ptr' = s.ptr /\ history_fst' = s.fst /\ history_lst' = s.lst
      /\ buf' = s.lst /\ input_ptr' = 0
  BY DEF StartLine
<1>2. <<>> \in Seq(Chars) /\ Len(<<>>) = 0 /\ 0 <= InputSize /\ 0 \in 0 .. 0
  BY LineEditorAssumption
<1>3. /\ s.rows \in [AllRows -> Seq(Chars)] /\ \A r \in AllRows : Len(s.rows[r]) <= InputSize
      /\ s.ptr \in AllRows /\ s.fst \in AllRows \cup {NoRow} /\ s.lst \in AllRows
  <2>1. CASE history_lst = NoRow
    <3>1. s = State(history, history_ptr, 0, 0) BY <2>1 DEF __history_new_buf
    <3> QED BY <3>1, EditorTyped DEF State
  <2>2. CASE history_lst # NoRow /\ history[history_ptr] = <<>>
    <3>1. s = State(history, history_ptr, history_fst, history_lst)
      BY <2>2 DEF __history_new_buf
    <3> QED BY <2>2, <3>1, EditorTyped DEF State
  <2>3. CASE history_lst # NoRow /\ history[history_ptr] # <<>>
    <3>1. PICK rows \in [AllRows -> Seq(Chars)], last \in AllRows :
            /\ s = Closed(rows, last)
            /\ \A r \in AllRows : Len(rows[r]) <= InputSize
      <4>1. history_lst \in AllRows /\ history_ptr \in AllRows /\ Following(history_lst) \in AllRows
        BY <2>3, EditorTyped, NeighbourRows
      <4>2. CASE Repeats
        <5>1. s = Closed([history EXCEPT ![history_lst] = <<>>], history_lst)
          BY <2>3, <4>2 DEF __history_new_buf, Repeated
        <5>2. LET rows == [history EXCEPT ![history_lst] = <<>>]
              IN  /\ rows \in [AllRows -> Seq(Chars)]
                  /\ \A r \in AllRows : Len(rows[r]) <= InputSize
          BY <1>2, <4>1, EditorTyped
        <5> HIDE DEF s
        <5> QED BY <4>1, <5>1, <5>2
      <4>3. CASE ~Repeats
        <5>1. s = Closed([history EXCEPT ![history_lst] = history[history_ptr]],
                         Following(history_lst))
          BY <2>3, <4>3 DEF __history_new_buf
        <5>2. LET rows == [history EXCEPT ![history_lst] = history[history_ptr]]
              IN  /\ rows \in [AllRows -> Seq(Chars)]
                  /\ \A r \in AllRows : Len(rows[r]) <= InputSize
          BY <4>1, EditorTyped
        <5> HIDE DEF s
        <5> QED BY <4>1, <5>1, <5>2
      <4> QED BY <4>2, <4>3
    <3>2. history_fst = last => Following(history_fst) \in AllRows BY NeighbourRows
    <3>3. history_fst \in AllRows \cup {NoRow} BY EditorTyped
    <3> QED BY <3>1, <3>2, <3>3, EditorTyped DEF Closed, State
  <2> QED BY <2>1, <2>2, <2>3
<1> HIDE DEF s
<1>4. /\ history' \in [AllRows -> Seq(Chars)] /\ history'[buf'] = <<>>
      /\ \A r \in AllRows : Len(history'[r]) <= InputSize
  BY <1>1, <1>2, <1>3
<1>5. EditorTypeOK' BY <1>1, <1>2, <1>3, <1>4, EditorRetyped
<1>6. input_len' = 0 BY <1>2, <1>4 DEF input_len
<1> QED BY <1>1, <1>5, <1>6

-----------------------------------------------------------------------------
\* The line t stands on the screen s, whose cursor is i characters behind its
\* beginning, and nothing stands behind it.
Fits(s, t, i) ==
  /\ 0 <= s.ptr - i /\ i <= Len(t) /\ s.ptr - i + Len(t) <= ScreenSize
  /\ \A j \in 1 .. Len(t) : s.cells[s.ptr - i + j - 1] = t[j]

Clean(s, t, i) == \A m \in Memory : m >= s.ptr - i + Len(t) => s.cells[m] = Blank

\* The cursor never leaves the line to the left, nor the screen by more than a
\* line.
Reached == mode = "read" => /\ input_ptr <= tty_ptr
                            /\ tty_ptr < ScreenSize + InputSize

EchoInv ==
  /\ ScreenTypeOK /\ Reached
  /\ mode = "read" /\ ~astray =>
       /\ Fits(Now, history[buf], input_ptr)
       /\ ~stale => tty_ptr - input_ptr = tty_prompt_ptr
       /\ ~littered => Clean(Now, history[buf], input_ptr)

LEMMA ScreenTyped ==
  ASSUME EchoInv
  PROVE  /\ EditorTypeOK /\ Now \in Screens /\ Now.ptr = tty_ptr /\ Now.cells = cells
         /\ Now.rolled = FALSE /\ tty_ptr \in Nat /\ tty_prompt_ptr \in Nat
         /\ cells \in [Memory -> Glyphs]
         /\ tty_prompt_ptr < ScreenSize
         /\ tty_ptr < ScreenSize + InputSize
         /\ mode # "read" => tty_ptr < ScreenSize
         /\ stale \in BOOLEAN /\ astray \in BOOLEAN /\ littered \in BOOLEAN
         /\ history[buf] \in Seq(Chars) /\ Len(history[buf]) = input_len
<1>1. ScreenSize \in Nat /\ InputSize \in Nat /\ Cells \in Nat BY Sizes
<1>2. /\ EditorTypeOK /\ cells \in [Memory -> Glyphs] /\ tty_ptr \in Memory
      /\ tty_prompt_ptr \in 0 .. ScreenSize - 1
      /\ stale \in BOOLEAN /\ astray \in BOOLEAN /\ littered \in BOOLEAN
      /\ mode # "read" => tty_ptr < ScreenSize
  BY DEF EchoInv, ScreenTypeOK
<1>3. tty_ptr \in Nat /\ tty_prompt_ptr \in Nat /\ tty_prompt_ptr < ScreenSize
  BY <1>1, <1>2 DEF Memory
<1>4. tty_ptr < ScreenSize + InputSize
  BY <1>1, <1>2, <1>3 DEF EchoInv, Reached
<1>5. Now \in Screens /\ Now.ptr = tty_ptr /\ Now.cells = cells /\ Now.rolled = FALSE
  BY <1>2, <1>3 DEF Now, Screen, Screens
<1>6. history[buf] \in Seq(Chars) /\ Len(history[buf]) = input_len
  BY <1>2, EditorTyped DEF input_len
<1> QED BY <1>2, <1>3, <1>4, <1>5, <1>6

\* A key that shows s keeps the invariant if the line of the next state stands on
\* it.
LEMMA ShownKeeps ==
  ASSUME EchoInv, EditorTypeOK', mode = "read",
         UNCHANGED <<acts, mode, tty_prompt_ptr, littered>>,
         NEW s \in Screens, Show(s),
         stale' \in BOOLEAN, astray' \in BOOLEAN,
         input_ptr' <= s.ptr, s.ptr < ScreenSize + InputSize,
         ~astray' => /\ s.ptr < ScreenSize
                     /\ Fits(s, history[buf]', input_ptr')
                     /\ ~stale' => s.ptr - input_ptr' = tty_prompt_ptr
                     /\ ~littered => Clean(s, history[buf]', input_ptr')
  PROVE  EchoInv'
<1>1. ScreenSize \in Nat /\ InputSize \in Nat /\ Cells \in Nat
      /\ InputSize <= ScreenSize /\ 3 * ScreenSize <= Cells
  BY Sizes
<1>2. cells' = s.cells /\ tty_ptr' = s.ptr BY DEF Show
<1>3. s.cells \in [Memory -> Glyphs] /\ s.ptr \in Nat BY ScreensAre
<1>4. s.ptr \in Memory BY <1>1, <1>3 DEF Memory
<1>5. ScreenTypeOK'
  <2>1. /\ acts \in 0 .. MaxActs /\ mode \in {"shell", "read", "stop"}
        /\ tty_prompt_ptr \in 0 .. ScreenSize - 1 /\ littered \in BOOLEAN
    BY DEF EchoInv, ScreenTypeOK
  <2>2. ~astray' \/ mode' # "read" => tty_ptr' < ScreenSize BY <1>2
  <2> QED BY <1>2, <1>3, <1>4, <2>1, <2>2 DEF ScreenTypeOK
<1>6. Reached' BY <1>2 DEF Reached
<1>7. Now'.ptr = s.ptr /\ Now'.cells = s.cells BY <1>2 DEF Now, Screen
<1>8. ASSUME ~astray'
      PROVE  /\ Fits(Now, history[buf], input_ptr)'
             /\ ~stale' => tty_ptr' - input_ptr' = tty_prompt_ptr'
             /\ ~littered' => Clean(Now, history[buf], input_ptr)'
  <2>1. Fits(Now, history[buf], input_ptr)' BY <1>7, <1>8 DEF Fits
  <2>2. ~stale' => tty_ptr' - input_ptr' = tty_prompt_ptr' BY <1>2, <1>8
  <2>3. ~littered' => Clean(Now, history[buf], input_ptr)' BY <1>7, <1>8 DEF Clean
  <2> QED BY <2>1, <2>2, <2>3
<1> QED BY <1>5, <1>6, <1>8 DEF EchoInv

\* A line stays where it is, or scrolls with the screen by one row.
LEMMA FitsUpdated ==
  ASSUME NEW s \in Screens, NEW t \in Seq(Chars), NEW i \in Nat, Fits(s, t, i),
         i <= InputSize
  PROVE  /\ UpdateCursor(s).ptr < ScreenSize /\ Fits(UpdateCursor(s), t, i)
         /\ Clean(s, t, i) => Clean(UpdateCursor(s), t, i)
<1> DEFINE u == UpdateCursor(s)
<1> DEFINE n == Len(t)
<1>1. /\ ScreenSize \in Nat /\ Cells \in Nat /\ Width \in Nat /\ 1 <= Width
      /\ InputSize + Width <= ScreenSize /\ InputSize \in Nat
      /\ 3 * ScreenSize <= Cells /\ 1 <= InputSize /\ n \in Nat
  BY Sizes
<1>2. s.ptr \in Nat /\ s.cells \in [Memory -> Glyphs] BY ScreensAre
<1>3. /\ 0 <= s.ptr - i /\ i <= n /\ s.ptr - i + n <= ScreenSize
      /\ \A j \in 1 .. n : s.cells[s.ptr - i + j - 1] = t[j]
  BY DEF Fits
<1> HIDE DEF n
<1>4. s.ptr <= ScreenSize BY <1>1, <1>2, <1>3
<1>5. CASE s.ptr < ScreenSize
  <2>1. s.ptr < 3 * ScreenSize BY <1>1, <1>2, <1>5
  <2>2. u = s BY <1>5, <2>1, Updated
  <2> QED BY <1>5, <2>2
<1>6. CASE s.ptr = ScreenSize
  <2>1. s.ptr < 3 * ScreenSize BY <1>1, <1>2, <1>6
  <2>2. u = Screen(ScrolledCells(s.cells, Width), s.ptr - Width, TRUE)
    BY <1>6, <2>1, Updated DEF Scroll
  <2>3. u.ptr = s.ptr - Width /\ u.cells = ScrolledCells(s.cells, Width)
    BY <2>2 DEF Screen
  <2> HIDE DEF u
  <2> DEFINE b == s.ptr - i
  <2> DEFINE c == s.cells
  <2> DEFINE d == u.cells
  <2>4. /\ \A m \in Memory : m < ScreenSize - Width => m + Width \in Memory /\ d[m] = c[m + Width]
        /\ \A m \in Memory : ScreenSize - Width <= m /\ m < ScreenSize => d[m] = Blank
        /\ \A m \in Memory : ScreenSize <= m => d[m] = c[m]
    <3>1. Width \in Nat /\ Width <= ScreenSize BY <1>1
    <3>2. c \in [Memory -> Glyphs] BY <1>2
    <3>3. d = ScrolledCells(c, Width) BY <2>3
    <3> HIDE DEF c, d
    <3> QED BY ONLY <1>1, <3>1, <3>2, <3>3, ScrolledIs
  <2>5. u.ptr < ScreenSize /\ u.ptr - i = b - Width /\ 0 <= u.ptr - i
        /\ u.ptr - i + n <= ScreenSize /\ b \in Nat /\ b + n <= ScreenSize
    <3> DEFINE x == u.ptr
    <3> DEFINE y == s.ptr
    <3>1. x = y - Width /\ y = ScreenSize /\ y \in Nat /\ i \in Nat /\ i <= InputSize
      BY <1>2, <1>6, <2>3
    <3>2. 0 <= y - i /\ i <= n /\ y - i + n <= ScreenSize BY <1>3
    <3> HIDE DEF x, y
    <3>3. x < ScreenSize /\ x - i = y - i - Width /\ 0 <= x - i
          /\ x - i + n <= ScreenSize /\ y - i \in Nat /\ y - i + n <= ScreenSize
      BY ONLY <1>1, <3>1, <3>2
    <3> QED BY <3>3 DEF x, y
  <2> HIDE DEF b, c, d
  <2>6. ASSUME NEW j \in 1 .. n PROVE u.cells[u.ptr - i + j - 1] = t[j]
    <3> DEFINE m == b - Width + j - 1
    <3>1. m \in Nat /\ m \in Memory /\ m < ScreenSize - Width /\ m + Width = b + j - 1
      BY <1>1, <2>5 DEF Memory
    <3>2. d[m] = c[b + j - 1] BY <2>4, <3>1
    <3>3. c[b + j - 1] = t[j] BY <1>3 DEF b, c
    <3>4. u.ptr - i + j - 1 = m BY <2>5
    <3> QED BY <3>2, <3>3, <3>4 DEF d
  <2>7. Fits(u, t, i) BY <1>3, <2>5, <2>6 DEF Fits, n
  <2>8. ASSUME Clean(s, t, i), NEW m \in Memory, m >= u.ptr - i + n
        PROVE  u.cells[m] = Blank
    <3>1. m \in Nat BY DEF Memory
    <3>2. \A k \in Memory : k >= b + n => c[k] = Blank BY <2>8 DEF Clean, b, c, n
    <3>3. m >= b - Width + n BY <2>5, <2>8
    <3>4. CASE m < ScreenSize - Width
      <4>1. m + Width \in Memory /\ d[m] = c[m + Width] BY <2>4, <3>4
      <4>2. m + Width >= b + n BY <1>1, <2>5, <3>1, <3>3
      <4> QED BY <3>2, <4>1, <4>2 DEF d
    <3>5. CASE ScreenSize - Width <= m /\ m < ScreenSize BY <2>4, <3>5 DEF d
    <3>6. CASE ScreenSize <= m
      <4>1. m >= b + n BY <1>1, <2>5, <3>1, <3>6
      <4> QED BY <2>4, <3>2, <3>6, <4>1 DEF d
    <3>7. m < ScreenSize - Width \/ (ScreenSize - Width <= m /\ m < ScreenSize) \/ ScreenSize <= m
      BY <1>1, <3>1
    <3> QED BY <3>4, <3>5, <3>6, <3>7
  <2>9. Clean(s, t, i) => Clean(u, t, i) BY <2>8 DEF Clean, n
  <2> QED BY <2>5, <2>7, <2>9 DEF u
<1>7. s.ptr < ScreenSize \/ s.ptr = ScreenSize BY <1>1, <1>2, <1>4
<1> QED BY <1>5, <1>6, <1>7

\* A key that leaves s and then scrolls if it must.
LEMMA EchoKeeps ==
  ASSUME EchoInv, EditorTypeOK', mode = "read",
         UNCHANGED <<acts, mode, tty_prompt_ptr, littered>>,
         NEW s \in Screens, s.rolled = FALSE, Show(UpdateCursor(s)),
         stale' = (stale \/ UpdateCursor(s).rolled), astray' \in BOOLEAN,
         input_ptr' <= s.ptr, s.ptr < 2 * ScreenSize,
         ~astray' => /\ Fits(s, history[buf]', input_ptr')
                     /\ ~stale => s.ptr - input_ptr' = tty_prompt_ptr
                     /\ ~littered => Clean(s, history[buf]', input_ptr')
  PROVE  EchoInv'
<1> DEFINE u == UpdateCursor(s)
<1>1. /\ ScreenSize \in Nat /\ Width \in Nat /\ InputSize \in Nat
      /\ InputSize + Width <= ScreenSize
  BY Sizes
<1>2. s.ptr \in Nat BY ScreensAre
<1>3. /\ input_ptr' \in Nat /\ input_ptr' <= InputSize
      /\ history[buf]' \in Seq(Chars)
  <2>1. /\ history' \in [0 .. Rows - 1 -> Seq(Chars)] /\ buf' \in 0 .. Rows - 1
        /\ input_ptr' \in 0 .. Len(history'[buf'])
        /\ Len(history'[buf']) <= InputSize
    BY DEF EditorTypeOK, input_len
  <2>2. history'[buf'] \in Seq(Chars) /\ Len(history'[buf']) \in Nat BY <2>1
  <2> QED BY <1>1, <2>1, <2>2
<1>4. /\ u \in Screens
      /\ s.ptr < ScreenSize => u = s
      /\ s.ptr >= ScreenSize => u.ptr >= ScreenSize - Width /\ u.rolled = TRUE
      /\ u.ptr < ScreenSize
  <2>1. s.ptr < 3 * ScreenSize BY <1>1, <1>2
  <2> QED BY <2>1, Updated
<1> HIDE DEF u
<1>5. u.ptr \in Nat /\ u.rolled \in BOOLEAN BY <1>4, ScreensAre
<1>6. stale' \in BOOLEAN BY <1>5, ScreenTyped DEF u
<1>7. input_ptr' <= u.ptr BY <1>1, <1>2, <1>3, <1>4, <1>5
<1>8. u.ptr < ScreenSize + InputSize BY <1>1, <1>4, <1>5
<1>9. ASSUME ~astray'
      PROVE  /\ Fits(u, history[buf]', input_ptr')
             /\ ~stale' => u.ptr - input_ptr' = tty_prompt_ptr
             /\ ~littered => Clean(u, history[buf]', input_ptr')
  <2>1. /\ Fits(u, history[buf]', input_ptr')
        /\ Clean(s, history[buf]', input_ptr') => Clean(u, history[buf]', input_ptr')
    BY <1>3, <1>9, FitsUpdated DEF u
  <2>2. ASSUME ~stale' PROVE u.ptr - input_ptr' = tty_prompt_ptr
    <3>1. ~stale /\ u.rolled # TRUE BY <2>2 DEF u
    <3>2. s.ptr < ScreenSize \/ s.ptr >= ScreenSize BY <1>1, <1>2
    <3>3. u = s BY <1>4, <3>1, <3>2
    <3> QED BY <1>9, <3>1, <3>3
  <2> QED BY <1>9, <2>1, <2>2
<1>10. Show(u) BY DEF u
<1> QED BY <1>4, <1>6, <1>7, <1>8, <1>9, <1>10, ShownKeeps

-----------------------------------------------------------------------------
\* What a key does to the cells.
LEMMA ShiftedLeft ==
  ASSUME NEW s \in Screens, NEW lo \in Nat, NEW hi \in Nat, hi < Cells
  PROVE  /\ ShiftLeft(s, lo, hi) \in Screens
         /\ ShiftLeft(s, lo, hi).ptr = s.ptr /\ ShiftLeft(s, lo, hi).rolled = s.rolled
         /\ \A m \in Memory : ShiftLeft(s, lo, hi).cells[m] =
              IF lo <= m /\ m < hi THEN s.cells[m + 1] ELSE s.cells[m]
<1>1. Cells \in Nat BY Sizes
<1>2. s.cells \in [Memory -> Glyphs] BY ScreensAre
<1>3. ASSUME NEW m \in Memory, m < hi PROVE m + 1 \in Memory
  BY <1>1, <1>3 DEF Memory
<1> DEFINE c == [m \in Memory |-> IF lo <= m /\ m < hi THEN s.cells[m + 1] ELSE s.cells[m]]
<1>4. c \in [Memory -> Glyphs] BY <1>2, <1>3
<1>5. ShiftLeft(s, lo, hi) = Screen(c, s.ptr, s.rolled)
  BY DEF ShiftLeft, Screens, Screen
<1>6. \A m \in Memory : c[m] = IF lo <= m /\ m < hi THEN s.cells[m + 1] ELSE s.cells[m]
  OBVIOUS
<1> HIDE DEF c
<1>7. ShiftLeft(s, lo, hi) \in Screens BY <1>4, <1>5 DEF Screens, Screen
<1>8. /\ ShiftLeft(s, lo, hi).ptr = s.ptr /\ ShiftLeft(s, lo, hi).rolled = s.rolled
      /\ ShiftLeft(s, lo, hi).cells = c
  BY <1>5 DEF Screen
<1> QED BY <1>6, <1>7, <1>8

LEMMA ShiftedRight ==
  ASSUME NEW s \in Screens, NEW lo \in Nat, NEW hi \in Nat
  PROVE  /\ ShiftRight(s, lo, hi) \in Screens
         /\ ShiftRight(s, lo, hi).ptr = s.ptr /\ ShiftRight(s, lo, hi).rolled = s.rolled
         /\ \A m \in Memory : ShiftRight(s, lo, hi).cells[m] =
              IF lo < m /\ m <= hi THEN s.cells[m - 1] ELSE s.cells[m]
<1>1. Cells \in Nat BY Sizes
<1>2. s.cells \in [Memory -> Glyphs] BY ScreensAre
<1>3. ASSUME NEW m \in Memory, lo < m PROVE m - 1 \in Memory
  BY <1>1, <1>3 DEF Memory
<1> DEFINE c == [m \in Memory |-> IF lo < m /\ m <= hi THEN s.cells[m - 1] ELSE s.cells[m]]
<1>4. c \in [Memory -> Glyphs] BY <1>2, <1>3
<1>5. ShiftRight(s, lo, hi) = Screen(c, s.ptr, s.rolled)
  BY DEF ShiftRight, Screens, Screen
<1>6. \A m \in Memory : c[m] = IF lo < m /\ m <= hi THEN s.cells[m - 1] ELSE s.cells[m]
  OBVIOUS
<1> HIDE DEF c
<1>7. ShiftRight(s, lo, hi) \in Screens BY <1>4, <1>5 DEF Screens, Screen
<1>8. /\ ShiftRight(s, lo, hi).ptr = s.ptr /\ ShiftRight(s, lo, hi).rolled = s.rolled
      /\ ShiftRight(s, lo, hi).cells = c
  BY <1>5 DEF Screen
<1> QED BY <1>6, <1>7, <1>8

LEMMA PutIs ==
  ASSUME NEW s \in Screens, NEW at \in Nat, NEW g \in Glyphs
  PROVE  /\ Put(s, at, g) \in Screens
         /\ Put(s, at, g).ptr = s.ptr /\ Put(s, at, g).rolled = s.rolled
         /\ \A m \in Memory : Put(s, at, g).cells[m] = IF m = at THEN g ELSE s.cells[m]
<1>1. s.cells \in [Memory -> Glyphs] BY ScreensAre
<1>2. Put(s, at, g) = Screen([s.cells EXCEPT ![at] = g], s.ptr, s.rolled)
  BY DEF Put, Screens, Screen
<1>3. [s.cells EXCEPT ![at] = g] \in [Memory -> Glyphs] BY <1>1
<1> DEFINE c == [s.cells EXCEPT ![at] = g]
<1>4. \A m \in Memory : c[m] = IF m = at THEN g ELSE s.cells[m] BY <1>1
<1> HIDE DEF c
<1>5. Put(s, at, g) \in Screens BY <1>2, <1>3 DEF Screens, Screen
<1>6. Put(s, at, g).ptr = s.ptr /\ Put(s, at, g).rolled = s.rolled /\ Put(s, at, g).cells = c
  BY <1>2 DEF Screen, c
<1> QED BY <1>4, <1>5, <1>6

LEMMA AtIs ==
  ASSUME NEW s \in Screens, NEW q \in Nat
  PROVE  /\ At(s, q) \in Screens /\ At(s, q).ptr = q
         /\ At(s, q).cells = s.cells /\ At(s, q).rolled = s.rolled
BY DEF At, Screens

-----------------------------------------------------------------------------
\* What the keys make of a line that fits.  The last character is wiped.
LEMMA FitsErasedLast ==
  ASSUME NEW s \in Screens, NEW t \in Seq(Chars), Fits(s, t, Len(t)), Len(t) # 0,
         s.ptr < Cells
  PROVE  LET u == Screen([s.cells EXCEPT ![s.ptr - 1] = Blank], s.ptr - 1, s.rolled)
             v == RemoveAt(t, Len(t))
         IN  /\ Fits(u, v, Len(t) - 1)
             /\ Clean(s, t, Len(t)) => Clean(u, v, Len(t) - 1)
<1> DEFINE n == Len(t)
<1> DEFINE v == RemoveAt(t, n)
<1> DEFINE u == Screen([s.cells EXCEPT ![s.ptr - 1] = Blank], s.ptr - 1, s.rolled)
<1> DEFINE b == s.ptr - n
<1>1. n \in Nat /\ 1 <= n /\ ScreenSize \in Nat /\ Cells \in Nat /\ 3 * ScreenSize <= Cells BY Sizes
<1>2. s.ptr \in Nat /\ s.cells \in [Memory -> Glyphs] BY ScreensAre
<1>3. /\ Len(v) = n - 1 /\ \A j \in 1 .. n - 1 : v[j] = t[j]
  <2>1. n \in 1 .. Len(t) BY <1>1
  <2>2. \A j \in 1 .. n - 1 : j < n BY <1>1
  <2> QED BY <2>1, <2>2, Removed
<1>4. /\ u.ptr = s.ptr - 1 /\ \A m \in Memory : u.cells[m] = IF m = s.ptr - 1 THEN Blank ELSE s.cells[m]
  BY <1>2 DEF Screen
<1>5. /\ 0 <= b /\ b + n <= ScreenSize /\ \A j \in 1 .. n : s.cells[b + j - 1] = t[j]
  BY DEF Fits
<1> HIDE DEF n, v, u
<1>6. b \in Nat /\ s.ptr = b + n /\ u.ptr - (n - 1) = b /\ b + (n - 1) <= ScreenSize
  BY <1>1, <1>2, <1>4, <1>5
<1> HIDE DEF b
<1>7. ASSUME NEW j \in 1 .. Len(v) PROVE u.cells[u.ptr - (n - 1) + j - 1] = v[j]
  <2>1. /\ j \in 1 .. n /\ j \in 1 .. n - 1 /\ b + j - 1 \in Memory /\ b + j - 1 # s.ptr - 1
    BY <1>1, <1>3, <1>5, <1>6 DEF Memory
  <2> QED BY <1>3, <1>4, <1>5, <1>6, <2>1
<1>8. Fits(u, v, n - 1) BY <1>1, <1>3, <1>6, <1>7 DEF Fits
<1>9. ASSUME Clean(s, t, n), NEW m \in Memory, m >= u.ptr - (n - 1) + Len(v)
      PROVE  u.cells[m] = Blank
  <2>1. m \in Nat /\ m >= b + n - 1 BY <1>1, <1>3, <1>6, <1>9 DEF Memory
  <2>2. CASE m = s.ptr - 1 BY <1>4, <2>2
  <2>3. CASE m # s.ptr - 1
    <3>1. m >= s.ptr - n + Len(t) BY <1>1, <1>6, <2>1, <2>3 DEF n
    <3>2. s.cells[m] = Blank BY <1>9, <3>1 DEF Clean
    <3> QED BY <1>4, <2>3, <3>2
  <2> QED BY <2>2, <2>3
<1>10. Clean(s, t, n) => Clean(u, v, n - 1) BY <1>9 DEF Clean
<1> QED BY <1>8, <1>10 DEF n, v, u

\* The cells when those behind lo have moved left, up to hi, and one is blanked,
\* and after a character is written where the rest of the line moved up to hi.
Shifted(s, u, lo, hi, at) ==
  \A m \in Memory : u.cells[m] =
     IF m = at THEN Blank ELSE IF lo <= m /\ m < hi THEN s.cells[m + 1] ELSE s.cells[m]

LEMMA ShiftedOut ==
  ASSUME NEW s \in Screens, NEW lo \in Nat, NEW hi \in Memory, NEW at \in Nat
  PROVE  LET u == Put(ShiftLeft(s, lo, hi), at, Blank)
         IN  /\ u \in Screens /\ u.ptr = s.ptr /\ u.rolled = s.rolled
             /\ Shifted(s, u, lo, hi, at)
<1> DEFINE a == ShiftLeft(s, lo, hi)
<1>1. /\ a \in Screens /\ a.ptr = s.ptr /\ a.rolled = s.rolled
      /\ \A m \in Memory : a.cells[m] =
           IF lo <= m /\ m < hi THEN s.cells[m + 1] ELSE s.cells[m]
  <2>1. hi \in Nat /\ hi < Cells BY Sizes DEF Memory
  <2>2. /\ ShiftLeft(s, lo, hi) \in Screens /\ ShiftLeft(s, lo, hi).ptr = s.ptr
        /\ ShiftLeft(s, lo, hi).rolled = s.rolled
    BY <2>1, ShiftedLeft, Sizes
  <2>3. \A m \in Memory : ShiftLeft(s, lo, hi).cells[m] =
          IF lo <= m /\ m < hi THEN s.cells[m + 1] ELSE s.cells[m]
    BY <2>1, ShiftedLeft, Sizes
  <2> QED BY <2>2, <2>3
<1> HIDE DEF a
<1> DEFINE d == Put(a, at, Blank)
<1>2. Blank \in Glyphs BY GlyphsAre
<1>3. /\ d \in Screens /\ d.ptr = a.ptr /\ d.rolled = a.rolled
      /\ \A m \in Memory : d.cells[m] = IF m = at THEN Blank ELSE a.cells[m]
  BY <1>1, <1>2, PutIs
<1> HIDE DEF d
<1>4. Shifted(s, d, lo, hi, at)
  BY <1>1, <1>3 DEF Shifted
<1> QED BY <1>1, <1>3, <1>4 DEF d, a

LEMMA TypedIs ==
  ASSUME NEW s \in Screens, NEW p \in Nat, NEW hi \in Nat, s.ptr = p, p < Cells,
         NEW c \in Chars
  PROVE  LET u == WriteChar(ShiftRight(s, p, hi), c)
         IN  /\ u \in Screens /\ u.ptr = p + 1 /\ u.rolled = s.rolled
             /\ \A m \in Memory : u.cells[m] =
                  IF m = p THEN c
                  ELSE IF p < m /\ m <= hi THEN s.cells[m - 1] ELSE s.cells[m]
<1> DEFINE a == ShiftRight(s, p, hi)
<1>1. /\ a \in Screens /\ a.ptr = p /\ a.rolled = s.rolled
      /\ \A m \in Memory : a.cells[m] =
           IF p < m /\ m <= hi THEN s.cells[m - 1] ELSE s.cells[m]
  BY ShiftedRight
<1> HIDE DEF a
<1> DEFINE u == WriteChar(a, c)
<1>2. c \in Glyphs BY GlyphsAre
<1>3. u = Screen([a.cells EXCEPT ![p] = c], p + 1, a.rolled) /\ u \in Screens
  BY <1>1, <1>2, CharWritten
<1> HIDE DEF u
<1>4. a.cells \in [Memory -> Glyphs] BY <1>1, ScreensAre
<1>5. u.cells = [a.cells EXCEPT ![p] = c] /\ u.ptr = p + 1 /\ u.rolled = s.rolled
  BY <1>1, <1>3 DEF Screen
<1>6. \A m \in Memory : u.cells[m] = IF m = p THEN c ELSE a.cells[m]
  BY <1>4, <1>5
<1>7. \A m \in Memory : u.cells[m] =
        IF m = p THEN c
        ELSE IF p < m /\ m <= hi THEN s.cells[m - 1] ELSE s.cells[m]
  BY <1>1, <1>6
<1> QED BY <1>3, <1>5, <1>7 DEF u, a

-----------------------------------------------------------------------------
\* What the keys make of a line that fits: the character before the cursor, the
\* one at the cursor, and a new one there.
LEMMA FitsErased ==
  ASSUME NEW s \in Screens, NEW u \in Screens, NEW t \in Seq(Chars),
         NEW p \in Nat, NEW n \in Nat, NEW i \in Nat,
         n = Len(t), 1 <= i, i <= n, n <= InputSize, s.ptr = p, u.ptr = p - 1,
         NEW lo \in Nat, NEW hi \in Nat, lo = p - 1, hi = p + n - 1,
         NEW at \in Nat, at = p + n, Shifted(s, u, lo, hi, at),
         Fits(s, t, i)
  PROVE  /\ Fits(u, RemoveAt(t, i), i - 1)
         /\ Clean(s, t, i) => Clean(u, RemoveAt(t, i), i - 1)
<1> DEFINE v == RemoveAt(t, i)
<1> DEFINE b == p - i
<1>1. \A m \in Memory : u.cells[m] =
        IF m = p + n THEN Blank
        ELSE IF p - 1 <= m /\ m < p + n - 1 THEN s.cells[m + 1] ELSE s.cells[m]
  BY DEF Shifted
<1>2. /\ ScreenSize \in Nat /\ Cells \in Nat /\ 3 * ScreenSize <= Cells /\ InputSize \in Nat
      /\ 2 * InputSize <= ScreenSize
  BY Sizes
<1>3. /\ Len(v) = n - 1
      /\ \A j \in 1 .. n - 1 : v[j] = IF j < i THEN t[j] ELSE t[j + 1]
  <2>1. i \in 1 .. Len(t) OBVIOUS
  <2> QED BY <2>1, Removed
<1>4. /\ 0 <= b /\ b + n <= ScreenSize /\ \A j \in 1 .. n : s.cells[b + j - 1] = t[j]
  BY DEF Fits
<1>5. b \in Nat /\ p = b + i BY <1>4
<1>6. \A k \in Memory : Clean(s, t, i) /\ k >= b + n => s.cells[k] = Blank
  BY DEF Clean
<1> HIDE DEF v, b
<1>7. u.ptr - (i - 1) = b BY <1>5
<1>8. ASSUME NEW j \in 1 .. Len(v) PROVE u.cells[b + j - 1] = v[j]
  <2>1. /\ j \in Nat /\ j \in 1 .. n /\ j \in 1 .. n - 1 /\ b + j - 1 \in Memory /\ b + j - 1 # p + n
        /\ b + j - 1 < p + n - 1
    BY <1>2, <1>3, <1>4, <1>5 DEF Memory
  <2>2. CASE j < i
    <3>1. ~(p - 1 <= b + j - 1) BY <1>5, <2>1, <2>2
    <3> QED BY <1>1, <1>3, <1>4, <2>1, <2>2, <3>1
  <2>3. CASE ~(j < i)
    <3>1. p - 1 <= b + j - 1 /\ b + j - 1 + 1 = b + (j + 1) - 1 /\ j + 1 \in 1 .. n
      BY <1>5, <2>1, <2>3
    <3>2. u.cells[b + j - 1] = s.cells[b + (j + 1) - 1] BY <1>1, <2>1, <3>1
    <3> QED BY <1>3, <1>4, <2>1, <2>3, <3>1, <3>2
  <2> QED BY <2>2, <2>3
<1>9. Fits(u, v, i - 1)
  <2>1. n \in Nat /\ i \in Nat /\ 1 <= i /\ i <= n /\ Len(v) = n - 1 BY <1>3
  <2>2. 0 <= b /\ i - 1 <= Len(v) /\ b + Len(v) <= ScreenSize
    BY ONLY <1>2, <1>4, <1>5, <2>1
  <2>3. 0 <= u.ptr - (i - 1) /\ i - 1 <= Len(v) /\ u.ptr - (i - 1) + Len(v) <= ScreenSize
    BY <1>7, <2>2
  <2> QED BY <1>7, <1>8, <2>3 DEF Fits
<1>10. ASSUME Clean(s, t, i), NEW m \in Memory, m >= u.ptr - (i - 1) + Len(v)
      PROVE  u.cells[m] = Blank
  <2>1. m \in Nat /\ m >= b + n - 1
    <3>1. m \in Nat BY <1>2 DEF Memory
    <3>2. m >= b + Len(v) BY <1>7, <1>10
    <3> QED BY <1>3, <1>5, <3>1, <3>2
  <2>2. CASE m = p + n BY <1>1, <2>2
  <2>3. CASE m # p + n /\ p - 1 <= m /\ m < p + n - 1
    <3>1. b + n <= ScreenSize /\ p + n - 1 < Cells BY <1>2, <1>4, <1>5, <2>1
    <3>2. m + 1 \in Memory /\ m + 1 >= b + n
      BY ONLY <1>1, <1>2, <1>5, <2>1, <2>3, <3>1 DEF Memory
    <3> QED BY <1>1, <1>6, <1>10, <2>3, <3>2
  <2>4. CASE m # p + n /\ ~(p - 1 <= m /\ m < p + n - 1)
    <3>1. m >= b + n BY <1>5, <2>1, <2>4
    <3> QED BY <1>1, <1>6, <1>10, <2>4, <3>1
  <2> QED BY <2>2, <2>3, <2>4
<1>11. Clean(s, t, i) => Clean(u, v, i - 1) BY <1>10 DEF Clean
<1> QED BY <1>9, <1>11 DEF v

LEMMA FitsDeleted ==
  ASSUME NEW s \in Screens, NEW u \in Screens, NEW t \in Seq(Chars),
         NEW p \in Nat, NEW n \in Nat, NEW i \in Nat,
         n = Len(t), i < n, n <= InputSize, s.ptr = p, u.ptr = p,
         NEW hi \in Nat, hi = p + n - 1,
         Shifted(s, u, p, hi, hi),
         Fits(s, t, i)
  PROVE  /\ Fits(u, RemoveAt(t, i + 1), i)
         /\ Clean(s, t, i) => Clean(u, RemoveAt(t, i + 1), i)
<1> DEFINE v == RemoveAt(t, i + 1)
<1> DEFINE b == p - i
<1>1. \A m \in Memory : u.cells[m] =
        IF m = p + n - 1 THEN Blank
        ELSE IF p <= m /\ m < p + n - 1 THEN s.cells[m + 1] ELSE s.cells[m]
  BY DEF Shifted
<1>2. /\ ScreenSize \in Nat /\ Cells \in Nat /\ 3 * ScreenSize <= Cells /\ InputSize \in Nat
      /\ 2 * InputSize <= ScreenSize
  BY Sizes
<1>3. /\ Len(v) = n - 1
      /\ \A j \in 1 .. n - 1 : v[j] = IF j < i + 1 THEN t[j] ELSE t[j + 1]
  <2>1. i + 1 \in 1 .. Len(t) OBVIOUS
  <2> QED BY <2>1, Removed
<1>4. /\ 0 <= b /\ b + n <= ScreenSize /\ \A j \in 1 .. n : s.cells[b + j - 1] = t[j]
  BY DEF Fits
<1>5. b \in Nat /\ p = b + i BY <1>4
<1>6. \A k \in Memory : Clean(s, t, i) /\ k >= b + n => s.cells[k] = Blank
  BY DEF Clean
<1> HIDE DEF v, b
<1>7. u.ptr - i = b BY <1>5
<1>8. ASSUME NEW j \in 1 .. Len(v) PROVE u.cells[b + j - 1] = v[j]
  <2>1. /\ j \in Nat /\ j \in 1 .. n /\ j \in 1 .. n - 1 /\ b + j - 1 \in Memory
        /\ b + j - 1 # p + n - 1 /\ b + j - 1 < p + n - 1
    BY <1>2, <1>3, <1>4, <1>5 DEF Memory
  <2>2. CASE j < i + 1
    <3>1. ~(p <= b + j - 1) BY <1>5, <2>1, <2>2
    <3> QED BY <1>1, <1>3, <1>4, <2>1, <2>2, <3>1
  <2>3. CASE ~(j < i + 1)
    <3>1. p <= b + j - 1 /\ b + j - 1 + 1 = b + (j + 1) - 1 /\ j + 1 \in 1 .. n
      BY <1>5, <2>1, <2>3
    <3>2. u.cells[b + j - 1] = s.cells[b + (j + 1) - 1] BY <1>1, <2>1, <3>1
    <3> QED BY <1>3, <1>4, <2>1, <2>3, <3>1, <3>2
  <2> QED BY <2>2, <2>3
<1>9. Fits(u, v, i)
  <2>1. 0 <= u.ptr - i /\ i <= Len(v) /\ u.ptr - i + Len(v) <= ScreenSize
    BY <1>2, <1>3, <1>4, <1>5, <1>7
  <2> QED BY <1>7, <1>8, <2>1 DEF Fits
<1>10. ASSUME Clean(s, t, i), NEW m \in Memory, m >= u.ptr - i + Len(v)
      PROVE  u.cells[m] = Blank
  <2>1. m \in Nat /\ m >= b + n - 1
    <3>1. m \in Nat BY <1>2 DEF Memory
    <3>2. m >= b + Len(v) BY <1>7, <1>10
    <3> QED BY <1>3, <1>5, <3>1, <3>2
  <2>2. CASE m = p + n - 1 BY <1>1, <2>2
  <2>3. CASE m # p + n - 1 /\ p <= m /\ m < p + n - 1
    <3>1. b + n <= ScreenSize /\ p + n - 1 < Cells BY <1>2, <1>4, <1>5, <2>1
    <3>2. m + 1 \in Memory /\ m + 1 >= b + n
      BY ONLY <1>1, <1>2, <1>5, <2>1, <2>3, <3>1 DEF Memory
    <3> QED BY <1>1, <1>6, <1>10, <2>3, <3>2
  <2>4. CASE m # p + n - 1 /\ ~(p <= m /\ m < p + n - 1)
    <3>1. m >= b + n BY <1>5, <2>1, <2>4
    <3> QED BY <1>1, <1>6, <1>10, <2>4, <3>1
  <2> QED BY <2>2, <2>3, <2>4
<1>11. Clean(s, t, i) => Clean(u, v, i) BY <1>10 DEF Clean
<1> QED BY <1>9, <1>11 DEF v

LEMMA FitsTyped ==
  ASSUME NEW s \in Screens, NEW u \in Screens, NEW t \in Seq(Chars), NEW c \in Chars,
         NEW p \in Nat, NEW n \in Nat, NEW i \in Nat,
         n = Len(t), s.ptr = p, u.ptr = p + 1, p - i + n < ScreenSize,
         NEW hi \in Nat, hi = p - i + n,
         \A m \in Memory : u.cells[m] =
            IF m = p THEN c
            ELSE IF p < m /\ m <= hi THEN s.cells[m - 1] ELSE s.cells[m],
         Fits(s, t, i)
  PROVE  /\ Fits(u, InsertAt(t, i + 1, c), i + 1)
         /\ Clean(s, t, i) => Clean(u, InsertAt(t, i + 1, c), i + 1)
<1> DEFINE v == InsertAt(t, i + 1, c)
<1> DEFINE b == p - i
<1>1. ScreenSize \in Nat /\ Cells \in Nat /\ 3 * ScreenSize <= Cells
  BY Sizes
<1>2. /\ 0 <= b /\ i <= n /\ b + n < ScreenSize /\ \A j \in 1 .. n : s.cells[b + j - 1] = t[j]
  BY DEF Fits
<1>3. /\ Len(v) = n + 1
      /\ \A j \in 1 .. n + 1 : v[j] = IF j < i + 1 THEN t[j] ELSE IF j = i + 1 THEN c ELSE t[j - 1]
  <2> DEFINE q == i + 1
  <2>1. q \in 1 .. Len(t) + 1 BY <1>2
  <2> HIDE DEF q
  <2>2. /\ Len(InsertAt(t, q, c)) = Len(t) + 1
        /\ \A j \in 1 .. Len(t) + 1 : InsertAt(t, q, c)[j] =
             IF j < q THEN t[j] ELSE IF j = q THEN c ELSE t[j - 1]
    <3>1. t \in Seq(Chars) /\ c \in Chars OBVIOUS
    <3> QED BY ONLY <2>1, <3>1, Inserted
  <2> QED BY <2>2 DEF q
<1>4. n \in Nat /\ i \in Nat /\ b \in Nat /\ p = b + i /\ p + n - i = b + n
  <2>1. n \in Nat /\ p \in Nat /\ i \in Nat OBVIOUS
  <2> QED BY ONLY <1>2, <2>1
<1>5. \A k \in Memory : Clean(s, t, i) /\ k >= b + n => s.cells[k] = Blank
  BY DEF Clean
<1>6. \A m \in Memory : u.cells[m] =
         IF m = p THEN c ELSE IF p < m /\ m <= b + n THEN s.cells[m - 1] ELSE s.cells[m]
  BY <1>4
<1> HIDE DEF v, b
<1>7. u.ptr - (i + 1) = b BY <1>4
<1>8. ASSUME NEW j \in 1 .. Len(v) PROVE u.cells[b + j - 1] = v[j]
  <2>1. j \in Nat /\ j \in 1 .. n + 1 /\ b + j - 1 \in Memory /\ b + j - 1 <= b + n
    <3>1. j \in 1 .. n + 1 BY <1>3
    <3> QED BY ONLY <1>1, <1>2, <1>4, <3>1 DEF Memory
  <2>2. CASE j < i + 1
    <3>1. j \in 1 .. n /\ ~(p < b + j - 1) /\ b + j - 1 # p BY ONLY <1>2, <1>4, <2>1, <2>2
    <3> QED BY <1>2, <1>3, <1>6, <2>1, <2>2, <3>1
  <2>3. CASE j = i + 1
    <3>1. b + j - 1 = p BY <1>4, <2>3
    <3> QED BY <1>3, <1>6, <2>1, <2>3, <3>1
  <2>4. CASE ~(j < i + 1) /\ j # i + 1
    <3>1. /\ p < b + j - 1 /\ b + j - 1 # p /\ j - 1 \in 1 .. n
          /\ b + j - 1 - 1 = b + (j - 1) - 1
      BY <1>4, <2>1, <2>4
    <3> DEFINE m == b + j - 1
    <3>2. m \in Memory /\ m # p /\ p < m /\ m <= b + n BY <2>1, <3>1
    <3> HIDE DEF m
    <3>3. u.cells[m] = s.cells[m - 1] BY <1>6, <3>2
    <3>4. m - 1 = b + (j - 1) - 1 BY ONLY <1>4, <2>1 DEF m
    <3>5. s.cells[b + (j - 1) - 1] = t[j - 1] BY <1>2, <3>1
    <3>6. v[j] = t[j - 1] BY <1>3, <2>1, <2>4
    <3> QED BY <3>3, <3>4, <3>5, <3>6 DEF m
  <2> QED BY <2>2, <2>3, <2>4
<1>9. Fits(u, v, i + 1) BY <1>1, <1>2, <1>3, <1>4, <1>7, <1>8 DEF Fits
<1>10. ASSUME Clean(s, t, i), NEW m \in Memory, m >= u.ptr - (i + 1) + Len(v)
       PROVE  u.cells[m] = Blank
  <2>1. m \in Nat /\ m >= b + n + 1
    <3>1. m \in Nat BY <1>1 DEF Memory
    <3>2. m >= b + Len(v) BY <1>7, <1>10
    <3> QED BY <1>3, <1>4, <3>1, <3>2
  <2>2. m # p /\ ~(m <= b + n) /\ m >= b + n BY <1>2, <1>4, <2>1
  <2> QED BY <1>5, <1>6, <1>10, <2>2
<1>11. Clean(s, t, i) => Clean(u, v, i + 1) BY <1>10 DEF Clean
<1> QED BY <1>9, <1>11 DEF v

-----------------------------------------------------------------------------
\* The keys.
LEMMA ActsTypes ==
  ASSUME EditorTypeOK, NEW k, Acts(k), input_len < InputSize
  PROVE  EditorTypeOK'
<1>1. /\ history \in [AllRows -> Seq(Chars)] /\ history_ptr \in AllRows /\ buf \in AllRows
      /\ history_fst \in AllRows \cup {NoRow} /\ history_lst \in AllRows \cup {NoRow}
      /\ \A r \in AllRows : Len(history[r]) \in Nat /\ Len(history[r]) <= InputSize
      /\ InputSize \in Nat /\ input_ptr \in Nat /\ input_len \in Nat /\ input_ptr <= input_len
  BY EditorTyped, Sizes
<1>2. input_len = Len(history[buf]) /\ history[buf] \in Seq(Chars) BY <1>1 DEF input_len
<1>3. ASSUME NEW r \in AllRows, HistoryMove(r) PROVE EditorTypeOK'
  <2>1. /\ history_ptr' = r /\ buf' = r /\ input_ptr' = Len(history[r])
        /\ history' = history /\ history_fst' = history_fst /\ history_lst' = history_lst
    BY <1>3 DEF HistoryMove
  <2>2. input_ptr' \in 0 .. Len(history'[buf']) BY <1>1, <2>1
  <2> QED BY <1>1, <2>1, <2>2, EditorRetyped
<1>4. ASSUME NEW i \in 0 .. input_len, Cursor(i) PROVE EditorTypeOK'
  <2>1. /\ history_ptr' = history_ptr /\ buf' = buf /\ input_ptr' = i
        /\ history' = history /\ history_fst' = history_fst /\ history_lst' = history_lst
    BY <1>4 DEF Cursor, ring
  <2>2. input_ptr' \in 0 .. Len(history'[buf']) BY <1>2, <2>1
  <2> QED BY <1>1, <2>1, <2>2, EditorRetyped
<1>5. ASSUME NEW t \in Seq(Chars), NEW i \in 0 .. Len(t), Len(t) <= InputSize, Edit(t, i)
      PROVE  EditorTypeOK'
  <2>1. /\ history_ptr' = history_ptr /\ buf' = buf /\ input_ptr' = i
        /\ history' = [history EXCEPT ![buf] = t]
        /\ history_fst' = history_fst /\ history_lst' = history_lst
    BY <1>5 DEF Edit, ring
  <2>2. /\ history' \in [AllRows -> Seq(Chars)] /\ history'[buf'] = t
        /\ \A r \in AllRows : Len(history'[r]) <= InputSize
    BY <1>1, <1>5, <2>1
  <2> QED BY <1>1, <2>1, <2>2, EditorRetyped
<1>6. CASE k = "up" /\ MayGoUp /\ HistoryMove(Before(history_ptr))
  BY <1>1, <1>3, <1>6, NeighbourRows
<1>7. CASE k = "down" /\ history_ptr # history_lst /\ HistoryMove(Following(history_ptr))
  BY <1>1, <1>3, <1>7, NeighbourRows
<1>8. CASE k = "left" /\ input_ptr > 0 /\ Cursor(input_ptr - 1)
  <2>1. input_ptr - 1 \in 0 .. input_len BY <1>1, <1>8
  <2> QED BY <1>4, <1>8, <2>1
<1>9. CASE k = "right" /\ input_ptr < input_len /\ Cursor(input_ptr + 1)
  <2>1. input_ptr + 1 \in 0 .. input_len BY <1>1, <1>9
  <2> QED BY <1>4, <1>9, <2>1
<1>10. CASE k = "home" /\ Cursor(0)
  <2>1. 0 \in 0 .. input_len BY <1>1
  <2> QED BY <1>4, <1>10, <2>1
<1>11. CASE k = "end" /\ Cursor(input_len)
  <2>1. input_len \in 0 .. input_len BY <1>1
  <2> QED BY <1>4, <1>11, <2>1
<1>12. CASE k = "backspace" /\ MayErase /\ Edit(RemoveAt(history[buf], input_ptr), input_ptr - 1)
  <2>1. input_ptr \in 1 .. Len(history[buf]) BY <1>1, <1>2, <1>12 DEF MayErase
  <2>2. RemoveAt(history[buf], input_ptr) \in Seq(Chars)
        /\ Len(RemoveAt(history[buf], input_ptr)) = input_len - 1
    BY <1>2, <2>1, Removed
  <2> DEFINE t == RemoveAt(history[buf], input_ptr)
  <2>3. input_ptr - 1 \in 0 .. Len(t) /\ Len(t) <= InputSize BY <1>1, <1>2, <2>1, <2>2
  <2> HIDE DEF t
  <2>4. t \in Seq(Chars) /\ Edit(t, input_ptr - 1) BY <1>12, <2>2 DEF t
  <2> QED BY <1>5, <2>3, <2>4
<1>13. CASE k = "delete" /\ input_ptr < input_len
              /\ Edit(RemoveAt(history[buf], input_ptr + 1), input_ptr)
  <2> DEFINE q == input_ptr + 1
  <2>1. q \in 1 .. Len(history[buf]) BY <1>1, <1>2, <1>13
  <2> HIDE DEF q
  <2>2. RemoveAt(history[buf], q) \in Seq(Chars)
        /\ Len(RemoveAt(history[buf], q)) = input_len - 1
    BY <1>2, <2>1, Removed
  <2> DEFINE t == RemoveAt(history[buf], q)
  <2> HIDE DEF t
  <2>3. t \in Seq(Chars) /\ Edit(t, input_ptr) BY <1>13, <2>2 DEF t, q
  <2>4. input_ptr \in 0 .. Len(t) /\ Len(t) <= InputSize BY <1>1, <1>2, <1>13, <2>2 DEF t
  <2> QED BY <1>5, <2>3, <2>4
<1>14. CASE k \in Chars /\ Edit(InsertAt(history[buf], input_ptr + 1, k), input_ptr + 1)
  <2> DEFINE q == input_ptr + 1
  <2>1. q \in 1 .. Len(history[buf]) + 1 BY <1>1, <1>2
  <2> HIDE DEF q
  <2>2. k \in Chars BY <1>14
  <2>3. InsertAt(history[buf], q, k) \in Seq(Chars)
        /\ Len(InsertAt(history[buf], q, k)) = input_len + 1
    BY <1>2, <2>1, <2>2, Inserted
  <2> DEFINE t == InsertAt(history[buf], q, k)
  <2> HIDE DEF t
  <2>4. t \in Seq(Chars) /\ Edit(t, q) BY <1>14, <2>3 DEF t, q
  <2>5. q \in 0 .. Len(t) /\ Len(t) <= InputSize BY <1>1, <1>2, <2>1, <2>3 DEF t
  <2> QED BY <1>5, <2>4, <2>5
<1> QED BY <1>6, <1>7, <1>8, <1>9, <1>10, <1>11, <1>12, <1>13, <1>14 DEF Acts

\* The step of a key that acts, as the lemmas below need it.
KeyStep ==
  /\ EchoInv /\ EditorTypeOK' /\ mode = "read" /\ input_len < InputSize
  /\ UNCHANGED <<acts, mode, tty_prompt_ptr, littered>>
  /\ astray' \in BOOLEAN /\ (~astray' => ~astray)

\* A key that moves the cursor within the line, to its character i.
LEMMA CursorKeeps ==
  ASSUME KeyStep, NEW i \in 0 .. input_len, Cursor(i),
         Show(Move(Now, tty_ptr - input_ptr + i)),
         stale' = (stale \/ Move(Now, tty_ptr - input_ptr + i).rolled)
  PROVE  EchoInv'
<1> DEFINE q == tty_ptr - input_ptr + i
<1> DEFINE s == At(Now, q)
<1>1. /\ Now \in Screens /\ Now.ptr = tty_ptr /\ Now.cells = cells /\ Now.rolled = FALSE
      /\ tty_ptr \in Nat /\ tty_ptr < ScreenSize + InputSize /\ Len(history[buf]) = input_len
  BY ScreenTyped DEF KeyStep
<1>2. /\ input_ptr \in Nat /\ input_len \in Nat /\ input_ptr <= input_len
      /\ input_len < InputSize
  BY EditorTyped DEF KeyStep, EchoInv, ScreenTypeOK
<1>3. input_ptr <= tty_ptr BY DEF KeyStep, EchoInv, Reached
<1>4. /\ ScreenSize \in Nat /\ InputSize \in Nat /\ 2 * InputSize <= ScreenSize BY Sizes
<1>5. i \in Nat /\ i <= input_len BY <1>2
<1>6. q \in Nat /\ i <= q /\ q < 2 * ScreenSize /\ q - i = tty_ptr - input_ptr
  BY <1>1, <1>2, <1>3, <1>4, <1>5
<1> HIDE DEF q
<1>7. s \in Screens /\ s.ptr = q /\ s.cells = Now.cells /\ s.rolled = FALSE
  BY <1>1, <1>6, AtIs
<1>8. Show(UpdateCursor(s)) /\ stale' = (stale \/ UpdateCursor(s).rolled)
  BY DEF Move, q
<1> HIDE DEF s
<1>9. input_ptr' = i /\ history[buf]' = history[buf] BY DEF Cursor
<1>10. ASSUME ~astray'
       PROVE  /\ Fits(s, history[buf]', input_ptr')
              /\ ~stale => s.ptr - input_ptr' = tty_prompt_ptr
              /\ ~littered => Clean(s, history[buf]', input_ptr')
  <2>1. /\ Fits(Now, history[buf], input_ptr)
        /\ ~stale => tty_ptr - input_ptr = tty_prompt_ptr
        /\ ~littered => Clean(Now, history[buf], input_ptr)
    BY <1>10 DEF KeyStep, EchoInv
  <2>2. Fits(s, history[buf], i) BY <1>1, <1>5, <1>6, <1>7, <2>1 DEF Fits
  <2>3. ~littered => Clean(s, history[buf], i) BY <1>1, <1>6, <1>7, <2>1 DEF Clean
  <2> QED BY <1>6, <1>7, <1>9, <2>1, <2>2, <2>3
<1>11. input_ptr' <= s.ptr /\ s.ptr < 2 * ScreenSize BY <1>6, <1>7, <1>9
<1> QED BY <1>7, <1>8, <1>10, <1>11, EchoKeeps DEF KeyStep

\* The sizes and types a key finds.
LEMMA StepTyped ==
  ASSUME KeyStep
  PROVE  /\ Now \in Screens /\ Now.ptr = tty_ptr /\ Now.cells = cells /\ Now.rolled = FALSE
         /\ tty_ptr \in Nat /\ tty_ptr < ScreenSize + InputSize
         /\ history[buf] \in Seq(Chars) /\ Len(history[buf]) = input_len
         /\ input_ptr \in Nat /\ input_len \in Nat /\ input_ptr <= input_len
         /\ input_len < InputSize /\ input_ptr <= tty_ptr
         /\ tty_prompt_ptr \in Nat /\ tty_prompt_ptr < ScreenSize
         /\ ~astray => /\ Fits(Now, history[buf], input_ptr)
                       /\ tty_ptr < ScreenSize
                       /\ ~stale => tty_ptr - input_ptr = tty_prompt_ptr
                       /\ ~littered => Clean(Now, history[buf], input_ptr)
<1>1. EchoInv /\ mode = "read" /\ input_len < InputSize BY DEF KeyStep
<1>2. /\ input_ptr \in Nat /\ input_len \in Nat /\ input_ptr <= input_len
  BY <1>1, EditorTyped DEF EchoInv, ScreenTypeOK
<1>3. input_ptr <= tty_ptr BY <1>1 DEF EchoInv, Reached
<1>4. ~astray => /\ Fits(Now, history[buf], input_ptr)
                 /\ tty_ptr < ScreenSize
                 /\ ~stale => tty_ptr - input_ptr = tty_prompt_ptr
                 /\ ~littered => Clean(Now, history[buf], input_ptr)
  BY <1>1 DEF EchoInv, ScreenTypeOK
<1> QED BY <1>1, <1>2, <1>3, <1>4, ScreenTyped

LEMMA EditMakes ==
  ASSUME KeyStep, NEW t, NEW i, Edit(t, i)
  PROVE  history[buf]' = t /\ input_ptr' = i
<1>1. history \in [AllRows -> Seq(Chars)] /\ buf \in AllRows
  BY EditorTyped DEF KeyStep, EchoInv, ScreenTypeOK
<1>2. history' = [history EXCEPT ![buf] = t] /\ buf' = buf /\ input_ptr' = i BY DEF Edit
<1> QED BY <1>1, <1>2

\* The character before the cursor is erased.
LEMMA EraseKeeps ==
  ASSUME KeyStep, MayErase,
         Edit(RemoveAt(history[buf], input_ptr), input_ptr - 1),
         Show(EraseEcho), stale' = (stale \/ EraseEcho.rolled)
  PROVE  EchoInv'
<1> DEFINE t == history[buf]
<1> DEFINE v == RemoveAt(t, input_ptr)
<1>1. /\ ScreenSize \in Nat /\ InputSize \in Nat /\ 2 * InputSize <= ScreenSize
      /\ Cells \in Nat /\ 3 * ScreenSize <= Cells
  BY Sizes
<1>2. history[buf]' = v /\ input_ptr' = input_ptr - 1 BY EditMakes
<1>3. t \in Seq(Chars) /\ Len(t) = input_len BY StepTyped
<1> HIDE DEF t, v
<1>4. 0 < input_ptr /\ 1 <= input_ptr /\ 1 <= tty_ptr /\ 1 <= input_len
  BY StepTyped DEF MayErase
<1>5. PICK s \in Screens :
        /\ s.rolled = FALSE /\ s.ptr = tty_ptr - 1 /\ EraseEcho = UpdateCursor(s)
        /\ ~astray => /\ Fits(s, v, input_ptr - 1)
                      /\ ~littered => Clean(s, v, input_ptr - 1)
  <2>1. CASE input_ptr = input_len
    <3> DEFINE s == Screen([Now.cells EXCEPT ![Now.ptr - 1] = Blank], Now.ptr - 1, Now.rolled)
    <3>1. 0 < Now.ptr /\ Now.ptr < Cells BY <1>1, <1>4, StepTyped
    <3>2. WriteAll(Now, <<Back, Blank, Back>>) = s BY <3>1, OneErased, StepTyped
    <3>3. EraseEcho = UpdateCursor(s) BY <2>1, <3>2 DEF EraseEcho, tty_puts
    <3>4. s.rolled = FALSE /\ s.ptr = tty_ptr - 1 BY StepTyped DEF Screen
    <3>5. s \in Screens
      <4>1. cells \in [Memory -> Glyphs] /\ Blank \in Glyphs
        BY StepTyped, ScreensAre, GlyphsAre
      <4>2. [Now.cells EXCEPT ![Now.ptr - 1] = Blank] \in [Memory -> Glyphs]
        BY <4>1, StepTyped
      <4>3. Now.ptr - 1 \in Nat
        <5>1. Now.ptr = tty_ptr /\ tty_ptr \in Nat BY StepTyped
        <5> QED BY ONLY <1>4, <5>1
      <4>4. Now.rolled \in BOOLEAN BY StepTyped
      <4> QED BY <4>2, <4>3, <4>4, ScreenIs
    <3>6. ASSUME ~astray
          PROVE  /\ Fits(s, v, input_ptr - 1)
                 /\ ~littered => Clean(s, v, input_ptr - 1)
      <4>1. Fits(Now, t, Len(t)) /\ (~littered => Clean(Now, t, Len(t))) /\ Len(t) = input_ptr
        BY <1>3, <2>1, <3>6, StepTyped DEF t
      <4>2. Len(t) # 0 BY <1>4, <4>1
      <4>3. v = RemoveAt(t, Len(t)) BY <4>1 DEF v
      <4> HIDE DEF s
      <4>4. Fits(s, RemoveAt(t, Len(t)), Len(t) - 1)
            /\ (Clean(Now, t, Len(t)) => Clean(s, RemoveAt(t, Len(t)), Len(t) - 1))
        BY <1>3, <3>1, <4>1, <4>2, FitsErasedLast, StepTyped DEF s
      <4> QED BY <4>1, <4>3, <4>4
    <3> HIDE DEF s
    <3> QED BY <3>3, <3>4, <3>5, <3>6
  <2>2. CASE input_ptr # input_len
    <3> DEFINE p == tty_ptr
    <3> DEFINE n == input_len
    <3> DEFINE i == input_ptr
    <3> DEFINE lo == p - 1
    <3> DEFINE hi == p + n - 1
    <3> DEFINE at == p + n
    <3> DEFINE d == Put(ShiftLeft(Now, lo, hi), at, Blank)
    <3> DEFINE s == At(d, lo)
    <3>1. EraseEcho = UpdateCursor(s) BY <2>2 DEF EraseEcho, Move
    <3>2. /\ p \in Nat /\ n \in Nat /\ i \in Nat /\ n = Len(t) /\ 1 <= i /\ i <= n /\ n <= InputSize
          /\ Now.ptr = p /\ lo \in Nat /\ hi \in Nat /\ hi \in Memory /\ at \in Nat
      <4>1. /\ p \in Nat /\ n \in Nat /\ i \in Nat /\ i <= n /\ n < InputSize /\ 1 <= i
            /\ p < ScreenSize + InputSize /\ 1 <= p /\ Now.ptr = p /\ n = Len(t)
        BY <1>3, <1>4, StepTyped
      <4> HIDE DEF p, n, i
      <4>2. n <= InputSize /\ lo \in Nat /\ hi \in Nat /\ hi \in Memory /\ at \in Nat
        BY ONLY <1>1, <4>1 DEF Memory
      <4> QED BY <4>1, <4>2
    <3>3. lo = p - 1 /\ hi = p + n - 1 /\ at = p + n OBVIOUS
    <3> HIDE DEF p, n, i, lo, hi, at
    <3>4. Now \in Screens /\ Now.rolled = FALSE BY StepTyped
    <3>5. d \in Screens /\ d.ptr = Now.ptr /\ d.rolled = Now.rolled /\ Shifted(Now, d, lo, hi, at)
      BY <3>2, <3>4, ShiftedOut
    <3> HIDE DEF d
    <3>6. s \in Screens /\ s.ptr = lo /\ s.cells = d.cells /\ s.rolled = FALSE
      BY <3>2, <3>4, <3>5, AtIs
    <3> HIDE DEF s
    <3>7. Shifted(Now, s, lo, hi, at) BY <3>5, <3>6 DEF Shifted
    <3>8. ASSUME ~astray
          PROVE  /\ Fits(s, v, i - 1)
                 /\ ~littered => Clean(s, v, i - 1)
      <4>1. Fits(Now, t, i) /\ (~littered => Clean(Now, t, i))
        BY <3>8, StepTyped DEF t, i
      <4>2. Fits(s, RemoveAt(t, i), i - 1) /\ (Clean(Now, t, i) => Clean(s, RemoveAt(t, i), i - 1))
        <5>1. s.ptr = p - 1 BY <3>3, <3>6
        <5> QED BY <1>3, <3>2, <3>3, <3>4, <3>6, <3>7, <4>1, <5>1, FitsErased
      <4> QED BY <4>1, <4>2 DEF v, i
    <3> QED BY <3>1, <3>3, <3>6, <3>8 DEF p, i
  <2> QED BY <2>1, <2>2
<1>6. Show(UpdateCursor(s)) /\ stale' = (stale \/ UpdateCursor(s).rolled) BY <1>5
<1>7. s.ptr \in Nat /\ input_ptr' <= s.ptr /\ s.ptr < 2 * ScreenSize
      /\ s.ptr - input_ptr' = tty_ptr - input_ptr
  BY <1>1, <1>2, <1>4, <1>5, StepTyped
<1>8. ASSUME ~astray'
      PROVE  /\ Fits(s, history[buf]', input_ptr')
             /\ ~stale => s.ptr - input_ptr' = tty_prompt_ptr
             /\ ~littered => Clean(s, history[buf]', input_ptr')
  <2>1. ~astray BY <1>8 DEF KeyStep
  <2> QED BY <1>2, <1>5, <1>7, <2>1, StepTyped
<1> QED BY <1>5, <1>6, <1>7, <1>8, EchoKeeps DEF KeyStep

\* The character at the cursor is deleted.
LEMMA DeleteKeeps ==
  ASSUME KeyStep, input_ptr < input_len,
         Edit(RemoveAt(history[buf], input_ptr + 1), input_ptr),
         Show(DeleteEcho), stale' = (stale \/ DeleteEcho.rolled)
  PROVE  EchoInv'
<1> DEFINE t == history[buf]
<1> DEFINE v == RemoveAt(t, input_ptr + 1)
<1> DEFINE p == tty_ptr
<1> DEFINE n == input_len
<1> DEFINE i == input_ptr
<1> DEFINE hi == p + n - 1
<1> DEFINE s == Put(ShiftLeft(Now, p, hi), hi, Blank)
<1>1. /\ ScreenSize \in Nat /\ InputSize \in Nat /\ 2 * InputSize <= ScreenSize
      /\ Cells \in Nat /\ 3 * ScreenSize <= Cells
  BY Sizes
<1>2. history[buf]' = v /\ input_ptr' = i BY EditMakes
<1>3. t \in Seq(Chars) /\ Len(t) = n BY StepTyped
<1>4. Show(UpdateCursor(s)) /\ stale' = (stale \/ UpdateCursor(s).rolled) BY DEF DeleteEcho
<1> HIDE DEF t, v
<1>5. /\ p \in Nat /\ n \in Nat /\ i \in Nat /\ n = Len(t) /\ i < n /\ i <= p /\ n <= InputSize
      /\ Now.ptr = p /\ hi \in Nat /\ hi \in Memory /\ hi = p + n - 1 /\ p < 2 * ScreenSize
  <2>1. /\ p \in Nat /\ n \in Nat /\ i \in Nat /\ i <= p /\ n < InputSize
        /\ p < ScreenSize + InputSize /\ Now.ptr = p
    BY StepTyped
  <2>2. i < n OBVIOUS
  <2> QED BY ONLY <1>1, <1>3, <2>1, <2>2 DEF Memory
<1>6. Now \in Screens /\ Now.rolled = FALSE BY StepTyped
<1> HIDE DEF p, n, i, hi
<1>7. s \in Screens /\ s.ptr = p /\ s.rolled = FALSE /\ Shifted(Now, s, p, hi, hi)
  <2>1. p \in Nat /\ hi \in Nat /\ hi \in Memory /\ Now \in Screens BY <1>5, <1>6
  <2>2. /\ s \in Screens /\ s.ptr = Now.ptr /\ s.rolled = Now.rolled
        /\ Shifted(Now, s, p, hi, hi)
    BY ONLY <2>1, ShiftedOut
  <2> QED BY <1>5, <1>6, <2>2
<1> HIDE DEF s
<1>8. ASSUME ~astray'
      PROVE  /\ Fits(s, history[buf]', input_ptr')
             /\ ~stale => s.ptr - input_ptr' = tty_prompt_ptr
             /\ ~littered => Clean(s, history[buf]', input_ptr')
  <2>1. ~astray BY <1>8 DEF KeyStep
  <2>2. /\ Fits(Now, t, i) /\ (~littered => Clean(Now, t, i))
        /\ ~stale => p - i = tty_prompt_ptr
    BY <2>1, StepTyped DEF t, i, p
  <2>3. /\ Fits(s, RemoveAt(t, i + 1), i)
        /\ Clean(Now, t, i) => Clean(s, RemoveAt(t, i + 1), i)
    BY <1>3, <1>5, <1>6, <1>7, <2>2, FitsDeleted
  <2> QED BY <1>2, <1>7, <2>2, <2>3 DEF v, i
<1>9. input_ptr' <= s.ptr /\ s.ptr < 2 * ScreenSize BY <1>2, <1>5, <1>7
<1> QED BY <1>4, <1>7, <1>8, <1>9, EchoKeeps DEF KeyStep

\* A character is typed at the cursor.
LEMMA TypeKeeps ==
  ASSUME KeyStep, NEW c \in Chars, PushesOff(c) => astray',
         Edit(InsertAt(history[buf], input_ptr + 1, c), input_ptr + 1),
         Show(TypeEcho(c)), stale' = (stale \/ TypeEcho(c).rolled)
  PROVE  EchoInv'
<1> DEFINE t == history[buf]
<1> DEFINE v == InsertAt(t, input_ptr + 1, c)
<1> DEFINE p == tty_ptr
<1> DEFINE n == input_len
<1> DEFINE i == input_ptr
<1> DEFINE hi == p + n - i
<1> DEFINE s == WriteChar(ShiftRight(Now, p, hi), c)
<1>1. /\ ScreenSize \in Nat /\ InputSize \in Nat /\ 2 * InputSize <= ScreenSize
      /\ Cells \in Nat /\ 3 * ScreenSize <= Cells /\ 1 <= InputSize
  BY Sizes
<1>2. history[buf]' = v /\ input_ptr' = i + 1 BY EditMakes
<1>3. t \in Seq(Chars) /\ Len(t) = n BY StepTyped
<1>4. Show(UpdateCursor(s)) /\ stale' = (stale \/ UpdateCursor(s).rolled)
  BY DEF TypeEcho, tty_putc
<1> HIDE DEF t, v
<1>5. /\ p \in Nat /\ n \in Nat /\ i \in Nat /\ n = Len(t) /\ i <= n /\ i <= p
      /\ hi \in Nat /\ Now.ptr = p /\ p < Cells /\ p + 1 < 2 * ScreenSize
  <2>1. /\ p \in Nat /\ n \in Nat /\ i \in Nat /\ i <= p /\ i <= n
        /\ p < ScreenSize + InputSize /\ Now.ptr = p
    BY StepTyped
  <2>2. InputSize < ScreenSize BY ONLY <1>1
  <2> QED BY ONLY <1>1, <1>3, <2>1, <2>2
<1>6. Now \in Screens /\ Now.rolled = FALSE BY StepTyped
<1>7. ~astray' => p - i + n < ScreenSize
  <2>1. ~astray' => ~astray /\ ~PushesOff(c) BY DEF KeyStep
  <2>2. ~astray => tty_ptr < ScreenSize BY StepTyped
  <2>3. ~PushesOff(c) => input_ptr >= input_len \/ p - i + n < ScreenSize
    BY <1>1, <1>5 DEF PushesOff, Start
  <2> QED BY <1>1, <1>5, <2>1, <2>2, <2>3
<1> HIDE DEF p, n, i, hi
<1>8. /\ s \in Screens /\ s.ptr = p + 1 /\ s.rolled = FALSE
      /\ \A m \in Memory : s.cells[m] =
           IF m = p THEN c
           ELSE IF p < m /\ m <= hi THEN Now.cells[m - 1] ELSE Now.cells[m]
  BY <1>1, <1>5, <1>6, TypedIs
<1> HIDE DEF s
<1>9. ASSUME ~astray'
      PROVE  /\ Fits(s, history[buf]', input_ptr')
             /\ ~stale => s.ptr - input_ptr' = tty_prompt_ptr
             /\ ~littered => Clean(s, history[buf]', input_ptr')
  <2>1. ~astray BY <1>9 DEF KeyStep
  <2>2. /\ Fits(Now, t, i) /\ (~littered => Clean(Now, t, i))
        /\ ~stale => p - i = tty_prompt_ptr
    BY <2>1, StepTyped DEF t, i, p
  <2>3. hi = p - i + n BY <1>5 DEF hi
  <2>4. p - i + n < ScreenSize BY <1>7, <1>9
  <2>5. /\ Fits(s, InsertAt(t, i + 1, c), i + 1)
        /\ Clean(Now, t, i) => Clean(s, InsertAt(t, i + 1, c), i + 1)
    BY <1>3, <1>5, <1>8, <1>6, <2>2, <2>3, <2>4, FitsTyped
  <2>6. s.ptr - input_ptr' = p - i BY <1>2, <1>5, <1>8
  <2> QED BY <1>2, <2>2, <2>5, <2>6 DEF v, i
<1>10. input_ptr' <= s.ptr /\ s.ptr < 2 * ScreenSize BY <1>2, <1>5, <1>8
<1> QED BY <1>4, <1>8, <1>9, <1>10, EchoKeeps DEF KeyStep

\* Another line is recalled.
LEMMA RecallKeeps ==
  ASSUME KeyStep, NEW r \in AllRows, HistoryMove(r), Show(Redraw(history[r])),
         stale' = (stale \/ Redraw(history[r]).rolled), stale' => astray'
  PROVE  EchoInv'
<1> DEFINE t == history[r]
<1> DEFINE L == Len(t)
<1> DEFINE p == tty_prompt_ptr
<1> DEFINE n == input_len
<1> DEFINE k == Wiped(n, L)
<1> DEFINE w == WriteAll(At(Now, p), t)
<1> DEFINE shown == UpdateCursor(w)
<1> DEFINE wiped == WriteAll(shown, Blanks(k))
<1> DEFINE s == At(wiped, p + L)
<1>1. /\ ScreenSize \in Nat /\ InputSize \in Nat /\ 2 * InputSize <= ScreenSize
      /\ Cells \in Nat /\ 3 * ScreenSize <= Cells
  BY Sizes
<1>2. /\ history_ptr' = r /\ buf' = r /\ input_ptr' = L /\ history' = history
  BY DEF HistoryMove
<1>3. history[buf]' = t /\ input_ptr' = L BY <1>2
<1>4. /\ t \in Seq(Chars) /\ L \in Nat /\ L <= InputSize
  BY EditorTyped DEF KeyStep, EchoInv, ScreenTypeOK
<1>5. Show(s) /\ stale' = (stale \/ s.rolled)
  BY DEF Redraw, tty_puts
<1>6. p \in Nat /\ p < ScreenSize /\ n \in Nat /\ n < InputSize BY StepTyped
<1>7. Now \in Screens /\ Now.rolled = FALSE /\ Now.ptr = tty_ptr BY StepTyped
<1> HIDE DEF t, L, p, n
<1>8. k \in Nat /\ k <= n /\ n <= L + k
  <2>1. n > L => k = n BY DEF Wiped
  <2>2. ~(n > L) => k = 0 BY DEF Wiped
  <2> HIDE DEF k
  <2> QED BY <1>4, <1>6, <2>1, <2>2
<1> HIDE DEF k
<1>9. /\ At(Now, p) \in Screens /\ At(Now, p).ptr = p
      /\ At(Now, p).cells = Now.cells /\ At(Now, p).rolled = Now.rolled
  BY <1>6, <1>7, AtIs
<1>10. /\ w \in Screens /\ w.ptr = p + L /\ w.rolled = FALSE
       /\ \A m \in Memory : w.cells[m] =
            IF p <= m /\ m < p + L THEN t[m - p + 1] ELSE Now.cells[m]
  <2> DEFINE a == At(Now, p)
  <2> HIDE DEF a
  <2>1. a \in Screens /\ a.ptr = p /\ a.cells = Now.cells /\ a.rolled = FALSE
    BY <1>7, <1>9 DEF a
  <2>2. t \in Seq(Glyphs) BY <1>4, GlyphsAre
  <2>3. a.ptr + Len(t) <= Cells BY <1>1, <1>4, <1>6, <2>1 DEF L
  <2>4. /\ WriteAll(a, t) \in Screens
        /\ WriteAll(a, t).ptr = a.ptr + Len(t)
        /\ WriteAll(a, t).rolled = a.rolled
        /\ \A m \in Memory : WriteAll(a, t).cells[m] =
             IF a.ptr <= m /\ m < a.ptr + Len(t) THEN t[m - a.ptr + 1] ELSE a.cells[m]
    BY <2>1, <2>2, <2>3, LineWritten
  <2>5. w = WriteAll(a, t) BY DEF a
  <2> HIDE DEF w
  <2> QED BY <2>1, <2>4, <2>5 DEF L
<1> HIDE DEF w
<1>11. /\ shown \in Screens /\ shown.ptr \in Nat /\ shown.ptr < ScreenSize
       /\ w.ptr < ScreenSize => shown = w
       /\ w.ptr >= ScreenSize => shown.rolled = TRUE
  <2>1. w.ptr < 3 * ScreenSize /\ w.ptr < 2 * ScreenSize BY <1>1, <1>4, <1>6, <1>10
  <2>2. shown \in Screens BY <1>10, <2>1, Updated
  <2>3. w.ptr < ScreenSize => shown = w BY <1>10, <2>1, Updated
  <2>4. w.ptr >= ScreenSize => shown.rolled = TRUE BY <1>10, <2>1, Updated
  <2>5. shown.ptr < ScreenSize BY <1>10, <2>1, Updated
  <2>6. shown.ptr \in Nat BY <2>2, ScreensAre
  <2> QED BY <2>2, <2>3, <2>4, <2>5, <2>6
<1> HIDE DEF shown
<1>12. /\ wiped \in Screens /\ wiped.rolled = shown.rolled
       /\ \A m \in Memory : wiped.cells[m] =
            IF shown.ptr <= m /\ m < shown.ptr + k THEN Blank ELSE shown.cells[m]
  <2> DEFINE b == Blanks(k)
  <2>1. b \in Seq(Glyphs) /\ Len(b) = k /\ \A j \in 1 .. k : b[j] = Blank
    BY <1>8, GlyphsAre DEF Blanks
  <2> HIDE DEF b
  <2>2. shown.ptr + Len(b) <= Cells BY <1>1, <1>6, <1>8, <1>11, <2>1
  <2>3. /\ WriteAll(shown, b) \in Screens
        /\ WriteAll(shown, b).rolled = shown.rolled
        /\ \A m \in Memory : WriteAll(shown, b).cells[m] =
             IF shown.ptr <= m /\ m < shown.ptr + Len(b) THEN b[m - shown.ptr + 1]
             ELSE shown.cells[m]
    BY <1>11, <2>1, <2>2, LineWritten
  <2>4. ASSUME NEW m \in Memory, shown.ptr <= m, m < shown.ptr + k
        PROVE  b[m - shown.ptr + 1] = Blank
    <3>1. m \in Nat BY <1>1 DEF Memory
    <3>2. m - shown.ptr + 1 \in 1 .. k BY <1>8, <1>11, <2>4, <3>1
    <3> QED BY <2>1, <3>2
  <2>5. wiped = WriteAll(shown, b) BY DEF b
  <2> HIDE DEF wiped
  <2> QED BY <2>1, <2>3, <2>4, <2>5
<1> HIDE DEF wiped
<1>13. p + L \in Nat /\ L <= p + L /\ p + L < ScreenSize + InputSize BY <1>1, <1>4, <1>6
<1>14. s \in Screens /\ s.ptr = p + L /\ s.cells = wiped.cells /\ s.rolled = wiped.rolled
  <2> DEFINE q == p + L
  <2>1. q \in Nat BY <1>13
  <2> HIDE DEF q
  <2>2. /\ At(wiped, q) \in Screens /\ At(wiped, q).ptr = q
        /\ At(wiped, q).cells = wiped.cells /\ At(wiped, q).rolled = wiped.rolled
    BY <1>12, <2>1, AtIs
  <2> QED BY <2>2 DEF q
<1> HIDE DEF s
<1>15. ASSUME ~astray'
       PROVE  /\ s.ptr < ScreenSize
              /\ Fits(s, history[buf]', input_ptr')
              /\ ~stale' => s.ptr - input_ptr' = tty_prompt_ptr
              /\ ~littered => Clean(s, history[buf]', input_ptr')
  <2>1. ~stale' /\ ~astray BY <1>15 DEF KeyStep
  <2>2. ~stale /\ s.rolled # TRUE BY <1>5, <2>1
  <2>3. w.ptr \in Nat BY <1>4, <1>6, <1>10
  <2>4. ~(w.ptr >= ScreenSize) BY <1>11, <1>12, <1>14, <2>2
  <2>5. shown = w /\ shown.ptr = p + L /\ p + L < ScreenSize BY <1>1, <1>10, <1>11, <2>3, <2>4
  <2>6. s.ptr < ScreenSize /\ s.ptr - L = p BY <1>4, <1>6, <1>14, <2>5
  <2>7. ASSUME NEW j \in 1 .. Len(t) PROVE s.cells[s.ptr - L + j - 1] = t[j]
    <3> DEFINE m == p + j - 1
    <3>1. j \in Nat /\ 1 <= j /\ j <= L BY <1>4 DEF L
    <3>2. m \in Memory /\ p <= m /\ m < p + L /\ m - p + 1 = j
      BY <1>1, <1>4, <1>6, <2>5, <3>1 DEF Memory
    <3>3. s.ptr - L + j - 1 = m BY <2>6
    <3> HIDE DEF m
    <3>4. m \in Nat BY <1>1, <3>2 DEF Memory
    <3>5. ~(shown.ptr <= m) BY <1>4, <1>6, <2>5, <3>2, <3>4
    <3>6. s.cells[m] = w.cells[m] BY <1>12, <1>14, <2>5, <3>2, <3>5
    <3>7. w.cells[m] = t[j] BY <1>10, <3>2
    <3> QED BY <3>3, <3>6, <3>7
  <2>8. Fits(s, t, L)
    <3>1. 0 <= s.ptr - L /\ L <= Len(t) /\ s.ptr - L + Len(t) <= ScreenSize
      BY <1>1, <1>4, <1>6, <2>5, <2>6 DEF L
    <3> QED BY <2>7, <3>1 DEF Fits
  <2>9. ASSUME ~littered, NEW m \in Memory, m >= s.ptr - L + Len(t)
        PROVE  s.cells[m] = Blank
    <3>1. m \in Nat BY <1>1 DEF Memory
    <3>2. m >= p + L BY <1>6, <2>6, <2>9 DEF L
    <3>3. CASE m < p + L + k
      <4>1. shown.ptr <= m /\ m < shown.ptr + k BY <2>5, <3>2, <3>3
      <4> QED BY <1>12, <1>14, <4>1
    <3>4. CASE ~(m < p + L + k)
      <4>1. ~(m < shown.ptr + k) /\ ~(m < p + L) BY <2>5, <3>2, <3>4, <1>4, <1>6, <3>1
      <4>2. s.cells[m] = w.cells[m] BY <1>12, <1>14, <2>5, <4>1
      <4>3. w.cells[m] = Now.cells[m] BY <1>10, <4>1
      <4>4. /\ Clean(Now, history[buf], input_ptr) /\ Len(history[buf]) = n
            /\ tty_ptr - input_ptr = p
        BY <2>1, <2>2, <2>9, StepTyped DEF p, n
      <4>5. m >= p + n BY <1>4, <1>6, <1>8, <3>1, <3>4
      <4>6. m >= Now.ptr - input_ptr + Len(history[buf]) BY <1>7, <4>4, <4>5
      <4>7. Now.cells[m] = Blank BY <4>4, <4>6 DEF Clean
      <4> QED BY <4>2, <4>3, <4>7
    <3> QED BY <3>3, <3>4
  <2>10. ~littered => Clean(s, t, L) BY <2>9 DEF Clean
  <2> QED BY <1>3, <2>6, <2>8, <2>10 DEF p
<1>16. stale' \in BOOLEAN
  <2>1. s.rolled \in BOOLEAN BY <1>14, ScreensAre
  <2>2. stale \in BOOLEAN BY DEF KeyStep, EchoInv, ScreenTypeOK
  <2> QED BY <1>5, <2>1, <2>2
<1>17. input_ptr' <= s.ptr /\ s.ptr < ScreenSize + InputSize BY <1>3, <1>13, <1>14
<1> QED BY <1>5, <1>14, <1>15, <1>16, <1>17, ShownKeeps DEF KeyStep

-----------------------------------------------------------------------------
\* Every key, and the other steps.
LEMMA KeyKeeps ==
  ASSUME EchoInv, NEW k \in Keys, Key(k)
  PROVE  EchoInv'
<1>1. /\ mode = "read" /\ input_len < InputSize /\ k # "enter"
      /\ UNCHANGED <<acts, mode, tty_prompt_ptr, littered>>
  BY DEF Key
<1>2. stale \in BOOLEAN /\ astray \in BOOLEAN BY DEF EchoInv, ScreenTypeOK
<1>3. CASE Ignored(k) /\ UNCHANGED <<editor, cells, tty_ptr, stale, astray>>
  BY <1>1, <1>3 DEF EchoInv, ScreenTypeOK, EditorTypeOK, Reached, editor, ring, input_len,
                    Now, Screen, Fits, Clean
<1>4. CASE /\ Acts(k) /\ Show(Echo(k))
           /\ stale' = (stale \/ Echo(k).rolled)
           /\ astray' = (astray \/ (Recalls(k) /\ stale') \/ PushesOff(k))
  <2>1. EditorTypeOK' BY <1>1, <1>4, ActsTypes DEF EchoInv, ScreenTypeOK
  <2>2. PushesOff(k) \in BOOLEAN /\ Recalls(k) \in BOOLEAN BY DEF PushesOff, Recalls
  <2>3. stale' \in BOOLEAN BY <1>2, <1>4
  <2>4. astray' \in BOOLEAN /\ (~astray' => ~astray) /\ (PushesOff(k) => astray')
        /\ (Recalls(k) /\ stale' => astray')
    BY <1>2, <1>4, <2>2, <2>3
  <2>5. KeyStep BY <1>1, <2>1, <2>4 DEF KeyStep
  <2>6. /\ tty_ptr \in Nat /\ input_ptr \in Nat /\ input_len \in Nat /\ input_ptr <= input_len
        /\ history_ptr \in AllRows
    BY <2>5, StepTyped, EditorTyped DEF EchoInv, ScreenTypeOK
  <2>7. CASE k = "up" /\ HistoryMove(Before(history_ptr))
    <3>1. Echo(k) = Redraw(history[Before(history_ptr)]) BY <2>7 DEF Echo
    <3>2. Before(history_ptr) \in AllRows BY <2>6, NeighbourRows
    <3>3. stale' => astray' BY <2>4, <2>7 DEF Recalls
    <3> QED BY <1>4, <2>5, <2>7, <3>1, <3>2, <3>3, RecallKeeps
  <2>8. CASE k = "down" /\ HistoryMove(Following(history_ptr))
    <3>1. Echo(k) = Redraw(history[Following(history_ptr)]) BY <2>8 DEF Echo
    <3>2. Following(history_ptr) \in AllRows BY <2>6, NeighbourRows
    <3>3. stale' => astray' BY <2>4, <2>8 DEF Recalls
    <3> QED BY <1>4, <2>5, <2>8, <3>1, <3>2, <3>3, RecallKeeps
  <2>9. ASSUME NEW i \in 0 .. input_len, Cursor(i), NEW q, Echo(k) = Move(Now, q),
               q = tty_ptr - input_ptr + i
        PROVE  EchoInv'
    BY <1>4, <2>5, <2>9, CursorKeeps
  <2>10. CASE k = "left" /\ input_ptr > 0 /\ Cursor(input_ptr - 1)
    <3>1. Echo(k) = Move(Now, tty_ptr - 1) BY <2>10 DEF Echo
    <3>2. input_ptr - 1 \in 0 .. input_len /\ tty_ptr - 1 = tty_ptr - input_ptr + (input_ptr - 1)
      BY <2>6, <2>10
    <3> QED BY <2>9, <2>10, <3>1, <3>2
  <2>11. CASE k = "right" /\ input_ptr < input_len /\ Cursor(input_ptr + 1)
    <3>1. Echo(k) = Move(Now, tty_ptr + 1) BY <2>11 DEF Echo
    <3>2. input_ptr + 1 \in 0 .. input_len /\ tty_ptr + 1 = tty_ptr - input_ptr + (input_ptr + 1)
      BY <2>6, <2>11
    <3> QED BY <2>9, <2>11, <3>1, <3>2
  <2>12. CASE k = "home" /\ Cursor(0)
    <3>1. Echo(k) = Move(Now, tty_ptr - input_ptr) BY <2>12 DEF Echo
    <3>2. 0 \in 0 .. input_len /\ tty_ptr - input_ptr = tty_ptr - input_ptr + 0
      BY <2>6
    <3> QED BY <2>9, <2>12, <3>1, <3>2
  <2>13. CASE k = "end" /\ Cursor(input_len)
    <3>1. Echo(k) = Move(Now, tty_ptr + (input_len - input_ptr)) BY <2>13 DEF Echo
    <3>2. /\ input_len \in 0 .. input_len
          /\ tty_ptr + (input_len - input_ptr) = tty_ptr - input_ptr + input_len
      BY <2>6
    <3> QED BY <2>9, <2>13, <3>1, <3>2
  <2>14. CASE k = "backspace" /\ MayErase
                /\ Edit(RemoveAt(history[buf], input_ptr), input_ptr - 1)
    <3>1. Echo(k) = EraseEcho BY <2>14 DEF Echo
    <3> QED BY <1>4, <2>5, <2>14, <3>1, EraseKeeps
  <2>15. CASE k = "delete" /\ input_ptr < input_len
                /\ Edit(RemoveAt(history[buf], input_ptr + 1), input_ptr)
    <3>1. Echo(k) = DeleteEcho BY <2>15 DEF Echo
    <3> QED BY <1>4, <2>5, <2>15, <3>1, DeleteKeeps
  <2>16. CASE k \in Chars /\ Edit(InsertAt(history[buf], input_ptr + 1, k), input_ptr + 1)
    <3>1. k \notin Moves BY <2>16, KeysAssumption
    <3>2. Echo(k) = TypeEcho(k) BY <3>1 DEF Echo, Moves
    <3> QED BY <1>4, <2>4, <2>5, <2>16, <3>2, TypeKeeps
  <2> QED BY <1>4, <2>7, <2>8, <2>10, <2>11, <2>12, <2>13, <2>14, <2>15, <2>16 DEF Acts
<1> QED BY <1>3, <1>4 DEF Key

\* Between the lines only the types matter.
LEMMA ShellKeeps ==
  ASSUME EditorTypeOK', acts' \in 0 .. MaxActs, mode' \in {"shell", "stop"},
         NEW s \in Screens, s.ptr < ScreenSize, Show(s),
         tty_prompt_ptr' \in 0 .. ScreenSize - 1,
         stale' \in BOOLEAN, astray' \in BOOLEAN, littered' \in BOOLEAN
  PROVE  EchoInv'
<1>1. ScreenSize \in Nat /\ Cells \in Nat /\ 3 * ScreenSize <= Cells BY Sizes
<1>2. cells' = s.cells /\ tty_ptr' = s.ptr BY DEF Show
<1>3. s.cells \in [Memory -> Glyphs] /\ s.ptr \in Nat BY ScreensAre
<1>4. s.ptr \in Memory BY <1>1, <1>3 DEF Memory
<1>5. mode' # "read" OBVIOUS
<1>6. ScreenTypeOK' BY <1>2, <1>3, <1>4 DEF ScreenTypeOK
<1> QED BY <1>5, <1>6 DEF EchoInv, Reached

\* A line starts at the cursor.
LEMMA StartKeeps ==
  ASSUME EchoInv, StartLine, acts' \in 0 .. MaxActs, mode' = "read",
         NEW s \in Screens, s.ptr < ScreenSize, Show(s),
         tty_prompt_ptr' \in 0 .. ScreenSize - 1,
         stale' = (s.ptr # tty_prompt_ptr'), astray' = FALSE,
         littered' = Littered(s.cells, s.ptr)
  PROVE  EchoInv'
<1>1. ScreenSize \in Nat /\ Cells \in Nat /\ InputSize \in Nat /\ 3 * ScreenSize <= Cells BY Sizes
<1>2. cells' = s.cells /\ tty_ptr' = s.ptr BY DEF Show
<1>3. s.cells \in [Memory -> Glyphs] /\ s.ptr \in Nat BY ScreensAre
<1>4. s.ptr \in Memory BY <1>1, <1>3 DEF Memory
<1>5. EditorTypeOK' /\ input_ptr' = 0 /\ input_len' = 0
  BY StartTypes DEF EchoInv, ScreenTypeOK
<1>6. stale' \in BOOLEAN /\ littered' \in BOOLEAN BY DEF Littered
<1>7. ScreenTypeOK' BY <1>2, <1>3, <1>4, <1>5, <1>6 DEF ScreenTypeOK
<1>8. Reached'
  <2>1. 0 <= s.ptr /\ s.ptr < ScreenSize + InputSize BY <1>1, <1>3
  <2> QED BY <1>2, <1>5, <2>1 DEF Reached
<1>9. Now'.ptr = s.ptr /\ Now'.cells = s.cells BY <1>2 DEF Now, Screen
<1>10. Len(history[buf])' = 0 BY <1>5 DEF input_len
<1>11. Fits(Now, history[buf], input_ptr)'
  <2>1. 0 <= s.ptr - 0 /\ 0 <= 0 /\ s.ptr - 0 + 0 <= ScreenSize /\ 1 .. 0 = {}
    BY <1>1, <1>3
  <2> QED BY <1>5, <1>9, <1>10, <2>1 DEF Fits
<1>12. ~stale' => tty_ptr' - input_ptr' = tty_prompt_ptr'
  <2>1. s.ptr - 0 = s.ptr BY <1>3
  <2> QED BY <1>2, <1>5, <2>1
<1>13. ~littered' => Clean(Now, history[buf], input_ptr)'
  <2>1. s.ptr - 0 + 0 = s.ptr BY <1>3
  <2>2. ~littered' => \A m \in Memory : m >= s.ptr => s.cells[m] = Blank
    BY DEF Littered
  <2> QED BY <1>5, <1>9, <1>10, <2>1, <2>2 DEF Clean
<1> QED BY <1>7, <1>8, <1>11, <1>12, <1>13 DEF EchoInv

\* What is printed on a screen whose cursor is at most a line past it.
LEMMA Printed ==
  ASSUME NEW s \in Screens, s.ptr < ScreenSize + InputSize, NEW text \in Outputs
  PROVE  /\ tty_puts(s, text) \in Screens
         /\ tty_puts(s, text).ptr < ScreenSize + InputSize
         /\ s.ptr < ScreenSize => tty_puts(s, text).ptr < ScreenSize
         /\ \A i \in Nat : i <= s.ptr /\ i <= InputSize => i <= tty_puts(s, text).ptr
<1> DEFINE w == WriteAll(s, text)
<1> DEFINE u == UpdateCursor(w)
<1>1. /\ ScreenSize \in Nat /\ Cells \in Nat /\ InputSize \in Nat /\ 3 * ScreenSize <= Cells
      /\ Width \in Nat /\ InputSize + Width <= ScreenSize /\ 2 * InputSize <= ScreenSize
      /\ 1 <= Width
  BY Sizes
<1>2. s.ptr \in Nat BY ScreensAre
<1>3. text \in Seq(Glyphs \cup {Newline}) /\ Advance(text, Len(text)) <= ScreenSize
  BY OutputsAssumption
<1>4. Advance(text, Len(text)) \in Nat
  <2>1. Len(text) \in Nat BY <1>3
  <2> QED BY <2>1, AdvanceIs
<1>5. s.ptr + Advance(text, Len(text)) < Cells BY <1>1, <1>2, <1>3, <1>4
<1>6. /\ w \in Screens /\ s.ptr <= w.ptr /\ w.ptr <= s.ptr + Advance(text, Len(text))
  BY <1>3, <1>5, TextWritten
<1> HIDE DEF w
<1>7. w.ptr \in Nat BY <1>6, ScreensAre
<1>8. /\ w.ptr < 3 * ScreenSize /\ w.ptr < 2 * ScreenSize + InputSize
      /\ s.ptr < ScreenSize => w.ptr < 2 * ScreenSize
  BY <1>1, <1>2, <1>3, <1>4, <1>6, <1>7
<1>9. /\ u \in Screens
      /\ w.ptr < ScreenSize => u = w
      /\ w.ptr >= ScreenSize => u.ptr >= ScreenSize - Width
      /\ w.ptr < 2 * ScreenSize => u.ptr < ScreenSize
      /\ w.ptr >= 2 * ScreenSize => u.ptr = w.ptr - ScreenSize
  BY <1>6, <1>8, Updated
<1> HIDE DEF u
<1>10. u.ptr \in Nat BY <1>9, ScreensAre
<1>11. u.ptr < ScreenSize + InputSize BY <1>1, <1>7, <1>8, <1>9, <1>10
<1>12. s.ptr < ScreenSize => u.ptr < ScreenSize BY <1>8, <1>9
<1>13. \A i \in Nat : i <= s.ptr /\ i <= InputSize => i <= u.ptr
  BY <1>1, <1>2, <1>6, <1>7, <1>9, <1>10
<1> QED BY <1>9, <1>11, <1>12, <1>13 DEF tty_puts, u, w

LEMMA EchoInit == ScreenInit => EchoInv
<1> SUFFICES ASSUME ScreenInit PROVE EchoInv OBVIOUS
<1>1. /\ ScreenSize \in Nat /\ Cells \in Nat /\ 3 * ScreenSize <= Cells
      /\ Width \in Nat /\ 1 <= Width /\ Width <= ScreenSize
  BY Sizes
<1>2. MaxActs \in Nat BY ScreenAssumption
<1>3. EditorTypeOK
  <2>1. Rows \in Nat /\ Rows >= 2 /\ InputSize \in Nat BY LineEditorAssumption
  <2>2. <<>> \in Seq(Chars) /\ Len(<<>>) = 0 OBVIOUS
  <2>3. 0 \in AllRows /\ 0 <= InputSize BY <2>1 DEF AllRows
  <2>4. history = [r \in AllRows |-> <<>>] BY DEF ScreenInit, EditorInit, AllRows
  <2>5. NoRow \in 0 .. NoRow /\ AllRows \subseteq 0 .. NoRow BY <2>1 DEF NoRow, AllRows
  <2>6. input_len = 0 BY <2>2, <2>3, <2>4 DEF ScreenInit, EditorInit, input_len
  <2>7. history \in [AllRows -> Seq(Chars)] /\ \A r \in AllRows : Len(history[r]) <= InputSize
    BY <2>2, <2>3, <2>4
  <2> QED BY <2>3, <2>5, <2>6, <2>7 DEF ScreenInit, EditorInit, EditorTypeOK, AllRows
<1>4. Blank \in Glyphs /\ 0 \in Memory /\ 0 \in 0 .. ScreenSize - 1 /\ 0 < ScreenSize
      /\ 0 \in 0 .. MaxActs
  BY <1>1, <1>2, GlyphsAre DEF Memory
<1>5. mode # "read" BY DEF ScreenInit
<1>6. ScreenTypeOK BY <1>3, <1>4 DEF ScreenInit, ScreenTypeOK
<1> QED BY <1>5, <1>6 DEF EchoInv, Reached

LEMMA EchoStep == EchoInv /\ [ScreenNext]_screenVars => EchoInv'
<1> SUFFICES ASSUME EchoInv, [ScreenNext]_screenVars PROVE EchoInv' OBVIOUS
<1>1. /\ ScreenSize \in Nat /\ Cells \in Nat /\ InputSize \in Nat /\ 3 * ScreenSize <= Cells
      /\ Width \in Nat /\ InputSize + Width <= ScreenSize /\ 2 * InputSize <= ScreenSize
      /\ 1 <= Width /\ 1 <= InputSize
  BY Sizes
<1>2. /\ EditorTypeOK /\ acts \in 0 .. MaxActs /\ tty_prompt_ptr \in 0 .. ScreenSize - 1
      /\ stale \in BOOLEAN /\ astray \in BOOLEAN /\ littered \in BOOLEAN
  BY DEF EchoInv, ScreenTypeOK
<1>3. /\ Now \in Screens /\ Now.ptr = tty_ptr /\ Now.cells = cells /\ tty_ptr \in Nat
      /\ tty_ptr < ScreenSize + InputSize /\ (mode # "read" => tty_ptr < ScreenSize)
  BY ScreenTyped
<1>4. Act => acts' \in 0 .. MaxActs
  <2>1. MaxActs \in Nat BY ScreenAssumption
  <2> QED BY <1>2, <2>1 DEF Act
<1>5. UNCHANGED editor => EditorTypeOK'
  BY <1>2 DEF editor, ring, EditorTypeOK, input_len
<1>6. CASE PromptRead
  <2> DEFINE s == tty_putc(Now, Prompt)
  <2>1. tty_ptr < ScreenSize BY <1>3, <1>6 DEF PromptRead
  <2>2. s \in Screens /\ s.ptr < ScreenSize
    <3>1. Prompt \in Glyphs BY GlyphsAre
    <3>2. Now.ptr < Cells BY <1>1, <1>3, <2>1
    <3> DEFINE w == WriteChar(Now, Prompt)
    <3>3. w = Screen([Now.cells EXCEPT ![Now.ptr] = Prompt], Now.ptr + 1, Now.rolled)
          /\ w \in Screens
      BY <1>3, <3>1, <3>2, CharWritten
    <3>4. w.ptr = tty_ptr + 1 BY <1>3, <3>3 DEF Screen
    <3> HIDE DEF w
    <3>5. w.ptr < 3 * ScreenSize /\ w.ptr < 2 * ScreenSize BY <1>1, <1>3, <2>1, <3>4
    <3>6. UpdateCursor(w) \in Screens BY <3>3, <3>5, Updated
    <3>7. UpdateCursor(w).ptr < ScreenSize BY <3>3, <3>5, Updated
    <3> QED BY <3>6, <3>7 DEF tty_putc, w
  <2> HIDE DEF s
  <2>3. s.ptr \in Nat BY <2>2, ScreensAre
  <2>4. Show(s) /\ tty_ptr' = s.ptr /\ cells' = s.cells BY <1>6 DEF PromptRead, Show, s
  <2>5. /\ acts' \in 0 .. MaxActs /\ StartLine /\ mode' = "read" /\ tty_prompt_ptr' = tty_ptr'
        /\ stale' = FALSE /\ astray' = FALSE /\ littered' = Littered(cells', tty_ptr')
    BY <1>4, <1>6 DEF PromptRead
  <2>6. tty_prompt_ptr' \in 0 .. ScreenSize - 1 BY <1>1, <2>2, <2>3, <2>4, <2>5
  <2>7. stale' = (s.ptr # tty_prompt_ptr') BY <2>4, <2>5
  <2>8. littered' = Littered(s.cells, s.ptr) BY <2>4, <2>5
  <2> QED BY <2>2, <2>4, <2>5, <2>6, <2>7, <2>8, StartKeeps
<1>7. CASE CommandRead
  <2>1. /\ acts' \in 0 .. MaxActs /\ StartLine /\ mode' = "read" /\ mode # "read"
        /\ stale' = (tty_ptr # tty_prompt_ptr) /\ astray' = FALSE
        /\ littered' = Littered(cells, tty_ptr)
        /\ cells' = cells /\ tty_ptr' = tty_ptr /\ tty_prompt_ptr' = tty_prompt_ptr
    BY <1>4, <1>7 DEF CommandRead
  <2>2. Now.ptr < ScreenSize /\ Show(Now) BY <1>3, <2>1 DEF Show
  <2>3. littered' = Littered(Now.cells, Now.ptr) /\ stale' = (Now.ptr # tty_prompt_ptr')
        /\ tty_prompt_ptr' \in 0 .. ScreenSize - 1
    BY <1>2, <1>3, <2>1
  <2> QED BY <1>3, <2>1, <2>2, <2>3, StartKeeps
<1>8. CASE Clear
  <2> DEFINE c == [i \in Memory |-> IF i < ScreenSize THEN Blank ELSE cells[i]]
  <2> DEFINE s == Screen(c, 0, FALSE)
  <2>1. cells' = c /\ tty_ptr' = 0 /\ acts' \in 0 .. MaxActs /\ mode = "shell"
        /\ UNCHANGED <<editor, mode, tty_prompt_ptr, ghosts>>
    BY <1>4, <1>8 DEF Clear
  <2>2. c \in [Memory -> Glyphs]
    <3>1. cells \in [Memory -> Glyphs] BY <1>3, ScreensAre
    <3> QED BY <3>1, GlyphsAre
  <2> HIDE DEF c
  <2>3. s \in Screens /\ s.ptr = 0 /\ s.cells = c BY <2>2 DEF Screens, Screen
  <2> HIDE DEF s
  <2>4. Show(s) /\ s.ptr < ScreenSize BY <1>1, <2>1, <2>3 DEF Show
  <2>5. EditorTypeOK' BY <1>5, <2>1
  <2>6. /\ mode' \in {"shell", "stop"} /\ tty_prompt_ptr' \in 0 .. ScreenSize - 1
        /\ stale' \in BOOLEAN /\ astray' \in BOOLEAN /\ littered' \in BOOLEAN
    BY <1>2, <2>1 DEF ghosts
  <2> QED BY <2>1, <2>3, <2>4, <2>5, <2>6, ShellKeeps
<1>9. CASE EndLine
  <2> DEFINE s == tty_putc(Now, Newline)
  <2>1. /\ Show(s) /\ mode' \in {"shell", "stop"}
        /\ UNCHANGED <<editor, acts, tty_prompt_ptr, ghosts>>
    BY <1>9 DEF EndLine
  <2>2. s \in Screens /\ s.ptr < ScreenSize
    <3> DEFINE w == WriteChar(Now, Newline)
    <3>1. Now.ptr < Cells BY <1>1, <1>3
    <3>2. w \in Screens /\ w.ptr <= Now.ptr + Width BY <1>3, <3>1, CharWritten
    <3> HIDE DEF w
    <3>3. w.ptr \in Nat BY <3>2, ScreensAre
    <3>4. w.ptr < 3 * ScreenSize /\ w.ptr < 2 * ScreenSize BY <1>1, <1>3, <3>2, <3>3
    <3>5. UpdateCursor(w) \in Screens BY <3>2, <3>4, Updated
    <3>6. UpdateCursor(w).ptr < ScreenSize BY <3>2, <3>4, Updated
    <3> QED BY <3>5, <3>6 DEF tty_putc, w
  <2> HIDE DEF s
  <2>3. EditorTypeOK' BY <1>5, <2>1
  <2>4. /\ acts' \in 0 .. MaxActs /\ tty_prompt_ptr' \in 0 .. ScreenSize - 1
        /\ stale' \in BOOLEAN /\ astray' \in BOOLEAN /\ littered' \in BOOLEAN
    BY <1>2, <2>1 DEF ghosts
  <2> QED BY <2>1, <2>2, <2>3, <2>4, ShellKeeps
<1>10. ASSUME NEW text \in Outputs, Output(text) PROVE EchoInv'
  <2> DEFINE s == tty_puts(Now, text)
  <2>1. /\ Show(s) /\ acts' \in 0 .. MaxActs /\ mode = "shell"
        /\ UNCHANGED <<editor, mode, tty_prompt_ptr, ghosts>>
    BY <1>4, <1>10 DEF Output
  <2>2. s \in Screens /\ s.ptr < ScreenSize
    <3>1. Now.ptr < ScreenSize /\ Now.ptr < ScreenSize + InputSize BY <1>3, <2>1
    <3> QED BY <1>3, <3>1, Printed
  <2> HIDE DEF s
  <2>3. EditorTypeOK' BY <1>5, <2>1
  <2>4. /\ mode' \in {"shell", "stop"} /\ tty_prompt_ptr' \in 0 .. ScreenSize - 1
        /\ stale' \in BOOLEAN /\ astray' \in BOOLEAN /\ littered' \in BOOLEAN
    BY <1>2, <2>1 DEF ghosts
  <2> QED BY <2>1, <2>2, <2>3, <2>4, ShellKeeps
<1>11. ASSUME NEW text \in Outputs, Intrude(text) PROVE EchoInv'
  <2> DEFINE s == tty_puts(Now, text)
  <2>1. /\ Show(s) /\ acts' \in 0 .. MaxActs /\ mode = "read" /\ astray' = TRUE
        /\ UNCHANGED <<editor, mode, tty_prompt_ptr, stale, littered>>
    BY <1>4, <1>11 DEF Intrude
  <2>2. /\ s \in Screens /\ s.ptr < ScreenSize + InputSize
        /\ \A i \in Nat : i <= Now.ptr /\ i <= InputSize => i <= s.ptr
    <3>1. Now.ptr < ScreenSize + InputSize BY <1>3
    <3> QED BY <1>3, <3>1, Printed
  <2> HIDE DEF s
  <2>3. EditorTypeOK' /\ input_ptr' = input_ptr BY <1>5, <2>1 DEF editor
  <2>4. input_ptr \in Nat /\ input_ptr <= InputSize /\ input_ptr <= Now.ptr
    <3>1. /\ input_ptr \in Nat /\ input_len \in Nat /\ input_ptr <= input_len
          /\ input_len <= InputSize
      BY <1>2, EditorTyped
    <3>2. input_ptr <= tty_ptr BY <2>1 DEF EchoInv, Reached
    <3> QED BY <1>1, <1>3, <3>1, <3>2
  <2>5. s.cells \in [Memory -> Glyphs] /\ s.ptr \in Nat BY <2>2, ScreensAre
  <2>6. s.ptr \in Memory BY <1>1, <2>2, <2>5 DEF Memory
  <2>7. cells' = s.cells /\ tty_ptr' = s.ptr BY <2>1 DEF Show
  <2>8. ScreenTypeOK' BY <1>2, <2>1, <2>3, <2>5, <2>6, <2>7 DEF ScreenTypeOK
  <2>9. Reached' BY <2>2, <2>3, <2>4, <2>7 DEF Reached
  <2> QED BY <2>1, <2>8, <2>9 DEF EchoInv
<1>12. ASSUME NEW k \in Keys, Key(k) PROVE EchoInv' BY <1>12, KeyKeeps
<1>13. CASE UNCHANGED screenVars
  BY <1>13 DEF EchoInv, ScreenTypeOK, EditorTypeOK, Reached, screenVars, editor, ring, ghosts,
               input_len, Now, Screen, Fits, Clean
<1> QED BY <1>6, <1>7, <1>8, <1>9, <1>10, <1>11, <1>12, <1>13 DEF ScreenNext

LEMMA EchoFits == EchoInv => EchoIsLine
<1> SUFFICES ASSUME EchoInv PROVE EchoIsLine OBVIOUS
<1>1. ScreenTypeOK BY DEF EchoInv
<1>2. ASSUME mode = "read", ~astray
      PROVE  /\ \A j \in 1 .. input_len : cells[Start + j - 1] = history[buf][j]
             /\ (~littered /\ Start + input_len < ScreenSize) => cells[Start + input_len] = Blank
  <2>1. /\ Fits(Now, history[buf], input_ptr)
        /\ ~littered => Clean(Now, history[buf], input_ptr)
    BY <1>2 DEF EchoInv
  <2>2. /\ Now.ptr = tty_ptr /\ Now.cells = cells /\ Len(history[buf]) = input_len
        /\ tty_ptr \in Nat
    BY ScreenTyped
  <2>3. input_ptr \in Nat /\ input_len \in Nat
    BY <1>1, EditorTyped DEF ScreenTypeOK
  <2>4. \A j \in 1 .. input_len : cells[Start + j - 1] = history[buf][j]
    BY <2>1, <2>2 DEF Fits, Start
  <2>5. ASSUME ~littered, Start + input_len < ScreenSize
        PROVE  cells[Start + input_len] = Blank
    <3>1. ScreenSize \in Nat /\ Cells \in Nat /\ 3 * ScreenSize <= Cells BY Sizes
    <3>2. 0 <= Start BY <2>1, <2>2 DEF Fits, Start
    <3>3. Start + input_len \in Memory BY <2>2, <2>3, <2>5, <3>1, <3>2 DEF Memory, Start
    <3>4. Start + input_len >= Now.ptr - input_ptr + Len(history[buf])
      BY <2>2, <2>3 DEF Start
    <3>5. Clean(Now, history[buf], input_ptr) BY <2>1, <2>5
    <3> QED BY <2>2, <3>3, <3>4, <3>5 DEF Clean
  <2> QED BY <2>4, <2>5
<1> QED BY <1>1, <1>2 DEF EchoIsLine

THEOREM EchoShowsTheLine == ScreenSpec => []EchoIsLine
<1>1. ScreenSpec => []EchoInv BY EchoInit, EchoStep, PTL DEF ScreenSpec
<1> QED BY <1>1, EchoFits, PTL

=============================================================================
