----------------------------- MODULE RtlProofs ------------------------------
(***************************************************************************)
(* The driver follows the card, for every size of the ring and all lengths *)
(* of packets: places are measured from where the card reads CAPR, so that *)
(* the packets not taken stand in order between there and the card's own   *)
(* pointer, and the wrap of the ring does not matter.                      *)
(*                                                                         *)
(* The parsers of what it receives read behind the copy of a frame exactly *)
(* if it is an IPv6 frame that ends before its headers, and a screen shows *)
(* what the sender wrote in every row but those the code is known to print *)
(* wrong: a row is followed from the byte of the structure it prints to    *)
(* the byte of the frame a parser put there.                               *)
(***************************************************************************)
EXTENDS Rtl8139, Frames, TLAPS

Packets == [at : Offsets, len : Lengths, kind : Kinds]

\* Where the card reads, and how far from there it would come to x.
ReadPtr == (capr + 16) % RxSize
Dist(x) == IF x >= ReadPtr THEN x - ReadPtr ELSE x + RxSize - ReadPtr

\* The packet after the i-th one not taken, or where it will be written.
NextAt(i) == IF i < Len(unread) THEN unread[i + 1].at ELSE wr

Typed ==
  /\ up \in {"off", "enabled", "installed"}
  /\ pc \in {"idle", "stub", "status", "ack", "recv", "capr"}
  /\ status \in BOOLEAN /\ rok \in BOOLEAN /\ array_freed \in BOOLEAN
  /\ wr \in Offsets /\ ReadPtr \in Offsets /\ capr \in Nat
  /\ unread \in Seq(Packets)
  /\ DOMAIN rx = Offsets
  /\ missed \in Nat

\* A handler that goes on found ROK set, and it is set until acknowledged.
Handling ==
  /\ pc \in {"status", "ack"} => rok
  /\ pc = "ack" => status

Chained ==
  \A i \in 1 .. Len(unread) : NextAt(i) = (unread[i].at + Extent(unread[i].len)) % RxSize
Ordered ==
  /\ \A i \in 1 .. Len(unread) : Dist(unread[i].at) < Dist(wr)
  /\ \A i, j \in 1 .. Len(unread) : i < j => Dist(unread[i].at) < Dist(unread[j].at)

Inv ==
  /\ Typed /\ Handling /\ LagIsCoalesced
  /\ InSync /\ UnreadIntact /\ Chained /\ Ordered

-----------------------------------------------------------------------------
\* Arithmetic of the ring.
LEMMA ModOnce ==
  ASSUME NEW R \in Nat \ {0}, NEW x \in 0 .. 2 * R - 1
  PROVE  x % R = IF x < R THEN x ELSE x - R
OBVIOUS

LEMMA ModFour ==
  ASSUME NEW x \in Nat, x % 4 = 0, NEW n \in Lengths
  PROVE  /\ ((x + (n + 4) + 3) \div 4) * 4 = x + Extent(n)
         /\ Extent(n) \in Nat /\ Extent(n) % 4 = 0
         /\ 4 + n <= Extent(n) /\ Extent(n) < RxSize
BY Rtl8139Assumption, ExtentAssumption DEF Extent

\* One packet further on the ring.
LEMMA Plus ==
  ASSUME NEW x \in Offsets, NEW n \in Lengths
  PROVE  /\ (x + Extent(n)) % RxSize
              = IF x + Extent(n) < RxSize THEN x + Extent(n) ELSE x + Extent(n) - RxSize
         /\ (x + Extent(n)) % RxSize \in Offsets
<1>1. RxSize \in Nat \ {0} /\ x \in Nat /\ x < RxSize
  BY Rtl8139Assumption DEF Offsets
<1>2. x % 4 = 0 /\ RxSize % 4 = 0
  BY Rtl8139Assumption DEF Offsets
<1>3. Extent(n) \in Nat /\ Extent(n) < RxSize /\ Extent(n) % 4 = 0
  BY <1>1, <1>2, ModFour
<1> DEFINE y == x + Extent(n)
<1>4. y \in 0 .. 2 * RxSize - 1 /\ RxSize \in Nat \ {0}
  BY <1>1, <1>3
<1>5. y % RxSize = IF y < RxSize THEN y ELSE y - RxSize
  <2> HIDE DEF y
  <2> QED BY <1>4
<1>6. (IF y < RxSize THEN y ELSE y - RxSize) \in Offsets
  BY <1>1, <1>2, <1>3 DEF Offsets
<1>7. y % RxSize \in Offsets
  <2> HIDE DEF y
  <2> QED BY ONLY <1>5, <1>6
<1>8. (x + Extent(n)) % RxSize
        = IF x + Extent(n) < RxSize THEN x + Extent(n) ELSE x + Extent(n) - RxSize
  BY <1>1, <1>3, <1>5
<1>9. (x + Extent(n)) % RxSize \in Offsets
  BY ONLY <1>7 DEF y
<1> QED BY ONLY <1>8, <1>9

\* What the card makes of a CAPR that was written for ptr.
LEMMA CaprRead ==
  ASSUME NEW ptr \in Offsets
  PROVE  CaprOf(ptr) \in Nat /\ (CaprOf(ptr) + 16) % RxSize = ptr
<1> DEFINE k == 65536 \div RxSize
<1>1. RxSize \in Nat \ {0} /\ 65536 % RxSize = 0
  BY Rtl8139Assumption
<1>2. ptr \in Nat /\ ptr < RxSize
  BY <1>1 DEF Offsets
<1>3. 65536 = RxSize * k /\ k \in Nat
  BY <1>1
<1>4. k \in Nat
  BY <1>3
<1>5. RxSize <= 65536
  BY <1>1
<1> HIDE DEF k
<1>6. RxSize \in Nat \ {0}
  BY <1>1
<1>7. ptr < 65536
  BY <1>2, <1>5, <1>6
<1>8. CASE ptr < 16
  <2>1. CaprOf(ptr) = ptr + 65520 BY <1>2, <1>8 DEF CaprOf
  <2>2. CaprOf(ptr) + 16 = ptr + 65536 BY <1>2, <2>1
  <2>3. (ptr + RxSize * k) % RxSize = ptr BY <1>2, <1>6, <1>4
  <2>4. CaprOf(ptr) \in Nat BY <1>2, <1>8, <2>1
  <2>5. (CaprOf(ptr) + 16) % RxSize = ptr BY <1>3, <2>2, <2>3
  <2> QED BY <2>4, <2>5
<1>9. CASE ptr >= 16
  <2>1. CaprOf(ptr) = ptr - 16 BY <1>2, <1>7, <1>9 DEF CaprOf
  <2>2. CaprOf(ptr) \in Nat BY <1>2, <1>7, <1>9, <2>1
  <2>3. CaprOf(ptr) + 16 = ptr BY <1>2, <2>1
  <2>4. ptr % RxSize = ptr BY <1>2, <1>6
  <2> QED BY <2>2, <2>3, <2>4
<1> QED BY <1>2, <1>8, <1>9

\* The room the card sees, and what fits in it.
LEMMA FitsBehind ==
  ASSUME ReadPtr \in Offsets, wr \in Offsets, NEW n \in Lengths, Fits(n)
  PROVE  Dist(wr) + Extent(n) < RxSize
<1>1. /\ RxSize \in Nat \ {0} /\ wr \in 0 .. RxSize - 1 /\ ReadPtr \in 0 .. RxSize - 1
      /\ Extent(n) \in Nat /\ Extent(n) < RxSize
  BY Rtl8139Assumption, ModFour DEF Offsets
<1> DEFINE x == RxSize + ReadPtr - wr
<1>2. x \in 0 .. 2 * RxSize - 1
  BY <1>1
<1>3. Room = IF x < RxSize THEN x ELSE x - RxSize
  <2> DEFINE r == (capr + 16) % RxSize
  <2>1. ReadPtr = r
    BY DEF ReadPtr
  <2>2. Room = ((RxSize + r) - wr) % RxSize
    BY DEF Room
  <2> HIDE DEF r
  <2>3. Room = x % RxSize
    BY <1>1, <2>1, <2>2
  <2> HIDE DEF x
  <2> QED BY <1>1, <1>2, <2>3, ModOnce
<1>4. Room = 0 \/ Extent(n) < Room
  BY DEF Fits
<1>5. CASE wr = ReadPtr
  <2>1. Dist(wr) = 0 BY <1>1, <1>5 DEF Dist
  <2> QED BY <1>1, <2>1
<1>6. CASE wr > ReadPtr
  <2>1. Dist(wr) = wr - ReadPtr BY <1>1, <1>6 DEF Dist
  <2>2. Room = RxSize + ReadPtr - wr /\ Room # 0 BY <1>1, <1>3, <1>6
  <2> QED BY <1>1, <1>4, <2>1, <2>2
<1>7. CASE wr < ReadPtr
  <2>1. Dist(wr) = wr + RxSize - ReadPtr BY <1>1, <1>7 DEF Dist
  <2>2. Room = ReadPtr - wr /\ Room # 0 BY <1>1, <1>3, <1>7
  <2> QED BY <1>1, <1>4, <2>1, <2>2
<1> QED BY <1>1, <1>5, <1>6, <1>7

-----------------------------------------------------------------------------
LEMMA InitInv == ASSUME Init PROVE Inv
<1>1. 0 \in Offsets /\ RxSize \in Nat \ {0}
  BY Rtl8139Assumption DEF Offsets
<1>2. capr = CaprOf(0)
  BY DEF Init, CaprOf
<1>3. capr \in Nat /\ ReadPtr = 0
  BY <1>1, <1>2, CaprRead DEF ReadPtr
<1> QED BY <1>1, <1>3
     DEF Init, Inv, Typed, Handling, LagIsCoalesced, Owed, InSync, UnreadIntact,
         Chained, Ordered, NextAt, Packets

\* Steps that touch neither the ring nor the registers that lead through it.
LEMMA RingUntouched ==
  ASSUME Inv, UNCHANGED <<current_packet_ptr, capr, wr, rx, unread>>
  PROVE  (InSync /\ UnreadIntact /\ Chained /\ Ordered)' /\ ReadPtr' = ReadPtr
BY DEF Inv, InSync, UnreadIntact, Chained, Ordered, NextAt, Dist, ReadPtr

LEMMA ControlInv ==
  ASSUME Inv, Enable \/ Install \/ StubEnter \/ StubReturn \/ IrqEnter \/ IrqStatus \/ IrqAck \/ UNCHANGED vars
  PROVE  Inv'
<1>1. UNCHANGED <<current_packet_ptr, capr, wr, rx, unread>>
  BY DEF Enable, Install, StubEnter, StubReturn, IrqEnter, IrqStatus, IrqAck, card, vars
<1>2. (InSync /\ UnreadIntact /\ Chained /\ Ordered)' /\ ReadPtr' = ReadPtr
  BY <1>1, RingUntouched
<1>3. (Typed /\ Handling)'
  BY <1>1, <1>2 DEF Inv, Typed, Handling, Enable, Install, StubEnter, StubReturn, IrqEnter, IrqStatus, IrqAck, card, vars, headers
<1>4. LagIsCoalesced'
  BY <1>1 DEF Inv, Typed, Handling, LagIsCoalesced, Owed, Enable, Install, StubEnter, StubReturn, IrqEnter, IrqStatus, IrqAck, card, vars
<1> QED BY <1>2, <1>3, <1>4 DEF Inv

\* The card writes a packet behind those not taken and over none of them.
LEMMA ArriveInv ==
  ASSUME Inv, NEW n \in Lengths, NEW k \in Kinds, Arrive(n, k)
  PROVE  Inv'
<1> DEFINE last == Len(unread) + 1
<1>1. RxSize \in Nat \ {0}
  BY Rtl8139Assumption
<1>2. /\ unread \in Seq(Packets) /\ wr \in Offsets /\ ReadPtr \in Offsets /\ Packet(wr, n, k) \in Packets
      /\ UNCHANGED <<up, pc, status, current_packet_ptr, array_freed, capr>>
      /\ unread' = Append(unread, Packet(wr, n, k))
      /\ wr' = (wr + Extent(n)) % RxSize
  BY DEF Inv, Typed, Arrive, Packets, Packet, headers
<1>3. /\ unread' \in Seq(Packets) /\ Len(unread') = last /\ unread'[last] = Packet(wr, n, k)
      /\ \A i \in 1 .. Len(unread) : unread'[i] = unread[i]
      /\ Len(unread) \in Nat
  BY <1>2
<1>4. /\ wr' \in Offsets
      /\ wr' = IF wr + Extent(n) < RxSize THEN wr + Extent(n) ELSE wr + Extent(n) - RxSize
  BY <1>2, Plus
<1>5. Dist(wr) + Extent(n) < RxSize
  BY <1>2, FitsBehind DEF Arrive
<1>6. Extent(n) \in Nat /\ 4 + n <= Extent(n) /\ n \in Nat
  BY <1>2, Rtl8139Assumption, ModFour DEF Offsets
<1>7. ReadPtr' = ReadPtr /\ \A x : Dist(x)' = Dist(x)
  BY <1>2 DEF ReadPtr, Dist
<1>8. /\ wr \in 0 .. RxSize - 1 /\ wr' \in 0 .. RxSize - 1 /\ ReadPtr \in 0 .. RxSize - 1
      /\ \A i \in 1 .. Len(unread) : unread[i].at \in Offsets /\ unread[i].at \in 0 .. RxSize - 1
  <2>1. \A i \in 1 .. Len(unread) : unread[i] \in Packets
    BY <1>2
  <2>2. \A o \in Offsets : o \in 0 .. RxSize - 1
    BY <1>1 DEF Offsets
  <2> QED BY <1>2, <1>4, <2>1, <2>2 DEF Packets
<1>9. Dist(wr') = Dist(wr) + Extent(n)
  BY <1>1, <1>4, <1>5, <1>6, <1>8, SMTT(30) DEF Dist
<1>10. Typed'
  BY <1>2, <1>3, <1>4, <1>7 DEF Inv, Typed, Arrive
<1>11. (Handling /\ LagIsCoalesced)'
  BY <1>2, <1>3 DEF Inv, Typed, Handling, LagIsCoalesced, Owed, Arrive
<1>12. InSync'
  BY <1>2, <1>3 DEF Inv, InSync, Packet
<1>13. UnreadIntact'
  <2>1. rx'[wr] = Packet(wr, n, k)
    BY <1>2 DEF Arrive
  <2>2. ASSUME NEW i \in 1 .. Len(unread)
        PROVE  rx'[unread[i].at] = unread[i]
    <3> DEFINE o == unread[i].at
    <3>1. o \in Offsets /\ rx[o] = unread[i] /\ o \in 0 .. RxSize - 1
      BY <1>8 DEF Inv, UnreadIntact
    <3>2. Dist(o) < Dist(wr)
      BY DEF Inv, Ordered
    <3> HIDE DEF o
    <3>3. ~(wr <= o /\ o < wr + 4 + n)
      BY <1>1, <1>5, <1>6, <1>8, <3>1, <3>2 DEF Dist
    <3>4. o # wr /\ ~(wr < o /\ o < wr + 4 + n)
      BY <1>6, <1>8, <3>1, <3>3
    <3>5. rx'[o] = rx[o]
      BY <3>1, <3>4 DEF Arrive
    <3> QED BY <3>1, <3>5 DEF o
  <2> QED BY <1>3, <2>1, <2>2 DEF UnreadIntact, Packet
<1>14. Chained'
  <2> DEFINE Next2(i) == IF i < Len(unread') THEN unread'[i + 1].at ELSE wr'
  <2>1. Next2(last) = (unread'[last].at + Extent(unread'[last].len)) % RxSize
    BY <1>2, <1>3 DEF Packet
  <2>2. ASSUME NEW i \in 1 .. Len(unread)
        PROVE  Next2(i) = NextAt(i)
    BY <1>2, <1>3 DEF NextAt, Packet
  <2>3. \A i \in 1 .. Len(unread) : NextAt(i) = (unread[i].at + Extent(unread[i].len)) % RxSize
    BY DEF Inv, Chained
  <2> HIDE DEF Next2
  <2>4. \A i \in 1 .. Len(unread) : Next2(i) = (unread'[i].at + Extent(unread'[i].len)) % RxSize
    BY <1>3, <2>2, <2>3
  <2>5. \A i \in 1 .. Len(unread') : i = last \/ i \in 1 .. Len(unread)
    BY <1>3
  <2>6. \A i \in 1 .. Len(unread') : Next2(i) = (unread'[i].at + Extent(unread'[i].len)) % RxSize
    BY <2>1, <2>4, <2>5
  <2> QED BY <2>6 DEF Chained, NextAt, Next2
<1>15. Ordered'
  <2>1. \A i \in 1 .. Len(unread) : Dist(unread[i].at) < Dist(wr)
    BY DEF Inv, Ordered
  <2>2. \A i, j \in 1 .. Len(unread) : i < j => Dist(unread[i].at) < Dist(unread[j].at)
    BY DEF Inv, Ordered
  <2>3. Dist(wr) \in Nat /\ \A i \in 1 .. Len(unread) : Dist(unread[i].at) \in Nat
    BY <1>1, <1>8 DEF Dist
  <2>4. unread'[last].at = wr
    BY <1>3 DEF Packet
  <2>5. \A i \in 1 .. Len(unread') : Dist(unread'[i].at) < Dist(wr')
    <3>1. Dist(unread'[last].at) < Dist(wr')
      BY <1>6, <1>9, <2>3, <2>4
    <3>2. ASSUME NEW i \in 1 .. Len(unread) PROVE Dist(unread'[i].at) < Dist(wr')
      BY <1>3, <1>6, <1>9, <2>1, <2>3
    <3>3. \A i \in 1 .. last : i = last \/ i \in 1 .. Len(unread)
      BY <1>3
    <3> QED BY <1>3, <3>1, <3>2, <3>3
  <2>6. \A i, j \in 1 .. Len(unread') : i < j => Dist(unread'[i].at) < Dist(unread'[j].at)
    BY <1>3, <2>1, <2>2, <2>4
  <2> QED BY <1>7, <2>5, <2>6 DEF Ordered
<1> QED BY <1>10, <1>11, <1>12, <1>13, <1>14, <1>15 DEF Inv

\* receive_packet takes the oldest packet and comes to the one behind it.
LEMMA ReceiveInv ==
  ASSUME Inv, Receive
  PROVE  Inv'
<1> DEFINE first == unread[1]
<1>1. /\ UNCHANGED <<up, status, capr, rok, wr, rx, missed>>
      /\ pc = "recv" /\ pc' = "capr"
      /\ unread' = Tail(unread)
      /\ current_packet_ptr' = Advance(rx[current_packet_ptr].len)
  BY DEF Receive, card
<1>2. unread \in Seq(Packets) /\ Len(unread) > 0
  BY <1>1 DEF Inv, Typed, LagIsCoalesced, Owed
<1>3. /\ unread # <<>> /\ first \in Packets
      /\ unread' \in Seq(Packets) /\ Len(unread') = Len(unread) - 1 /\ Len(unread) \in Nat
      /\ \A i \in 1 .. Len(unread') : unread'[i] = unread[i + 1] /\ i + 1 \in 1 .. Len(unread)
  BY <1>1, <1>2
<1>4. ReadPtr' = ReadPtr /\ \A x : Dist(x)' = Dist(x)
  BY <1>1 DEF ReadPtr, Dist
<1>5. (Typed /\ Handling /\ LagIsCoalesced)'
  <2>1. array_freed' \in BOOLEAN
    BY DEF Inv, Typed, Receive, Store
  <2> QED BY <1>1, <1>3, <1>4, <2>1 DEF Inv, Typed, Handling, LagIsCoalesced, Owed
<1>6. InSync'
  <2>1. current_packet_ptr = first.at /\ rx[first.at] = first
    BY <1>3 DEF Inv, InSync, UnreadIntact
  <2>2. first.at \in Offsets /\ first.len \in Lengths
    BY <1>3 DEF Packets
  <2>3. first.at \in Nat /\ first.at % 4 = 0
    BY <2>2, Rtl8139Assumption DEF Offsets
  <2>4. current_packet_ptr' = (first.at + Extent(first.len)) % RxSize
    BY <1>1, <2>1, <2>2, <2>3, ModFour DEF Advance
  <2>5. NextAt(1) = (first.at + Extent(first.len)) % RxSize
    BY <1>2, <1>3 DEF Inv, Chained
  <2>6. NextAt(1) = IF unread' = <<>> THEN wr ELSE unread'[1].at
    <3>1. CASE Len(unread) = 1
      BY <1>3, <3>1 DEF NextAt
    <3>2. CASE Len(unread) > 1
      BY <1>3, <3>2 DEF NextAt
    <3> QED BY <1>2, <1>3, <3>1, <3>2
  <2> QED BY <1>1, <1>2, <2>4, <2>5, <2>6 DEF InSync
<1>7. UnreadIntact'
  BY <1>1, <1>3 DEF Inv, UnreadIntact
<1>8. Chained'
  <2>1. ASSUME NEW i \in 1 .. Len(unread')
        PROVE  (IF i < Len(unread') THEN unread'[i + 1].at ELSE wr') = NextAt(i + 1)
    BY <1>1, <1>3 DEF NextAt
  <2>2. ASSUME NEW i \in 1 .. Len(unread')
        PROVE  NextAt(i + 1) = (unread'[i].at + Extent(unread'[i].len)) % RxSize
    BY <1>3 DEF Inv, Chained
  <2> QED BY <2>1, <2>2 DEF Chained, NextAt
<1>9. Ordered'
  BY <1>1, <1>3, <1>4 DEF Inv, Ordered
<1> QED BY <1>5, <1>6, <1>7, <1>8, <1>9 DEF Inv

\* The card's read pointer comes to the oldest packet, which was the nearest.
LEMMA WriteCaprInv ==
  ASSUME Inv, WriteCapr
  PROVE  Inv'
<1> DEFINE ptr == current_packet_ptr
<1>1. RxSize \in Nat \ {0}
  BY Rtl8139Assumption
<1>2. /\ UNCHANGED <<up, status, current_packet_ptr, array_freed, card, unread>>
      /\ pc = "capr" /\ pc' = "idle" /\ capr' = CaprOf(ptr)
  BY DEF WriteCapr, headers
<1>3. /\ unread \in Seq(Packets) /\ wr \in Offsets /\ ReadPtr \in Offsets /\ Len(unread) \in Nat
      /\ \A i \in 1 .. Len(unread) : unread[i].at \in Offsets
  <2>1. unread \in Seq(Packets) /\ wr \in Offsets /\ ReadPtr \in Offsets
    BY DEF Inv, Typed
  <2>2. \A i \in 1 .. Len(unread) : unread[i] \in Packets
    BY <2>1
  <2> QED BY <2>1, <2>2 DEF Packets
<1>4. ptr \in Offsets
  BY <1>3 DEF Inv, InSync
<1>5. capr' \in Nat /\ ReadPtr' = ptr
  BY <1>2, <1>4, CaprRead DEF ReadPtr
<1>6. (Typed /\ Handling /\ LagIsCoalesced)'
  BY <1>2, <1>4, <1>5 DEF Inv, Typed, Handling, LagIsCoalesced, Owed, card
<1>7. (InSync /\ UnreadIntact /\ Chained)'
  BY <1>2 DEF Inv, InSync, UnreadIntact, Chained, NextAt, card
<1>8. \A o \in Offsets : o \in 0 .. RxSize - 1
  BY <1>1 DEF Offsets
<1> DEFINE Past(o) == IF o >= ptr THEN o - ptr ELSE o + RxSize - ptr
<1>9. ASSUME NEW o \in Offsets, Dist(ptr) <= Dist(o)
      PROVE  Past(o) = Dist(o) - Dist(ptr)
  <2>1. o \in 0 .. RxSize - 1 /\ ptr \in 0 .. RxSize - 1 /\ ReadPtr \in 0 .. RxSize - 1
    BY <1>3, <1>4, <1>8
  <2> HIDE DEF ptr
  <2> QED BY <1>1, <1>9, <2>1 DEF Dist
<1>10. /\ Dist(ptr) <= Dist(wr)
      /\ \A i \in 1 .. Len(unread) : Dist(ptr) <= Dist(unread[i].at)
  <2>1. \A o \in Offsets : Dist(o) \in Nat
    BY <1>1, <1>3, <1>8 DEF Dist
  <2>2. CASE unread = <<>>
    BY <1>3, <2>1, <2>2 DEF Inv, InSync
  <2>3. CASE unread # <<>>
    <3>1. ptr = unread[1].at /\ 1 \in 1 .. Len(unread)
      BY <1>3, <2>3 DEF Inv, InSync
    <3>2. Dist(ptr) < Dist(wr)
      BY <3>1 DEF Inv, Ordered
    <3>3. ASSUME NEW i \in 1 .. Len(unread) PROVE i = 1 \/ Dist(ptr) < Dist(unread[i].at)
      BY <1>3, <3>1 DEF Inv, Ordered
    <3> QED BY <1>3, <1>4, <2>1, <3>1, <3>2, <3>3
  <2> QED BY <2>2, <2>3
<1>11. Ordered'
  <2>1. \A o \in Offsets : Dist(o) \in Nat
    BY <1>1, <1>3, <1>8 DEF Dist
  <2> HIDE DEF Past
  <2>2. Past(wr) = Dist(wr) - Dist(ptr)
    BY <1>3, <1>9, <1>10
  <2>3. \A i \in 1 .. Len(unread) : Past(unread[i].at) = Dist(unread[i].at) - Dist(ptr)
    BY <1>3, <1>9, <1>10
  <2>4. /\ \A i \in 1 .. Len(unread) : Past(unread[i].at) < Past(wr)
        /\ \A i, j \in 1 .. Len(unread) : i < j => Past(unread[i].at) < Past(unread[j].at)
    BY <1>3, <1>4, <2>1, <2>2, <2>3, SMTT(30) DEF Inv, Ordered
  <2> QED BY <1>2, <1>5, <2>4 DEF Ordered, Dist, Past, card
<1> QED BY <1>6, <1>7, <1>11 DEF Inv

LEMMA NextInv == ASSUME Inv, [Next]_vars PROVE Inv'
BY ControlInv, ArriveInv, ReceiveInv, WriteCaprInv DEF Next, StubStep, HandlerStep

\* For every size of the ring, all lengths and any interleaving of the card
\* with the handler, driver and card agree where the packets are.
THEOREM DriverInSync == Spec => []InSync
<1>1. Init => Inv BY InitInv
<1>2. Inv /\ [Next]_vars => Inv' BY NextInv
<1>3. Inv => InSync BY DEF Inv
<1> QED BY <1>1, <1>2, <1>3, PTL DEF Spec

\* The card never writes over a packet that was not taken.
THEOREM UnreadStaysIntact == Spec => []UnreadIntact
<1>1. Init => Inv BY InitInv
<1>2. Inv /\ [Next]_vars => Inv' BY NextInv
<1>3. Inv => UnreadIntact BY DEF Inv
<1> QED BY <1>1, <1>2, <1>3, PTL DEF Spec

\* The driver lags by exactly the packets that came while ROK was set.
THEOREM LagIsExact == Spec => []LagIsCoalesced
<1>1. Init => Inv BY InitInv
<1>2. Inv /\ [Next]_vars => Inv' BY NextInv
<1>3. Inv => LagIsCoalesced BY DEF Inv
<1> QED BY <1>1, <1>2, <1>3, PTL DEF Spec

-----------------------------------------------------------------------------
\* The ring of headers.
Entries == Kinds \cup {Unset, Clobbered}

HeadersTyped ==
  /\ firstHeader \in Slots /\ nHeaders \in 0 .. NHeaders
  /\ ethHeaders \in [Slots -> Entries]
  /\ log \in Seq(Kinds)
  /\ array_freed \in BOOLEAN

RingInv == Inv /\ HeadersTyped /\ RingOrder

LEMMA HeaderIndex ==
  ASSUME NEW f \in Slots, NEW i \in Slots
  PROVE  /\ (f + i) % NHeaders = IF f + i < NHeaders THEN f + i ELSE f + i - NHeaders
         /\ (f + i) % NHeaders \in Slots
<1> DEFINE y == f + i
<1>1. NHeaders \in Nat \ {0} /\ f \in 0 .. NHeaders - 1 /\ i \in 0 .. NHeaders - 1
  BY Rtl8139Assumption DEF Slots
<1>2. y \in 0 .. 2 * NHeaders - 1
  BY <1>1
<1>3. y % NHeaders = IF y < NHeaders THEN y ELSE y - NHeaders
  <2> HIDE DEF y
  <2> QED BY <1>1, <1>2
<1>4. (f + i) % NHeaders = IF f + i < NHeaders THEN f + i ELSE f + i - NHeaders
  BY <1>1, <1>3
<1> QED BY <1>1, <1>4 DEF Slots

\* A copied frame leaves an entry as it is, unless the array is free.
LEMMA CopySpares ==
  ASSUME NEW array \in Copied(ethHeaders, array_freed), ethHeaders \in [Slots -> Entries]
  PROVE  /\ array \in [Slots -> Entries]
         /\ \A o \in Slots : array[o] = ethHeaders[o] \/ (array_freed /\ array[o] = Clobbered)
BY DEF Copied, Entries

LEMMA StoreOrder ==
  ASSUME RingInv, Receive
  PROVE  (HeadersTyped /\ RingOrder)'
<1> DEFINE k == Head(unread).kind
<1> DEFINE N == NHeaders
<1>1. N \in Nat \ {0} /\ Slots = 0 .. N - 1
  BY Rtl8139Assumption DEF Slots
<1>2. k \in Kinds /\ rx[current_packet_ptr].kind = k
  <2>1. unread \in Seq(Packets) /\ Len(unread) > 0
    BY DEF RingInv, Inv, Typed, LagIsCoalesced, Owed, Receive
  <2>2. unread # <<>> /\ Head(unread) = unread[1] /\ unread[1] \in Packets
    BY <2>1
  <2>3. rx[unread[1].at] = unread[1]
    BY <2>1 DEF RingInv, Inv, UnreadIntact
  <2> QED BY <2>2, <2>3 DEF RingInv, Inv, InSync, Packets
<1>3. PICK array \in Copied(ethHeaders, array_freed) : Store(k, array)
  BY <1>2 DEF Receive
<1>4. /\ array \in [Slots -> Entries] /\ k \in Entries
      /\ \A o \in Slots : array[o] = ethHeaders[o] \/ (array_freed /\ array[o] = Clobbered)
  BY <1>2, CopySpares DEF RingInv, HeadersTyped, Entries
<1>5. /\ firstHeader \in Slots /\ nHeaders \in 0 .. N /\ nHeaders = Len(log) /\ log \in Seq(Kinds)
      /\ \A i \in 0 .. nHeaders - 1 :
           \/ ethHeaders[getHeaderIndex(i)] = log[i + 1]
           \/ array_freed /\ ethHeaders[getHeaderIndex(i)] = Clobbered
  BY DEF RingInv, HeadersTyped, RingOrder
<1>6. log' = LastOf(Append(log, k))
  BY DEF Receive
<1>7. \A i \in Slots : getHeaderIndex(i) \in Slots
         /\ getHeaderIndex(i) = IF firstHeader + i < N THEN firstHeader + i ELSE firstHeader + i - N
  BY <1>5, HeaderIndex DEF getHeaderIndex
<1>8. CASE nHeaders # N
  <2>1. /\ nHeaders' = nHeaders + 1 /\ firstHeader' = firstHeader /\ array_freed' = array_freed
        /\ ethHeaders' = [array EXCEPT ![getHeaderIndex(nHeaders)] = k]
    BY <1>3, <1>8 DEF Store
  <2>2. log' = Append(log, k)
    BY <1>1, <1>5, <1>6, <1>8 DEF LastOf
  <2>3. nHeaders \in Slots
    BY <1>1, <1>5, <1>8
  <2>4. HeadersTyped'
    <3>1. ethHeaders' \in [Slots -> Entries]
      BY <1>4, <2>1
    <3>2. log' \in Seq(Kinds) /\ nHeaders' \in 0 .. N
      BY <1>1, <1>2, <1>5, <1>8, <2>1, <2>2
    <3> QED BY <1>5, <2>1, <3>1, <3>2 DEF RingInv, HeadersTyped
  <2>5. ethHeaders'[getHeaderIndex(nHeaders)] = log'[nHeaders + 1]
    BY <1>4, <1>5, <1>7, <2>1, <2>2, <2>3
  <2>6. ASSUME NEW i \in 0 .. nHeaders - 1
        PROVE  \/ ethHeaders'[getHeaderIndex(i)] = log'[i + 1]
               \/ array_freed /\ ethHeaders'[getHeaderIndex(i)] = Clobbered
    <3>1. i \in Slots /\ i # nHeaders /\ i \in Nat
      BY <1>1, <1>5
    <3>2. i \in Slots /\ getHeaderIndex(i) # getHeaderIndex(nHeaders)
      <4>1. getHeaderIndex(i) = IF firstHeader + i < N THEN firstHeader + i ELSE firstHeader + i - N
        BY <1>7, <3>1
      <4>2. getHeaderIndex(nHeaders) = IF firstHeader + nHeaders < N THEN firstHeader + nHeaders
                                       ELSE firstHeader + nHeaders - N
        BY <1>7, <2>3
      <4> QED BY <1>1, <1>5, <2>3, <3>1, <4>1, <4>2
    <3>3. ethHeaders'[getHeaderIndex(i)] = array[getHeaderIndex(i)]
      BY <1>4, <1>7, <2>1, <3>2
    <3>4. log'[i + 1] = log[i + 1]
      BY <1>5, <2>2
    <3> QED BY <1>4, <1>5, <1>7, <3>2, <3>3, <3>4
  <2>7. \A i \in 0 .. nHeaders' - 1 : i = nHeaders \/ i \in 0 .. nHeaders - 1
    BY <1>1, <1>5, <2>1
  <2>8. \A i : getHeaderIndex(i)' = getHeaderIndex(i)
    BY <2>1 DEF getHeaderIndex
  <2>9. nHeaders' = Len(log')
    BY <1>5, <2>1, <2>2
  <2> QED BY <2>1, <2>4, <2>5, <2>6, <2>7, <2>9 DEF RingOrder, getHeaderIndex
<1>9. CASE nHeaders = N
  <2>1. /\ nHeaders' = N /\ firstHeader' = (firstHeader + 1) % N
        /\ array_freed' = (array_freed \/ FreesArray)
        /\ ethHeaders' = [array EXCEPT ![(firstHeader' + (N - 1)) % N] = k]
    BY <1>3, <1>9 DEF Store
  <2> DEFINE longer == Append(log, k)
  <2>2. /\ longer \in Seq(Kinds) /\ Len(longer) = N + 1 /\ longer[N + 1] = k
        /\ \A i \in 1 .. N : longer[i] = log[i]
    <3>1. log \in Seq(Kinds) /\ Len(log) = N /\ k \in Kinds /\ N \in Nat
      BY <1>1, <1>2, <1>5, <1>9
    <3> HIDE DEF k, N
    <3> QED BY ONLY <3>1
  <2>3. /\ log' \in Seq(Kinds) /\ Len(log') = N /\ log'[N] = k
        /\ \A i \in 0 .. N - 2 : log'[i + 1] = log[i + 2]
    <3>1. log' = LastOf(longer)
      BY <1>6
    <3> HIDE DEF longer
    <3>2. log' = Tail(longer)
      BY <1>1, <2>2, <3>1 DEF LastOf
    <3>3. log' \in Seq(Kinds) /\ Len(log') = N /\ \A j \in 1 .. N : log'[j] = longer[j + 1]
      BY <1>1, <2>2, <3>2
    <3>4. log'[N] = k
      BY <1>1, <2>2, <3>3
    <3>5. ASSUME NEW i \in 0 .. N - 2 PROVE log'[i + 1] = log[i + 2]
      <4>1. i + 1 \in 1 .. N /\ i + 2 \in 1 .. N /\ (i + 1) + 1 = i + 2
        BY <1>1
      <4> QED BY <2>2, <3>3, <4>1
    <3> QED BY <3>3, <3>4, <3>5
  <2>4. firstHeader' \in Slots
        /\ firstHeader' = IF firstHeader + 1 < N THEN firstHeader + 1 ELSE 0
    <3>1. CASE N = 1
      BY <1>1, <1>5, <2>1, <3>1
    <3>2. CASE N > 1
      <4>1. 1 \in Slots BY <1>1, <3>2
      <4>2. (firstHeader + 1) % N = IF firstHeader + 1 < N THEN firstHeader + 1 ELSE firstHeader + 1 - N
        BY <1>5, <4>1, HeaderIndex
      <4> QED BY <1>1, <1>5, <2>1, <4>2
    <3> QED BY <1>1, <3>1, <3>2
  <2> DEFINE At(i) == (firstHeader' + i) % N
  <2>5. \A i \in Slots : At(i) \in Slots
          /\ At(i) = IF firstHeader' + i < N THEN firstHeader' + i ELSE firstHeader' + i - N
    BY <2>4, HeaderIndex
  <2>6. ethHeaders' = [array EXCEPT ![At(N - 1)] = k]
    BY <2>1
  <2>7. RingOrder' <=> /\ nHeaders' = Len(log')
                        /\ \A i \in 0 .. nHeaders' - 1 :
                             \/ ethHeaders'[At(i)] = log'[i + 1]
                             \/ array_freed' /\ ethHeaders'[At(i)] = Clobbered
    BY DEF RingOrder, getHeaderIndex
  <2> HIDE DEF At
  <2>8. At(N - 1) = firstHeader
    <3>1. N - 1 \in Slots
      BY <1>1
    <3>2. At(N - 1) = IF firstHeader' + (N - 1) < N THEN firstHeader' + (N - 1) ELSE firstHeader' + (N - 1) - N
      BY <2>5, <3>1
    <3> QED BY <1>1, <1>5, <2>4, <3>2
  <2>9. HeadersTyped'
    BY <1>1, <1>4, <2>1, <2>3, <2>4 DEF HeadersTyped, RingInv
  <2>10. ethHeaders'[At(N - 1)] = log'[N]
    BY <1>4, <1>5, <2>3, <2>8, <2>6
  <2>11. ASSUME NEW i \in 0 .. N - 2
        PROVE  \/ ethHeaders'[At(i)] = log'[i + 1]
               \/ array_freed' /\ ethHeaders'[At(i)] = Clobbered
    <3>1. i \in Slots /\ i + 1 \in Slots /\ i + 1 \in 0 .. nHeaders - 1 /\ (i + 1) + 1 = i + 2
      BY <1>1, <1>9
    <3>2. At(i) = getHeaderIndex(i + 1) /\ getHeaderIndex(i + 1) # firstHeader
      <4>1. getHeaderIndex(i + 1) = IF firstHeader + (i + 1) < N THEN firstHeader + (i + 1)
                                    ELSE firstHeader + (i + 1) - N
        BY <1>7, <3>1
      <4>2. At(i) = IF firstHeader' + i < N THEN firstHeader' + i ELSE firstHeader' + i - N
        BY <2>5, <3>1
      <4>3. firstHeader \in Slots /\ firstHeader' = IF firstHeader + 1 < N THEN firstHeader + 1 ELSE 0
        BY <1>5, <2>4
      <4> HIDE DEF N, At
      <4>4. CASE firstHeader + 1 < N
        BY <1>1, <3>1, <4>1, <4>2, <4>3, <4>4
      <4>5. CASE ~(firstHeader + 1 < N)
        BY <1>1, <3>1, <4>1, <4>2, <4>3, <4>5
      <4> QED BY <4>4, <4>5
    <3>3. ethHeaders'[getHeaderIndex(i + 1)] = array[getHeaderIndex(i + 1)]
      BY <1>4, <1>7, <2>8, <2>6, <3>1, <3>2
    <3>4. \/ ethHeaders[getHeaderIndex(i + 1)] = log[i + 2]
          \/ array_freed /\ ethHeaders[getHeaderIndex(i + 1)] = Clobbered
      BY <1>5, <3>1
    <3> QED BY <1>4, <1>7, <2>1, <2>3, <3>1, <3>2, <3>3, <3>4
  <2>12. \A i \in 0 .. N - 1 : i = N - 1 \/ i \in 0 .. N - 2
    BY <1>1
  <2>13. (N - 1) + 1 = N
    BY <1>1
  <2> QED BY <1>1, <2>1, <2>3, <2>9, <2>10, <2>11, <2>12, <2>7, <2>13
<1> QED BY <1>8, <1>9

LEMMA RingNext == ASSUME RingInv, [Next]_vars PROVE RingInv'
<1>1. Inv'
  BY NextInv DEF RingInv
<1>2. CASE UNCHANGED <<headers, log>>
  BY <1>1, <1>2 DEF RingInv, HeadersTyped, RingOrder, getHeaderIndex, headers
<1>3. CASE Receive
  BY <1>1, <1>3, StoreOrder DEF RingInv
<1> QED BY <1>2, <1>3 DEF Next, StubStep, HandlerStep, Enable, Install, StubEnter, StubReturn, Arrive, IrqEnter, IrqStatus, IrqAck,
                         WriteCapr, headers, card, vars

LEMMA RingStart == ASSUME Init PROVE RingInv
<1>1. Inv BY InitInv
<1>2. HeadersTyped /\ RingOrder
  BY Rtl8139Assumption DEF Init, HeadersTyped, RingOrder, Slots, Entries
<1> QED BY <1>1, <1>2 DEF RingInv

\* The list of headers holds the last packets in order, but for those a copied
\* frame was written over once the array was freed.
THEOREM HeadersInOrder == Spec => []RingOrder
<1>1. Init => RingInv BY RingStart
<1>2. RingInv /\ [Next]_vars => RingInv' BY RingNext
<1>3. RingInv => RingOrder BY DEF RingInv
<1> QED BY <1>1, <1>2, <1>3, PTL DEF Spec

\* Every variable of the driver and of the card stays in its range.
THEOREM ReceptionTypes == Spec => []TypeOK
<1>1. Init => RingInv BY RingStart
<1>2. RingInv /\ [Next]_vars => RingInv' BY RingNext
<1>3. RingInv => TypeOK
  <2> SUFFICES ASSUME RingInv PROVE TypeOK OBVIOUS
  <2>1. Typed /\ InSync
    BY DEF RingInv, Inv
  <2>2. current_packet_ptr \in Offsets
    <3>1. CASE unread = <<>>
      BY <2>1, <3>1 DEF Typed, InSync
    <3>2. CASE unread # <<>>
      <4>1. Head(unread) \in Packets
        BY <2>1, <3>2 DEF Typed
      <4> QED BY <2>1, <3>2, <4>1 DEF InSync, Packets
    <3> QED BY <3>1, <3>2
  <2> QED BY <2>1, <2>2 DEF RingInv, HeadersTyped, Entries, Typed, TypeOK
<1> QED BY <1>1, <1>2, <1>3, PTL DEF Spec

-----------------------------------------------------------------------------
\* The parsers of frames.  A store that reads the first n bytes of what it parses.
Reads(store, n) ==
  DOMAIN store \subseteq Nat /\ \A b \in DOMAIN store : store[b] \in Nat /\ store[b] < n

ParsedInv == header # <<>> => (frame \in Frame /\ header = process_received_packet(frame))

\* What the stores read, one by one and together.
LEMMA CopyReads ==
  ASSUME NEW a \in Nat, NEW k \in Nat, NEW from \in Nat, NEW n \in Nat, from + k <= n
  PROVE  Reads(Copy(a, k, from), n)
BY DEF Reads, Copy

LEMMA SwapReads ==
  ASSUME NEW a \in Nat, NEW k \in Nat, NEW from \in Nat, NEW n \in Nat, from + k <= n
  PROVE  Reads(Swap(a, k, from), n)
BY DEF Reads, Swap

LEMMA TogetherReads ==
  ASSUME NEW s, NEW n, \A x \in s : Reads(x, n)
  PROVE  Reads(Together(s), n)
<1>1. DOMAIN Together(s) = UNION {DOMAIN x : x \in s} BY DEF Together
<1>2. ASSUME NEW b \in DOMAIN Together(s)
      PROVE  b \in Nat /\ Together(s)[b] \in Nat /\ Together(s)[b] < n
  <2> DEFINE from == CHOOSE x \in s : b \in DOMAIN x
  <2>1. \E x \in s : b \in DOMAIN x BY <1>1
  <2>2. from \in s /\ b \in DOMAIN from BY <2>1
  <2>3. Together(s)[b] = from[b] BY <1>1 DEF Together
  <2> HIDE DEF from
  <2> QED BY <2>2, <2>3 DEF Reads
<1> QED BY <1>2 DEF Reads

LEMMA MovedReads ==
  ASSUME NEW store, NEW n \in Nat, Reads(store, n), NEW a \in Nat, NEW from \in Nat,
         NEW m \in Nat, from + n <= m
  PROVE  Reads(Moved(store, a, from), m)
<1>1. DOMAIN Moved(store, a, from) = {a + x : x \in DOMAIN store} BY DEF Moved
<1>2. ASSUME NEW b \in DOMAIN Moved(store, a, from)
      PROVE  /\ b \in Nat /\ Moved(store, a, from)[b] \in Nat
             /\ Moved(store, a, from)[b] < m
  <2>1. PICK x \in DOMAIN store : b = a + x BY <1>1
  <2>2. x \in Nat /\ store[x] \in Nat /\ store[x] < n BY DEF Reads
  <2>3. b - a = x BY <2>1, <2>2
  <2>4. Moved(store, a, from)[b] = from + store[x] BY <1>1, <2>3 DEF Moved
  <2> QED BY <2>1, <2>2, <2>4
<1> QED BY <1>2 DEF Reads

LEMMA NothingReads == \A n : Reads(<<>>, n)
BY DEF Reads

\* How far each parser reads: that of TCP one byte behind its header.
LEMMA ParsersRead ==
  /\ Reads(parseEthernetHeader, 14) /\ Reads(parseARPHeader, 28)
  /\ Reads(parseIPv4Header, 20) /\ Reads(parseIPv6Header, 40)
  /\ Reads(parseTCPHeader, 21) /\ Reads(parseUDPHeader, 8) /\ Reads(parseICMPHeader, 8)
<1>1. Reads(parseEthernetHeader, 14)
  BY CopyReads, SwapReads, TogetherReads DEF parseEthernetHeader
<1>2. Reads(parseARPHeader, 28)
  BY CopyReads, SwapReads, TogetherReads DEF parseARPHeader
<1>3. Reads(parseIPv4Header, 20)
  BY CopyReads, SwapReads, TogetherReads DEF parseIPv4Header
<1>4. Reads(parseIPv6Header, 40)
  BY CopyReads, SwapReads, TogetherReads DEF parseIPv6Header
<1>5. Reads(parseTCPHeader, 21)
  BY CopyReads, SwapReads, TogetherReads DEF parseTCPHeader
<1>6. Reads(parseUDPHeader, 8)
  BY CopyReads, SwapReads, TogetherReads DEF parseUDPHeader
<1>7. Reads(parseICMPHeader, 8)
  BY CopyReads, SwapReads, TogetherReads DEF parseICMPHeader
<1> QED BY <1>1, <1>2, <1>3, <1>4, <1>5, <1>6, <1>7

LEMMA ReadsMore ==
  ASSUME NEW store, NEW n \in Nat, NEW m \in Nat, n <= m, Reads(store, n)
  PROVE  Reads(store, m)
BY DEF Reads

\* The options of hop-by-hop, and the transport header they are taken to end at.
LEMMA HopByHopReads ==
  ASSUME NEW next
  PROVE  Reads(parseIPv6HopByHop(next),
               CASE next = "TCP" -> 29 [] next \in {"UDP", "ICMPv6"} -> 16 [] OTHER -> 10)
<1> DEFINE carried == CASE next = "TCP"    -> Moved(parseTCPHeader, 12, 8)
                        [] next = "UDP"    -> Moved(parseUDPHeader, 12, 8)
                        [] next = "ICMPv6" -> Moved(parseICMPHeader, 12, 8)
                        [] OTHER           -> <<>>
<1> DEFINE n == CASE next = "TCP" -> 29 [] next \in {"UDP", "ICMPv6"} -> 16 [] OTHER -> 10
<1>1. n \in Nat /\ n >= 10
  <2>1. n \in {29, 16, 10} OBVIOUS
  <2> HIDE DEF n
  <2> QED BY <2>1
<1>2. Reads(carried, n)
  <2>1. CASE next = "TCP"
    <3>1. carried = Moved(parseTCPHeader, 12, 8) /\ n = 29 BY <2>1
    <3>2. Reads(Moved(parseTCPHeader, 12, 8), 29) BY ParsersRead, MovedReads
    <3> QED BY <3>1, <3>2
  <2>2. CASE next = "UDP"
    <3>1. carried = Moved(parseUDPHeader, 12, 8) /\ n = 16 BY <2>2
    <3>2. Reads(Moved(parseUDPHeader, 12, 8), 16) BY ParsersRead, MovedReads
    <3> QED BY <3>1, <3>2
  <2>3. CASE next = "ICMPv6"
    <3>1. carried = Moved(parseICMPHeader, 12, 8) /\ n = 16 BY <2>3
    <3>2. Reads(Moved(parseICMPHeader, 12, 8), 16) BY ParsersRead, MovedReads
    <3> QED BY <3>1, <3>2
  <2>4. CASE next \notin {"TCP", "UDP", "ICMPv6"}
    <3>1. carried = <<>> BY <2>4
    <3> HIDE DEF carried, n
    <3> QED BY <3>1, NothingReads
  <2> QED BY <2>1, <2>2, <2>3, <2>4
<1> HIDE DEF carried, n
<1>3. /\ Reads(Copy(0, 1, 0), n) /\ Reads(Copy(1, 1, 1), n)
      /\ Reads(Copy(2, 6, 2), n) /\ Reads(Copy(8, 2, 8), n)
  BY <1>1, CopyReads
<1>4. Reads(Together({Copy(0, 1, 0), Copy(1, 1, 1), Copy(2, 6, 2), Copy(8, 2, 8), carried}), n)
  BY <1>2, <1>3, TogetherReads
<1> QED BY <1>4 DEF parseIPv6HopByHop, carried, n

\* What the transport parser of a frame reads, from the end of the IP header on.
TransportReads(f) ==
  CASE f.ether = "IPv6" /\ f.proto = "HOPOPT" ->
         (CASE f.next = "TCP" -> 29 [] f.next \in {"UDP", "ICMPv6"} -> 16 [] OTHER -> 10)
    [] f.proto = "TCP" -> 21
    [] OTHER -> 8

LEMMA TransportRead ==
  ASSUME NEW f \in Frame, f.ether \in {"IPv4", "IPv6"}
  PROVE  Reads(Transport(f), TransportReads(f))
<1>1. CASE f.ether = "IPv6" /\ f.proto = "HOPOPT"
  <2>1. Transport(f) = parseIPv6HopByHop(f.next) BY <1>1 DEF Transport
  <2>2. TransportReads(f) =
          CASE f.next = "TCP" -> 29 [] f.next \in {"UDP", "ICMPv6"} -> 16 [] OTHER -> 10
    BY <1>1 DEF TransportReads
  <2> QED BY <2>1, <2>2, HopByHopReads
<1>2. CASE ~(f.ether = "IPv6" /\ f.proto = "HOPOPT")
  <2>1. CASE f.proto = "TCP"
    <3>1. Transport(f) = parseTCPHeader BY <2>1 DEF Transport
    <3>2. TransportReads(f) = 21 BY <1>2, <2>1 DEF TransportReads
    <3> QED BY <3>1, <3>2, ParsersRead
  <2>2. CASE f.proto # "TCP"
    <3>1. Transport(f) \in {parseUDPHeader, parseICMPHeader, <<>>} BY <1>2, <2>2 DEF Transport
    <3>2. TransportReads(f) = 8 BY <1>2, <2>2 DEF TransportReads
    <3> QED BY <3>1, <3>2, ParsersRead, NothingReads
  <2> QED BY <2>1, <2>2
<1> QED BY <1>1, <1>2

LEMMA FrameReads ==
  ASSUME NEW f \in Frame, NEW n \in Nat, n >= 68, f.ether = "IPv6" => 54 + TransportReads(f) <= n
  PROVE  Reads(process_received_packet(f), n)
<1>1. f.ether \in {"ARP", "IPv4", "IPv6", "other"}
  BY DEF Frame
<1>2. n \in Nat /\ n >= 68 OBVIOUS
<1>3. Reads(parseEthernetHeader, n) BY <1>2, ParsersRead, ReadsMore
<1>4. CASE f.ether = "ARP"
  <2>1. Reads(Moved(parseARPHeader, 16, 14), n) BY <1>2, ParsersRead, MovedReads
  <2>2. process_received_packet(f) = Together({parseEthernetHeader, Moved(parseARPHeader, 16, 14)})
    <3>1. {parseEthernetHeader} \cup {Moved(parseARPHeader, 16, 14)}
            = {parseEthernetHeader, Moved(parseARPHeader, 16, 14)}
      OBVIOUS
    <3> QED BY <1>4, <3>1 DEF process_received_packet
  <2> QED BY <1>3, <2>1, <2>2, TogetherReads
<1>5. CASE f.ether = "IPv4"
  <2>1. TransportReads(f) \in {8, 21} BY <1>5 DEF TransportReads
  <2>2. 34 + TransportReads(f) <= n BY <1>2, <2>1
  <2>3. Reads(Transport(f), TransportReads(f)) BY <1>5, TransportRead
  <2>4. Reads(Moved(Transport(f), 16 + 20, 14 + 20), n)
    <3>1. 16 + 20 \in Nat /\ 14 + 20 \in Nat /\ (14 + 20) + TransportReads(f) <= n
          /\ TransportReads(f) \in Nat
      BY <2>1, <2>2
    <3> QED BY <1>2, <2>3, <3>1, MovedReads
  <2>5. Reads(Moved(parseIPv4Header, 16, 14), n) BY <1>2, ParsersRead, MovedReads
  <2>6. process_received_packet(f)
          = Together({parseEthernetHeader}
                   \cup {Moved(parseIPv4Header, 16, 14), Moved(Transport(f), 16 + 20, 14 + 20)})
    BY <1>5 DEF process_received_packet
  <2> QED BY <1>3, <2>4, <2>5, <2>6, TogetherReads
<1>6. CASE f.ether = "IPv6"
  <2>1. TransportReads(f) \in Nat /\ 54 + TransportReads(f) <= n
    <3>1. TransportReads(f) \in {29, 16, 10, 21, 8} BY DEF TransportReads
    <3> QED BY <1>6, <3>1
  <2>2. Reads(Transport(f), TransportReads(f)) BY <1>6, TransportRead
  <2>3. Reads(Moved(Transport(f), 16 + 40, 14 + 40), n)
    <3>1. 16 + 40 \in Nat /\ 14 + 40 \in Nat /\ (14 + 40) + TransportReads(f) <= n
      BY <2>1
    <3> QED BY <1>2, <2>1, <2>2, <3>1, MovedReads
  <2>4. Reads(Moved(parseIPv6Header, 16, 14), n) BY <1>2, ParsersRead, MovedReads
  <2>5. process_received_packet(f)
          = Together({parseEthernetHeader}
                   \cup {Moved(parseIPv6Header, 16, 14), Moved(Transport(f), 16 + 40, 14 + 40)})
    BY <1>6 DEF process_received_packet
  <2> QED BY <1>3, <2>3, <2>4, <2>5, TogetherReads
<1>7. CASE f.ether = "other"
  <2>1. process_received_packet(f) = Together({parseEthernetHeader} \cup {})
    BY <1>7 DEF process_received_packet
  <2> QED BY <1>3, <2>1, TogetherReads
<1> QED BY <1>1, <1>4, <1>5, <1>6, <1>7

\* What the structure holds at a byte, and what a row of its bytes shows.
Held(store, b) == IF b \in DOMAIN store THEN store[b] ELSE Unwritten
Seen(row, store) == [i \in DOMAIN row |-> Held(store, row[i])]

\* A header parsed from the frame's byte from on stands at byte at of a structure.
Stands(parsed, store, at, from) ==
  \A b \in DOMAIN parsed : at + b \in DOMAIN store /\ store[at + b] = from + parsed[b]

\* A store keeps the order of n bytes or turns it round.
Straight(store, at, n, from) ==
  \A i \in 0 .. n - 1 : at + i \in DOMAIN store /\ store[at + i] = from + i
Turned(store, at, n, from) ==
  \A i \in 0 .. n - 1 : at + i \in DOMAIN store /\ store[at + i] = from + n - 1 - i

\* Functions no two of which have an argument in common.
Apart(s) == \A x, y \in s : x = y \/ \A b \in DOMAIN x : b \notin DOMAIN y

LEMMA TogetherIs ==
  ASSUME NEW s, Apart(s)
  PROVE  /\ \A x \in s : \A b \in DOMAIN x : b \in DOMAIN Together(s) /\ Together(s)[b] = x[b]
         /\ \A b \in DOMAIN Together(s) : \E x \in s : b \in DOMAIN x
<1>1. DOMAIN Together(s) = UNION {DOMAIN x : x \in s} BY DEF Together
<1>2. ASSUME NEW x \in s, NEW b \in DOMAIN x
      PROVE  b \in DOMAIN Together(s) /\ Together(s)[b] = x[b]
  <2>1. b \in UNION {DOMAIN y : y \in s} OBVIOUS
  <2>2. (CHOOSE y \in s : b \in DOMAIN y) = x BY DEF Apart
  <2> QED BY <2>1, <2>2 DEF Together
<1> QED BY <1>1, <1>2

\* The bytes a store writes lie between two bounds.
Within(store, at, end) == \A b \in DOMAIN store : b \in Int /\ at <= b /\ b < end

LEMMA CopyIs ==
  ASSUME NEW at \in Nat, NEW n \in Nat, NEW from \in Nat
  PROVE  Within(Copy(at, n, from), at, at + n) /\ Straight(Copy(at, n, from), at, n, from)
BY DEF Copy, Straight, Within

LEMMA SwapIs ==
  ASSUME NEW at \in Nat, NEW n \in Nat, NEW from \in Nat
  PROVE  Within(Swap(at, n, from), at, at + n) /\ Turned(Swap(at, n, from), at, n, from)
BY DEF Swap, Turned, Within

LEMMA TurnedShown ==
  ASSUME NEW parsed, NEW store, NEW at \in Nat, NEW from \in Nat, Stands(parsed, store, at, from),
         NEW a \in Nat, NEW n \in Nat, NEW c \in Nat, Turned(parsed, a, n, c)
  PROVE  Seen(Value(at + a, n), store) = Array(from + c, n)
<1>1. ASSUME NEW i \in 1 .. n
      PROVE  Held(store, at + a + n - i) = from + c + i - 1
  <2>1. n - i \in 0 .. n - 1 /\ a + (n - i) = a + n - i OBVIOUS
  <2>2. a + n - i \in DOMAIN parsed /\ parsed[a + n - i] = c + n - 1 - (n - i)
    BY <2>1 DEF Turned
  <2>3. at + (a + n - i) \in DOMAIN store /\ store[at + (a + n - i)] = from + (c + n - 1 - (n - i))
    BY <2>2 DEF Stands
  <2> QED BY <2>3 DEF Held
<1> QED BY <1>1 DEF Seen, Value, Array

LEMMA StraightShown ==
  ASSUME NEW parsed, NEW store, NEW at \in Nat, NEW from \in Nat, Stands(parsed, store, at, from),
         NEW a \in Nat, NEW n \in Nat, NEW c \in Nat, Straight(parsed, a, n, c)
  PROVE  Seen(Array(at + a, n), store) = Array(from + c, n)
<1>1. ASSUME NEW i \in 1 .. n
      PROVE  Held(store, at + a + i - 1) = from + c + i - 1
  <2>1. i - 1 \in 0 .. n - 1 /\ a + (i - 1) = a + i - 1 OBVIOUS
  <2>2. a + i - 1 \in DOMAIN parsed /\ parsed[a + i - 1] = c + (i - 1)
    BY <2>1 DEF Straight
  <2>3. at + (a + i - 1) \in DOMAIN store /\ store[at + (a + i - 1)] = from + (c + (i - 1))
    BY <2>2 DEF Stands
  <2> QED BY <2>3 DEF Held
<1> QED BY <1>1 DEF Seen, Array

\* Its most significant byte tells a number from what it should be.
LEMMA TopTells ==
  ASSUME NEW store, NEW b \in Nat, NEW n \in Nat \ {0}, NEW c \in Nat,
         Held(store, b + n - 1) # c
  PROVE  Seen(Value(b, n), store) # Array(c, n)
<1>1. 1 \in 1 .. n OBVIOUS
<1>2. Seen(Value(b, n), store)[1] = Held(store, b + n - 1)
  <2>1. Value(b, n)[1] = b + n - 1 /\ DOMAIN Value(b, n) = 1 .. n BY <1>1 DEF Value
  <2> QED BY <1>1, <2>1 DEF Seen
<1>3. Array(c, n)[1] = c + 1 - 1 BY <1>1 DEF Array
<1> QED BY <1>2, <1>3

LEMMA NamedIs ==
  ASSUME NEW name, NEW rows
  PROVE  /\ DOMAIN Named(name, rows) = {<<name, k>> : k \in DOMAIN rows}
         /\ \A k \in DOMAIN rows : Named(name, rows)[<<name, k>>] = rows[k]
BY DEF Named

LEMMA BelowIs ==
  ASSUME NEW rows, NEW at
  PROVE  /\ DOMAIN Below(rows, at) = DOMAIN rows
         /\ \A l \in DOMAIN rows : Below(rows, at)[l] = [i \in DOMAIN rows[l] |-> at + rows[l][i]]
BY DEF Below

LEMMA LiftedIs ==
  ASSUME NEW rows, NEW at \in Nat, NEW l \in DOMAIN rows, NEW a \in Nat, NEW n \in Nat
  PROVE  /\ rows[l] = Value(a, n) => Below(rows, at)[l] = Value(at + a, n)
         /\ rows[l] = Array(a, n) => Below(rows, at)[l] = Array(at + a, n)
BY BelowIs DEF Value, Array

LEMMA StoreWithin ==
  ASSUME NEW at \in Nat, NEW n \in Nat, NEW from \in Nat, NEW end, end = at + n
  PROVE  Within(Copy(at, n, from), at, end) /\ Within(Swap(at, n, from), at, end)
BY CopyIs, SwapIs

\* What a store keeps in a set of stores that write other bytes.
LEMMA TogetherTurned ==
  ASSUME NEW s, Apart(s)
  PROVE  \A at, n, from \in Nat : Swap(at, n, from) \in s => Turned(Together(s), at, n, from)
<1> SUFFICES ASSUME NEW at \in Nat, NEW n \in Nat, NEW from \in Nat, Swap(at, n, from) \in s
             PROVE  Turned(Together(s), at, n, from)
  OBVIOUS
<1>1. Turned(Swap(at, n, from), at, n, from) BY SwapIs
<1> QED BY <1>1, TogetherIs DEF Turned

LEMMA TogetherStraight ==
  ASSUME NEW s, Apart(s)
  PROVE  \A at, n, from \in Nat : Copy(at, n, from) \in s => Straight(Together(s), at, n, from)
<1> SUFFICES ASSUME NEW at \in Nat, NEW n \in Nat, NEW from \in Nat, Copy(at, n, from) \in s
             PROVE  Straight(Together(s), at, n, from)
  OBVIOUS
<1>1. Straight(Copy(at, n, from), at, n, from) BY CopyIs
<1> QED BY <1>1, TogetherIs DEF Straight

\* One byte has one order.
LEMMA OneByte ==
  ASSUME NEW store, NEW a \in Nat, NEW c \in Nat
  PROVE  Straight(store, a, 1, c) => Turned(store, a, 1, c)
BY DEF Straight, Turned

LEMMA ArraysDiffer ==
  ASSUME NEW n \in Nat \ {0}, NEW a \in Nat, NEW b \in Nat
  PROVE  Array(a, n) = Array(b, n) <=> a = b
<1>1. 1 \in 1 .. n /\ a + 1 - 1 = a /\ b + 1 - 1 = b OBVIOUS
<1>2. Array(a, n)[1] = a + 1 - 1 /\ Array(b, n)[1] = b + 1 - 1 BY <1>1 DEF Array
<1> QED BY <1>1, <1>2

\* When a row shows what the sender wrote.
LEMMA NumberShown ==
  ASSUME NEW parsed, NEW store, NEW at \in Nat, NEW from \in Nat, Stands(parsed, store, at, from),
         NEW a \in Nat, NEW n \in Nat \ {0}, NEW c \in Nat, Turned(parsed, a, n, c),
         NEW rows, NEW l \in DOMAIN rows, rows[l] = Value(a, n),
         NEW wire, l \in DOMAIN wire, NEW d \in Nat, wire[l] = Array(d, n), NEW w \in Nat
  PROVE  Seen(Below(rows, at)[l], store) = Below(wire, w)[l] <=> from + c = w + d
<1>1. Below(rows, at)[l] = Value(at + a, n) /\ Below(wire, w)[l] = Array(w + d, n) BY LiftedIs
<1>2. Seen(Value(at + a, n), store) = Array(from + c, n) BY TurnedShown
<1> QED BY <1>1, <1>2, ArraysDiffer

LEMMA SameShown ==
  ASSUME NEW parsed, NEW store, NEW at \in Nat, NEW from \in Nat, Stands(parsed, store, at, from),
         NEW a \in Nat, NEW n \in Nat \ {0}, NEW c \in Nat, Turned(parsed, a, n, c),
         NEW rows, NEW l \in DOMAIN rows, rows[l] = Value(a, n),
         NEW wire, l \in DOMAIN wire, wire[l] = Array(c, n), NEW w \in Nat
  PROVE  Seen(Below(rows, at)[l], store) = Below(wire, w)[l] <=> from = w
<1>1. Below(rows, at)[l] = Value(at + a, n) /\ Below(wire, w)[l] = Array(w + c, n) BY LiftedIs
<1>2. Seen(Value(at + a, n), store) = Array(from + c, n) BY TurnedShown
<1>3. from + c \in Nat /\ w + c \in Nat /\ (from + c = w + c <=> from = w) OBVIOUS
<1> QED BY <1>1, <1>2, <1>3, ArraysDiffer

LEMMA BytesShown ==
  ASSUME NEW parsed, NEW store, NEW at \in Nat, NEW from \in Nat, Stands(parsed, store, at, from),
         NEW a \in Nat, NEW n \in Nat \ {0}, NEW c \in Nat, Straight(parsed, a, n, c),
         NEW rows, NEW l \in DOMAIN rows, rows[l] = Array(a, n),
         NEW wire, l \in DOMAIN wire, NEW d \in Nat, wire[l] = Array(d, n), NEW w \in Nat
  PROVE  Seen(Below(rows, at)[l], store) = Below(wire, w)[l] <=> from + c = w + d
<1>1. Below(rows, at)[l] = Array(at + a, n) /\ Below(wire, w)[l] = Array(w + d, n) BY LiftedIs
<1>2. Seen(Array(at + a, n), store) = Array(from + c, n) BY StraightShown
<1> QED BY <1>1, <1>2, ArraysDiffer

\* A number that kept the order of the wire.
LEMMA UnswappedShown ==
  ASSUME NEW parsed, NEW store, NEW at \in Nat, NEW from \in Nat, Stands(parsed, store, at, from),
         NEW a \in Nat, NEW n \in Nat, n > 1, NEW c \in Nat, Straight(parsed, a, n, c),
         NEW rows, NEW l \in DOMAIN rows, rows[l] = Value(a, n),
         NEW wire, l \in DOMAIN wire, wire[l] = Array(c, n)
  PROVE  Seen(Below(rows, at)[l], store) # Below(wire, from)[l]
<1>1. Below(rows, at)[l] = Value(at + a, n) /\ Below(wire, from)[l] = Array(from + c, n) BY LiftedIs
<1>2. Held(store, at + a + n - 1) = from + (c + (n - 1))
  <2>1. a + (n - 1) \in DOMAIN parsed /\ parsed[a + (n - 1)] = c + (n - 1) BY DEF Straight
  <2>2. at + (a + (n - 1)) = at + a + n - 1 OBVIOUS
  <2> QED BY <2>1, <2>2 DEF Stands, Held
<1>3. from + (c + (n - 1)) # from + c /\ at + a \in Nat /\ from + c \in Nat /\ n \in Nat \ {0} OBVIOUS
<1>4. Held(store, (at + a) + n - 1) # from + c BY <1>2, <1>3
<1> QED BY <1>1, <1>3, <1>4, TopTells

LEMMA ParsedEthernet ==
  /\ Straight(parseEthernetHeader, 0, 6, 0) /\ Straight(parseEthernetHeader, 6, 6, 6)
  /\ Turned(parseEthernetHeader, 12, 2, 12) /\ Within(parseEthernetHeader, 0, 14)
<1> DEFINE s == {Copy(0, 6, 0), Copy(6, 6, 6), Swap(12, 2, 12)}
<1>1. /\ Within(Copy(0, 6, 0), 0, 6) /\ Within(Copy(6, 6, 6), 6, 12)
      /\ Within(Swap(12, 2, 12), 12, 14)
  <2>1. Within(Copy(0, 6, 0), 0, 6) /\ Within(Copy(6, 6, 6), 6, 12) BY StoreWithin
  <2>2. Within(Swap(12, 2, 12), 12, 14) BY StoreWithin
  <2> QED BY <2>1, <2>2
<1>2. Apart(s) BY <1>1 DEF Apart, Within
<1>3. /\ Copy(0, 6, 0) \in s /\ Copy(6, 6, 6) \in s /\ Swap(12, 2, 12) \in s
      /\ \A x \in s : Within(x, 0, 14)
  BY <1>1 DEF Within
<1>4. parseEthernetHeader = Together(s) BY DEF parseEthernetHeader
<1> HIDE DEF s
<1>5. Within(Together(s), 0, 14) BY <1>2, <1>3, TogetherIs DEF Within
<1> QED BY <1>2, <1>3, <1>4, <1>5, TogetherTurned, TogetherStraight

LEMMA ParsedARP ==
  /\ Straight(parseARPHeader, 0, 2, 0) /\ Straight(parseARPHeader, 2, 2, 2)
  /\ Turned(parseARPHeader, 4, 1, 4) /\ Turned(parseARPHeader, 5, 1, 5)
  /\ Straight(parseARPHeader, 6, 2, 6) /\ Straight(parseARPHeader, 8, 6, 8)
  /\ Straight(parseARPHeader, 16, 4, 14) /\ Straight(parseARPHeader, 20, 6, 18)
  /\ Straight(parseARPHeader, 28, 4, 24) /\ Within(parseARPHeader, 0, 32)
<1> DEFINE s == {Copy(0, 2, 0), Copy(2, 2, 2), Copy(4, 1, 4), Copy(5, 1, 5), Copy(6, 2, 6),
                Copy(8, 6, 8), Copy(16, 4, 14), Copy(20, 6, 18), Copy(28, 4, 24)}
<1>1. /\ Within(Copy(0, 2, 0), 0, 2) /\ Within(Copy(2, 2, 2), 2, 4)
      /\ Within(Copy(4, 1, 4), 4, 5) /\ Within(Copy(5, 1, 5), 5, 6)
      /\ Within(Copy(6, 2, 6), 6, 8) /\ Within(Copy(8, 6, 8), 8, 14)
      /\ Within(Copy(16, 4, 14), 16, 20) /\ Within(Copy(20, 6, 18), 20, 26)
      /\ Within(Copy(28, 4, 24), 28, 32)
  <2>1. Within(Copy(0, 2, 0), 0, 2) /\ Within(Copy(2, 2, 2), 2, 4) BY StoreWithin
  <2>2. Within(Copy(4, 1, 4), 4, 5) /\ Within(Copy(5, 1, 5), 5, 6) BY StoreWithin
  <2>3. Within(Copy(6, 2, 6), 6, 8) /\ Within(Copy(8, 6, 8), 8, 14) BY StoreWithin
  <2>4. Within(Copy(16, 4, 14), 16, 20) /\ Within(Copy(20, 6, 18), 20, 26) BY StoreWithin
  <2>5. Within(Copy(28, 4, 24), 28, 32) BY StoreWithin
  <2> QED BY <2>1, <2>2, <2>3, <2>4, <2>5
<1>2. Apart(s) BY <1>1 DEF Apart, Within
<1>3. /\ Copy(0, 2, 0) \in s /\ Copy(2, 2, 2) \in s /\ Copy(4, 1, 4) \in s /\ Copy(5, 1, 5) \in s
      /\ Copy(6, 2, 6) \in s /\ Copy(8, 6, 8) \in s /\ Copy(16, 4, 14) \in s /\ Copy(20, 6, 18) \in s
      /\ Copy(28, 4, 24) \in s
      /\ \A x \in s : Within(x, 0, 32)
  BY <1>1 DEF Within
<1>4. parseARPHeader = Together(s) BY DEF parseARPHeader
<1> HIDE DEF s
<1>5. Within(Together(s), 0, 32) BY <1>2, <1>3, TogetherIs DEF Within
<1>6. Turned(Together(s), 4, 1, 4) /\ Turned(Together(s), 5, 1, 5)
  BY <1>2, <1>3, TogetherStraight, OneByte
<1> QED BY <1>2, <1>3, <1>4, <1>5, <1>6, TogetherTurned, TogetherStraight

LEMMA ParsedIPv4 ==
  /\ Turned(parseIPv4Header, 0, 1, 0) /\ Turned(parseIPv4Header, 1, 1, 1)
  /\ Turned(parseIPv4Header, 2, 2, 2) /\ Turned(parseIPv4Header, 4, 2, 4)
  /\ Turned(parseIPv4Header, 6, 2, 6) /\ Turned(parseIPv4Header, 8, 1, 8)
  /\ Turned(parseIPv4Header, 9, 1, 9) /\ Turned(parseIPv4Header, 10, 2, 10)
  /\ Straight(parseIPv4Header, 12, 4, 12) /\ Straight(parseIPv4Header, 16, 4, 16)
  /\ Within(parseIPv4Header, 0, 20)
<1> DEFINE s == {Copy(0, 1, 0), Copy(1, 1, 1), Swap(2, 2, 2), Swap(4, 2, 4), Swap(6, 2, 6),
                Copy(8, 1, 8), Copy(9, 1, 9), Swap(10, 2, 10), Copy(12, 4, 12),
                Copy(16, 4, 16)}
<1>1. /\ Within(Copy(0, 1, 0), 0, 1) /\ Within(Copy(1, 1, 1), 1, 2)
      /\ Within(Swap(2, 2, 2), 2, 4) /\ Within(Swap(4, 2, 4), 4, 6)
      /\ Within(Swap(6, 2, 6), 6, 8) /\ Within(Copy(8, 1, 8), 8, 9)
      /\ Within(Copy(9, 1, 9), 9, 10) /\ Within(Swap(10, 2, 10), 10, 12)
      /\ Within(Copy(12, 4, 12), 12, 16) /\ Within(Copy(16, 4, 16), 16, 20)
  <2>1. Within(Copy(0, 1, 0), 0, 1) /\ Within(Copy(1, 1, 1), 1, 2) BY StoreWithin
  <2>2. Within(Swap(2, 2, 2), 2, 4) /\ Within(Swap(4, 2, 4), 4, 6) BY StoreWithin
  <2>3. Within(Swap(6, 2, 6), 6, 8) /\ Within(Copy(8, 1, 8), 8, 9) BY StoreWithin
  <2>4. Within(Copy(9, 1, 9), 9, 10) /\ Within(Swap(10, 2, 10), 10, 12) BY StoreWithin
  <2>5. Within(Copy(12, 4, 12), 12, 16) /\ Within(Copy(16, 4, 16), 16, 20) BY StoreWithin
  <2> QED BY <2>1, <2>2, <2>3, <2>4, <2>5
<1>2. Apart(s) BY <1>1 DEF Apart, Within
<1>3. /\ Copy(0, 1, 0) \in s /\ Copy(1, 1, 1) \in s /\ Swap(2, 2, 2) \in s /\ Swap(4, 2, 4) \in s
      /\ Swap(6, 2, 6) \in s /\ Copy(8, 1, 8) \in s /\ Copy(9, 1, 9) \in s /\ Swap(10, 2, 10) \in s
      /\ Copy(12, 4, 12) \in s /\ Copy(16, 4, 16) \in s
      /\ \A x \in s : Within(x, 0, 20)
  BY <1>1 DEF Within
<1>4. parseIPv4Header = Together(s) BY DEF parseIPv4Header
<1> HIDE DEF s
<1>5. Within(Together(s), 0, 20) BY <1>2, <1>3, TogetherIs DEF Within
<1>6. Turned(Together(s), 0, 1, 0) /\ Turned(Together(s), 1, 1, 1) /\
      Turned(Together(s), 8, 1, 8) /\ Turned(Together(s), 9, 1, 9)
  BY <1>2, <1>3, TogetherStraight, OneByte
<1> QED BY <1>2, <1>3, <1>4, <1>5, <1>6, TogetherTurned, TogetherStraight

LEMMA ParsedIPv6 ==
  /\ Straight(parseIPv6Header, 0, 4, 0) /\ Straight(parseIPv6Header, 4, 2, 4)
  /\ Turned(parseIPv6Header, 6, 1, 6) /\ Turned(parseIPv6Header, 7, 1, 7)
  /\ Straight(parseIPv6Header, 8, 16, 8) /\ Straight(parseIPv6Header, 24, 16, 24)
  /\ Within(parseIPv6Header, 0, 40)
<1> DEFINE s == {Copy(0, 4, 0), Copy(4, 2, 4), Copy(6, 1, 6), Copy(7, 1, 7), Copy(8, 16, 8),
                Copy(24, 16, 24)}
<1>1. /\ Within(Copy(0, 4, 0), 0, 4) /\ Within(Copy(4, 2, 4), 4, 6)
      /\ Within(Copy(6, 1, 6), 6, 7) /\ Within(Copy(7, 1, 7), 7, 8)
      /\ Within(Copy(8, 16, 8), 8, 24) /\ Within(Copy(24, 16, 24), 24, 40)
  <2>1. Within(Copy(0, 4, 0), 0, 4) /\ Within(Copy(4, 2, 4), 4, 6) BY StoreWithin
  <2>2. Within(Copy(6, 1, 6), 6, 7) /\ Within(Copy(7, 1, 7), 7, 8) BY StoreWithin
  <2>3. Within(Copy(8, 16, 8), 8, 24) /\ Within(Copy(24, 16, 24), 24, 40) BY StoreWithin
  <2> QED BY <2>1, <2>2, <2>3
<1>2. Apart(s) BY <1>1 DEF Apart, Within
<1>3. /\ Copy(0, 4, 0) \in s /\ Copy(4, 2, 4) \in s /\ Copy(6, 1, 6) \in s /\ Copy(7, 1, 7) \in s
      /\ Copy(8, 16, 8) \in s /\ Copy(24, 16, 24) \in s
      /\ \A x \in s : Within(x, 0, 40)
  BY <1>1 DEF Within
<1>4. parseIPv6Header = Together(s) BY DEF parseIPv6Header
<1> HIDE DEF s
<1>5. Within(Together(s), 0, 40) BY <1>2, <1>3, TogetherIs DEF Within
<1>6. Turned(Together(s), 6, 1, 6) /\ Turned(Together(s), 7, 1, 7)
  BY <1>2, <1>3, TogetherStraight, OneByte
<1> QED BY <1>2, <1>3, <1>4, <1>5, <1>6, TogetherTurned, TogetherStraight

LEMMA ParsedTCP ==
  /\ Turned(parseTCPHeader, 0, 2, 0) /\ Turned(parseTCPHeader, 2, 2, 2)
  /\ Turned(parseTCPHeader, 4, 4, 4) /\ Turned(parseTCPHeader, 8, 4, 8)
  /\ Turned(parseTCPHeader, 12, 1, 12) /\ Turned(parseTCPHeader, 13, 1, 14)
  /\ Turned(parseTCPHeader, 14, 2, 15) /\ Turned(parseTCPHeader, 16, 2, 17)
  /\ Turned(parseTCPHeader, 18, 2, 19) /\ Within(parseTCPHeader, 0, 20)
<1> DEFINE s == {Swap(0, 2, 0), Swap(2, 2, 2), Swap(4, 4, 4), Swap(8, 4, 8),
                Copy(12, 1, 12), Copy(13, 1, 14), Swap(14, 2, 15), Swap(16, 2, 17),
                Swap(18, 2, 19)}
<1>1. /\ Within(Swap(0, 2, 0), 0, 2) /\ Within(Swap(2, 2, 2), 2, 4)
      /\ Within(Swap(4, 4, 4), 4, 8) /\ Within(Swap(8, 4, 8), 8, 12)
      /\ Within(Copy(12, 1, 12), 12, 13) /\ Within(Copy(13, 1, 14), 13, 14)
      /\ Within(Swap(14, 2, 15), 14, 16) /\ Within(Swap(16, 2, 17), 16, 18)
      /\ Within(Swap(18, 2, 19), 18, 20)
  <2>1. Within(Swap(0, 2, 0), 0, 2) /\ Within(Swap(2, 2, 2), 2, 4) BY StoreWithin
  <2>2. Within(Swap(4, 4, 4), 4, 8) /\ Within(Swap(8, 4, 8), 8, 12) BY StoreWithin
  <2>3. Within(Copy(12, 1, 12), 12, 13) /\ Within(Copy(13, 1, 14), 13, 14) BY StoreWithin
  <2>4. Within(Swap(14, 2, 15), 14, 16) /\ Within(Swap(16, 2, 17), 16, 18) BY StoreWithin
  <2>5. Within(Swap(18, 2, 19), 18, 20) BY StoreWithin
  <2> QED BY <2>1, <2>2, <2>3, <2>4, <2>5
<1>2. Apart(s) BY <1>1 DEF Apart, Within
<1>3. /\ Swap(0, 2, 0) \in s /\ Swap(2, 2, 2) \in s /\ Swap(4, 4, 4) \in s /\ Swap(8, 4, 8) \in s
      /\ Copy(12, 1, 12) \in s /\ Copy(13, 1, 14) \in s /\ Swap(14, 2, 15) \in s /\ Swap(16, 2, 17) \in s
      /\ Swap(18, 2, 19) \in s
      /\ \A x \in s : Within(x, 0, 20)
  BY <1>1 DEF Within
<1>4. parseTCPHeader = Together(s) BY DEF parseTCPHeader
<1> HIDE DEF s
<1>5. Within(Together(s), 0, 20) BY <1>2, <1>3, TogetherIs DEF Within
<1>6. Turned(Together(s), 12, 1, 12) /\ Turned(Together(s), 13, 1, 14)
  BY <1>2, <1>3, TogetherStraight, OneByte
<1> QED BY <1>2, <1>3, <1>4, <1>5, <1>6, TogetherTurned, TogetherStraight

LEMMA ParsedUDP ==
  /\ Turned(parseUDPHeader, 0, 2, 0) /\ Turned(parseUDPHeader, 2, 2, 2)
  /\ Turned(parseUDPHeader, 4, 2, 4) /\ Turned(parseUDPHeader, 6, 2, 6)
  /\ Within(parseUDPHeader, 0, 8)
<1> DEFINE s == {Swap(0, 2, 0), Swap(2, 2, 2), Swap(4, 2, 4), Swap(6, 2, 6)}
<1>1. /\ Within(Swap(0, 2, 0), 0, 2) /\ Within(Swap(2, 2, 2), 2, 4)
      /\ Within(Swap(4, 2, 4), 4, 6) /\ Within(Swap(6, 2, 6), 6, 8)
  <2>1. Within(Swap(0, 2, 0), 0, 2) /\ Within(Swap(2, 2, 2), 2, 4) BY StoreWithin
  <2>2. Within(Swap(4, 2, 4), 4, 6) /\ Within(Swap(6, 2, 6), 6, 8) BY StoreWithin
  <2> QED BY <2>1, <2>2
<1>2. Apart(s) BY <1>1 DEF Apart, Within
<1>3. /\ Swap(0, 2, 0) \in s /\ Swap(2, 2, 2) \in s /\ Swap(4, 2, 4) \in s /\ Swap(6, 2, 6) \in s
      /\ \A x \in s : Within(x, 0, 8)
  BY <1>1 DEF Within
<1>4. parseUDPHeader = Together(s) BY DEF parseUDPHeader
<1> HIDE DEF s
<1>5. Within(Together(s), 0, 8) BY <1>2, <1>3, TogetherIs DEF Within
<1> QED BY <1>2, <1>3, <1>4, <1>5, TogetherTurned, TogetherStraight

LEMMA ParsedICMP ==
  /\ Turned(parseICMPHeader, 0, 1, 0) /\ Turned(parseICMPHeader, 1, 1, 1)
  /\ Turned(parseICMPHeader, 2, 2, 2) /\ Turned(parseICMPHeader, 4, 4, 4)
  /\ Within(parseICMPHeader, 0, 8)
<1> DEFINE s == {Copy(0, 1, 0), Copy(1, 1, 1), Swap(2, 2, 2), Swap(4, 4, 4)}
<1>1. /\ Within(Copy(0, 1, 0), 0, 1) /\ Within(Copy(1, 1, 1), 1, 2)
      /\ Within(Swap(2, 2, 2), 2, 4) /\ Within(Swap(4, 4, 4), 4, 8)
  <2>1. Within(Copy(0, 1, 0), 0, 1) /\ Within(Copy(1, 1, 1), 1, 2) BY StoreWithin
  <2>2. Within(Swap(2, 2, 2), 2, 4) /\ Within(Swap(4, 4, 4), 4, 8) BY StoreWithin
  <2> QED BY <2>1, <2>2
<1>2. Apart(s) BY <1>1 DEF Apart, Within
<1>3. /\ Copy(0, 1, 0) \in s /\ Copy(1, 1, 1) \in s /\ Swap(2, 2, 2) \in s /\ Swap(4, 4, 4) \in s
      /\ \A x \in s : Within(x, 0, 8)
  BY <1>1 DEF Within
<1>4. parseICMPHeader = Together(s) BY DEF parseICMPHeader
<1> HIDE DEF s
<1>5. Within(Together(s), 0, 8) BY <1>2, <1>3, TogetherIs DEF Within
<1>6. Turned(Together(s), 0, 1, 0) /\ Turned(Together(s), 1, 1, 1)
  BY <1>2, <1>3, TogetherStraight, OneByte
<1> QED BY <1>2, <1>3, <1>4, <1>5, <1>6, TogetherTurned, TogetherStraight

\* Where a header stands once it was moved, and put together with others.
LEMMA MovedStands ==
  ASSUME NEW store, NEW n \in Nat, Within(store, 0, n), NEW at \in Nat, NEW from \in Nat,
         NEW end, end = at + n
  PROVE  Stands(store, Moved(store, at, from), at, from) /\ Within(Moved(store, at, from), at, end)
<1>1. DOMAIN Moved(store, at, from) = {at + x : x \in DOMAIN store} BY DEF Moved
<1>2. ASSUME NEW b \in DOMAIN store
      PROVE  at + b \in DOMAIN Moved(store, at, from) /\ Moved(store, at, from)[at + b] = from + store[b]
  <2>1. (at + b) - at = b BY DEF Within
  <2> QED BY <1>1, <2>1 DEF Moved
<1>3. Within(Moved(store, at, from), at, end) BY <1>1 DEF Within
<1> QED BY <1>2, <1>3 DEF Stands

LEMMA TogetherStands ==
  ASSUME NEW s, Apart(s), NEW x \in s, NEW parsed, NEW at, NEW from, Stands(parsed, x, at, from)
  PROVE  Stands(parsed, Together(s), at, from)
BY TogetherIs DEF Stands

LEMMA StandsInside ==
  ASSUME NEW parsed, NEW n, Reads(parsed, n), NEW inner, NEW store,
         NEW a \in Nat, NEW c \in Nat, Stands(parsed, inner, a, c),
         NEW at \in Nat, NEW from \in Nat, Stands(inner, store, at, from)
  PROVE  Stands(parsed, store, at + a, from + c)
<1>1. ASSUME NEW b \in DOMAIN parsed
      PROVE  at + a + b \in DOMAIN store /\ store[at + a + b] = from + c + parsed[b]
  <2>1. b \in Nat /\ parsed[b] \in Nat BY DEF Reads
  <2>2. a + b \in DOMAIN inner /\ inner[a + b] = c + parsed[b] BY DEF Stands
  <2>3. at + (a + b) \in DOMAIN store /\ store[at + (a + b)] = from + (c + parsed[b])
    BY <2>2 DEF Stands
  <2> QED BY <2>1, <2>3
<1> QED BY <1>1 DEF Stands

\* The options of hop-by-hop and the header that is taken to follow them.
LEMMA ParsedHOPOPT ==
  ASSUME NEW next
  PROVE  /\ Turned(parseIPv6HopByHop(next), 0, 1, 0) /\ Turned(parseIPv6HopByHop(next), 1, 1, 1)
         /\ Straight(parseIPv6HopByHop(next), 2, 6, 2)
         /\ Within(parseIPv6HopByHop(next), 0, 32)
         /\ next = "TCP" => Stands(parseTCPHeader, parseIPv6HopByHop(next), 12, 8)
         /\ next = "UDP" => Stands(parseUDPHeader, parseIPv6HopByHop(next), 12, 8)
         /\ next = "ICMPv6" => Stands(parseICMPHeader, parseIPv6HopByHop(next), 12, 8)
<1> DEFINE carried == CASE next = "TCP"    -> Moved(parseTCPHeader, 12, 8)
                        [] next = "UDP"    -> Moved(parseUDPHeader, 12, 8)
                        [] next = "ICMPv6" -> Moved(parseICMPHeader, 12, 8)
                        [] OTHER           -> <<>>
<1> DEFINE s == {Copy(0, 1, 0), Copy(1, 1, 1), Copy(2, 6, 2), Copy(8, 2, 8), carried}
<1>1. /\ Within(carried, 12, 32)
      /\ next = "TCP" => Stands(parseTCPHeader, carried, 12, 8)
      /\ next = "UDP" => Stands(parseUDPHeader, carried, 12, 8)
      /\ next = "ICMPv6" => Stands(parseICMPHeader, carried, 12, 8)
  <2>1. CASE next = "TCP"
    <3>1. carried = Moved(parseTCPHeader, 12, 8) BY <2>1
    <3>2. Within(parseTCPHeader, 0, 20) BY ParsedTCP
    <3> QED BY <2>1, <3>1, <3>2, MovedStands
  <2>2. CASE next = "UDP"
    <3>1. carried = Moved(parseUDPHeader, 12, 8) BY <2>2
    <3>2. Within(parseUDPHeader, 0, 20) BY ParsedUDP DEF Within
    <3> QED BY <2>2, <3>1, <3>2, MovedStands
  <2>3. CASE next = "ICMPv6"
    <3>1. carried = Moved(parseICMPHeader, 12, 8) BY <2>3
    <3>2. Within(parseICMPHeader, 0, 20) BY ParsedICMP DEF Within
    <3> QED BY <2>3, <3>1, <3>2, MovedStands
  <2>4. CASE next \notin {"TCP", "UDP", "ICMPv6"}
    <3>1. carried = <<>> BY <2>4
    <3> HIDE DEF carried
    <3> QED BY <2>4, <3>1 DEF Within
  <2> QED BY <2>1, <2>2, <2>3, <2>4
<1>2. parseIPv6HopByHop(next) = Together(s) BY DEF parseIPv6HopByHop
<1> HIDE DEF carried
<1>3. /\ Within(Copy(0, 1, 0), 0, 1) /\ Within(Copy(1, 1, 1), 1, 2)
      /\ Within(Copy(2, 6, 2), 2, 8) /\ Within(Copy(8, 2, 8), 8, 10)
  BY StoreWithin
<1>4. Apart(s) BY <1>1, <1>3 DEF Apart, Within
<1>5. /\ Copy(0, 1, 0) \in s /\ Copy(1, 1, 1) \in s /\ Copy(2, 6, 2) \in s /\ carried \in s
      /\ \A x \in s : Within(x, 0, 32)
  BY <1>1, <1>3 DEF Within
<1> HIDE DEF s
<1>6. Within(Together(s), 0, 32) BY <1>4, <1>5, TogetherIs DEF Within
<1>7. Turned(Together(s), 0, 1, 0) /\ Turned(Together(s), 1, 1, 1)
  BY <1>4, <1>5, TogetherStraight, OneByte
<1>8. /\ next = "TCP" => Stands(parseTCPHeader, Together(s), 12, 8)
      /\ next = "UDP" => Stands(parseUDPHeader, Together(s), 12, 8)
      /\ next = "ICMPv6" => Stands(parseICMPHeader, Together(s), 12, 8)
  BY <1>1, <1>4, <1>5, TogetherStands
<1> QED BY <1>2, <1>4, <1>5, <1>6, <1>7, <1>8, TogetherStraight

LEMMA TCPRows == DOMAIN printTCP = DOMAIN WireTCP
<1> DEFINE printed == [source |-> Value(0, 2), dest |-> Value(2, 2), seq |-> Value(4, 4),
                       ack |-> Value(8, 4), offset |-> Value(12, 1), flags |-> Value(13, 1),
                       window |-> Value(14, 2), checksum |-> Value(16, 2),
                       urgent |-> Value(18, 2)]
<1> DEFINE sent == [source |-> Array(0, 2), dest |-> Array(2, 2), seq |-> Array(4, 4),
                    ack |-> Array(8, 4), offset |-> Array(12, 1), flags |-> Array(13, 1),
                    window |-> Array(14, 2), checksum |-> Array(16, 2),
                    urgent |-> Array(18, 2)]
<1>1. printTCP = Named("TCP", printed) /\ WireTCP = Named("TCP", sent) BY DEF printTCP, WireTCP
<1>2. DOMAIN printed = DOMAIN sent OBVIOUS
<1> HIDE DEF printed, sent
<1> QED BY <1>1, <1>2, NamedIs

LEMMA TCPShown ==
  ASSUME NEW store, NEW at \in Nat, NEW from \in Nat, NEW w \in Nat,
         Stands(parseTCPHeader, store, at, from), w = from \/ w > from + 1
  PROVE  \A l \in DOMAIN printTCP :
           (l \in DOMAIN WireTCP /\ Seen(Below(printTCP, at)[l], store) = Below(WireTCP, w)[l])
             <=> from = w /\ l \notin LateRows
<1> DEFINE printed == [source |-> Value(0, 2), dest |-> Value(2, 2), seq |-> Value(4, 4),
                       ack |-> Value(8, 4), offset |-> Value(12, 1), flags |-> Value(13, 1),
                       window |-> Value(14, 2), checksum |-> Value(16, 2),
                       urgent |-> Value(18, 2)]
<1> DEFINE sent == [source |-> Array(0, 2), dest |-> Array(2, 2), seq |-> Array(4, 4),
                    ack |-> Array(8, 4), offset |-> Array(12, 1), flags |-> Array(13, 1),
                    window |-> Array(14, 2), checksum |-> Array(16, 2),
                    urgent |-> Array(18, 2)]
<1> DEFINE Rows == {"source", "dest", "seq", "ack", "offset", "flags", "window", "checksum",
                   "urgent"}
<1> DEFINE Told(k) == Seen(Below(printTCP, at)[<<"TCP", k>>], store) = Below(WireTCP, w)[<<"TCP", k>>]
<1>1. printTCP = Named("TCP", printed) /\ WireTCP = Named("TCP", sent) BY DEF printTCP, WireTCP
<1>2. DOMAIN printed = Rows /\ DOMAIN sent = Rows OBVIOUS
<1>3. printed["source"] = Value(0, 2) /\ printed["dest"] = Value(2, 2) /\
      printed["seq"] = Value(4, 4) /\ printed["ack"] = Value(8, 4) /\
      printed["offset"] = Value(12, 1) /\ printed["flags"] = Value(13, 1) /\
      printed["window"] = Value(14, 2) /\ printed["checksum"] = Value(16, 2) /\
      printed["urgent"] = Value(18, 2)
  OBVIOUS
<1>4. sent["source"] = Array(0, 2) /\ sent["dest"] = Array(2, 2) /\
      sent["seq"] = Array(4, 4) /\ sent["ack"] = Array(8, 4) /\
      sent["offset"] = Array(12, 1) /\ sent["flags"] = Array(13, 1) /\
      sent["window"] = Array(14, 2) /\ sent["checksum"] = Array(16, 2) /\
      sent["urgent"] = Array(18, 2)
  OBVIOUS
<1> HIDE DEF printed, sent, Rows
<1>5. /\ DOMAIN printTCP = {<<"TCP", k>> : k \in Rows}
      /\ \A k \in Rows : printTCP[<<"TCP", k>>] = printed[k]
      /\ DOMAIN WireTCP = {<<"TCP", k>> : k \in Rows}
      /\ \A k \in Rows : WireTCP[<<"TCP", k>>] = sent[k]
  BY <1>1, <1>2, NamedIs
<1>6. "source" \in Rows /\ "dest" \in Rows /\ "seq" \in Rows /\ "ack" \in Rows /\
      "offset" \in Rows /\ "flags" \in Rows /\ "window" \in Rows /\ "checksum" \in Rows /\
      "urgent" \in Rows
  BY DEF Rows
<1>7. \A k \in Rows : <<"TCP", k>> \in DOMAIN printTCP /\ <<"TCP", k>> \in DOMAIN WireTCP
  BY <1>5
<1>8. /\ printTCP[<<"TCP", "source">>] = Value(0, 2) /\ WireTCP[<<"TCP", "source">>] = Array(0, 2)
      /\ printTCP[<<"TCP", "dest">>] = Value(2, 2) /\ WireTCP[<<"TCP", "dest">>] = Array(2, 2)
      /\ printTCP[<<"TCP", "seq">>] = Value(4, 4) /\ WireTCP[<<"TCP", "seq">>] = Array(4, 4)
      /\ printTCP[<<"TCP", "ack">>] = Value(8, 4) /\ WireTCP[<<"TCP", "ack">>] = Array(8, 4)
      /\ printTCP[<<"TCP", "offset">>] = Value(12, 1) /\ WireTCP[<<"TCP", "offset">>] = Array(12, 1)
      /\ printTCP[<<"TCP", "flags">>] = Value(13, 1) /\ WireTCP[<<"TCP", "flags">>] = Array(13, 1)
      /\ printTCP[<<"TCP", "window">>] = Value(14, 2) /\ WireTCP[<<"TCP", "window">>] = Array(14, 2)
      /\ printTCP[<<"TCP", "checksum">>] = Value(16, 2) /\ WireTCP[<<"TCP", "checksum">>] = Array(16, 2)
      /\ printTCP[<<"TCP", "urgent">>] = Value(18, 2) /\ WireTCP[<<"TCP", "urgent">>] = Array(18, 2)
  BY <1>3, <1>4, <1>5, <1>6
<1>9. Told("source") <=> from = w BY <1>6, <1>7, <1>8, ParsedTCP, SameShown
<1>10. Told("dest") <=> from = w BY <1>6, <1>7, <1>8, ParsedTCP, SameShown
<1>11. Told("seq") <=> from = w BY <1>6, <1>7, <1>8, ParsedTCP, SameShown
<1>12. Told("ack") <=> from = w BY <1>6, <1>7, <1>8, ParsedTCP, SameShown
<1>13. Told("offset") <=> from = w BY <1>6, <1>7, <1>8, ParsedTCP, SameShown
<1>14. Told("flags") <=> from + 14 = w + 13 BY <1>6, <1>7, <1>8, ParsedTCP, NumberShown
<1>15. Told("window") <=> from + 15 = w + 14 BY <1>6, <1>7, <1>8, ParsedTCP, NumberShown
<1>16. Told("checksum") <=> from + 17 = w + 16 BY <1>6, <1>7, <1>8, ParsedTCP, NumberShown
<1>17. Told("urgent") <=> from + 19 = w + 18 BY <1>6, <1>7, <1>8, ParsedTCP, NumberShown
<1>18. ASSUME NEW k \in Rows
      PROVE  (<<"TCP", k>> \in DOMAIN WireTCP /\ Told(k)) <=> from = w /\ <<"TCP", k>> \notin LateRows
  <2>1. k \in Rows => <<"TCP", k>> \in DOMAIN WireTCP BY <1>5
  <2>2. <<"TCP", k>> \in DOMAIN WireTCP => k \in Rows BY <1>5
  <2> HIDE DEF Told
  <2> QED BY <1>9, <1>10, <1>11, <1>12, <1>13, <1>14, <1>15, <1>16, <1>17, <2>1, <2>2 DEF Rows, LateRows
<1> QED BY <1>5, <1>18

LEMMA UDPRows == DOMAIN printUDP = DOMAIN WireUDP
<1> DEFINE printed == [source |-> Value(0, 2), dest |-> Value(2, 2), length |-> Value(4, 2),
                       checksum |-> Value(6, 2)]
<1> DEFINE sent == [source |-> Array(0, 2), dest |-> Array(2, 2), length |-> Array(4, 2),
                    checksum |-> Array(6, 2)]
<1>1. printUDP = Named("UDP", printed) /\ WireUDP = Named("UDP", sent) BY DEF printUDP, WireUDP
<1>2. DOMAIN printed = DOMAIN sent OBVIOUS
<1> HIDE DEF printed, sent
<1> QED BY <1>1, <1>2, NamedIs

LEMMA UDPShown ==
  ASSUME NEW store, NEW at \in Nat, NEW from \in Nat, NEW w \in Nat,
         Stands(parseUDPHeader, store, at, from)
  PROVE  \A l \in DOMAIN printUDP :
           (l \in DOMAIN WireUDP /\ Seen(Below(printUDP, at)[l], store) = Below(WireUDP, w)[l])
             <=> from = w
<1> DEFINE printed == [source |-> Value(0, 2), dest |-> Value(2, 2), length |-> Value(4, 2),
                       checksum |-> Value(6, 2)]
<1> DEFINE sent == [source |-> Array(0, 2), dest |-> Array(2, 2), length |-> Array(4, 2),
                    checksum |-> Array(6, 2)]
<1> DEFINE Rows == {"source", "dest", "length", "checksum"}
<1> DEFINE Told(k) == Seen(Below(printUDP, at)[<<"UDP", k>>], store) = Below(WireUDP, w)[<<"UDP", k>>]
<1>1. printUDP = Named("UDP", printed) /\ WireUDP = Named("UDP", sent) BY DEF printUDP, WireUDP
<1>2. DOMAIN printed = Rows /\ DOMAIN sent = Rows OBVIOUS
<1>3. printed["source"] = Value(0, 2) /\ printed["dest"] = Value(2, 2) /\
      printed["length"] = Value(4, 2) /\ printed["checksum"] = Value(6, 2)
  OBVIOUS
<1>4. sent["source"] = Array(0, 2) /\ sent["dest"] = Array(2, 2) /\
      sent["length"] = Array(4, 2) /\ sent["checksum"] = Array(6, 2)
  OBVIOUS
<1> HIDE DEF printed, sent, Rows
<1>5. /\ DOMAIN printUDP = {<<"UDP", k>> : k \in Rows}
      /\ \A k \in Rows : printUDP[<<"UDP", k>>] = printed[k]
      /\ DOMAIN WireUDP = {<<"UDP", k>> : k \in Rows}
      /\ \A k \in Rows : WireUDP[<<"UDP", k>>] = sent[k]
  BY <1>1, <1>2, NamedIs
<1>6. "source" \in Rows /\ "dest" \in Rows /\ "length" \in Rows /\ "checksum" \in Rows
  BY DEF Rows
<1>7. \A k \in Rows : <<"UDP", k>> \in DOMAIN printUDP /\ <<"UDP", k>> \in DOMAIN WireUDP
  BY <1>5
<1>8. /\ printUDP[<<"UDP", "source">>] = Value(0, 2) /\ WireUDP[<<"UDP", "source">>] = Array(0, 2)
      /\ printUDP[<<"UDP", "dest">>] = Value(2, 2) /\ WireUDP[<<"UDP", "dest">>] = Array(2, 2)
      /\ printUDP[<<"UDP", "length">>] = Value(4, 2) /\ WireUDP[<<"UDP", "length">>] = Array(4, 2)
      /\ printUDP[<<"UDP", "checksum">>] = Value(6, 2) /\ WireUDP[<<"UDP", "checksum">>] = Array(6, 2)
  BY <1>3, <1>4, <1>5, <1>6
<1>9. Told("source") <=> from = w BY <1>6, <1>7, <1>8, ParsedUDP, SameShown
<1>10. Told("dest") <=> from = w BY <1>6, <1>7, <1>8, ParsedUDP, SameShown
<1>11. Told("length") <=> from = w BY <1>6, <1>7, <1>8, ParsedUDP, SameShown
<1>12. Told("checksum") <=> from = w BY <1>6, <1>7, <1>8, ParsedUDP, SameShown
<1>13. ASSUME NEW k \in Rows
      PROVE  (<<"UDP", k>> \in DOMAIN WireUDP /\ Told(k)) <=> from = w
  <2>1. k \in Rows => <<"UDP", k>> \in DOMAIN WireUDP BY <1>5
  <2>2. <<"UDP", k>> \in DOMAIN WireUDP => k \in Rows BY <1>5
  <2> HIDE DEF Told
  <2> QED BY <1>9, <1>10, <1>11, <1>12, <2>1, <2>2 DEF Rows
<1> QED BY <1>5, <1>13

LEMMA ICMPRows == DOMAIN printICMP = DOMAIN WireICMP
<1> DEFINE printed == [type |-> Value(0, 1), code |-> Value(1, 1), checksum |-> Value(2, 2)]
<1> DEFINE sent == [type |-> Array(0, 1), code |-> Array(1, 1), checksum |-> Array(2, 2)]
<1>1. printICMP = Named("ICMP", printed) /\ WireICMP = Named("ICMP", sent) BY DEF printICMP, WireICMP
<1>2. DOMAIN printed = DOMAIN sent OBVIOUS
<1> HIDE DEF printed, sent
<1> QED BY <1>1, <1>2, NamedIs

LEMMA ICMPShown ==
  ASSUME NEW store, NEW at \in Nat, NEW from \in Nat, NEW w \in Nat,
         Stands(parseICMPHeader, store, at, from)
  PROVE  \A l \in DOMAIN printICMP :
           (l \in DOMAIN WireICMP /\ Seen(Below(printICMP, at)[l], store) = Below(WireICMP, w)[l])
             <=> from = w
<1> DEFINE printed == [type |-> Value(0, 1), code |-> Value(1, 1), checksum |-> Value(2, 2)]
<1> DEFINE sent == [type |-> Array(0, 1), code |-> Array(1, 1), checksum |-> Array(2, 2)]
<1> DEFINE Rows == {"type", "code", "checksum"}
<1> DEFINE Told(k) == Seen(Below(printICMP, at)[<<"ICMP", k>>], store) = Below(WireICMP, w)[<<"ICMP", k>>]
<1>1. printICMP = Named("ICMP", printed) /\ WireICMP = Named("ICMP", sent) BY DEF printICMP, WireICMP
<1>2. DOMAIN printed = Rows /\ DOMAIN sent = Rows OBVIOUS
<1>3. printed["type"] = Value(0, 1) /\ printed["code"] = Value(1, 1) /\
      printed["checksum"] = Value(2, 2)
  OBVIOUS
<1>4. sent["type"] = Array(0, 1) /\ sent["code"] = Array(1, 1) /\
      sent["checksum"] = Array(2, 2)
  OBVIOUS
<1> HIDE DEF printed, sent, Rows
<1>5. /\ DOMAIN printICMP = {<<"ICMP", k>> : k \in Rows}
      /\ \A k \in Rows : printICMP[<<"ICMP", k>>] = printed[k]
      /\ DOMAIN WireICMP = {<<"ICMP", k>> : k \in Rows}
      /\ \A k \in Rows : WireICMP[<<"ICMP", k>>] = sent[k]
  BY <1>1, <1>2, NamedIs
<1>6. "type" \in Rows /\ "code" \in Rows /\ "checksum" \in Rows
  BY DEF Rows
<1>7. \A k \in Rows : <<"ICMP", k>> \in DOMAIN printICMP /\ <<"ICMP", k>> \in DOMAIN WireICMP
  BY <1>5
<1>8. /\ printICMP[<<"ICMP", "type">>] = Value(0, 1) /\ WireICMP[<<"ICMP", "type">>] = Array(0, 1)
      /\ printICMP[<<"ICMP", "code">>] = Value(1, 1) /\ WireICMP[<<"ICMP", "code">>] = Array(1, 1)
      /\ printICMP[<<"ICMP", "checksum">>] = Value(2, 2) /\ WireICMP[<<"ICMP", "checksum">>] = Array(2, 2)
  BY <1>3, <1>4, <1>5, <1>6
<1>9. Told("type") <=> from = w BY <1>6, <1>7, <1>8, ParsedICMP, SameShown
<1>10. Told("code") <=> from = w BY <1>6, <1>7, <1>8, ParsedICMP, SameShown
<1>11. Told("checksum") <=> from = w BY <1>6, <1>7, <1>8, ParsedICMP, SameShown
<1>12. ASSUME NEW k \in Rows
      PROVE  (<<"ICMP", k>> \in DOMAIN WireICMP /\ Told(k)) <=> from = w
  <2>1. k \in Rows => <<"ICMP", k>> \in DOMAIN WireICMP BY <1>5
  <2>2. <<"ICMP", k>> \in DOMAIN WireICMP => k \in Rows BY <1>5
  <2> HIDE DEF Told
  <2> QED BY <1>9, <1>10, <1>11, <2>1, <2>2 DEF Rows
<1> QED BY <1>5, <1>12

LEMMA EthernetShown ==
  ASSUME NEW store, Stands(parseEthernetHeader, store, 0, 0)
  PROVE  \A l \in DOMAIN printMACs :
           l \in DOMAIN WireEthernet /\ Seen(printMACs[l], store) = WireEthernet[l]
<1> DEFINE printed == [source |-> Array(6, 6), dest |-> Array(0, 6)]
<1>1. printMACs = Named("Ethernet", printed) /\ WireEthernet = Named("Ethernet", printed)
  BY DEF printMACs, WireEthernet
<1>2. Seen(Array(0 + 6, 6), store) = Array(0 + 6, 6) /\ Seen(Array(0 + 0, 6), store) = Array(0 + 0, 6)
  BY ParsedEthernet, StraightShown
<1>3. Seen(Array(6, 6), store) = Array(6, 6) /\ Seen(Array(0, 6), store) = Array(0, 6)
  <2>1. 0 + 6 = 6 /\ 0 + 0 = 0 OBVIOUS
  <2> QED BY <1>2, <2>1
<1>4. \A k \in DOMAIN printed : Seen(printed[k], store) = printed[k] BY <1>3
<1> HIDE DEF printed
<1>5. /\ DOMAIN Named("Ethernet", printed) = {<<"Ethernet", k>> : k \in DOMAIN printed}
      /\ \A k \in DOMAIN printed : Named("Ethernet", printed)[<<"Ethernet", k>>] = printed[k]
  BY NamedIs
<1>6. \A l \in DOMAIN Named("Ethernet", printed) :
        Seen(Named("Ethernet", printed)[l], store) = Named("Ethernet", printed)[l]
  BY <1>4, <1>5
<1> QED BY <1>1, <1>6

LEMMA ARPRows == DOMAIN printARP = DOMAIN WireARP
<1> DEFINE printed == [sender |-> Array(8, 6), senderIP |-> Array(16, 4),
                       target |-> Array(20, 6), targetIP |-> Array(28, 4),
                       opcode |-> Value(6, 2)]
<1> DEFINE sent == [sender |-> Array(8, 6), senderIP |-> Array(14, 4),
                    target |-> Array(18, 6), targetIP |-> Array(24, 4),
                    opcode |-> Array(6, 2)]
<1>1. printARP = Named("ARP", printed) /\ WireARP = Named("ARP", sent) BY DEF printARP, WireARP
<1>2. DOMAIN printed = DOMAIN sent OBVIOUS
<1> HIDE DEF printed, sent
<1> QED BY <1>1, <1>2, NamedIs

LEMMA ARPShown ==
  ASSUME NEW store, NEW at \in Nat, NEW from \in Nat,
         Stands(parseARPHeader, store, at, from)
  PROVE  \A l \in DOMAIN printARP :
           (l \in DOMAIN WireARP /\ Seen(Below(printARP, at)[l], store) = Below(WireARP, from)[l])
             <=> l \notin Unswapped
<1> DEFINE printed == [sender |-> Array(8, 6), senderIP |-> Array(16, 4),
                       target |-> Array(20, 6), targetIP |-> Array(28, 4),
                       opcode |-> Value(6, 2)]
<1> DEFINE sent == [sender |-> Array(8, 6), senderIP |-> Array(14, 4),
                    target |-> Array(18, 6), targetIP |-> Array(24, 4),
                    opcode |-> Array(6, 2)]
<1> DEFINE Rows == {"sender", "senderIP", "target", "targetIP", "opcode"}
<1> DEFINE Told(k) == Seen(Below(printARP, at)[<<"ARP", k>>], store) = Below(WireARP, from)[<<"ARP", k>>]
<1>1. printARP = Named("ARP", printed) /\ WireARP = Named("ARP", sent) BY DEF printARP, WireARP
<1>2. DOMAIN printed = Rows /\ DOMAIN sent = Rows OBVIOUS
<1>3. printed["sender"] = Array(8, 6) /\ printed["senderIP"] = Array(16, 4) /\
      printed["target"] = Array(20, 6) /\ printed["targetIP"] = Array(28, 4) /\
      printed["opcode"] = Value(6, 2)
  OBVIOUS
<1>4. sent["sender"] = Array(8, 6) /\ sent["senderIP"] = Array(14, 4) /\
      sent["target"] = Array(18, 6) /\ sent["targetIP"] = Array(24, 4) /\
      sent["opcode"] = Array(6, 2)
  OBVIOUS
<1> HIDE DEF printed, sent, Rows
<1>5. /\ DOMAIN printARP = {<<"ARP", k>> : k \in Rows}
      /\ \A k \in Rows : printARP[<<"ARP", k>>] = printed[k]
      /\ DOMAIN WireARP = {<<"ARP", k>> : k \in Rows}
      /\ \A k \in Rows : WireARP[<<"ARP", k>>] = sent[k]
  BY <1>1, <1>2, NamedIs
<1>6. "sender" \in Rows /\ "senderIP" \in Rows /\ "target" \in Rows /\
      "targetIP" \in Rows /\ "opcode" \in Rows
  BY DEF Rows
<1>7. \A k \in Rows : <<"ARP", k>> \in DOMAIN printARP /\ <<"ARP", k>> \in DOMAIN WireARP
  BY <1>5
<1>8. /\ printARP[<<"ARP", "sender">>] = Array(8, 6) /\ WireARP[<<"ARP", "sender">>] = Array(8, 6)
      /\ printARP[<<"ARP", "senderIP">>] = Array(16, 4) /\ WireARP[<<"ARP", "senderIP">>] = Array(14, 4)
      /\ printARP[<<"ARP", "target">>] = Array(20, 6) /\ WireARP[<<"ARP", "target">>] = Array(18, 6)
      /\ printARP[<<"ARP", "targetIP">>] = Array(28, 4) /\ WireARP[<<"ARP", "targetIP">>] = Array(24, 4)
      /\ printARP[<<"ARP", "opcode">>] = Value(6, 2) /\ WireARP[<<"ARP", "opcode">>] = Array(6, 2)
  BY <1>3, <1>4, <1>5, <1>6
<1>9. Told("sender") BY <1>6, <1>7, <1>8, ParsedARP, BytesShown
<1>10. Told("senderIP") BY <1>6, <1>7, <1>8, ParsedARP, BytesShown
<1>11. Told("target") BY <1>6, <1>7, <1>8, ParsedARP, BytesShown
<1>12. Told("targetIP") BY <1>6, <1>7, <1>8, ParsedARP, BytesShown
<1>13. ~Told("opcode") BY <1>6, <1>7, <1>8, ParsedARP, UnswappedShown
<1>14. ASSUME NEW k \in Rows
      PROVE  (<<"ARP", k>> \in DOMAIN WireARP /\ Told(k)) <=> <<"ARP", k>> \notin Unswapped
  <2>1. k \in Rows => <<"ARP", k>> \in DOMAIN WireARP BY <1>5
  <2>2. <<"ARP", k>> \in DOMAIN WireARP => k \in Rows BY <1>5
  <2> HIDE DEF Told
  <2> QED BY <1>9, <1>10, <1>11, <1>12, <1>13, <2>1, <2>2 DEF Rows, Unswapped
<1> QED BY <1>5, <1>14

LEMMA IPv4Shown ==
  ASSUME NEW store, NEW at \in Nat, NEW from \in Nat,
         Stands(parseIPv4Header, store, at, from)
  PROVE  \A l \in DOMAIN printIPv4 :
           l \in DOMAIN WireIPv4 /\ Seen(Below(printIPv4, at)[l], store) = Below(WireIPv4, from)[l]
<1> DEFINE printed == [version |-> Value(0, 1), tos |-> Value(1, 1), total |-> Value(2, 2),
                       id |-> Value(4, 2), fragment |-> Value(6, 2), ttl |-> Value(8, 1),
                       proto |-> Value(9, 1), checksum |-> Value(10, 2),
                       source |-> Array(12, 4), dest |-> Array(16, 4)]
<1> DEFINE sent == [version |-> Array(0, 1), tos |-> Array(1, 1), total |-> Array(2, 2),
                    id |-> Array(4, 2), fragment |-> Array(6, 2), ttl |-> Array(8, 1),
                    proto |-> Array(9, 1), checksum |-> Array(10, 2),
                    source |-> Array(12, 4), dest |-> Array(16, 4)]
<1> DEFINE Rows == {"version", "tos", "total", "id", "fragment", "ttl", "proto", "checksum",
                   "source", "dest"}
<1> DEFINE Told(k) == Seen(Below(printIPv4, at)[<<"IPv4", k>>], store) = Below(WireIPv4, from)[<<"IPv4", k>>]
<1>1. printIPv4 = Named("IPv4", printed) /\ WireIPv4 = Named("IPv4", sent) BY DEF printIPv4, WireIPv4
<1>2. DOMAIN printed = Rows /\ DOMAIN sent = Rows OBVIOUS
<1>3. printed["version"] = Value(0, 1) /\ printed["tos"] = Value(1, 1) /\
      printed["total"] = Value(2, 2) /\ printed["id"] = Value(4, 2) /\
      printed["fragment"] = Value(6, 2) /\ printed["ttl"] = Value(8, 1) /\
      printed["proto"] = Value(9, 1) /\ printed["checksum"] = Value(10, 2) /\
      printed["source"] = Array(12, 4) /\ printed["dest"] = Array(16, 4)
  OBVIOUS
<1>4. sent["version"] = Array(0, 1) /\ sent["tos"] = Array(1, 1) /\
      sent["total"] = Array(2, 2) /\ sent["id"] = Array(4, 2) /\
      sent["fragment"] = Array(6, 2) /\ sent["ttl"] = Array(8, 1) /\
      sent["proto"] = Array(9, 1) /\ sent["checksum"] = Array(10, 2) /\
      sent["source"] = Array(12, 4) /\ sent["dest"] = Array(16, 4)
  OBVIOUS
<1> HIDE DEF printed, sent, Rows
<1>5. /\ DOMAIN printIPv4 = {<<"IPv4", k>> : k \in Rows}
      /\ \A k \in Rows : printIPv4[<<"IPv4", k>>] = printed[k]
      /\ DOMAIN WireIPv4 = {<<"IPv4", k>> : k \in Rows}
      /\ \A k \in Rows : WireIPv4[<<"IPv4", k>>] = sent[k]
  BY <1>1, <1>2, NamedIs
<1>6. "version" \in Rows /\ "tos" \in Rows /\ "total" \in Rows /\ "id" \in Rows /\
      "fragment" \in Rows /\ "ttl" \in Rows /\ "proto" \in Rows /\ "checksum" \in Rows /\
      "source" \in Rows /\ "dest" \in Rows
  BY DEF Rows
<1>7. \A k \in Rows : <<"IPv4", k>> \in DOMAIN printIPv4 /\ <<"IPv4", k>> \in DOMAIN WireIPv4
  BY <1>5
<1>8. /\ printIPv4[<<"IPv4", "version">>] = Value(0, 1) /\ WireIPv4[<<"IPv4", "version">>] = Array(0, 1)
      /\ printIPv4[<<"IPv4", "tos">>] = Value(1, 1) /\ WireIPv4[<<"IPv4", "tos">>] = Array(1, 1)
      /\ printIPv4[<<"IPv4", "total">>] = Value(2, 2) /\ WireIPv4[<<"IPv4", "total">>] = Array(2, 2)
      /\ printIPv4[<<"IPv4", "id">>] = Value(4, 2) /\ WireIPv4[<<"IPv4", "id">>] = Array(4, 2)
      /\ printIPv4[<<"IPv4", "fragment">>] = Value(6, 2) /\ WireIPv4[<<"IPv4", "fragment">>] = Array(6, 2)
      /\ printIPv4[<<"IPv4", "ttl">>] = Value(8, 1) /\ WireIPv4[<<"IPv4", "ttl">>] = Array(8, 1)
      /\ printIPv4[<<"IPv4", "proto">>] = Value(9, 1) /\ WireIPv4[<<"IPv4", "proto">>] = Array(9, 1)
      /\ printIPv4[<<"IPv4", "checksum">>] = Value(10, 2) /\ WireIPv4[<<"IPv4", "checksum">>] = Array(10, 2)
      /\ printIPv4[<<"IPv4", "source">>] = Array(12, 4) /\ WireIPv4[<<"IPv4", "source">>] = Array(12, 4)
      /\ printIPv4[<<"IPv4", "dest">>] = Array(16, 4) /\ WireIPv4[<<"IPv4", "dest">>] = Array(16, 4)
  BY <1>3, <1>4, <1>5, <1>6
<1>9. Told("version") BY <1>6, <1>7, <1>8, ParsedIPv4, SameShown
<1>10. Told("tos") BY <1>6, <1>7, <1>8, ParsedIPv4, SameShown
<1>11. Told("total") BY <1>6, <1>7, <1>8, ParsedIPv4, SameShown
<1>12. Told("id") BY <1>6, <1>7, <1>8, ParsedIPv4, SameShown
<1>13. Told("fragment") BY <1>6, <1>7, <1>8, ParsedIPv4, SameShown
<1>14. Told("ttl") BY <1>6, <1>7, <1>8, ParsedIPv4, SameShown
<1>15. Told("proto") BY <1>6, <1>7, <1>8, ParsedIPv4, SameShown
<1>16. Told("checksum") BY <1>6, <1>7, <1>8, ParsedIPv4, SameShown
<1>17. Told("source") BY <1>6, <1>7, <1>8, ParsedIPv4, BytesShown
<1>18. Told("dest") BY <1>6, <1>7, <1>8, ParsedIPv4, BytesShown
<1>19. ASSUME NEW k \in Rows
      PROVE  <<"IPv4", k>> \in DOMAIN WireIPv4 /\ Told(k)
  <2>1. k \in Rows => <<"IPv4", k>> \in DOMAIN WireIPv4 BY <1>5
  <2>2. <<"IPv4", k>> \in DOMAIN WireIPv4 => k \in Rows BY <1>5
  <2> HIDE DEF Told
  <2> QED BY <1>9, <1>10, <1>11, <1>12, <1>13, <1>14, <1>15, <1>16, <1>17, <1>18, <2>1, <2>2 DEF Rows
<1> QED BY <1>5, <1>19

LEMMA IPv6Rows == DOMAIN printIPv6 = DOMAIN WireIPv6
<1> DEFINE printed == [version |-> Value(0, 4), payload |-> Value(4, 2),
                       next |-> Value(6, 1), hops |-> Value(7, 1), source |-> Array(8, 16),
                       dest |-> Array(24, 16)]
<1> DEFINE sent == [version |-> Array(0, 4), payload |-> Array(4, 2), next |-> Array(6, 1),
                    hops |-> Array(7, 1), source |-> Array(8, 16), dest |-> Array(24, 16)]
<1>1. printIPv6 = Named("IPv6", printed) /\ WireIPv6 = Named("IPv6", sent) BY DEF printIPv6, WireIPv6
<1>2. DOMAIN printed = DOMAIN sent OBVIOUS
<1> HIDE DEF printed, sent
<1> QED BY <1>1, <1>2, NamedIs

LEMMA IPv6Shown ==
  ASSUME NEW store, NEW at \in Nat, NEW from \in Nat,
         Stands(parseIPv6Header, store, at, from)
  PROVE  \A l \in DOMAIN printIPv6 :
           (l \in DOMAIN WireIPv6 /\ Seen(Below(printIPv6, at)[l], store) = Below(WireIPv6, from)[l])
             <=> l \notin Unswapped
<1> DEFINE printed == [version |-> Value(0, 4), payload |-> Value(4, 2),
                       next |-> Value(6, 1), hops |-> Value(7, 1), source |-> Array(8, 16),
                       dest |-> Array(24, 16)]
<1> DEFINE sent == [version |-> Array(0, 4), payload |-> Array(4, 2), next |-> Array(6, 1),
                    hops |-> Array(7, 1), source |-> Array(8, 16), dest |-> Array(24, 16)]
<1> DEFINE Rows == {"version", "payload", "next", "hops", "source", "dest"}
<1> DEFINE Told(k) == Seen(Below(printIPv6, at)[<<"IPv6", k>>], store) = Below(WireIPv6, from)[<<"IPv6", k>>]
<1>1. printIPv6 = Named("IPv6", printed) /\ WireIPv6 = Named("IPv6", sent) BY DEF printIPv6, WireIPv6
<1>2. DOMAIN printed = Rows /\ DOMAIN sent = Rows OBVIOUS
<1>3. printed["version"] = Value(0, 4) /\ printed["payload"] = Value(4, 2) /\
      printed["next"] = Value(6, 1) /\ printed["hops"] = Value(7, 1) /\
      printed["source"] = Array(8, 16) /\ printed["dest"] = Array(24, 16)
  OBVIOUS
<1>4. sent["version"] = Array(0, 4) /\ sent["payload"] = Array(4, 2) /\
      sent["next"] = Array(6, 1) /\ sent["hops"] = Array(7, 1) /\
      sent["source"] = Array(8, 16) /\ sent["dest"] = Array(24, 16)
  OBVIOUS
<1> HIDE DEF printed, sent, Rows
<1>5. /\ DOMAIN printIPv6 = {<<"IPv6", k>> : k \in Rows}
      /\ \A k \in Rows : printIPv6[<<"IPv6", k>>] = printed[k]
      /\ DOMAIN WireIPv6 = {<<"IPv6", k>> : k \in Rows}
      /\ \A k \in Rows : WireIPv6[<<"IPv6", k>>] = sent[k]
  BY <1>1, <1>2, NamedIs
<1>6. "version" \in Rows /\ "payload" \in Rows /\ "next" \in Rows /\ "hops" \in Rows /\
      "source" \in Rows /\ "dest" \in Rows
  BY DEF Rows
<1>7. \A k \in Rows : <<"IPv6", k>> \in DOMAIN printIPv6 /\ <<"IPv6", k>> \in DOMAIN WireIPv6
  BY <1>5
<1>8. /\ printIPv6[<<"IPv6", "version">>] = Value(0, 4) /\ WireIPv6[<<"IPv6", "version">>] = Array(0, 4)
      /\ printIPv6[<<"IPv6", "payload">>] = Value(4, 2) /\ WireIPv6[<<"IPv6", "payload">>] = Array(4, 2)
      /\ printIPv6[<<"IPv6", "next">>] = Value(6, 1) /\ WireIPv6[<<"IPv6", "next">>] = Array(6, 1)
      /\ printIPv6[<<"IPv6", "hops">>] = Value(7, 1) /\ WireIPv6[<<"IPv6", "hops">>] = Array(7, 1)
      /\ printIPv6[<<"IPv6", "source">>] = Array(8, 16) /\ WireIPv6[<<"IPv6", "source">>] = Array(8, 16)
      /\ printIPv6[<<"IPv6", "dest">>] = Array(24, 16) /\ WireIPv6[<<"IPv6", "dest">>] = Array(24, 16)
  BY <1>3, <1>4, <1>5, <1>6
<1>9. ~Told("version") BY <1>6, <1>7, <1>8, ParsedIPv6, UnswappedShown
<1>10. ~Told("payload") BY <1>6, <1>7, <1>8, ParsedIPv6, UnswappedShown
<1>11. Told("next") BY <1>6, <1>7, <1>8, ParsedIPv6, SameShown
<1>12. Told("hops") BY <1>6, <1>7, <1>8, ParsedIPv6, SameShown
<1>13. Told("source") BY <1>6, <1>7, <1>8, ParsedIPv6, BytesShown
<1>14. Told("dest") BY <1>6, <1>7, <1>8, ParsedIPv6, BytesShown
<1>15. ASSUME NEW k \in Rows
      PROVE  (<<"IPv6", k>> \in DOMAIN WireIPv6 /\ Told(k)) <=> <<"IPv6", k>> \notin Unswapped
  <2>1. k \in Rows => <<"IPv6", k>> \in DOMAIN WireIPv6 BY <1>5
  <2>2. <<"IPv6", k>> \in DOMAIN WireIPv6 => k \in Rows BY <1>5
  <2> HIDE DEF Told
  <2> QED BY <1>9, <1>10, <1>11, <1>12, <1>13, <1>14, <2>1, <2>2 DEF Rows, Unswapped
<1> QED BY <1>5, <1>15

LEMMA HOPOPTShown ==
  ASSUME NEW next, NEW store, NEW at \in Nat, NEW from \in Nat,
         Stands(parseIPv6HopByHop(next), store, at, from)
  PROVE  \A l \in DOMAIN printHopOptions :
           (l \in DOMAIN WireHopOptions /\ Seen(Below(printHopOptions, at)[l], store) = Below(WireHopOptions, from)[l])
             <=> l \notin {<<"HOPOPT", "padding">>}
<1> DEFINE printed == [next |-> Value(0, 1), ext |-> Value(1, 1), options |-> Array(2, 6),
                       padding |-> Array(8, 2)]
<1> DEFINE sent == [next |-> Array(0, 1), ext |-> Array(1, 1), options |-> Array(2, 6)]
<1> DEFINE Rows == {"next", "ext", "options", "padding"}
<1> DEFINE SentRows == {"next", "ext", "options"}
<1> DEFINE Told(k) == Seen(Below(printHopOptions, at)[<<"HOPOPT", k>>], store) = Below(WireHopOptions, from)[<<"HOPOPT", k>>]
<1>1. printHopOptions = Named("HOPOPT", printed) /\ WireHopOptions = Named("HOPOPT", sent) BY DEF printHopOptions, WireHopOptions
<1>2. DOMAIN printed = Rows /\ DOMAIN sent = SentRows OBVIOUS
<1>3. printed["next"] = Value(0, 1) /\ printed["ext"] = Value(1, 1) /\
      printed["options"] = Array(2, 6) /\ printed["padding"] = Array(8, 2)
  OBVIOUS
<1>4. sent["next"] = Array(0, 1) /\ sent["ext"] = Array(1, 1) /\
      sent["options"] = Array(2, 6)
  OBVIOUS
<1> HIDE DEF printed, sent, Rows, SentRows
<1>5. /\ DOMAIN printHopOptions = {<<"HOPOPT", k>> : k \in Rows}
      /\ \A k \in Rows : printHopOptions[<<"HOPOPT", k>>] = printed[k]
      /\ DOMAIN WireHopOptions = {<<"HOPOPT", k>> : k \in SentRows}
      /\ \A k \in SentRows : WireHopOptions[<<"HOPOPT", k>>] = sent[k]
  <2>1. printHopOptions = Named("HOPOPT", printed) /\ DOMAIN printed = Rows BY <1>1, <1>2
  <2>2. WireHopOptions = Named("HOPOPT", sent) /\ DOMAIN sent = SentRows BY <1>1, <1>2
  <2>3. /\ DOMAIN printHopOptions = {<<"HOPOPT", k>> : k \in Rows}
        /\ \A k \in Rows : printHopOptions[<<"HOPOPT", k>>] = printed[k]
    <3>1. /\ DOMAIN Named("HOPOPT", printed) = {<<"HOPOPT", k>> : k \in DOMAIN printed}
          /\ \A k \in DOMAIN printed : Named("HOPOPT", printed)[<<"HOPOPT", k>>] = printed[k]
      BY NamedIs
    <3> QED BY <2>1, <3>1
  <2>4. /\ DOMAIN WireHopOptions = {<<"HOPOPT", k>> : k \in SentRows}
        /\ \A k \in SentRows : WireHopOptions[<<"HOPOPT", k>>] = sent[k]
    <3>1. /\ DOMAIN Named("HOPOPT", sent) = {<<"HOPOPT", k>> : k \in DOMAIN sent}
          /\ \A k \in DOMAIN sent : Named("HOPOPT", sent)[<<"HOPOPT", k>>] = sent[k]
      BY NamedIs
    <3> QED BY <2>2, <3>1
  <2> QED BY <2>3, <2>4
<1>6. "next" \in Rows /\ "ext" \in Rows /\ "options" \in Rows /\ "padding" \in Rows /\
      "next" \in SentRows /\ "ext" \in SentRows /\ "options" \in SentRows
  BY DEF Rows, SentRows
<1>7. \A k \in SentRows : <<"HOPOPT", k>> \in DOMAIN printHopOptions /\ <<"HOPOPT", k>> \in DOMAIN WireHopOptions
  BY <1>5, <1>6 DEF Rows, SentRows
<1>8. /\ printHopOptions[<<"HOPOPT", "next">>] = Value(0, 1) /\ WireHopOptions[<<"HOPOPT", "next">>] = Array(0, 1)
      /\ printHopOptions[<<"HOPOPT", "ext">>] = Value(1, 1) /\ WireHopOptions[<<"HOPOPT", "ext">>] = Array(1, 1)
      /\ printHopOptions[<<"HOPOPT", "options">>] = Array(2, 6) /\ WireHopOptions[<<"HOPOPT", "options">>] = Array(2, 6)
  BY <1>3, <1>4, <1>5, <1>6
<1>9. Told("next") BY <1>6, <1>7, <1>8, ParsedHOPOPT, SameShown
<1>10. Told("ext") BY <1>6, <1>7, <1>8, ParsedHOPOPT, SameShown
<1>11. Told("options") BY <1>6, <1>7, <1>8, ParsedHOPOPT, BytesShown
<1>12. \A k \in Rows \ {"padding"} : k \in SentRows BY DEF Rows, SentRows
<1>13. "padding" \notin SentRows BY DEF SentRows
<1>14. ASSUME NEW k \in Rows
      PROVE  (<<"HOPOPT", k>> \in DOMAIN WireHopOptions /\ Told(k)) <=> <<"HOPOPT", k>> \notin {<<"HOPOPT", "padding">>}
  <2>1. k \in SentRows => <<"HOPOPT", k>> \in DOMAIN WireHopOptions BY <1>5
  <2>2. <<"HOPOPT", k>> \in DOMAIN WireHopOptions => k \in SentRows BY <1>5
  <2> HIDE DEF Told
  <2> QED BY <1>9, <1>10, <1>11, <1>12, <1>13, <2>1, <2>2 DEF Rows
<1> QED BY <1>5, <1>14

\* Where the headers of a frame stand in what process_received_packet returns.
LEMMA TransportWithin ==
  ASSUME NEW f
  PROVE  Within(Transport(f), 0, 32)
<1>1. Transport(f) \in {parseTCPHeader, parseUDPHeader, parseICMPHeader, parseIPv6HopByHop(f.next), <<>>}
  BY DEF Transport
<1>2. Within(parseTCPHeader, 0, 32) /\ Within(parseUDPHeader, 0, 32) /\ Within(parseICMPHeader, 0, 32)
  BY ParsedTCP, ParsedUDP, ParsedICMP DEF Within
<1>3. Within(parseIPv6HopByHop(f.next), 0, 32) /\ Within(<<>>, 0, 32) BY ParsedHOPOPT DEF Within
<1> QED BY <1>1, <1>2, <1>3

LEMMA HeadersStand ==
  ASSUME NEW f \in Frame, NEW h, h = process_received_packet(f)
  PROVE  /\ Stands(parseEthernetHeader, h, 0, 0)
         /\ f.ether = "ARP" => Stands(parseARPHeader, h, 16, 14)
         /\ f.ether = "IPv4" => Stands(parseIPv4Header, h, 16, 14) /\ Stands(Transport(f), h, 36, 34)
         /\ f.ether = "IPv6" => Stands(parseIPv6Header, h, 16, 14) /\ Stands(Transport(f), h, 56, 54)
         /\ f.ether = "IPv4" /\ f.proto = "ICMP" => \A b \in DOMAIN h : b < 36
<1>1. f.ether \in {"ARP", "IPv4", "IPv6", "other"} BY DEF Frame
<1>2. Within(parseEthernetHeader, 0, 14) /\ Stands(parseEthernetHeader, parseEthernetHeader, 0, 0)
  BY ParsedEthernet, ParsersRead DEF Within, Stands, Reads
<1>3. CASE f.ether = "ARP"
  <2> DEFINE network == Moved(parseARPHeader, 16, 14)
  <2> DEFINE s == {parseEthernetHeader, network}
  <2>1. Stands(parseARPHeader, network, 16, 14) /\ Within(network, 16, 48)
    BY ParsedARP, MovedStands
  <2>2. h = Together(s)
    <3>1. {parseEthernetHeader} \cup {network} = s OBVIOUS
    <3> QED BY <1>3, <3>1 DEF process_received_packet
  <2> HIDE DEF network
  <2>3. Apart(s) BY <1>2, <2>1 DEF Apart, Within
  <2>4. parseEthernetHeader \in s /\ network \in s OBVIOUS
  <2> HIDE DEF s
  <2> QED BY <1>2, <1>3, <2>1, <2>2, <2>3, <2>4, TogetherStands
<1>4. CASE f.ether = "IPv4"
  <2> DEFINE network == Moved(parseIPv4Header, 16, 14)
  <2> DEFINE transport == Moved(Transport(f), 36, 34)
  <2> DEFINE s == {parseEthernetHeader, network, transport}
  <2>1. Stands(parseIPv4Header, network, 16, 14) /\ Within(network, 16, 36)
    <3>1. Within(parseIPv4Header, 0, 20) BY ParsedIPv4
    <3> QED BY <3>1, MovedStands
  <2>2. Stands(Transport(f), transport, 36, 34) /\ Within(transport, 36, 68)
    BY TransportWithin, MovedStands
  <2>3. h = Together(s)
    <3>1. {parseEthernetHeader} \cup {network, transport} = s /\ 16 + 20 = 36 /\ 14 + 20 = 34 OBVIOUS
    <3> QED BY <1>4, <3>1 DEF process_received_packet
  <2>4. f.proto = "ICMP" => DOMAIN transport = {}
    <3>1. f.proto = "ICMP" => Transport(f) = <<>> BY <1>4 DEF Transport
    <3>2. DOMAIN <<>> = {} OBVIOUS
    <3> QED BY <3>1, <3>2 DEF Moved
  <2> HIDE DEF network, transport
  <2>5. Apart(s) BY <1>2, <2>1, <2>2 DEF Apart, Within
  <2>6. /\ parseEthernetHeader \in s /\ network \in s /\ transport \in s
        /\ \A x \in s : x = transport \/ \A b \in DOMAIN x : b < 36
    BY <1>2, <2>1 DEF Within
  <2> HIDE DEF s
  <2>7. f.proto = "ICMP" => \A b \in DOMAIN h : b < 36 BY <2>3, <2>4, <2>5, <2>6, TogetherIs
  <2> QED BY <1>2, <1>4, <2>1, <2>2, <2>3, <2>5, <2>6, <2>7, TogetherStands
<1>5. CASE f.ether = "IPv6"
  <2> DEFINE network == Moved(parseIPv6Header, 16, 14)
  <2> DEFINE transport == Moved(Transport(f), 56, 54)
  <2> DEFINE s == {parseEthernetHeader, network, transport}
  <2>1. Stands(parseIPv6Header, network, 16, 14) /\ Within(network, 16, 56)
    <3>1. Within(parseIPv6Header, 0, 40) BY ParsedIPv6
    <3> QED BY <3>1, MovedStands
  <2>2. Stands(Transport(f), transport, 56, 54) /\ Within(transport, 56, 88)
    BY TransportWithin, MovedStands
  <2>3. h = Together(s)
    <3>1. {parseEthernetHeader} \cup {network, transport} = s /\ 16 + 40 = 56 /\ 14 + 40 = 54 OBVIOUS
    <3> QED BY <1>5, <3>1 DEF process_received_packet
  <2> HIDE DEF network, transport
  <2>4. Apart(s) BY <1>2, <2>1, <2>2 DEF Apart, Within
  <2>5. parseEthernetHeader \in s /\ network \in s /\ transport \in s OBVIOUS
  <2> HIDE DEF s
  <2> QED BY <1>2, <1>5, <2>1, <2>2, <2>3, <2>4, <2>5, TogetherStands
<1>6. CASE f.ether = "other"
  <2> DEFINE s == {parseEthernetHeader}
  <2>1. h = Together(s)
    <3>1. {parseEthernetHeader} \cup {} = s OBVIOUS
    <3> QED BY <1>6, <3>1 DEF process_received_packet
  <2>2. Apart(s) BY DEF Apart
  <2> QED BY <1>2, <1>6, <2>1, <2>2, TogetherStands
<1> QED BY <1>1, <1>3, <1>4, <1>5, <1>6

\* The last byte of a frame that parsing it reads.
LEMMA LastByteRead ==
  ASSUME NEW f \in Frame, f.ether = "IPv6",
         \/ f.proto = "TCP"
         \/ f.proto = "HOPOPT" /\ f.next \in {"TCP", "UDP", "ICMPv6"}
  PROVE  \E b \in DOMAIN process_received_packet(f) :
           process_received_packet(f)[b] = 54 + TransportReads(f) - 1
<1> DEFINE h == process_received_packet(f)
<1>1. Stands(Transport(f), h, 56, 54) BY HeadersStand
<1> HIDE DEF h
<1>2. ASSUME NEW parsed, NEW n \in Nat, NEW k \in Nat, NEW at \in Nat, NEW from \in Nat,
             Stands(parsed, h, at, from), k \in DOMAIN parsed, parsed[k] = n
      PROVE  at + k \in DOMAIN h /\ h[at + k] = from + n
  BY <1>2 DEF Stands
<1>3. 18 \in DOMAIN parseTCPHeader /\ parseTCPHeader[18] = 20
  <2>1. Turned(parseTCPHeader, 18, 2, 19) BY ParsedTCP
  <2>2. 0 \in 0 .. 2 - 1 /\ 18 + 0 = 18 /\ 19 + 2 - 1 - 0 = 20 OBVIOUS
  <2> QED BY <2>1, <2>2 DEF Turned
<1>4. 6 \in DOMAIN parseUDPHeader /\ parseUDPHeader[6] = 7
  <2>1. Turned(parseUDPHeader, 6, 2, 6) BY ParsedUDP
  <2>2. 0 \in 0 .. 2 - 1 /\ 6 + 0 = 6 /\ 6 + 2 - 1 - 0 = 7 OBVIOUS
  <2> QED BY <2>1, <2>2 DEF Turned
<1>5. 4 \in DOMAIN parseICMPHeader /\ parseICMPHeader[4] = 7
  <2>1. Turned(parseICMPHeader, 4, 4, 4) BY ParsedICMP
  <2>2. 0 \in 0 .. 4 - 1 /\ 4 + 0 = 4 /\ 4 + 4 - 1 - 0 = 7 OBVIOUS
  <2> QED BY <2>1, <2>2 DEF Turned
<1>6. CASE f.proto = "TCP"
  <2>1. Transport(f) = parseTCPHeader BY <1>6 DEF Transport
  <2>2. TransportReads(f) = 21 BY <1>6 DEF TransportReads
  <2>3. 56 + 18 \in DOMAIN h /\ h[56 + 18] = 54 + 20 BY <1>1, <1>2, <1>3, <2>1
  <2> QED BY <2>2, <2>3 DEF h
<1>7. CASE f.proto = "HOPOPT"
  <2>1. Transport(f) = parseIPv6HopByHop(f.next) BY <1>7 DEF Transport
  <2>2. TransportReads(f) = IF f.next = "TCP" THEN 29 ELSE 16 BY <1>7 DEF TransportReads
  <2>3. ASSUME NEW parsed, NEW n, Reads(parsed, n), Stands(parsed, parseIPv6HopByHop(f.next), 12, 8)
        PROVE  Stands(parsed, h, 68, 62)
    <3>1. Stands(parsed, h, 56 + 12, 54 + 8) BY <1>1, <2>1, <2>3, StandsInside
    <3>2. 56 + 12 = 68 /\ 54 + 8 = 62 OBVIOUS
    <3> QED BY <3>1, <3>2
  <2>4. CASE f.next = "TCP"
    <3>1. Stands(parseTCPHeader, h, 68, 62) BY <2>3, <2>4, ParsedHOPOPT, ParsersRead
    <3>2. 68 + 18 \in DOMAIN h /\ h[68 + 18] = 62 + 20 BY <1>2, <1>3, <3>1
    <3> QED BY <2>2, <2>4, <3>2 DEF h
  <2>5. CASE f.next = "UDP"
    <3>1. Stands(parseUDPHeader, h, 68, 62) BY <2>3, <2>5, ParsedHOPOPT, ParsersRead
    <3>2. 68 + 6 \in DOMAIN h /\ h[68 + 6] = 62 + 7 BY <1>2, <1>4, <3>1
    <3> QED BY <2>2, <2>5, <3>2 DEF h
  <2>6. CASE f.next = "ICMPv6"
    <3>1. Stands(parseICMPHeader, h, 68, 62) BY <2>3, <2>6, ParsedHOPOPT, ParsersRead
    <3>2. 68 + 4 \in DOMAIN h /\ h[68 + 4] = 62 + 7 BY <1>2, <1>5, <3>1
    <3> QED BY <2>2, <2>6, <3>2 DEF h
  <2> QED BY <1>7, <2>4, <2>5, <2>6
<1> QED BY <1>6, <1>7

\* The parsers read behind the copy of a frame exactly below the length that
\* they take its headers to have.
LEMMA OverrunIs ==
  ASSUME NEW f \in Frame, NEW h, h = process_received_packet(f)
  PROVE  (\E b \in DOMAIN h : h[b] >= CopyLength(f)) <=> f.length < LengthRead(f)
<1>1. /\ f.length \in Nat /\ f.length >= 64
      /\ CopyLength(f) \in Nat /\ CopyLength(f) >= 68 /\ CopyLength(f) = f.length + 4
  <2>1. f.length \in FrameLengths BY DEF Frame
  <2>2. f.length \in Nat /\ f.length >= 64 BY <2>1, FramesAssumption DEF ShortestFrame
  <2> QED BY <2>2 DEF CopyLength
<1> DEFINE long == /\ f.ether = "IPv6"
                   /\ \/ f.proto = "TCP"
                      \/ f.proto = "HOPOPT" /\ f.next \in {"TCP", "UDP", "ICMPv6"}
<1>2. CASE long
  <2>1. LengthRead(f) = 54 + TransportReads(f) - 4 /\ TransportReads(f) \in {29, 16, 21}
    <3>1. CASE f.proto = "TCP"
      <4>1. LengthRead(f) = 71 /\ TransportReads(f) = 21 BY <1>2, <3>1 DEF LengthRead, TransportReads
      <4> QED BY <4>1
    <3>2. CASE f.proto = "HOPOPT"
      <4>1. CASE f.next = "TCP"
        <5>1. LengthRead(f) = 79 /\ TransportReads(f) = 29 BY <1>2, <3>2, <4>1 DEF LengthRead, TransportReads
        <5> QED BY <5>1
      <4>2. CASE f.next # "TCP"
        <5>1. LengthRead(f) = 66 /\ TransportReads(f) = 16 BY <1>2, <3>2, <4>2 DEF LengthRead, TransportReads
        <5> QED BY <5>1
      <4> QED BY <4>1, <4>2
    <3> QED BY <1>2, <3>1, <3>2
  <2>2. CASE f.length < LengthRead(f)
    <3>1. PICK b \in DOMAIN h : h[b] = 54 + TransportReads(f) - 1 BY <1>2, LastByteRead
    <3> QED BY <1>1, <2>1, <2>2, <3>1
  <2>3. CASE ~(f.length < LengthRead(f))
    <3>1. 54 + TransportReads(f) <= CopyLength(f) BY <1>1, <2>1, <2>3
    <3>2. Reads(h, CopyLength(f)) BY <1>1, <3>1, FrameReads
    <3> QED BY <1>1, <2>3, <3>2 DEF Reads
  <2> QED BY <2>2, <2>3
<1>3. CASE ~long
  <2>1. LengthRead(f) = 0 BY <1>3 DEF LengthRead
  <2>2. f.ether = "IPv6" => TransportReads(f) \in {8, 10} BY <1>3 DEF TransportReads
  <2>3. Reads(h, CopyLength(f)) BY <1>1, <2>2, FrameReads
  <2> QED BY <1>1, <2>1, <2>3 DEF Reads
<1> QED BY <1>2, <1>3

\* Such a frame ends before its headers do.
LEMMA OverrunIsShort ==
  ASSUME NEW f \in Frame, f.length < LengthRead(f)
  PROVE  Sent(f) < HeadersEnd(f)
<1>1. f.length \in Nat /\ f.options \in Nat
  <2>1. f.length \in FrameLengths /\ f.options \in 0 .. MaxOptions BY DEF Frame
  <2>2. f.length \in Nat BY <2>1, FramesAssumption
  <2>3. f.options \in Nat BY <2>1, FramesAssumption
  <2> QED BY <2>2, <2>3
<1>2. f.ether = "IPv6" /\ LengthRead(f) # 0 BY <1>1 DEF LengthRead
<1>3. CASE f.proto = "TCP"
  <2>1. Carried(f) = "TCP" /\ TransportAt(f) = 14 + 40 /\ LengthRead(f) = 71
    BY <1>2, <1>3 DEF Carried, TransportAt, LengthRead
  <2>2. HeadersEnd(f) = TransportAt(f) + 20 BY <1>2, <2>1 DEF HeadersEnd
  <2> QED BY <1>1, <2>1, <2>2 DEF Sent
<1>4. CASE f.proto = "HOPOPT"
  <2>1. Carried(f) = f.next /\ TransportAt(f) = 14 + 40 + 8 + 8 * f.options
    BY <1>2, <1>4 DEF Carried, TransportAt
  <2>2. CASE f.next = "TCP"
    <3>1. LengthRead(f) = 79 BY <1>2, <1>4, <2>2 DEF LengthRead
    <3>2. HeadersEnd(f) = TransportAt(f) + 20 BY <1>2, <2>1, <2>2 DEF HeadersEnd
    <3> QED BY <1>1, <2>1, <3>1, <3>2 DEF Sent
  <2>3. CASE f.next # "TCP"
    <3>1. LengthRead(f) = 66 /\ f.next \in {"UDP", "ICMPv6"} BY <1>2, <1>4, <2>3 DEF LengthRead
    <3>2. HeadersEnd(f) = TransportAt(f) + 8 BY <1>2, <2>1, <3>1 DEF HeadersEnd
    <3> QED BY <1>1, <2>1, <3>1, <3>2 DEF Sent
  <2> QED BY <2>2, <2>3
<1> QED BY <1>2, <1>3, <1>4 DEF LengthRead

\* Parsing a frame of any length reads behind the copy receive_packet made of
\* it exactly if the frame is one of IPv6 that ends too early, and never if its
\* headers are complete (rtl8139.c:55, 63, 402-476, 524-535).
THEOREM OverrunsAreShortFrames == FramesSpec => []OnlyShortFramesOverrun
<1>1. FramesInit => ParsedInv BY DEF FramesInit, ParsedInv
<1>2. ParsedInv /\ [FramesNext]_frameVars => ParsedInv'
  BY DEF ParsedInv, FramesNext, frameVars, ReceiveFrame, PrintFrame, PrintLine, PrintBuffer,
         PrintRows, ClearScreen
<1>3. ParsedInv => OnlyShortFramesOverrun
  BY OverrunIs, OverrunIsShort DEF ParsedInv, OnlyShortFramesOverrun
<1> QED BY <1>1, <1>2, <1>3, PTL DEF FramesSpec

\* The rows of one header have its name.
LEMMA NamedKeys ==
  ASSUME NEW name, NEW rows
  PROVE  \A l \in DOMAIN Named(name, rows) : l[1] = name
<1>1. DOMAIN Named(name, rows) = {<<name, k>> : k \in DOMAIN rows} BY NamedIs
<1>2. \A k \in DOMAIN rows : <<name, k>>[1] = name OBVIOUS
<1> QED BY <1>1, <1>2

LEMMA WireKeys ==
  /\ \A l \in DOMAIN WireEthernet : l[1] = "Ethernet"
  /\ \A l \in DOMAIN WireARP : l[1] = "ARP"
  /\ \A l \in DOMAIN WireIPv4 : l[1] = "IPv4"
  /\ \A l \in DOMAIN WireIPv6 : l[1] = "IPv6"
  /\ \A l \in DOMAIN WireHopOptions : l[1] = "HOPOPT"
  /\ \A l \in DOMAIN WireTCP : l[1] = "TCP"
  /\ \A l \in DOMAIN WireUDP : l[1] = "UDP"
  /\ \A l \in DOMAIN WireICMP : l[1] = "ICMP"
BY NamedKeys DEF WireEthernet, WireARP, WireIPv4, WireIPv6, WireHopOptions, WireTCP, WireUDP, WireICMP

LEMMA PrintKeys ==
  /\ \A l \in DOMAIN printMACs : l[1] = "Ethernet"
  /\ \A l \in DOMAIN printARP : l[1] = "ARP"
  /\ \A l \in DOMAIN printIPv4 : l[1] = "IPv4"
  /\ \A l \in DOMAIN printIPv6 : l[1] = "IPv6"
  /\ \A l \in DOMAIN printHopOptions : l[1] = "HOPOPT"
  /\ \A l \in DOMAIN printTCP : l[1] = "TCP"
  /\ \A l \in DOMAIN printUDP : l[1] = "UDP"
  /\ \A l \in DOMAIN printICMP : l[1] = "ICMP"
BY NamedKeys DEF printMACs, printARP, printIPv4, printIPv6, printHopOptions, printTCP, printUDP, printICMP

\* What a sender's headers say, one by one.
LEMMA WireIs ==
  ASSUME NEW f \in Frame
  PROVE  /\ \A l \in DOMAIN WireEthernet : l \in DOMAIN Layout(f) /\ Layout(f)[l] = WireEthernet[l]
         /\ \A l \in DOMAIN WireARP : l \in DOMAIN Layout(f) /\ Layout(f)[l] = Below(WireARP, 14)[l]
         /\ \A l \in DOMAIN WireIPv4 : l \in DOMAIN Layout(f) /\ Layout(f)[l] = Below(WireIPv4, 14)[l]
         /\ \A l \in DOMAIN WireIPv6 : l \in DOMAIN Layout(f) /\ Layout(f)[l] = Below(WireIPv6, 14)[l]
         /\ \A l \in DOMAIN WireHopOptions : l \in DOMAIN Layout(f) /\ Layout(f)[l] = Below(WireHopOptions, 54)[l]
         /\ \A l \in DOMAIN WireTransport(f) :
              l \in DOMAIN Layout(f) /\ Layout(f)[l] = Below(WireTransport(f), TransportAt(f))[l]
         /\ \A l \in DOMAIN Layout(f) : l[1] = "HOPOPT" => l \in DOMAIN WireHopOptions
         /\ \A l \in DOMAIN Layout(f) : l[1] = "UDP" => Carried(f) = "UDP"
<1> DEFINE transport == Below(WireTransport(f), TransportAt(f))
<1> DEFINE s == {WireEthernet, Below(WireARP, 14), Below(WireIPv4, 14), Below(WireIPv6, 14),
                 Below(WireHopOptions, 54), transport}
<1>1. /\ \A l \in DOMAIN WireEthernet : l[1] = "Ethernet"
      /\ \A l \in DOMAIN Below(WireARP, 14) : l[1] = "ARP"
      /\ \A l \in DOMAIN Below(WireIPv4, 14) : l[1] = "IPv4"
      /\ \A l \in DOMAIN Below(WireIPv6, 14) : l[1] = "IPv6"
      /\ \A l \in DOMAIN Below(WireHopOptions, 54) : l[1] = "HOPOPT"
  BY WireKeys, BelowIs
<1>2. \A l \in DOMAIN transport : l[1] \in {"TCP", "UDP", "ICMP"} /\ (l[1] = "UDP" => Carried(f) = "UDP")
  <2>1. DOMAIN transport = DOMAIN WireTransport(f) BY BelowIs
  <2>2. CASE Carried(f) = "TCP"
    <3>1. WireTransport(f) = WireTCP BY <2>2 DEF WireTransport
    <3> QED BY <2>1, <3>1, WireKeys
  <2>3. CASE Carried(f) = "UDP"
    <3>1. WireTransport(f) = WireUDP BY <2>3 DEF WireTransport
    <3> QED BY <2>1, <2>3, <3>1, WireKeys
  <2>4. CASE Carried(f) \notin {"TCP", "UDP"}
    <3>1. WireTransport(f) = WireICMP BY <2>4 DEF WireTransport
    <3> QED BY <2>1, <3>1, WireKeys
  <2> QED BY <2>2, <2>3, <2>4
<1>3. Layout(f) = Together(s)
  <2>1. 14 + 40 = 54 OBVIOUS
  <2> QED BY <2>1 DEF Layout
<1> HIDE DEF transport
<1>4. Apart(s) BY <1>1, <1>2 DEF Apart
<1>5. /\ WireEthernet \in s /\ Below(WireARP, 14) \in s /\ Below(WireIPv4, 14) \in s
      /\ Below(WireIPv6, 14) \in s /\ Below(WireHopOptions, 54) \in s /\ transport \in s
      /\ \A x \in s : \A l \in DOMAIN x : /\ l[1] = "HOPOPT" => l \in DOMAIN Below(WireHopOptions, 54)
                                          /\ l[1] = "UDP" => Carried(f) = "UDP"
  BY <1>1, <1>2
<1> HIDE DEF s
<1>6. /\ DOMAIN Below(WireARP, 14) = DOMAIN WireARP /\ DOMAIN Below(WireIPv4, 14) = DOMAIN WireIPv4
      /\ DOMAIN Below(WireIPv6, 14) = DOMAIN WireIPv6
      /\ DOMAIN Below(WireHopOptions, 54) = DOMAIN WireHopOptions
      /\ DOMAIN transport = DOMAIN WireTransport(f)
  BY BelowIs DEF transport
<1>7. \A x \in s : \A l \in DOMAIN x : l \in DOMAIN Layout(f) /\ Layout(f)[l] = x[l]
  BY <1>3, <1>4, TogetherIs
<1>8. \A l \in DOMAIN Layout(f) : \E x \in s : l \in DOMAIN x BY <1>3, <1>4, TogetherIs
<1>9. /\ \A l \in DOMAIN Layout(f) : l[1] = "HOPOPT" => l \in DOMAIN WireHopOptions
      /\ \A l \in DOMAIN Layout(f) : l[1] = "UDP" => Carried(f) = "UDP"
  BY <1>5, <1>6, <1>8
<1>10. /\ \A l \in DOMAIN WireEthernet : l \in DOMAIN Layout(f) /\ Layout(f)[l] = WireEthernet[l]
       /\ \A l \in DOMAIN WireARP : l \in DOMAIN Layout(f) /\ Layout(f)[l] = Below(WireARP, 14)[l]
       /\ \A l \in DOMAIN WireIPv4 : l \in DOMAIN Layout(f) /\ Layout(f)[l] = Below(WireIPv4, 14)[l]
  BY <1>5, <1>6, <1>7
<1>11. /\ \A l \in DOMAIN WireIPv6 : l \in DOMAIN Layout(f) /\ Layout(f)[l] = Below(WireIPv6, 14)[l]
       /\ \A l \in DOMAIN WireHopOptions : l \in DOMAIN Layout(f) /\ Layout(f)[l] = Below(WireHopOptions, 54)[l]
       /\ \A l \in DOMAIN WireTransport(f) :
            l \in DOMAIN Layout(f) /\ Layout(f)[l] = Below(WireTransport(f), TransportAt(f))[l]
  BY <1>5, <1>6, <1>7 DEF transport
<1> QED BY <1>9, <1>10, <1>11

\* The rows that are wrong on the screen of command c, and a screen on which
\* these are all that are wrong.
Excepted(f, c, l) ==
  \/ l \in LateRows \cup Unswapped \cup {<<"HOPOPT", "padding">>}
  \/ l[1] = "ICMP" /\ f.ether = "IPv4"
  \/ l[1] = "UDP" /\ Carried(f) # "UDP"
  \/ c = "net" /\ f.ether # "IPv4"
  \/ l[1] \in {"TCP", "UDP", "ICMP"} /\ Skips(f)

Told(f, c, store, rows) ==
  \A l \in DOMAIN rows :
    (l \in DOMAIN Layout(f) /\ Seen(rows[l], store) = Layout(f)[l]) <=> ~Excepted(f, c, l)

\* Parts of a screen, and screens put together.
LEMMA ToldPart ==
  ASSUME NEW f, NEW c, NEW store, NEW rows, Told(f, c, store, rows), NEW part,
         \A l \in DOMAIN part : l \in DOMAIN rows /\ part[l] = rows[l]
  PROVE  Told(f, c, store, part)
BY DEF Told

LEMMA ToldTogether ==
  ASSUME NEW f, NEW c, NEW store, NEW s, Apart(s), \A x \in s : Told(f, c, store, x)
  PROVE  Told(f, c, store, Together(s))
BY TogetherIs DEF Told

LEMMA ToldBelowTogether ==
  ASSUME NEW f, NEW c, NEW store, NEW at, NEW s, Apart(s), \A x \in s : Told(f, c, store, Below(x, at))
  PROVE  Told(f, c, store, Below(Together(s), at))
<1>1. ASSUME NEW l \in DOMAIN Below(Together(s), at)
      PROVE  (l \in DOMAIN Layout(f) /\ Seen(Below(Together(s), at)[l], store) = Layout(f)[l])
               <=> ~Excepted(f, c, l)
  <2>1. l \in DOMAIN Together(s) BY BelowIs
  <2>2. PICK x \in s : l \in DOMAIN x BY <2>1, TogetherIs
  <2>3. Together(s)[l] = x[l] BY <2>2, TogetherIs
  <2>4. Below(Together(s), at)[l] = Below(x, at)[l] /\ l \in DOMAIN Below(x, at)
    <3> DEFINE Lifted(row) == [i \in DOMAIN row |-> at + row[i]]
    <3>1. Below(Together(s), at)[l] = Lifted(Together(s)[l]) BY <2>1 DEF Below
    <3>2. Below(x, at)[l] = Lifted(x[l]) /\ l \in DOMAIN Below(x, at) BY <2>2, BelowIs
    <3> HIDE DEF Lifted
    <3> QED BY <2>3, <3>1, <3>2
  <2> QED BY <2>4 DEF Told
<1> QED BY <1>1 DEF Told

LEMMA ToldNothing ==
  ASSUME NEW f, NEW c, NEW store, NEW at
  PROVE  Told(f, c, store, <<>>) /\ Told(f, c, store, Below(<<>>, at))
BY BelowIs DEF Told

\* A screen moved twice.
Numbered(rows) == \A l \in DOMAIN rows : \A i \in DOMAIN rows[l] : rows[l][i] \in Int

LEMMA BelowTwice ==
  ASSUME NEW rows, Numbered(rows), NEW a \in Int, NEW b \in Int
  PROVE  Below(Below(rows, a), b) = Below(rows, a + b)
<1>1. \A l \in DOMAIN rows : \A i \in DOMAIN rows[l] : b + (a + rows[l][i]) = (a + b) + rows[l][i]
  BY DEF Numbered
<1>2. DOMAIN Below(rows, a) = DOMAIN rows BY BelowIs
<1>3. \A l \in DOMAIN rows : Below(rows, a)[l] = [i \in DOMAIN rows[l] |-> a + rows[l][i]] BY BelowIs
<1>4. Below(Below(rows, a), b) = [l \in DOMAIN rows |-> [i \in DOMAIN rows[l] |-> b + (a + rows[l][i])]]
  BY <1>2, <1>3 DEF Below
<1> QED BY <1>1, <1>4 DEF Below

LEMMA RowsNumbered ==
  ASSUME NEW name, NEW rows,
         \A k \in DOMAIN rows : \E a, n \in Nat : rows[k] = Value(a, n) \/ rows[k] = Array(a, n)
  PROVE  Numbered(Named(name, rows))
<1>1. ASSUME NEW k \in DOMAIN rows, NEW i \in DOMAIN rows[k] PROVE rows[k][i] \in Int
  BY DEF Value, Array
<1>2. ASSUME NEW l \in DOMAIN Named(name, rows), NEW i \in DOMAIN Named(name, rows)[l]
      PROVE  Named(name, rows)[l][i] \in Int
  <2>1. /\ DOMAIN Named(name, rows) = {<<name, k>> : k \in DOMAIN rows}
        /\ \A k \in DOMAIN rows : Named(name, rows)[<<name, k>>] = rows[k]
    BY NamedIs
  <2>2. PICK k \in DOMAIN rows : l = <<name, k>> BY <2>1
  <2>3. Named(name, rows)[l] = rows[k] BY <2>1, <2>2
  <2> QED BY <1>1, <2>3
<1> QED BY <1>2 DEF Numbered

LEMMA PrintNumbered == Numbered(printTCP) /\ Numbered(printUDP) /\ Numbered(printICMP)
<1>1. Numbered(printTCP)
  <2> DEFINE rows == [source |-> Value(0, 2), dest |-> Value(2, 2), seq |-> Value(4, 4),
                      ack |-> Value(8, 4), offset |-> Value(12, 1), flags |-> Value(13, 1),
                      window |-> Value(14, 2), checksum |-> Value(16, 2), urgent |-> Value(18, 2)]
  <2>1. \A k \in DOMAIN rows : \E a, n \in Nat : rows[k] = Value(a, n) \/ rows[k] = Array(a, n) OBVIOUS
  <2>2. printTCP = Named("TCP", rows) BY DEF printTCP
  <2> HIDE DEF rows
  <2> QED BY <2>1, <2>2, RowsNumbered
<1>2. Numbered(printUDP)
  <2> DEFINE rows == [source |-> Value(0, 2), dest |-> Value(2, 2), length |-> Value(4, 2),
                      checksum |-> Value(6, 2)]
  <2>1. \A k \in DOMAIN rows : \E a, n \in Nat : rows[k] = Value(a, n) \/ rows[k] = Array(a, n) OBVIOUS
  <2>2. printUDP = Named("UDP", rows) BY DEF printUDP
  <2> HIDE DEF rows
  <2> QED BY <2>1, <2>2, RowsNumbered
<1>3. Numbered(printICMP)
  <2> DEFINE rows == [type |-> Value(0, 1), code |-> Value(1, 1), checksum |-> Value(2, 2)]
  <2>1. \A k \in DOMAIN rows : \E a, n \in Nat : rows[k] = Value(a, n) \/ rows[k] = Array(a, n) OBVIOUS
  <2>2. printICMP = Named("ICMP", rows) BY DEF printICMP
  <2> HIDE DEF rows
  <2> QED BY <2>1, <2>2, RowsNumbered
<1> QED BY <1>1, <1>2, <1>3

\* Whether a row is excepted, header by header.
LEMMA ExceptedIs ==
  ASSUME NEW f, NEW c, c # "net" \/ f.ether = "IPv4", NEW l
  PROVE  /\ l[1] \in {"Ethernet", "IPv4"} => ~Excepted(f, c, l)
         /\ l[1] \in {"ARP", "IPv6"} => (Excepted(f, c, l) <=> l \in Unswapped)
         /\ l[1] = "HOPOPT" => (Excepted(f, c, l) <=> l = <<"HOPOPT", "padding">>)
         /\ l[1] = "TCP" => (Excepted(f, c, l) <=> l \in LateRows \/ Skips(f))
         /\ l[1] = "UDP" => (Excepted(f, c, l) <=> Carried(f) # "UDP" \/ Skips(f))
         /\ l[1] = "ICMP" => (Excepted(f, c, l) <=> f.ether = "IPv4" \/ Skips(f))
<1>1. \A x \in LateRows : x[1] = "TCP" BY DEF LateRows
<1>2. \A x \in Unswapped : x[1] \in {"ARP", "IPv6"} BY DEF Unswapped
<1>3. <<"HOPOPT", "padding">>[1] = "HOPOPT" OBVIOUS
<1> QED BY <1>1, <1>2, <1>3 DEF Excepted

\* The headers on a screen, where they stand in the structure.
LEMMA MACsTold ==
  ASSUME NEW f \in Frame, NEW c, c # "net" \/ f.ether = "IPv4", NEW store,
         Stands(parseEthernetHeader, store, 0, 0)
  PROVE  Told(f, c, store, printMACs)
<1> SUFFICES ASSUME NEW l \in DOMAIN printMACs
             PROVE  l \in DOMAIN Layout(f) /\ Seen(printMACs[l], store) = Layout(f)[l] /\ ~Excepted(f, c, l)
  BY DEF Told
<1>1. l[1] = "Ethernet" BY PrintKeys
<1>2. l \in DOMAIN WireEthernet /\ Seen(printMACs[l], store) = WireEthernet[l] BY EthernetShown
<1> QED BY <1>1, <1>2, WireIs, ExceptedIs

LEMMA ARPTold ==
  ASSUME NEW f \in Frame, NEW c, c # "net", NEW store, Stands(parseARPHeader, store, 16, 14)
  PROVE  Told(f, c, store, Below(printARP, 16))
<1> SUFFICES ASSUME NEW l \in DOMAIN printARP
             PROVE  (l \in DOMAIN Layout(f) /\ Seen(Below(printARP, 16)[l], store) = Layout(f)[l])
                      <=> ~Excepted(f, c, l)
  BY BelowIs DEF Told
<1>1. l[1] = "ARP" BY PrintKeys
<1>2. (l \in DOMAIN WireARP /\ Seen(Below(printARP, 16)[l], store) = Below(WireARP, 14)[l])
        <=> l \notin Unswapped
  BY ARPShown
<1>3. l \in DOMAIN WireARP BY ARPRows
<1> QED BY <1>1, <1>2, <1>3, WireIs, ExceptedIs

LEMMA IPv4Told ==
  ASSUME NEW f \in Frame, NEW c, c # "net", NEW store, Stands(parseIPv4Header, store, 16, 14)
  PROVE  Told(f, c, store, Below(printIPv4, 16))
<1> SUFFICES ASSUME NEW l \in DOMAIN printIPv4
             PROVE  /\ l \in DOMAIN Layout(f) /\ Seen(Below(printIPv4, 16)[l], store) = Layout(f)[l]
                    /\ ~Excepted(f, c, l)
  BY BelowIs DEF Told
<1>1. l[1] = "IPv4" BY PrintKeys
<1>2. l \in DOMAIN WireIPv4 /\ Seen(Below(printIPv4, 16)[l], store) = Below(WireIPv4, 14)[l]
  BY IPv4Shown
<1> QED BY <1>1, <1>2, WireIs, ExceptedIs

LEMMA IPv6Told ==
  ASSUME NEW f \in Frame, NEW c, c # "net", NEW store, Stands(parseIPv6Header, store, 16, 14)
  PROVE  Told(f, c, store, Below(printIPv6, 16))
<1> SUFFICES ASSUME NEW l \in DOMAIN printIPv6
             PROVE  (l \in DOMAIN Layout(f) /\ Seen(Below(printIPv6, 16)[l], store) = Layout(f)[l])
                      <=> ~Excepted(f, c, l)
  BY BelowIs DEF Told
<1>1. l[1] = "IPv6" BY PrintKeys
<1>2. (l \in DOMAIN WireIPv6 /\ Seen(Below(printIPv6, 16)[l], store) = Below(WireIPv6, 14)[l])
        <=> l \notin Unswapped
  BY IPv6Shown
<1>3. l \in DOMAIN WireIPv6 BY IPv6Rows
<1> QED BY <1>1, <1>2, <1>3, WireIs, ExceptedIs

LEMMA OptionsTold ==
  ASSUME NEW f \in Frame, NEW c, c # "net", NEW store, NEW next,
         Stands(parseIPv6HopByHop(next), store, 56, 54)
  PROVE  Told(f, c, store, Below(printHopOptions, 56))
<1> SUFFICES ASSUME NEW l \in DOMAIN printHopOptions
             PROVE  (l \in DOMAIN Layout(f) /\ Seen(Below(printHopOptions, 56)[l], store) = Layout(f)[l])
                      <=> ~Excepted(f, c, l)
  BY BelowIs DEF Told
<1>1. l[1] = "HOPOPT" BY PrintKeys
<1>2. (l \in DOMAIN WireHopOptions
         /\ Seen(Below(printHopOptions, 56)[l], store) = Below(WireHopOptions, 54)[l])
        <=> l \notin {<<"HOPOPT", "padding">>}
  BY HOPOPTShown
<1>3. l \in DOMAIN Layout(f) <=> l \in DOMAIN WireHopOptions
  <2>1. \A x \in DOMAIN WireHopOptions : x \in DOMAIN Layout(f) BY WireIs, Zenon
  <2>2. \A x \in DOMAIN Layout(f) : x[1] = "HOPOPT" => x \in DOMAIN WireHopOptions BY WireIs
  <2> QED BY <1>1, <2>1, <2>2
<1> QED BY <1>1, <1>2, <1>3, WireIs, ExceptedIs

\* A transport header, parsed from a place where it is not if there are options.
LEMMA TCPTold ==
  ASSUME NEW f \in Frame, NEW c, c # "net", NEW store, NEW at \in Nat, NEW from \in Nat,
         Stands(parseTCPHeader, store, at, from), Carried(f) = "TCP", TransportAt(f) \in Nat,
         Skips(f) => TransportAt(f) > from + 1, ~Skips(f) => TransportAt(f) = from
  PROVE  Told(f, c, store, Below(printTCP, at))
<1> SUFFICES ASSUME NEW l \in DOMAIN printTCP
             PROVE  (l \in DOMAIN Layout(f) /\ Seen(Below(printTCP, at)[l], store) = Layout(f)[l])
                      <=> ~Excepted(f, c, l)
  BY BelowIs DEF Told
<1> DEFINE w == TransportAt(f)
<1>1. l[1] = "TCP" BY PrintKeys
<1>2. w \in Nat /\ (w = from \/ w > from + 1) /\ (from = w <=> ~Skips(f)) OBVIOUS
<1> HIDE DEF w
<1>3. (l \in DOMAIN WireTCP /\ Seen(Below(printTCP, at)[l], store) = Below(WireTCP, w)[l])
        <=> from = w /\ l \notin LateRows
  BY <1>2, TCPShown
<1>4. l \in DOMAIN WireTCP BY TCPRows
<1>5. l \in DOMAIN Layout(f) /\ Layout(f)[l] = Below(WireTCP, w)[l]
  <2>1. WireTransport(f) = WireTCP BY DEF WireTransport
  <2> QED BY <1>4, <2>1, WireIs DEF w
<1> QED BY <1>1, <1>2, <1>3, <1>4, <1>5, ExceptedIs

LEMMA UDPTold ==
  ASSUME NEW f \in Frame, NEW c, c # "net" \/ f.ether = "IPv4", NEW store, NEW at \in Nat, NEW from \in Nat,
         Stands(parseUDPHeader, store, at, from), Carried(f) = "UDP", TransportAt(f) \in Nat,
         Skips(f) => TransportAt(f) > from + 1, ~Skips(f) => TransportAt(f) = from
  PROVE  Told(f, c, store, Below(printUDP, at))
<1> SUFFICES ASSUME NEW l \in DOMAIN printUDP
             PROVE  (l \in DOMAIN Layout(f) /\ Seen(Below(printUDP, at)[l], store) = Layout(f)[l])
                      <=> ~Excepted(f, c, l)
  BY BelowIs DEF Told
<1> DEFINE w == TransportAt(f)
<1>1. l[1] = "UDP" BY PrintKeys
<1>2. w \in Nat /\ (from = w <=> ~Skips(f)) OBVIOUS
<1> HIDE DEF w
<1>3. (l \in DOMAIN WireUDP /\ Seen(Below(printUDP, at)[l], store) = Below(WireUDP, w)[l])
        <=> from = w
  BY <1>2, UDPShown
<1>4. l \in DOMAIN WireUDP BY UDPRows
<1>5. l \in DOMAIN Layout(f) /\ Layout(f)[l] = Below(WireUDP, w)[l]
  <2>1. WireTransport(f) = WireUDP BY DEF WireTransport
  <2> QED BY <1>4, <2>1, WireIs DEF w
<1> QED BY <1>1, <1>2, <1>3, <1>4, <1>5, ExceptedIs

LEMMA ICMPTold ==
  ASSUME NEW f \in Frame, NEW c, c # "net", f.ether # "IPv4", NEW store, NEW at \in Nat, NEW from \in Nat,
         Stands(parseICMPHeader, store, at, from), Carried(f) \notin {"TCP", "UDP"}, TransportAt(f) \in Nat,
         Skips(f) => TransportAt(f) > from + 1, ~Skips(f) => TransportAt(f) = from
  PROVE  Told(f, c, store, Below(printICMP, at))
<1> SUFFICES ASSUME NEW l \in DOMAIN printICMP
             PROVE  (l \in DOMAIN Layout(f) /\ Seen(Below(printICMP, at)[l], store) = Layout(f)[l])
                      <=> ~Excepted(f, c, l)
  BY BelowIs DEF Told
<1> DEFINE w == TransportAt(f)
<1>1. l[1] = "ICMP" BY PrintKeys
<1>2. w \in Nat /\ (from = w <=> ~Skips(f)) OBVIOUS
<1> HIDE DEF w
<1>3. (l \in DOMAIN WireICMP /\ Seen(Below(printICMP, at)[l], store) = Below(WireICMP, w)[l])
        <=> from = w
  BY <1>2, ICMPShown
<1>4. l \in DOMAIN WireICMP BY ICMPRows
<1>5. l \in DOMAIN Layout(f) /\ Layout(f)[l] = Below(WireICMP, w)[l]
  <2>1. WireTransport(f) = WireICMP BY DEF WireTransport
  <2> QED BY <1>4, <2>1, WireIs DEF w
<1> QED BY <1>1, <1>2, <1>3, <1>4, <1>5, ExceptedIs

\* Rows of UDP that are printed of a frame without it.
LEMMA NoUDPTold ==
  ASSUME NEW f \in Frame, NEW c, NEW store, NEW at, Carried(f) # "UDP"
  PROVE  Told(f, c, store, Below(printUDP, at))
<1> SUFFICES ASSUME NEW l \in DOMAIN printUDP PROVE l \notin DOMAIN Layout(f) /\ Excepted(f, c, l)
  BY BelowIs DEF Told
<1>1. l[1] = "UDP" BY PrintKeys
<1> QED BY <1>1, WireIs DEF Excepted

\* Numbers read where no parser wrote, or where another header stands.
Elsewhere(f, store, at, rows, sent) ==
  \A l \in DOMAIN rows :
    \E a \in Nat, n \in Nat \ {0} : /\ rows[l] = Value(a, n) /\ sent[l] = Array(a, n)
                                    /\ Held(store, at + a + n - 1) # TransportAt(f) + a

LEMMA ElsewhereTold ==
  ASSUME NEW f \in Frame, NEW c, NEW store, NEW at \in Nat, NEW rows, NEW sent,
         DOMAIN rows = DOMAIN sent, WireTransport(f) = sent, TransportAt(f) \in Nat,
         \A l \in DOMAIN rows : Excepted(f, c, l), Elsewhere(f, store, at, rows, sent)
  PROVE  Told(f, c, store, Below(rows, at))
<1> SUFFICES ASSUME NEW l \in DOMAIN rows
             PROVE  Seen(Below(rows, at)[l], store) # Layout(f)[l]
  BY BelowIs DEF Told
<1> DEFINE w == TransportAt(f)
<1>1. PICK a \in Nat, n \in Nat \ {0} :
        /\ rows[l] = Value(a, n) /\ sent[l] = Array(a, n) /\ Held(store, at + a + n - 1) # w + a
  BY DEF Elsewhere
<1>2. Layout(f)[l] = Below(sent, w)[l] BY WireIs
<1> HIDE DEF w
<1>3. w \in Nat BY DEF w
<1>4. Below(rows, at)[l] = Value(at + a, n) /\ Below(sent, w)[l] = Array(w + a, n)
  BY <1>1, <1>3, LiftedIs
<1>5. at + a \in Nat /\ w + a \in Nat BY <1>3
<1>6. Held(store, (at + a) + n - 1) # w + a BY <1>1
<1>7. Seen(Value(at + a, n), store) # Array(w + a, n) BY <1>5, <1>6, TopTells
<1> QED BY <1>2, <1>4, <1>7

\* Parts of a table of rows.
LEMMA BelowPart ==
  ASSUME NEW f, NEW c, NEW store, NEW at, NEW rows, Told(f, c, store, Below(rows, at)),
         NEW S, S \subseteq DOMAIN rows
  PROVE  Told(f, c, store, Below(Restrict(rows, S), at))
<1>1. ASSUME NEW l \in DOMAIN Below(Restrict(rows, S), at)
      PROVE  l \in DOMAIN Below(rows, at) /\ Below(Restrict(rows, S), at)[l] = Below(rows, at)[l]
  <2>1. DOMAIN Restrict(rows, S) = S /\ \A x \in S : Restrict(rows, S)[x] = rows[x] BY DEF Restrict
  <2>2. l \in S BY <2>1, BelowIs
  <2> DEFINE Lifted(row) == [i \in DOMAIN row |-> at + row[i]]
  <2>3. Below(Restrict(rows, S), at)[l] = Lifted(Restrict(rows, S)[l]) BY <2>1, <2>2 DEF Below
  <2>4. Below(rows, at)[l] = Lifted(rows[l]) /\ l \in DOMAIN Below(rows, at) BY <2>2 DEF Below
  <2> HIDE DEF Lifted
  <2> QED BY <2>1, <2>2, <2>3, <2>4
<1> QED BY <1>1, ToldPart

LEMMA TogetherNumbered ==
  ASSUME NEW s, Apart(s), \A x \in s : Numbered(x)
  PROVE  Numbered(Together(s))
<1>1. ASSUME NEW l \in DOMAIN Together(s), NEW i \in DOMAIN Together(s)[l]
      PROVE  Together(s)[l][i] \in Int
  <2>1. PICK x \in s : l \in DOMAIN x BY TogetherIs
  <2>2. Together(s)[l] = x[l] BY <2>1, TogetherIs
  <2> QED BY <2>1, <2>2 DEF Numbered
<1> QED BY <1>1 DEF Numbered

\* Where the senders put a transport header, and where the parsers look for it.
LEMMA TransportPlace ==
  ASSUME NEW f \in Frame
  PROVE  /\ TransportAt(f) \in Nat
         /\ f.ether = "IPv4" => IF Skips(f) THEN TransportAt(f) >= 38 ELSE TransportAt(f) = 34
         /\ f.ether = "IPv6" /\ f.proto = "HOPOPT" =>
              IF Skips(f) THEN TransportAt(f) >= 70 ELSE TransportAt(f) = 62
         /\ f.ether = "IPv6" /\ f.proto # "HOPOPT" => TransportAt(f) = 54 /\ ~Skips(f)
<1>1. f.options \in Nat BY FramesAssumption DEF Frame
<1> QED BY <1>1 DEF TransportAt, Skips

\* The rows of UDP and ICMP, as the pairs of what is printed and what was sent.
LEMMA UDPPairs ==
  \A l \in DOMAIN printUDP :
    \E a \in {0, 2, 4, 6} : printUDP[l] = Value(a, 2) /\ WireUDP[l] = Array(a, 2)
<1> DEFINE printed == [source |-> Value(0, 2), dest |-> Value(2, 2), length |-> Value(4, 2),
                       checksum |-> Value(6, 2)]
<1> DEFINE sent == [source |-> Array(0, 2), dest |-> Array(2, 2), length |-> Array(4, 2),
                    checksum |-> Array(6, 2)]
<1>1. printUDP = Named("UDP", printed) /\ WireUDP = Named("UDP", sent) BY DEF printUDP, WireUDP
<1>2. \A k \in DOMAIN printed :
        k \in DOMAIN sent /\ \E a \in {0, 2, 4, 6} : printed[k] = Value(a, 2) /\ sent[k] = Array(a, 2)
  OBVIOUS
<1> HIDE DEF printed, sent
<1>3. /\ DOMAIN Named("UDP", printed) = {<<"UDP", k>> : k \in DOMAIN printed}
      /\ \A k \in DOMAIN printed : Named("UDP", printed)[<<"UDP", k>>] = printed[k]
      /\ \A k \in DOMAIN sent : Named("UDP", sent)[<<"UDP", k>>] = sent[k]
  BY NamedIs
<1> QED BY <1>1, <1>2, <1>3

LEMMA ICMPPairs ==
  \A l \in DOMAIN printICMP :
    \E a \in Nat, n \in Nat \ {0} : printICMP[l] = Value(a, n) /\ WireICMP[l] = Array(a, n)
<1> DEFINE Pair(x, y) == \E a \in Nat, n \in Nat \ {0} : x = Value(a, n) /\ y = Array(a, n)
<1> DEFINE printed == [type |-> Value(0, 1), code |-> Value(1, 1), checksum |-> Value(2, 2)]
<1> DEFINE sent == [type |-> Array(0, 1), code |-> Array(1, 1), checksum |-> Array(2, 2)]
<1>1. printICMP = Named("ICMP", printed) /\ WireICMP = Named("ICMP", sent) BY DEF printICMP, WireICMP
<1>2. \A k \in DOMAIN printed : k \in DOMAIN sent /\ Pair(printed[k], sent[k]) OBVIOUS
<1> HIDE DEF printed, sent, Pair
<1>3. /\ DOMAIN Named("ICMP", printed) = {<<"ICMP", k>> : k \in DOMAIN printed}
      /\ \A k \in DOMAIN printed : Named("ICMP", printed)[<<"ICMP", k>>] = printed[k]
      /\ \A k \in DOMAIN sent : Named("ICMP", sent)[<<"ICMP", k>>] = sent[k]
  BY NamedIs
<1>4. \A l \in DOMAIN printICMP : Pair(printICMP[l], WireICMP[l]) BY <1>1, <1>2, <1>3
<1> QED BY <1>4 DEF Pair

\* ICMP over IPv4 is printed from bytes no parser wrote.
LEMMA UnparsedICMPTold ==
  ASSUME NEW f \in Frame, f.ether = "IPv4", f.proto = "ICMP", NEW c, NEW store,
         \A b \in DOMAIN store : b < 36
  PROVE  Told(f, c, store, Below(printICMP, 36))
<1>1. WireTransport(f) = WireICMP BY DEF WireTransport, Carried
<1>2. TransportAt(f) \in Nat BY TransportPlace
<1>3. ASSUME NEW l \in DOMAIN printICMP
      PROVE  /\ Excepted(f, c, l)
             /\ \E a \in Nat, n \in Nat \ {0} :
                  /\ printICMP[l] = Value(a, n) /\ WireICMP[l] = Array(a, n)
                  /\ Held(store, 36 + a + n - 1) # TransportAt(f) + a
  <2>1. Excepted(f, c, l) BY PrintKeys DEF Excepted
  <2>2. PICK a \in Nat, n \in Nat \ {0} : printICMP[l] = Value(a, n) /\ WireICMP[l] = Array(a, n)
    BY ICMPPairs
  <2>3. 36 + a + n - 1 \notin DOMAIN store
    <3>1. ~(36 + a + n - 1 < 36) OBVIOUS
    <3> QED BY <3>1
  <2>4. Held(store, 36 + a + n - 1) # TransportAt(f) + a
    <3>1. Held(store, 36 + a + n - 1) = -1 BY <2>3 DEF Held, Unwritten
    <3> QED BY <1>2, <3>1
  <2> QED BY <2>1, <2>2, <2>4
<1>4. Elsewhere(f, store, 36, printICMP, WireICMP) BY <1>3 DEF Elsewhere
<1>5. \A l \in DOMAIN printICMP : Excepted(f, c, l) BY <1>3
<1> QED BY <1>1, <1>2, <1>4, <1>5, ICMPRows, ElsewhereTold

\* The net command shows a part of the addresses of IPv6 for ports.
LEMMA NetOfIPv6Told ==
  ASSUME NEW f \in Frame, f.ether = "IPv6", Carried(f) = "UDP", NEW store,
         Stands(parseIPv6Header, store, 16, 14)
  PROVE  Told(f, "net", store, Below(printUDP, 36))
<1>1. WireTransport(f) = WireUDP BY DEF WireTransport
<1>2. TransportAt(f) \in Nat /\ TransportAt(f) >= 54 BY TransportPlace
<1>3. ASSUME NEW a \in {0, 2, 4, 6}
      PROVE  Held(store, 36 + a + 2 - 1) = 35 + a
  <2>1. Straight(parseIPv6Header, 8, 16, 8) /\ Straight(parseIPv6Header, 24, 16, 24) BY ParsedIPv6
  <2>2. 21 + a \in DOMAIN parseIPv6Header /\ parseIPv6Header[21 + a] = 21 + a
    <3>1. CASE a = 0
      <4>1. 13 \in 0 .. 16 - 1 /\ 8 + 13 = 21 + a BY <3>1
      <4> QED BY <2>1, <4>1 DEF Straight
    <3>2. CASE a \in {2, 4, 6}
      <4>1. a - 3 \in 0 .. 16 - 1 \/ a = 2 BY <3>2
      <4>2. CASE a = 2
        <5>1. 15 \in 0 .. 16 - 1 /\ 8 + 15 = 21 + a BY <4>2
        <5> QED BY <2>1, <5>1 DEF Straight
      <4>3. CASE a \in {4, 6}
        <5>1. a - 3 \in 0 .. 16 - 1 /\ 24 + (a - 3) = 21 + a BY <4>3
        <5> QED BY <2>1, <5>1 DEF Straight
      <4> QED BY <3>2, <4>2, <4>3
    <3> QED BY <3>1, <3>2
  <2>3. 16 + (21 + a) \in DOMAIN store /\ store[16 + (21 + a)] = 14 + (21 + a) BY <2>2 DEF Stands
  <2>4. 16 + (21 + a) = 36 + a + 2 - 1 /\ 14 + (21 + a) = 35 + a OBVIOUS
  <2> QED BY <2>3, <2>4 DEF Held
<1>4. ASSUME NEW l \in DOMAIN printUDP
      PROVE  /\ Excepted(f, "net", l)
             /\ \E a \in Nat, n \in Nat \ {0} :
                  /\ printUDP[l] = Value(a, n) /\ WireUDP[l] = Array(a, n)
                  /\ Held(store, 36 + a + n - 1) # TransportAt(f) + a
  <2>1. Excepted(f, "net", l) BY DEF Excepted
  <2>2. PICK a \in {0, 2, 4, 6} : printUDP[l] = Value(a, 2) /\ WireUDP[l] = Array(a, 2) BY UDPPairs
  <2>3. Held(store, 36 + a + 2 - 1) # TransportAt(f) + a BY <1>2, <1>3
  <2> QED BY <2>1, <2>2, <2>3
<1>5. Elsewhere(f, store, 36, printUDP, WireUDP) BY <1>4 DEF Elsewhere
<1>6. \A l \in DOMAIN printUDP : Excepted(f, "net", l) BY <1>4
<1> QED BY <1>1, <1>2, <1>5, <1>6, UDPRows, ElsewhereTold

\* The transport header rtl_printFrame shows.
LEMMA IPv4TransportTold ==
  ASSUME NEW f \in Frame, f.ether = "IPv4", NEW h, h = process_received_packet(f)
  PROVE  /\ Told(f, "print", h, Below(printTransport(f), 36))
         /\ \A l \in DOMAIN printTransport(f) : l[1] \in {"TCP", "UDP", "ICMP"}
<1>1. CASE f.proto = "TCP"
  <2>1. printTransport(f) = printTCP /\ Transport(f) = parseTCPHeader /\ Carried(f) = "TCP"
    BY <1>1 DEF printTransport, Transport, Carried
  <2>2. Stands(parseTCPHeader, h, 36, 34) BY <2>1, HeadersStand
  <2> QED BY <2>1, <2>2, TransportPlace, TCPTold, PrintKeys
<1>2. CASE f.proto = "UDP"
  <2>1. printTransport(f) = printUDP /\ Transport(f) = parseUDPHeader /\ Carried(f) = "UDP"
    BY <1>2 DEF printTransport, Transport, Carried
  <2>2. Stands(parseUDPHeader, h, 36, 34) BY <2>1, HeadersStand
  <2> QED BY <2>1, <2>2, TransportPlace, UDPTold, PrintKeys
<1>3. CASE f.proto = "ICMP"
  <2>1. printTransport(f) = printICMP BY <1>3 DEF printTransport
  <2> QED BY <1>3, <2>1, HeadersStand, UnparsedICMPTold, PrintKeys
<1>4. CASE f.proto \notin {"TCP", "UDP", "ICMP"}
  <2>1. printTransport(f) = <<>> BY <1>4 DEF printTransport
  <2> QED BY <2>1, ToldNothing
<1> QED BY <1>1, <1>2, <1>3, <1>4

LEMMA HopTransportTold ==
  ASSUME NEW f \in Frame, f.ether = "IPv6", f.proto = "HOPOPT",
         NEW h, h = process_received_packet(f)
  PROVE  /\ Told(f, "print", h, Below(Below(printHopTransport(f.next), 12), 56))
         /\ \A l \in DOMAIN printHopTransport(f.next) : l[1] \in {"TCP", "UDP", "ICMP"}
<1> DEFINE rows == printHopTransport(f.next)
<1>1. f.next \in {"TCP", "UDP", "ICMPv6", "other"} /\ Carried(f) = f.next BY DEF Frame, Carried
<1>2. Stands(parseIPv6HopByHop(f.next), h, 56, 54)
  <2>1. Transport(f) = parseIPv6HopByHop(f.next) BY DEF Transport
  <2> QED BY <2>1, HeadersStand
<1>3. ASSUME NEW parsed, NEW n, Reads(parsed, n), Stands(parsed, parseIPv6HopByHop(f.next), 12, 8)
      PROVE  Stands(parsed, h, 68, 62)
  <2>1. Stands(parsed, h, 56 + 12, 54 + 8) BY <1>2, <1>3, StandsInside
  <2>2. 56 + 12 = 68 /\ 54 + 8 = 62 OBVIOUS
  <2> QED BY <2>1, <2>2
<1>4. IF Skips(f) THEN TransportAt(f) >= 70 ELSE TransportAt(f) = 62 BY TransportPlace
<1>5. TransportAt(f) \in Nat BY TransportPlace
<1>6. /\ Told(f, "print", h, Below(rows, 68)) /\ Numbered(rows)
      /\ \A l \in DOMAIN rows : l[1] \in {"TCP", "UDP", "ICMP"}
  <2>1. CASE f.next = "TCP"
    <3>1. rows = Together({printTCP, printUDP}) BY <2>1 DEF printHopTransport
    <3>2. Apart({printTCP, printUDP}) BY PrintKeys DEF Apart
    <3>3. Stands(parseTCPHeader, h, 68, 62) BY <1>3, <2>1, ParsedHOPOPT, ParsersRead
    <3>4. Told(f, "print", h, Below(printTCP, 68)) BY <1>1, <1>4, <1>5, <2>1, <3>3, TCPTold
    <3>5. Told(f, "print", h, Below(printUDP, 68)) BY <1>1, <2>1, NoUDPTold
    <3> DEFINE s == {printTCP, printUDP}
    <3>6. \A x \in s : /\ Told(f, "print", h, Below(x, 68)) /\ Numbered(x)
                       /\ \A l \in DOMAIN x : l[1] \in {"TCP", "UDP", "ICMP"}
      BY <3>4, <3>5, PrintNumbered, PrintKeys
    <3>7. Apart(s) /\ rows = Together(s) BY <3>1, <3>2
    <3> HIDE DEF s, rows
    <3>8. Told(f, "print", h, Below(Together(s), 68)) BY <3>6, <3>7, ToldBelowTogether
    <3>9. Numbered(Together(s)) BY <3>6, <3>7, TogetherNumbered
    <3>10. \A l \in DOMAIN Together(s) : l[1] \in {"TCP", "UDP", "ICMP"} BY <3>6, <3>7, TogetherIs
    <3> QED BY <3>7, <3>8, <3>9, <3>10
  <2>2. CASE f.next = "UDP"
    <3>1. rows = printUDP BY <2>2 DEF printHopTransport
    <3>2. Stands(parseUDPHeader, h, 68, 62) BY <1>3, <2>2, ParsedHOPOPT, ParsersRead
    <3>3. Told(f, "print", h, Below(printUDP, 68)) BY <1>1, <1>4, <1>5, <2>2, <3>2, UDPTold
    <3> QED BY <3>1, <3>3, PrintNumbered, PrintKeys
  <2>3. CASE f.next = "ICMPv6"
    <3>1. rows = printICMP BY <2>3 DEF printHopTransport
    <3>2. Stands(parseICMPHeader, h, 68, 62) BY <1>3, <2>3, ParsedHOPOPT, ParsersRead
    <3>3. Told(f, "print", h, Below(printICMP, 68)) BY <1>1, <1>4, <1>5, <2>3, <3>2, ICMPTold
    <3> QED BY <3>1, <3>3, PrintNumbered, PrintKeys
  <2>4. CASE f.next = "other"
    <3>1. rows = <<>> BY <2>4 DEF printHopTransport
    <3> HIDE DEF rows
    <3> QED BY <3>1, ToldNothing DEF Numbered
  <2> QED BY <1>1, <2>1, <2>2, <2>3, <2>4
<1> HIDE DEF rows
<1>7. Below(Below(rows, 12), 56) = Below(rows, 68)
  <2>1. Below(Below(rows, 12), 56) = Below(rows, 12 + 56) BY <1>6, BelowTwice
  <2>2. 12 + 56 = 68 OBVIOUS
  <2> QED BY <2>1, <2>2
<1> QED BY <1>6, <1>7 DEF rows

LEMMA IPv6TransportTold ==
  ASSUME NEW f \in Frame, f.ether = "IPv6", NEW h, h = process_received_packet(f)
  PROVE  /\ Told(f, "print", h, Below(printTransport(f), 56))
         /\ \A l \in DOMAIN printTransport(f) : l[1] \in {"HOPOPT", "TCP", "UDP", "ICMP"}
<1>1. CASE f.proto = "TCP"
  <2>1. /\ printTransport(f) = SourcePort(printTCP) /\ Transport(f) = parseTCPHeader
        /\ Carried(f) = "TCP"
    BY <1>1 DEF printTransport, Transport, Carried
  <2>2. Stands(parseTCPHeader, h, 56, 54) BY <2>1, HeadersStand
  <2>3. Told(f, "print", h, Below(printTCP, 56)) BY <1>1, <2>1, <2>2, TransportPlace, TCPTold
  <2> DEFINE S == {l \in DOMAIN printTCP : l[2] = "source"}
  <2>4. S \subseteq DOMAIN printTCP /\ \A l \in S : l[1] = "TCP" BY PrintKeys
  <2>5. printTransport(f) = Restrict(printTCP, S) /\ DOMAIN Restrict(printTCP, S) = S
    BY <2>1 DEF SourcePort, Restrict
  <2> HIDE DEF S
  <2> QED BY <2>3, <2>4, <2>5, BelowPart
<1>2. CASE f.proto = "UDP"
  <2>1. /\ printTransport(f) = SourcePort(printUDP) /\ Transport(f) = parseUDPHeader
        /\ Carried(f) = "UDP"
    BY <1>2 DEF printTransport, Transport, Carried
  <2>2. Stands(parseUDPHeader, h, 56, 54) BY <2>1, HeadersStand
  <2>3. Told(f, "print", h, Below(printUDP, 56)) BY <1>2, <2>1, <2>2, TransportPlace, UDPTold
  <2> DEFINE S == {l \in DOMAIN printUDP : l[2] = "source"}
  <2>4. S \subseteq DOMAIN printUDP /\ \A l \in S : l[1] = "UDP" BY PrintKeys
  <2>5. printTransport(f) = Restrict(printUDP, S) /\ DOMAIN Restrict(printUDP, S) = S
    BY <2>1 DEF SourcePort, Restrict
  <2> HIDE DEF S
  <2> QED BY <2>3, <2>4, <2>5, BelowPart
<1>3. CASE f.proto = "ICMPv6"
  <2>1. printTransport(f) = printICMP /\ Transport(f) = parseICMPHeader /\ Carried(f) = "ICMPv6"
    BY <1>3 DEF printTransport, Transport, Carried
  <2>2. Stands(parseICMPHeader, h, 56, 54) BY <2>1, HeadersStand
  <2> QED BY <1>3, <2>1, <2>2, TransportPlace, ICMPTold, PrintKeys
<1>4. CASE f.proto = "HOPOPT"
  <2> DEFINE transport == Below(printHopTransport(f.next), 12)
  <2> DEFINE s == {printHopOptions, transport}
  <2>1. printTransport(f) = Together(s) BY <1>4 DEF printTransport
  <2>2. Transport(f) = parseIPv6HopByHop(f.next) BY <1>4 DEF Transport
  <2>3. Told(f, "print", h, Below(printHopOptions, 56)) BY <2>2, HeadersStand, OptionsTold
  <2>4. Told(f, "print", h, Below(transport, 56)) BY <1>4, HopTransportTold
  <2>5. \A l \in DOMAIN transport : l[1] \in {"TCP", "UDP", "ICMP"}
    BY <1>4, HopTransportTold, BelowIs
  <2> HIDE DEF transport
  <2>6. Apart(s) BY <2>5, PrintKeys DEF Apart
  <2>7. \A x \in s : /\ Told(f, "print", h, Below(x, 56))
                     /\ \A l \in DOMAIN x : l[1] \in {"HOPOPT", "TCP", "UDP", "ICMP"}
    BY <2>3, <2>4, <2>5, PrintKeys
  <2> HIDE DEF s
  <2>8. Told(f, "print", h, Below(Together(s), 56)) BY <2>6, <2>7, ToldBelowTogether
  <2>9. \A l \in DOMAIN Together(s) : l[1] \in {"HOPOPT", "TCP", "UDP", "ICMP"}
    BY <2>6, <2>7, TogetherIs
  <2> QED BY <2>1, <2>8, <2>9
<1>5. CASE f.proto \notin {"TCP", "UDP", "ICMPv6", "HOPOPT"}
  <2>1. printTransport(f) = <<>> BY <1>5 DEF printTransport
  <2> QED BY <2>1, ToldNothing
<1> QED BY <1>1, <1>2, <1>3, <1>4, <1>5

\* The screen of each command.
LEMMA PrintTold ==
  ASSUME NEW f \in Frame, NEW h, h = process_received_packet(f)
  PROVE  Told(f, "print", h, rtl_printFrame(f))
<1>1. f.ether \in {"ARP", "IPv4", "IPv6", "other"} BY DEF Frame
<1>2. Told(f, "print", h, printMACs) BY HeadersStand, MACsTold
<1>3. CASE f.ether = "ARP"
  <2> DEFINE s == {printMACs, Below(printARP, 16)}
  <2>1. Told(f, "print", h, Below(printARP, 16)) BY <1>3, HeadersStand, ARPTold
  <2>2. Apart(s) BY PrintKeys, BelowIs DEF Apart
  <2>3. rtl_printFrame(f) = Together(s)
    <3>1. {printMACs} \cup {Below(printARP, 16)} = s OBVIOUS
    <3> QED BY <1>3, <3>1 DEF rtl_printFrame
  <2>4. \A x \in s : Told(f, "print", h, x) BY <1>2, <2>1
  <2> HIDE DEF s
  <2> QED BY <2>2, <2>3, <2>4, ToldTogether
<1>4. CASE f.ether = "IPv4"
  <2> DEFINE transport == Below(printTransport(f), 36)
  <2> DEFINE s == {printMACs, Below(printIPv4, 16), transport}
  <2>1. Told(f, "print", h, Below(printIPv4, 16)) BY <1>4, HeadersStand, IPv4Told
  <2>2. Told(f, "print", h, transport) /\ \A l \in DOMAIN transport : l[1] \in {"TCP", "UDP", "ICMP"}
    BY <1>4, IPv4TransportTold, BelowIs
  <2>3. rtl_printFrame(f) = Together(s)
    <3>1. {printMACs} \cup {Below(printIPv4, 16), transport} = s /\ 16 + 20 = 36 OBVIOUS
    <3> QED BY <1>4, <3>1 DEF rtl_printFrame
  <2> HIDE DEF transport
  <2>4. Apart(s) BY <2>2, PrintKeys, BelowIs DEF Apart
  <2>5. \A x \in s : Told(f, "print", h, x) BY <1>2, <2>1, <2>2
  <2> HIDE DEF s
  <2> QED BY <2>3, <2>4, <2>5, ToldTogether
<1>5. CASE f.ether = "IPv6"
  <2> DEFINE transport == Below(printTransport(f), 56)
  <2> DEFINE s == {printMACs, Below(printIPv6, 16), transport}
  <2>1. Told(f, "print", h, Below(printIPv6, 16)) BY <1>5, HeadersStand, IPv6Told
  <2>2. /\ Told(f, "print", h, transport)
        /\ \A l \in DOMAIN transport : l[1] \in {"HOPOPT", "TCP", "UDP", "ICMP"}
    BY <1>5, IPv6TransportTold, BelowIs
  <2>3. rtl_printFrame(f) = Together(s)
    <3>1. {printMACs} \cup {Below(printIPv6, 16), transport} = s /\ 16 + 40 = 56 OBVIOUS
    <3> QED BY <1>5, <3>1 DEF rtl_printFrame
  <2> HIDE DEF transport
  <2>4. Apart(s) BY <2>2, PrintKeys, BelowIs DEF Apart
  <2>5. \A x \in s : Told(f, "print", h, x) BY <1>2, <2>1, <2>2
  <2> HIDE DEF s
  <2> QED BY <2>3, <2>4, <2>5, ToldTogether
<1>6. CASE f.ether = "other"
  <2> DEFINE s == {printMACs}
  <2>1. rtl_printFrame(f) = Together(s)
    <3>1. {printMACs} \cup {} = s OBVIOUS
    <3> QED BY <1>6, <3>1 DEF rtl_printFrame
  <2>2. Apart(s) BY DEF Apart
  <2>3. \A x \in s : Told(f, "print", h, x) BY <1>2
  <2> HIDE DEF s
  <2> QED BY <2>1, <2>2, <2>3, ToldTogether
<1> QED BY <1>1, <1>3, <1>4, <1>5, <1>6

LEMMA ListKeys ==
  /\ {<<"IPv4", "source">>, <<"IPv4", "dest">>} \subseteq DOMAIN printIPv4
  /\ {<<"ARP", "senderIP">>, <<"ARP", "targetIP">>} \subseteq DOMAIN printARP
  /\ {<<"IPv6", "source">>, <<"IPv6", "dest">>} \subseteq DOMAIN printIPv6
<1>1. ASSUME NEW name, NEW rows, NEW a \in DOMAIN rows, NEW b \in DOMAIN rows
      PROVE  {<<name, a>>, <<name, b>>} \subseteq DOMAIN Named(name, rows)
  <2>1. DOMAIN Named(name, rows) = {<<name, k>> : k \in DOMAIN rows} BY NamedIs
  <2> QED BY <2>1
<1>2. {<<"IPv4", "source">>, <<"IPv4", "dest">>} \subseteq DOMAIN printIPv4 BY <1>1 DEF printIPv4
<1>3. {<<"ARP", "senderIP">>, <<"ARP", "targetIP">>} \subseteq DOMAIN printARP BY <1>1 DEF printARP
<1>4. {<<"IPv6", "source">>, <<"IPv6", "dest">>} \subseteq DOMAIN printIPv6 BY <1>1 DEF printIPv6
<1> QED BY <1>2, <1>3, <1>4

LEMMA ListTold ==
  ASSUME NEW f \in Frame, NEW h, h = process_received_packet(f)
  PROVE  Told(f, "list", h, write_line(f))
<1>1. CASE f.ether = "ARP"
  <2> DEFINE S == {<<"ARP", "senderIP">>, <<"ARP", "targetIP">>}
  <2>1. write_line(f) = Below(Restrict(printARP, S), 16) BY <1>1 DEF write_line
  <2>2. Told(f, "list", h, Below(printARP, 16)) BY <1>1, HeadersStand, ARPTold
  <2>3. S \subseteq DOMAIN printARP BY ListKeys
  <2> HIDE DEF S
  <2> QED BY <2>1, <2>2, <2>3, BelowPart
<1>2. CASE f.ether = "IPv4"
  <2> DEFINE S == {<<"IPv4", "source">>, <<"IPv4", "dest">>}
  <2>1. write_line(f) = Below(Restrict(printIPv4, S), 16) BY <1>2 DEF write_line
  <2>2. Told(f, "list", h, Below(printIPv4, 16)) BY <1>2, HeadersStand, IPv4Told
  <2>3. S \subseteq DOMAIN printIPv4 BY ListKeys
  <2> HIDE DEF S
  <2> QED BY <2>1, <2>2, <2>3, BelowPart
<1>3. CASE f.ether = "IPv6"
  <2> DEFINE S == {<<"IPv6", "source">>, <<"IPv6", "dest">>}
  <2>1. write_line(f) = Below(Restrict(printIPv6, S), 16) BY <1>3 DEF write_line
  <2>2. Told(f, "list", h, Below(printIPv6, 16)) BY <1>3, HeadersStand, IPv6Told
  <2>3. S \subseteq DOMAIN printIPv6 BY ListKeys
  <2> HIDE DEF S
  <2> QED BY <2>1, <2>2, <2>3, BelowPart
<1>4. CASE f.ether \notin {"ARP", "IPv4", "IPv6"}
  <2>1. write_line(f) = <<>> BY <1>4 DEF write_line
  <2> QED BY <2>1, ToldNothing
<1> QED BY <1>1, <1>2, <1>3, <1>4

LEMMA NetTold ==
  ASSUME NEW f \in Frame, NEW h, h = process_received_packet(f)
  PROVE  Told(f, "net", h, rtl_print_buffer)
<1>1. rtl_print_buffer = Below(printUDP, 36)
  <2>1. 16 + 20 = 36 OBVIOUS
  <2> QED BY <2>1 DEF rtl_print_buffer
<1>2. CASE Carried(f) # "UDP" BY <1>1, <1>2, NoUDPTold
<1>3. CASE Carried(f) = "UDP"
  <2>1. f.ether \in {"IPv4", "IPv6"} /\ (f.ether = "IPv4" => f.proto = "UDP")
    BY <1>3 DEF Carried
  <2>2. CASE f.ether = "IPv4"
    <3>1. Transport(f) = parseUDPHeader BY <2>1, <2>2 DEF Transport
    <3>2. Stands(parseUDPHeader, h, 36, 34) BY <2>2, <3>1, HeadersStand
    <3> QED BY <1>1, <1>3, <2>2, <3>2, TransportPlace, UDPTold
  <2>3. CASE f.ether = "IPv6" BY <1>1, <1>3, <2>3, HeadersStand, NetOfIPv6Told
  <2> QED BY <2>1, <2>2, <2>3
<1> QED BY <1>2, <1>3

\* The screen is clear, or shows the rows of one command over the frame, of
\* which nothing is said before one came.
Screens(f) == {rtl_printFrame(f), write_line(f), rtl_print_buffer}
ScreenInv ==
  /\ ParsedInv
  /\ \/ command = "none" /\ screen = <<>>
     \/ /\ command # "none"
        /\ header # <<>> =>
             \E rows \in Screens(frame) :
               screen = Shown(rows, header) /\ Told(frame, command, header, rows)

\* The rows a frame is too short for are missing from what its sender said.
LEMMA WireCut ==
  ASSUME NEW f, NEW l
  PROVE  /\ l \in DOMAIN Wire(f) <=> l \in DOMAIN Layout(f) /\ l \notin CutShort(f)
         /\ l \in DOMAIN Wire(f) => Wire(f)[l] = Layout(f)[l]
BY DEF Wire, Restrict

LEMMA ScreenTells == ScreenInv => ScreenIsFrame
<1> SUFFICES ASSUME ScreenInv, header # <<>>
             PROVE  \A l \in DOMAIN screen :
                      (l \notin DOMAIN Wire(frame) \/ screen[l] # Wire(frame)[l])
                        <=> Excepted(frame, command, l) \/ l \in CutShort(frame)
  BY DEF ScreenIsFrame, KnownWrong, Excepted
<1>1. CASE screen = <<>> BY <1>1
<1>2. ASSUME NEW rows, screen = Shown(rows, header), Told(frame, command, header, rows),
             NEW l \in DOMAIN screen
      PROVE  (l \notin DOMAIN Wire(frame) \/ screen[l] # Wire(frame)[l])
               <=> Excepted(frame, command, l) \/ l \in CutShort(frame)
  <2>1. l \in DOMAIN rows BY <1>2 DEF Shown
  <2>2. screen[l] = Seen(rows[l], header) BY <1>2, <2>1 DEF Shown, Seen, Held
  <2>3. (l \in DOMAIN Layout(frame) /\ screen[l] = Layout(frame)[l]) <=> ~Excepted(frame, command, l)
    BY <1>2, <2>1, <2>2 DEF Told
  <2> QED BY <2>3, WireCut
<1> QED BY <1>1, <1>2 DEF ScreenInv

\* What any command shows of a frame is what its sender said, except in exactly
\* the rows the code is known to print wrong.
THEOREM ScreenShowsTheFrame == FramesSpec => []ScreenIsFrame
<1>1. FramesInit => ScreenInv BY DEF FramesInit, ScreenInv, ParsedInv
<1>2. ScreenInv /\ [FramesNext]_frameVars => ScreenInv'
  <2> SUFFICES ASSUME ScreenInv, [FramesNext]_frameVars PROVE ScreenInv'
    OBVIOUS
  <2>1. header # <<>> => frame \in Frame /\ header = process_received_packet(frame)
    BY DEF ScreenInv, ParsedInv
  <2>2. ASSUME NEW c, c # "none", NEW rows, PrintRows(c, rows),
               header # <<>> => rows \in Screens(frame) /\ Told(frame, c, header, rows)
        PROVE  ScreenInv'
    BY <2>1, <2>2 DEF PrintRows, ScreenInv, ParsedInv
  <2>3. ASSUME NEW f \in Frame, ReceiveFrame(f) PROVE ScreenInv'
    BY <2>3 DEF ReceiveFrame, ScreenInv, ParsedInv
  <2>4. CASE PrintFrame
    <3>1. PICK f \in Said : PrintRows("print", rtl_printFrame(f)) BY <2>4 DEF PrintFrame
    <3>2. header # <<>> => f = frame BY DEF Said
    <3> QED BY <2>1, <2>2, <3>1, <3>2, PrintTold DEF Screens
  <2>5. CASE PrintLine BY <2>1, <2>2, <2>5, ListTold DEF PrintLine, Screens
  <2>6. CASE PrintBuffer BY <2>1, <2>2, <2>6, NetTold DEF PrintBuffer, Screens
  <2>7. CASE ClearScreen BY <2>1, <2>7 DEF ClearScreen, ScreenInv, ParsedInv
  <2>8. CASE UNCHANGED frameVars BY <2>8 DEF frameVars, ScreenInv, ParsedInv
  <2> QED BY <2>3, <2>4, <2>5, <2>6, <2>7, <2>8 DEF FramesNext
<1> QED BY <1>1, <1>2, ScreenTells, PTL DEF FramesSpec

=============================================================================
