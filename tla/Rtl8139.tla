------------------------------ MODULE Rtl8139 -------------------------------
(***************************************************************************)
(* kernel/src/rtl8139.c: reception.  The card writes packets into a ring   *)
(* of bytes and raises a level-triggered interrupt; the handler takes one  *)
(* packet, gives the room back through the CAPR register, and keeps the    *)
(* parsed headers of the last NHeaders packets in a second ring.           *)
(*                                                                         *)
(* The card goes on receiving while the handler runs, so each access of    *)
(* the handler to a register of the card is a step of its own.  A packet   *)
(* in memory is a 4-byte header with the length, CRC included, then the    *)
(* frame; packets start at multiples of 4, and one that starts near the    *)
(* end goes on past it (WRAP = 1).  What a frame says is its kind.         *)
(***************************************************************************)
EXTENDS Naturals, Sequences

CONSTANTS
  RxSize,      \* RX_BUFFER_SIZE
  NHeaders,    \* 256
  Lengths,     \* the lengths of packets
  Kinds,       \* what process_received_packet returns
  Unset, Clobbered   \* an entry never written; one a frame was written over

ASSUME Rtl8139Assumption ==
  /\ RxSize \in Nat \ {0} /\ RxSize % 4 = 0 /\ 65536 % RxSize = 0
  /\ NHeaders \in Nat \ {0}
  /\ Lengths \subseteq Nat \ {0}
  /\ Unset \notin Kinds /\ Clobbered \notin Kinds

VARIABLES
  up,           \* how far rtl8139_init came: "off", "enabled" or "installed"
  pc,           \* "idle" while main runs; "stub" in the answer of a line without
                \* a handler; else the handler: "status", "ack", "recv" or "capr"
  status,       \* the ROK bit as the handler read it
  current_packet_ptr,
  ethHeaders, firstHeader, nHeaders,
  array_freed,  \* the heap block of ethHeaders was given to free
  rok,          \* ROK in the interrupt status register of the card
  capr,         \* the CAPR register
  wr,           \* where the card writes next
  rx,           \* the receive buffer: what starts at each multiple of 4
  unread,       \* history: the packets written and not yet taken
  missed,       \* history: packets written while ROK was already set
  log           \* history: the kinds of the last NHeaders packets taken

vars == <<up, pc, status, current_packet_ptr, ethHeaders, firstHeader, nHeaders,
          array_freed, rok, capr, wr, rx, unread, missed, log>>
headers == <<ethHeaders, firstHeader, nHeaders, array_freed>>
card == <<rok, wr, rx, missed>>

Slots == 0 .. NHeaders - 1
Offsets == {o \in 0 .. RxSize - 1 : o % 4 = 0}
Packet(a, n, k) == [at |-> a, len |-> n, kind |-> k]
Payload == Packet(RxSize, 0, Unset)   \* no header starts here

Init ==
  /\ up = "off" /\ pc = "idle" /\ status = FALSE
  /\ current_packet_ptr = 0
  /\ ethHeaders = [i \in Slots |-> Unset]
  /\ firstHeader = 0 /\ nHeaders = 0 /\ array_freed = FALSE
  /\ rok = FALSE /\ capr = 65536 - 16 /\ wr = 0   \* as after a reset
  /\ rx = [o \in Offsets |-> Payload]
  /\ unread = <<>> /\ missed = 0 /\ log = <<>>

-----------------------------------------------------------------------------
\* rtl8139_init turns reception on, and only then installs the handler.  It
\* goes on between two interrupts.
Enable ==
  /\ up = "off"
  /\ up' = "enabled"
  /\ UNCHANGED <<pc, status, current_packet_ptr, headers, capr, card, unread, log>>

Install ==
  /\ up = "enabled" /\ pc = "idle"
  /\ up' = "installed"
  /\ UNCHANGED <<pc, status, current_packet_ptr, headers, capr, card, unread, log>>

-----------------------------------------------------------------------------
\* The card.  It takes CAPR + 16 for the driver's read pointer, an empty
\* buffer if that is where it writes, and drops a packet that would fill the
\* buffer.
Room == ((RxSize + ((capr + 16) % RxSize)) - wr) % RxSize
Extent(n) == ((n + 4 + 3) \div 4) * 4

\* No packet fills the buffer by itself: a frame has at most 1518 bytes.
ASSUME ExtentAssumption == \A n \in Lengths : Extent(n) < RxSize

Fits(n) == Room = 0 \/ Extent(n) < Room

Arrive(n, k) ==
  /\ up # "off"
  /\ Fits(n)
  /\ rx' = [o \in Offsets |-> IF o = wr THEN Packet(wr, n, k)
                              ELSE IF wr < o /\ o < wr + 4 + n THEN Payload
                              ELSE rx[o]]
  /\ wr' = (wr + Extent(n)) % RxSize
  /\ unread' = Append(unread, Packet(wr, n, k))
  /\ missed' = IF rok THEN missed + 1 ELSE missed
  /\ rok' = TRUE
  /\ UNCHANGED <<up, pc, status, current_packet_ptr, headers, capr, log>>

-----------------------------------------------------------------------------
\* __stub of irq.c while the line has no handler: an end of interrupt and
\* nothing for the card, whose request stands.
StubEnter ==
  /\ up = "enabled" /\ pc = "idle" /\ rok
  /\ pc' = "stub"
  /\ UNCHANGED <<up, status, current_packet_ptr, headers, capr, card, unread, log>>

StubReturn ==
  /\ pc = "stub"
  /\ pc' = "idle"
  /\ UNCHANGED <<up, status, current_packet_ptr, headers, capr, card, unread, log>>

\* rtl8139_irq.
IrqEnter ==
  /\ up = "installed" /\ pc = "idle" /\ rok
  /\ pc' = "status"
  /\ UNCHANGED <<up, status, current_packet_ptr, headers, capr, card, unread, log>>

IrqStatus_Acked ==
  /\ pc = "status"
  /\ rok' = FALSE /\ status' = rok'
  /\ pc' = "ack"
  /\ UNCHANGED <<up, current_packet_ptr, headers, capr, wr, rx, missed, unread, log>>

IrqStatus ==
  /\ pc = "status"
  /\ status' = rok
  /\ pc' = "ack"
  /\ UNCHANGED <<up, current_packet_ptr, headers, capr, card, unread, log>>

IrqAck_None ==
  /\ pc = "ack"
  /\ pc' = IF status THEN "recv" ELSE "idle"
  /\ UNCHANGED <<up, status, current_packet_ptr, headers, capr, card, unread, log>>

\* The acknowledgement also clears the ROK of a packet that came since.
IrqAck ==
  /\ pc = "ack"
  /\ rok' = FALSE
  /\ pc' = IF status THEN "recv" ELSE "idle"
  /\ UNCHANGED <<up, status, current_packet_ptr, headers, capr, wr, rx, missed,
                 unread, log>>

getHeaderIndex_Plain(i) == i % NHeaders
getHeaderIndex(i) == (firstHeader + i) % NHeaders

\* Once the array is free, malloc may place the copy of a frame in it: the
\* entries under the copy are lost.
Copied(array, free) ==
  {array} \cup (IF free
                THEN {[i \in Slots |-> IF lo <= i /\ i <= hi THEN Clobbered ELSE array[i]] :
                        lo \in Slots, hi \in Slots}
                ELSE {})

\* removeFirstHeader frees the address of an element of the array, which is
\* the block itself if that element is the first one.
FreesArray == getHeaderIndex(firstHeader) = 0

\* The next header of the ring receives what the packet at
\* current_packet_ptr says; a full ring gives its first header up.
Store(k, array) ==
  IF nHeaders = NHeaders
  THEN /\ array_freed' = (array_freed \/ FreesArray)
       /\ firstHeader' = (firstHeader + 1) % NHeaders
       /\ nHeaders' = nHeaders
       /\ ethHeaders' = [array EXCEPT ![(firstHeader' + (nHeaders - 1)) % NHeaders] = k]
  ELSE /\ nHeaders' = nHeaders + 1
       /\ ethHeaders' = [array EXCEPT ![getHeaderIndex(nHeaders)] = k]
       /\ UNCHANGED <<firstHeader, array_freed>>

Advance_Frame(n) == (((current_packet_ptr + n + 3) \div 4) * 4) % RxSize
Advance(n) == (((current_packet_ptr + (n + 4) + 3) \div 4) * 4) % RxSize

LastOf(s) == IF Len(s) > NHeaders THEN Tail(s) ELSE s

\* receive_packet up to the write of CAPR.
Receive ==
  /\ pc = "recv"
  /\ LET packet == rx[current_packet_ptr]
     IN /\ \E array \in Copied(ethHeaders, array_freed) : Store(packet.kind, array)
        /\ current_packet_ptr' = Advance(packet.len)
  /\ unread' = Tail(unread)
  /\ log' = LastOf(Append(log, Head(unread).kind))
  /\ pc' = "capr"
  /\ UNCHANGED <<up, status, capr, card>>

CaprOf_Plain(ptr) == ptr
CaprOf(ptr) == (ptr + 65536 - 16) % 65536

WriteCapr ==
  /\ pc = "capr"
  /\ capr' = CaprOf(current_packet_ptr)
  /\ pc' = "idle"
  /\ UNCHANGED <<up, status, current_packet_ptr, headers, card, unread, log>>

StubStep == StubEnter \/ StubReturn
HandlerStep == IrqEnter \/ IrqStatus \/ IrqAck \/ Receive \/ WriteCapr

Next ==
  \/ Enable \/ Install
  \/ \E n \in Lengths, k \in Kinds : Arrive(n, k)
  \/ StubStep \/ HandlerStep

\* The processor takes a request that stands and goes on with its handler; the
\* network owes nothing.  Of rtl8139_init nothing is asked: between its last two
\* steps a request that nobody acknowledges is taken again as soon as its
\* answer returns, and main may get no further.
Spec ==
  /\ Init /\ [][Next]_vars
  /\ WF_vars(StubStep) /\ WF_vars(HandlerStep)

-----------------------------------------------------------------------------
\* Every variable stays in its range (rtl8139.c:18-25).
TypeOK ==
  /\ up \in {"off", "enabled", "installed"}
  /\ pc \in {"idle", "stub", "status", "ack", "recv", "capr"}
  /\ status \in BOOLEAN /\ rok \in BOOLEAN /\ array_freed \in BOOLEAN
  /\ current_packet_ptr \in Offsets /\ wr \in Offsets
  /\ ethHeaders \in [Slots -> Kinds \cup {Unset, Clobbered}]
  /\ firstHeader \in Slots /\ nHeaders \in 0 .. NHeaders
  /\ capr \in Nat
  /\ missed \in Nat

\* The driver and the card agree where the packets are: current_packet_ptr
\* is the oldest packet not taken, or, when there is none, the place of the
\* next one.  No length makes the two drift apart (rtl8139.c:55,77).
InSync ==
  current_packet_ptr = IF unread = <<>> THEN wr ELSE Head(unread).at

\* The card never writes over a packet the driver has not taken, although it
\* learns the driver's pointer late, and offset by 16 (rtl8139.c:80).
UnreadIntact ==
  \A i \in 1 .. Len(unread) : rx[unread[i].at] = unread[i]

\* The packets the interrupt under way, or pending, will take.
Owed == IF pc = "ack" THEN 1
        ELSE (IF rok THEN 1 ELSE 0) + (IF pc = "recv" THEN 1 ELSE 0)

\* One interrupt takes one packet: each packet that came while ROK was set
\* leaves the driver one packet behind, for ever, and nothing else does.  In
\* particular receive_packet never runs without a packet, whatever comes
\* between the read of the status and its acknowledgement (rtl8139.c:119-127).
LagIsCoalesced == Len(unread) = missed + Owed

\* The i-th header of the list is the i-th of the last packets taken, unless a
\* frame was copied over it, which needs the array to be free: removing the
\* first header frees it (rtl8139.c:36-48, 63, 70-74).
RingOrder ==
  /\ nHeaders = Len(log)
  /\ \A i \in 0 .. nHeaders - 1 :
       \/ ethHeaders[getHeaderIndex(i)] = log[i + 1]
       \/ array_freed /\ ethHeaders[getHeaderIndex(i)] = Clobbered

\* Once the handler is installed, a raised ROK leads to a packet being taken:
\* the race of the acknowledgement with the next packet loses an interrupt, but
\* never all of them.  A packet that came before the handler is taken too, if
\* main ever installs it (rtl8139.c:111-113, 119-130; irq.c:10-18).
RokServed == (up = "installed" /\ rok) ~> pc = "recv"

\* The frame is copied "para processamento separado" (rtl8139.c:62): the copy
\* never shares memory with the ring of headers.
FrameCopySeparate == \A i \in Slots : ethHeaders[i] # Clobbered

=============================================================================
