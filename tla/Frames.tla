------------------------------- MODULE Frames -------------------------------
(***************************************************************************)
(* The parsers and printers of kernel/src/rtl8139.c over the structures of *)
(* libc/include/net.h, and the two commands that print headers.            *)
(*                                                                         *)
(* The value of a byte never matters, only where it comes from.  A parsed  *)
(* header is a function from the bytes of struct EthernetHeader that were  *)
(* written to the bytes of the frame they were written from; a number that *)
(* is printed is the sequence of the bytes it is made of, the most         *)
(* significant first.  The processor is little-endian.  Two members of a   *)
(* union share their bytes, and bytes no parser wrote are what the stack   *)
(* held.                                                                   *)
(***************************************************************************)
EXTENDS Integers, Sequences, Functions

CONSTANTS
  MaxOptions,    \* how long an optional part of a header may be
  FrameLengths   \* the lengths the card reports, with the 4 bytes of checksum

\* rtl8139_init does not ask the card for frames below the minimum of Ethernet.
ShortestFrame == 64

ASSUME FramesAssumption ==
  /\ MaxOptions \in Nat
  /\ FrameLengths \subseteq Nat /\ \A n \in FrameLengths : n >= ShortestFrame

Unwritten == -1   \* the source of a byte no parser wrote

\* A frame, by what its header fields say: the protocols, and how many units
\* (4 bytes in IPv4, 8 in hop-by-hop options) its optional part has; and by its
\* length, which may be less than those headers take.
Frame == [ether : {"ARP", "IPv4", "IPv6", "other"},
          proto : {"TCP", "UDP", "ICMP", "ICMPv6", "HOPOPT", "other"},
          next : {"TCP", "UDP", "ICMPv6", "other"},
          options : 0 .. MaxOptions,
          length : FrameLengths]

-----------------------------------------------------------------------------
\* Stores.  The first argument is a byte of the structure, the last one a
\* byte of the frame.
Copy(at, n, from) == [b \in at .. at + n - 1 |-> from + (b - at)]                \* memcpy
Swap(at, n, from) == [b \in at .. at + n - 1 |-> from + n - 1 - (b - at)]        \* (f[0] << 8) | f[1]
Moved(store, at, from) ==
  [b \in {at + x : x \in DOMAIN store} |-> from + store[b - at]]
\* Functions without a common argument, as one.
Together(s) == [b \in UNION {DOMAIN x : x \in s} |->
                  (CHOOSE x \in s : b \in DOMAIN x)[b]]

parseEthernetHeader == Together({Copy(0, 6, 0), Copy(6, 6, 6), Swap(12, 2, 12)})

parseARPHeader ==
  Together({Copy(0, 2, 0), Copy(2, 2, 2), Copy(4, 1, 4), Copy(5, 1, 5), Copy(6, 2, 6),
            Copy(8, 6, 8), Copy(16, 4, 14), Copy(20, 6, 18), Copy(28, 4, 24)})

parseIPv4Header_Copied ==
  Together({Copy(0, 1, 0), Copy(1, 1, 1), Copy(2, 2, 2), Swap(4, 2, 4), Swap(6, 2, 6),
            Copy(8, 1, 8), Copy(9, 1, 9), Swap(10, 2, 10), Copy(12, 4, 12), Copy(16, 4, 16)})

parseIPv4Header ==
  Together({Copy(0, 1, 0), Copy(1, 1, 1), Swap(2, 2, 2), Swap(4, 2, 4), Swap(6, 2, 6),
            Copy(8, 1, 8), Copy(9, 1, 9), Swap(10, 2, 10), Copy(12, 4, 12), Copy(16, 4, 16)})

parseIPv6Header ==
  Together({Copy(0, 4, 0), Copy(4, 2, 4), Copy(6, 1, 6), Copy(7, 1, 7),
            Copy(8, 16, 8), Copy(24, 16, 24)})

\* The bit fields take two bytes: dataOffset from byte 12, and flags, of whose
\* nine bits eight are byte 14 of the header.
parseTCPHeader ==
  Together({Swap(0, 2, 0), Swap(2, 2, 2), Swap(4, 4, 4), Swap(8, 4, 8), Copy(12, 1, 12),
            Copy(13, 1, 14), Swap(14, 2, 15), Swap(16, 2, 17), Swap(18, 2, 19)})

parseUDPHeader == Together({Swap(0, 2, 0), Swap(2, 2, 2), Swap(4, 2, 4), Swap(6, 2, 6)})

parseICMPHeader == Together({Copy(0, 1, 0), Copy(1, 1, 1), Swap(2, 2, 2), Swap(4, 4, 4)})

parseIPv6HopByHop_After(next) ==
  Together({Copy(0, 1, 0), Copy(1, 1, 1), Copy(2, 6, 2), Copy(8, 2, 8),
            CASE next = "TCP"    -> Moved(parseTCPHeader, 12, 16)
              [] next = "UDP"    -> Moved(parseUDPHeader, 12, 16)
              [] next = "ICMPv6" -> Moved(parseICMPHeader, 12, 16)
              [] OTHER           -> <<>>})

parseIPv6HopByHop(next) ==
  Together({Copy(0, 1, 0), Copy(1, 1, 1), Copy(2, 6, 2), Copy(8, 2, 8),
            CASE next = "TCP"    -> Moved(parseTCPHeader, 12, 8)
              [] next = "UDP"    -> Moved(parseUDPHeader, 12, 8)
              [] next = "ICMPv6" -> Moved(parseICMPHeader, 12, 8)
              [] OTHER           -> <<>>})

\* The transport headers process_received_packet parses: not ICMP over IPv4.
Transport(f) ==
  CASE f.ether = "IPv4" /\ f.proto = "TCP"    -> parseTCPHeader
    [] f.ether = "IPv4" /\ f.proto = "UDP"    -> parseUDPHeader
    [] f.ether = "IPv6" /\ f.proto = "TCP"    -> parseTCPHeader
    [] f.ether = "IPv6" /\ f.proto = "UDP"    -> parseUDPHeader
    [] f.ether = "IPv6" /\ f.proto = "ICMPv6" -> parseICMPHeader
    [] f.ether = "IPv6" /\ f.proto = "HOPOPT" -> parseIPv6HopByHop(f.next)
    [] OTHER                                  -> <<>>

\* The network header starts at byte 14 of the frame and 16 of the structure.
process_received_packet(f) ==
  Together({parseEthernetHeader}
           \cup CASE f.ether = "ARP"  -> {Moved(parseARPHeader, 16, 14)}
                  [] f.ether = "IPv4" -> {Moved(parseIPv4Header, 16, 14),
                                          Moved(Transport(f), 16 + 20, 14 + 20)}
                  [] f.ether = "IPv6" -> {Moved(parseIPv6Header, 16, 14),
                                          Moved(Transport(f), 16 + 40, 14 + 40)}
                  [] OTHER            -> {})

-----------------------------------------------------------------------------
\* Rows on the screen: what is printed after a label, from the bytes at..at+n-1
\* of the structure: an array in its order, a number from its top byte down.
Array(at, n) == [i \in 1 .. n |-> at + i - 1]
Value(at, n) == [i \in 1 .. n |-> at + n - i]
Below(rows, at) == [l \in DOMAIN rows |-> [i \in DOMAIN rows[l] |-> at + rows[l][i]]]
Named(name, rows) ==
  [l \in {<<name, k>> : k \in DOMAIN rows} |-> rows[l[2]]]

printTCP ==
  Named("TCP", [source |-> Value(0, 2), dest |-> Value(2, 2), seq |-> Value(4, 4),
                ack |-> Value(8, 4), offset |-> Value(12, 1), flags |-> Value(13, 1),
                window |-> Value(14, 2), checksum |-> Value(16, 2), urgent |-> Value(18, 2)])

printUDP ==
  Named("UDP", [source |-> Value(0, 2), dest |-> Value(2, 2), length |-> Value(4, 2),
                checksum |-> Value(6, 2)])

printICMP ==
  Named("ICMP", [type |-> Value(0, 1), code |-> Value(1, 1), checksum |-> Value(2, 2)])

printHopOptions ==
  Named("HOPOPT", [next |-> Value(0, 1), ext |-> Value(1, 1), options |-> Array(2, 6),
                   padding |-> Array(8, 2)])

printIPv6 ==
  Named("IPv6", [version |-> Value(0, 4), payload |-> Value(4, 2), next |-> Value(6, 1),
                 hops |-> Value(7, 1), source |-> Array(8, 16), dest |-> Array(24, 16)])

printIPv4 ==
  Named("IPv4", [version |-> Value(0, 1), tos |-> Value(1, 1), total |-> Value(2, 2),
                 id |-> Value(4, 2), fragment |-> Value(6, 2), ttl |-> Value(8, 1),
                 proto |-> Value(9, 1), checksum |-> Value(10, 2),
                 source |-> Array(12, 4), dest |-> Array(16, 4)])

\* The sender and the target are shifted out of a number, lowest byte first.
printARP ==
  Named("ARP", [sender |-> Array(8, 6), senderIP |-> Array(16, 4), target |-> Array(20, 6),
                targetIP |-> Array(28, 4), opcode |-> Value(6, 2)])

printMACs == Named("Ethernet", [source |-> Array(6, 6), dest |-> Array(0, 6)])

\* The case of TCP after hop-by-hop options has no break.
printHopTransport(next) ==
  CASE next = "TCP"    -> Together({printTCP, printUDP})
    [] next = "UDP"    -> printUDP
    [] next = "ICMPv6" -> printICMP
    [] OTHER           -> <<>>

\* Over IPv6 only the source port of TCP and UDP is printed.
SourcePort(rows) == Restrict(rows, {l \in DOMAIN rows : l[2] = "source"})

printTransport(f) ==
  CASE f.ether = "IPv4" /\ f.proto = "TCP"    -> printTCP
    [] f.ether = "IPv4" /\ f.proto = "UDP"    -> printUDP
    [] f.ether = "IPv4" /\ f.proto = "ICMP"   -> printICMP
    [] f.ether = "IPv6" /\ f.proto = "TCP"    -> SourcePort(printTCP)
    [] f.ether = "IPv6" /\ f.proto = "UDP"    -> SourcePort(printUDP)
    [] f.ether = "IPv6" /\ f.proto = "ICMPv6" -> printICMP
    [] f.ether = "IPv6" /\ f.proto = "HOPOPT" ->
         Together({printHopOptions, Below(printHopTransport(f.next), 12)})
    [] OTHER                                  -> <<>>

\* rtl_printFrame, as the bytes of the structure it prints.
rtl_printFrame(f) ==
  Together({printMACs}
             \cup CASE f.ether = "ARP"  -> {Below(printARP, 16)}
                    [] f.ether = "IPv4" -> {Below(printIPv4, 16), Below(printTransport(f), 16 + 20)}
                    [] f.ether = "IPv6" -> {Below(printIPv6, 16), Below(printTransport(f), 16 + 40)}
                    [] OTHER            -> {})

\* __pctprint_command_write_line: one line of the list of packets.
write_line(f) ==
  CASE f.ether = "IPv4" -> Below(Restrict(printIPv4, {<<"IPv4", "source">>, <<"IPv4", "dest">>}), 16)
    [] f.ether = "ARP"  -> Below(Restrict(printARP, {<<"ARP", "senderIP">>, <<"ARP", "targetIP">>}), 16)
    [] f.ether = "IPv6" -> Below(Restrict(printIPv6, {<<"IPv6", "source">>, <<"IPv6", "dest">>}), 16)
    [] OTHER            -> <<>>

\* rtl_print_buffer prints every header as one of UDP over IPv4.
rtl_print_buffer == Below(printUDP, 16 + 20)

\* What the rows show: the bytes of the frame the structure holds there.
Shown(rows, header) ==
  [l \in DOMAIN rows |->
     [i \in DOMAIN rows[l] |->
        IF rows[l][i] \in DOMAIN header THEN header[rows[l][i]] ELSE Unwritten]]

-----------------------------------------------------------------------------
\* The formats the senders follow (RFC 768, 791, 792, 793, 826, 8200): the
\* bytes of the frame each row stands for.
TransportAt(f) ==
  CASE f.ether = "IPv4"                       -> 14 + 20 + 4 * f.options
    [] f.ether = "IPv6" /\ f.proto = "HOPOPT" -> 14 + 40 + 8 + 8 * f.options
    [] OTHER                                  -> 14 + 40

Carried(f) == IF f.ether = "IPv6" /\ f.proto = "HOPOPT" THEN f.next
              ELSE IF f.ether \in {"IPv4", "IPv6"} THEN f.proto ELSE "other"

WireEthernet == Named("Ethernet", [source |-> Array(6, 6), dest |-> Array(0, 6)])
WireARP ==
  Named("ARP", [sender |-> Array(8, 6), senderIP |-> Array(14, 4), target |-> Array(18, 6),
                targetIP |-> Array(24, 4), opcode |-> Array(6, 2)])
WireIPv4 ==
  Named("IPv4", [version |-> Array(0, 1), tos |-> Array(1, 1), total |-> Array(2, 2),
                 id |-> Array(4, 2), fragment |-> Array(6, 2), ttl |-> Array(8, 1),
                 proto |-> Array(9, 1), checksum |-> Array(10, 2),
                 source |-> Array(12, 4), dest |-> Array(16, 4)])
WireIPv6 ==
  Named("IPv6", [version |-> Array(0, 4), payload |-> Array(4, 2), next |-> Array(6, 1),
                 hops |-> Array(7, 1), source |-> Array(8, 16), dest |-> Array(24, 16)])
WireHopOptions ==
  Named("HOPOPT", [next |-> Array(0, 1), ext |-> Array(1, 1), options |-> Array(2, 6)])
WireTCP ==
  Named("TCP", [source |-> Array(0, 2), dest |-> Array(2, 2), seq |-> Array(4, 4),
                ack |-> Array(8, 4), offset |-> Array(12, 1), flags |-> Array(13, 1),
                window |-> Array(14, 2), checksum |-> Array(16, 2), urgent |-> Array(18, 2)])
WireUDP ==
  Named("UDP", [source |-> Array(0, 2), dest |-> Array(2, 2), length |-> Array(4, 2),
                checksum |-> Array(6, 2)])
WireICMP == Named("ICMP", [type |-> Array(0, 1), code |-> Array(1, 1), checksum |-> Array(2, 2)])

WireTransport(f) == CASE Carried(f) = "TCP" -> WireTCP
                      [] Carried(f) = "UDP" -> WireUDP
                      [] OTHER              -> WireICMP
Layout(f) ==
  Together({WireEthernet, Below(WireARP, 14), Below(WireIPv4, 14), Below(WireIPv6, 14),
            Below(WireHopOptions, 14 + 40), Below(WireTransport(f), TransportAt(f))})

\* Where the headers of a frame end, and where it ends itself, in front of its
\* checksum: its sender wrote the fields that lie before.
HeadersEnd(f) ==
  CASE f.ether = "ARP"                 -> 14 + 28
    [] f.ether \in {"IPv4", "IPv6"}    -> TransportAt(f) + (CASE Carried(f) = "TCP" -> 20
                                                              [] Carried(f) = "other" -> 0
                                                              [] OTHER -> 8)
    [] OTHER                           -> 14
Sent(f) == f.length - 4
CutShort(f) ==
  LET fields == Layout(f)
  IN {l \in DOMAIN fields : \E i \in DOMAIN fields[l] : fields[l][i] >= Sent(f)}
Wire(f) == LET fields == Layout(f) IN Restrict(fields, DOMAIN fields \ CutShort(f))

\* The copy receive_packet parses: 4 bytes more than the card reports.
CopyLength(f) == f.length + 4

-----------------------------------------------------------------------------
VARIABLES
  frame,     \* the frame received
  header,    \* its entry of ethHeaders
  command,   \* the command that printed the screen
  screen     \* its rows

frameVars == <<frame, header, command, screen>>

FramesInit ==
  /\ frame = [ether |-> "other", proto |-> "other", next |-> "other", options |-> 0,
              length |-> ShortestFrame]
  /\ header = <<>>   \* no frame came yet
  /\ command = "none" /\ screen = <<>>

\* receive_packet stores what process_received_packet returns.  One entry of
\* the list is followed; the next frame has the next one.
ReceiveFrame(f) ==
  /\ command = "none" /\ header = <<>>
  /\ frame' = f
  /\ header' = process_received_packet(f)
  /\ UNCHANGED <<command, screen>>

PrintRows(c, rows) ==
  /\ command = "none"
  /\ command' = c
  /\ screen' = Shown(rows, header)
  /\ UNCHANGED <<frame, header>>

\* Enter prints an entry, and net the last one, even of an empty list: the
\* protocols are then what the memory of the list, or before it, happens to say.
Said == IF header = <<>> THEN Frame ELSE {frame}

PrintFrame == \E f \in Said : PrintRows("print", rtl_printFrame(f))
PrintLine == header # <<>> /\ PrintRows("list", write_line(frame))
PrintBuffer == PrintRows("net", rtl_print_buffer)

ClearScreen ==
  /\ command # "none"
  /\ command' = "none" /\ screen' = <<>>
  /\ UNCHANGED <<frame, header>>

FramesNext ==
  \/ \E f \in Frame : ReceiveFrame(f)
  \/ PrintFrame \/ PrintLine \/ PrintBuffer
  \/ ClearScreen

FramesSpec == FramesInit /\ [][FramesNext]_frameVars

-----------------------------------------------------------------------------
\* No parser skips the options in front of a transport header.
Skips(f) == /\ f.options # 0
            /\ f.ether = "IPv4" \/ (f.ether = "IPv6" /\ f.proto = "HOPOPT")

\* Rows the code is known to print wrong.  ARP's opcode and two fields of IPv6
\* keep the order of the wire, so that every ARP packet is called a reply;
\* hop-by-hop options have no padding of their own; from the flags on, TCP is
\* read one byte late; ICMP over IPv4 is printed but not parsed; UDP is printed
\* of packets that have none, by the net command and by a missing break;
\* options before a transport header are not skipped; and of a frame that ends
\* before its headers do, the missing fields are printed all the same.
LateRows == {<<"TCP", l>> : l \in {"flags", "window", "checksum", "urgent"}}
Unswapped == {<<"ARP", "opcode">>, <<"IPv6", "version">>, <<"IPv6", "payload">>}
KnownWrong(f) ==
  LET cut == CutShort(f) IN
  {l \in DOMAIN screen :
     \/ l \in LateRows \cup Unswapped \cup {<<"HOPOPT", "padding">>}
     \/ l[1] = "ICMP" /\ f.ether = "IPv4"
     \/ l[1] = "UDP" /\ Carried(f) # "UDP"
     \/ command = "net" /\ f.ether # "IPv4"
     \/ l[1] \in {"TCP", "UDP", "ICMP"} /\ Skips(f)
     \/ l \in cut}

\* What the screen says of a frame is what its sender said, from the bytes of
\* each field in the order of the network, except in exactly the rows above
\* (rtl8139.c:132-360, 395-543; tty.c:448-479).
ScreenIsFrame ==
  header # <<>> =>
    LET wire == Wire(frame)
    IN {l \in DOMAIN screen : l \notin DOMAIN wire \/ screen[l] # wire[l]} = KnownWrong(frame)

\* The length below which a frame with these headers is read behind its copy:
\* the parser of TCP reads a byte too many.
LengthRead(f) ==
  CASE f.ether = "IPv6" /\ f.proto = "HOPOPT" /\ f.next = "TCP"              -> 79
    [] f.ether = "IPv6" /\ f.proto = "HOPOPT" /\ f.next \in {"UDP", "ICMPv6"} -> 66
    [] f.ether = "IPv6" /\ f.proto = "TCP"                                   -> 71
    [] OTHER                                                                -> 0

\* The parsers test no length.  They read behind the copy of a frame, in what
\* follows it in the heap, exactly if it is IPv6 and shorter than they take its
\* headers to be; of a frame whose headers are complete they never do
\* (rtl8139.c:55, 63, 402-476, 524-535).
OnlyShortFramesOverrun ==
  header # <<>> =>
    LET overrun == \E b \in DOMAIN header : header[b] >= CopyLength(frame)
    IN /\ overrun <=> frame.length < LengthRead(frame)
       /\ overrun => Sent(frame) < HeadersEnd(frame)

=============================================================================
