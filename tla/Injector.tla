------------------------------ MODULE Injector ------------------------------
(***************************************************************************)
(* The raw injector of controlpackets/inject.c: inject_datagram_ipv4 lays *)
(* out a 20-byte IPv4 header and an 8-byte UDP header in a uint16_t       *)
(* header[14] array, computes the IPv4 header checksum and the UDP        *)
(* checksum over a pseudo header, and hands header and payload to         *)
(* sendto() on a raw socket opened with IP_HDRINCL.  The module defines  *)
(* the packet and the call's outcomes; ControlPacketRouter makes it.     *)
(*                                                                         *)
(* Memory is modelled byte for byte: a uint16_t holds a host-order value  *)
(* whose two bytes depend on the host's byte order (LittleEndian), htons  *)
(* swaps them on a little-endian host, and checksum() reads the buffer    *)
(* back as host-order words.  A datagram carries the port numbers as      *)
(* numbers; recvmsg() stored the source port in network order in          *)
(* source.sin_port, demux.c stored the control plane's port in host order *)
(* in destination.sin_port.                                                *)
(***************************************************************************)
EXTENDS Integers, Sequences, SequencesExt

CONSTANT LittleEndian  \* byte order of the build host

(* The two bytes a uint16_t occupies in memory, and the uint16_t that two  *)
(* bytes of memory hold.                                                   *)
Store16(w) == IF LittleEndian THEN <<w % 256, w \div 256>>
                              ELSE <<w \div 256, w % 256>>
Load16(b1, b2) == IF LittleEndian THEN b1 + 256 * b2 ELSE 256 * b1 + b2

htons(v) == IF LittleEndian THEN ((v % 256) * 256) + (v \div 256) ELSE v

(* A uint16_t array as the bytes it occupies, and a byte buffer read as a  *)
(* uint16_t array (an odd trailing byte is not a whole word).             *)
Memory(ws) == FlattenSeq([i \in 1..Len(ws) |-> Store16(ws[i])])
Words(bytes) == [i \in 1..(Len(bytes) \div 2) |->
                    Load16(bytes[2 * i - 1], bytes[2 * i])]

(* The first loop of checksum(), words i..j: add each word into an       *)
(* unsigned long, folding the carries back in whenever bit 31 becomes set *)
(* (s & 0x80000000 for s below 2^32, written without 2^31, which TLC's    *)
(* integers lack).                                                         *)
RECURSIVE AddWords(_, _, _, _)
AddWords(sum, ws, i, j) ==
    IF i > j THEN sum
    ELSE LET s == sum + ws[i]
         IN  IF s \div 2^30 > 1
             THEN AddWords((s % 2^16) + (s \div 2^16), ws, i + 1, j)
             ELSE AddWords(s, ws, i + 1, j)

Accumulate(ws, sum) == AddWords(sum, ws, 1, Len(ws))  \* over every word

(* The second loop of checksum(): fold until no carry is left.             *)
RECURSIVE FoldCarries(_)
FoldCarries(sum) ==
    IF sum \div 2^16 = 0 THEN sum
    ELSE FoldCarries((sum % 2^16) + (sum \div 2^16))

(* checksum(subject, subject_len) over a byte buffer: the loop runs while *)
(* subject_len > 1, and the uint16_t return value is ~sum truncated.      *)
checksum(subject) == 2^16 - 1 - FoldCarries(Accumulate(Words(subject), 0))

(* checksum_ipv4(header): the first 20 bytes of header[].                  *)
checksum_ipv4(header) == checksum(Memory(SubSeq(header, 1, 10)))

(* checksum_udp with the zero padding of an odd payload omitted.           *)
checksum_udp_unpadded(true_header, payload) ==
    LET pseudo_header ==
            <<true_header[7], true_header[8], true_header[9], true_header[10],
              htons(17), htons(8 + Len(payload)),
              true_header[11], true_header[12], true_header[13], 0>>
    IN  checksum(Memory(pseudo_header) \o payload)

(* checksum_udp(true_header, payload, payload_len): the pseudo header     *)
(* (addresses, zero and protocol 17, UDP length, then the UDP header with *)
(* a zero checksum) followed by the payload, zero-padded to an even       *)
(* length.  true_header[i] of the code is true_header[i+1] here.           *)
checksum_udp(true_header, payload) ==
    LET pseudo_header ==
            <<true_header[7], true_header[8], true_header[9], true_header[10],
              htons(17), htons(8 + Len(payload)),
              true_header[11], true_header[12], true_header[13], 0>>
        pad == IF Len(payload) % 2 = 1 THEN <<0>> ELSE <<>>
    IN  checksum(Memory(pseudo_header) \o payload \o pad)

(* header[11] = destination.sin_port, without the htons.                  *)
inject_header_noswap(d) ==
    LET ip == <<htons(17664), 28 + Len(d.payload), htons(1), htons(0),
                htons(4369), 0>> \o Words(d.saddr) \o Words(d.daddr)
        ipc == [ip EXCEPT ![6] = checksum_ipv4(ip)]
        udp == ipc \o <<htons(d.sport), d.dport, htons(8 + Len(d.payload)), 0>>
    IN  [udp EXCEPT ![14] = checksum_udp(udp, d.payload)]

(* The header[14] array as inject_datagram_ipv4 leaves it: version/IHL    *)
(* 0x4500, total length in host order, identification 1, no fragment,     *)
(* TTL 0x11 and protocol 0x11, the addresses copied from the sockaddrs,   *)
(* then the IPv4 checksum; the source port as recvmsg() stored it, the    *)
(* destination port and UDP length through htons, then the UDP checksum. *)
inject_header(d) ==
    LET ip == <<htons(17664), 28 + Len(d.payload), htons(1), htons(0),
                htons(4369), 0>> \o Words(d.saddr) \o Words(d.daddr)
        ipc == [ip EXCEPT ![6] = checksum_ipv4(ip)]
        udp == ipc \o <<htons(d.sport), htons(d.dport),
                        htons(8 + Len(d.payload)), 0>>
    IN  [udp EXCEPT ![14] = checksum_udp(udp, d.payload)]

(* The buffer handed to sendto(): the 28 header bytes, then the payload.   *)
Packet(d) == Memory(inject_header(d)) \o d.payload

(* What inject_datagram_ipv4(datagram) puts on the wire: nothing when    *)
(* socket() or sendto() fails (the call warns and returns -1, a value no  *)
(* caller reads), else the packet.                                         *)
inject_datagram_ipv4(d, fails) == IF fails THEN <<>> ELSE Packet(d)

-----------------------------------------------------------------------------
(* Receiver's view of a packet, from RFC 768 and RFC 1071: the wire is    *)
(* read as big-endian 16-bit words, and the one's complement sum of the   *)
(* checksummed words must be 0xFFFF.                                       *)
BE16(bytes, i) == 256 * bytes[i] + bytes[i + 1]
BEWords(bytes) == [i \in 1..(Len(bytes) \div 2) |-> BE16(bytes, 2 * i - 1)]
OnesComplementSum(ws) ==
    LET s == FoldSeq(LAMBDA a, b : a + b, 0, ws)
    IN  IF s = 0 THEN 0 ELSE ((s - 1) % (2^16 - 1)) + 1
UdpSegment(pkt) == SubSeq(pkt, 21, Len(pkt))
PseudoHeader(pkt) == SubSeq(pkt, 13, 20) \o <<0, 17>> \o SubSeq(pkt, 25, 26)
EvenPadded(s) == IF Len(s) % 2 = 1 THEN s \o <<0>> ELSE s

(* The receiver's two checks on a packet: the IPv4 header sums to 0xFFFF, *)
(* and so does the UDP pseudo header with the UDP header and payload      *)
(* zero-padded to even length.                                             *)
ChecksumsOK(pkt) ==
    /\ OnesComplementSum(BEWords(SubSeq(pkt, 1, 20))) = 2^16 - 1
    /\ OnesComplementSum(BEWords(PseudoHeader(pkt)
                                 \o EvenPadded(UdpSegment(pkt)))) = 2^16 - 1

=============================================================================
