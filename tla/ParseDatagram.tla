---------------------------- MODULE ParseDatagram ----------------------------
(***************************************************************************)
(* The control-packet parser of controlpackets/parsedatagram.c, and the   *)
(* buffer the control-packets demuxer (controlpackets/demux.c) hands it.  *)
(*                                                                         *)
(* The demuxer keeps one uint8_t buf[IP_MAXLEN] on its stack for its whole *)
(* life; recvmsg() overwrites the first payload_len bytes and leaves the  *)
(* rest as the previous datagrams left it.  extract_eid_cp(buf, len) reads *)
(* the buffer at offsets the code computes, big-endian through ntohs.     *)
(* A datagram is a sequence of bytes; an EID is the ipv6_prefix record    *)
(* [prefix (16 bytes), prefix_length (uint8_t), reason].                   *)
(***************************************************************************)
EXTENDS Integers, Sequences, SequencesExt

CONSTANTS BufLen,      \* bytes of the stack buffer the model keeps
          Datagrams,   \* [bytes, carries]: what recvmsg() may return, and
                       \* the EID its LISP encoding carries (RFC 6830)
          InitialBuf   \* the buffer's contents before the first datagram

VARIABLES buf,   \* the demuxer's datagram buffer
          len,   \* datagram.payload_len of the last datagram
          eid,   \* extract_eid_cp(buf, len) of the last datagram
          rcvd   \* ghost: the last datagram received

pdVars == <<buf, len, eid, rcvd>>

AFI_EMPTY == 0
AFI_IPV4 == 1
AFI_IPV6 == 2

(* The byte at C offset o of a buffer, and ntohs of the two bytes there.   *)
At(b, o) == b[o + 1]
Ntohs(b, o) == 256 * At(b, o) + At(b, o + 1)
Bytes(b, o, n) == [i \in 1..n |-> At(b, o + i - 1)]

Zeros(n) == [i \in 1..n |-> 0]

(* get_undefined_eid and get_broadcast_eid: the all-zero prefix with      *)
(* length 128 (routed ERR) or 0 (routed ALL), carrying the reason.         *)
get_undefined_eid(reason) ==
    [prefix |-> Zeros(16), prefix_length |-> 128, reason |-> reason]
get_broadcast_eid(reason) ==
    [prefix |-> Zeros(16), prefix_length |-> 0, reason |-> reason]

(* An IPv4 address as an IPv4-mapped IPv6 address, ::ffff:a.b.c.d.         *)
Mapped(v4) == Zeros(10) \o <<255, 255>> \o v4

(* skip_afi_address_couple(datagram, &offset): the new offset after an AFI *)
(* and its address, or r = -1 for an AFI other than empty, IPv4, IPv6.     *)
skip_afi_address_couple(b, offset) ==
    LET afi == Ntohs(b, offset)
        size == (AFI_EMPTY :> 0) @@ (AFI_IPV4 :> 4) @@ (AFI_IPV6 :> 16)
    IN  IF afi \in DOMAIN size
        THEN [r |-> 0, offset |-> offset + 2 + size[afi]]
        ELSE [r |-> -1, offset |-> offset]

(* process_afi_address_couple(afi_ptr, &significant_eid): an IPv4 EID is  *)
(* stored IPv4-mapped with the mask widened by 96 in the uint8_t field;   *)
(* an IPv6 EID is copied; an empty or unknown AFI replaces the whole EID. *)
process_afi_address_couple(b, p, e) ==
    LET afi == Ntohs(b, p) IN
    CASE afi = AFI_IPV4 -> [e EXCEPT !.prefix = Mapped(Bytes(b, p + 2, 4)),
                                     !.prefix_length = (@ + 96) % 256]
      [] afi = AFI_IPV6 -> [e EXCEPT !.prefix = Bytes(b, p + 2, 16)]
      [] afi = AFI_EMPTY -> get_undefined_eid("EMPTYAFI")
      [] OTHER -> get_undefined_eid("UNKNIP")

(* The ITR-RLOC loop of extract_eid_maprequest: n more AFI-address pairs  *)
(* to skip, each followed by the offset >= datagram_len check; -1 is the  *)
(* early return with UPRFX_MALFORMED.                                      *)
RECURSIVE SkipRlocs(_, _, _, _)
SkipRlocs(b, dlen, offset, n) ==
    IF n = 0 THEN offset
    ELSE LET s == skip_afi_address_couple(b, offset)
         IN  IF s.r < 0 \/ s.offset >= dlen THEN -1
             ELSE SkipRlocs(b, dlen, s.offset, n - 1)

(* extract_eid_maprequest with the rloc_count++ left out (IRC read as the *)
(* number of ITR-RLOCs).                                                   *)
extract_eid_maprequest_irc(b, base, dlen) ==
    LET src == skip_afi_address_couple(b, base + 12)
        rlocs == IF src.r < 0 \/ src.offset - base >= dlen THEN -1
                 ELSE SkipRlocs(b, base + dlen, src.offset, At(b, base + 2) % 32)
    IN  IF rlocs = -1 THEN get_undefined_eid("MALFORMED")
        ELSE process_afi_address_couple(b, rlocs + 2,
                 [prefix |-> Zeros(16), prefix_length |-> At(b, rlocs + 1),
                  reason |-> "ASIS"])

(* extract_eid_maprequest(datagram, datagram_len) on the datagram at C     *)
(* offset base of the buffer: skip the source EID at offset 12, then the  *)
(* IRC + 1 ITR-RLOCs (IRC is the low 5 bits of byte 2), checking after    *)
(* each that the offset is still inside the datagram; then skip the       *)
(* reserved byte, read the EID mask byte and process the EID AFI and      *)
(* address, with no further check.  The prefix bytes are set on every    *)
(* path that returns them, so their uninitialised start never escapes.   *)
extract_eid_maprequest(b, base, dlen) ==
    LET src == skip_afi_address_couple(b, base + 12)
        rlocs == IF src.r < 0 \/ src.offset - base >= dlen THEN -1
                 ELSE SkipRlocs(b, base + dlen, src.offset,
                                (At(b, base + 2) % 32) + 1)
    IN  IF rlocs = -1 THEN get_undefined_eid("MALFORMED")
        ELSE process_afi_address_couple(b, rlocs + 2,
                 [prefix |-> Zeros(16), prefix_length |-> At(b, rlocs + 1),
                  reason |-> "ASIS"])

(* extract_eid_cp switches on the high nibble of byte 0; an Encapsulated  *)
(* Control Message strips the outer IPv4 (IHL words) or IPv6 (40 bytes)   *)
(* header and the UDP header and parses what follows as a datagram.       *)
RECURSIVE extract_eid_cp(_, _, _)

extract_eid_encapsulated(b, base, dlen) ==
    LET first == At(b, base + 4)
        ip_version == first \div 16
        offset == IF ip_version = 4 THEN 4 + (first % 16) * 4 + 8
                  ELSE 4 + 40 + 8
    IN  IF ip_version \notin {4, 6} THEN get_undefined_eid("UNKNIP")
        ELSE IF offset >= dlen THEN get_undefined_eid("MALFORMED")
        ELSE extract_eid_cp(b, base + offset, dlen - offset)

extract_eid_cp(b, base, dlen) ==
    LET type == At(b, base) \div 16 IN
    CASE type = 1 -> extract_eid_maprequest(b, base, dlen)
      [] type = 2 -> get_broadcast_eid("MAPREPLY")
      [] type = 4 -> get_broadcast_eid("MAPNOTIFY")
      [] type = 8 -> extract_eid_encapsulated(b, base, dlen)
      [] OTHER -> get_undefined_eid("UNKNTYPE")

(* recvmsg() into the buffer: the datagram's bytes over the first ones.   *)
Overlay(b, d) == [i \in 1..Len(b) |-> IF i <= Len(d) THEN d[i] ELSE b[i]]

Init ==
    /\ buf \in InitialBuf
    /\ len = 0
    /\ eid = get_undefined_eid("NOEID")
    /\ rcvd = [bytes |-> <<>>, carries |-> eid]

(* payload_len counted as a raw socket would return it, with the 20-byte *)
(* IPv4 and 8-byte UDP headers.                                           *)
ReceiveDatagramRaw(d) ==
    /\ buf' = Overlay(buf, d.bytes)
    /\ len' = Len(d.bytes) + 28
    /\ eid' = extract_eid_cp(buf', 0, len')
    /\ rcvd' = d

(* One iteration of the control-packets demuxer's loop up to routing:      *)
(* recvmsg() fills the buffer, process_ipv4_datagram parses it.            *)
ReceiveDatagram(d) ==
    /\ buf' = Overlay(buf, d.bytes)
    /\ len' = Len(d.bytes)
    /\ eid' = extract_eid_cp(buf', 0, len')
    /\ rcvd' = d

Next == \E d \in Datagrams : ReceiveDatagram(d)

Spec == Init /\ [][Next]_pdVars

-----------------------------------------------------------------------------
Reasons == {"ASIS", "EMPTYAFI", "NOEID", "UNKNTYPE", "UNKNVER", "MALFORMED",
            "UNKNIP", "MAPREPLY", "MAPNOTIFY"}

PdTypeOK ==
    /\ buf \in [1..BufLen -> 0..255]
    /\ len \in 0..BufLen
    /\ eid \in [prefix : [1..16 -> 0..255], prefix_length : 0..255,
                 reason : Reasons]

(* extract_eid_cp returns the EID the datagram's LISP encoding carries:   *)
(* the first EID record of a Map-Request, through any Encapsulated        *)
(* Control Message, IPv4 EIDs IPv4-mapped; the broadcast EID for a        *)
(* Map-Reply or Map-Notify; and a sentinel with the right reason for an   *)
(* unknown type, AFI or IP version and for a malformed ITR-RLOC list.     *)
ExtractsDatagramEid == rcvd \in Datagrams => eid = rcvd.carries

(* The EID extracted from a datagram depends only on the payload_len      *)
(* bytes recvmsg() wrote: the parser never reads what an earlier datagram *)
(* left in demux.c's reused buffer.                                       *)
ReadsOnlyDatagramBytes ==
    rcvd \in Datagrams =>
        eid = extract_eid_cp(Overlay(Zeros(BufLen), SubSeq(buf, 1, len)), 0, len)

=============================================================================
