---------------------------- MODULE ParseMessage ----------------------------
(***************************************************************************)
(* The map-message parser of mapmessages/parsemessage.c (its LINUX_OS     *)
(* branch, with the OpenLISP struct map_msghdr declared there), and the   *)
(* buffer the map-messages demuxer (mapmessages/demux.c) hands it.         *)
(*                                                                         *)
(* The demuxer reads each kernel message with read() into one uint8_t     *)
(* buf[8192] declared before its loop and never cleared, and calls        *)
(* process_message(buf, l) whatever read() returned, -1 included.          *)
(* extract_eid_mm never looks at the length.  The header and the sockaddr *)
(* families are host-order integers; addresses and masks are bytes.       *)
(* map_msghdr is 28 bytes: map_type at 2, map_flags at 4, map_addrs at 8, *)
(* map_versioning at 10.  A sockaddr_in has its address at 4, a           *)
(* sockaddr_in6 at 8; SA_SIZE is 16 for AF_INET and 32 otherwise.          *)
(***************************************************************************)
EXTENDS Integers, Sequences, SequencesExt

CONSTANTS LittleEndian,  \* byte order of the build host
          MsgBufLen,     \* bytes of the demuxer's buffer the model keeps
          Messages,      \* [bytes, carries]: what the kernel may send, and
                         \* the EID the message is about
          InitialMsgBuf  \* the buffer's contents before the first read

VARIABLES mbuf,  \* the demuxer's message buffer
          l,     \* what the last read() returned
          meid,  \* extract_eid_mm(buf, l) of the last message
          mrcvd  \* ghost: the last message the kernel sent, or none

pmVars == <<mbuf, l, meid, mrcvd>>

AF_INET == 2
AF_INET6 == 10
MAPM_ADD == 1
MAPM_DELETE == 2
MAPM_MISS_HEADER == 7
MAPA_EID == 1
MAPA_EIDMASK == 2
HdrLen == 28

(* Host-order loads at C offset o.                                         *)
Byte(b, o) == b[o + 1]
Load16(b, o) == IF LittleEndian THEN Byte(b, o) + 256 * Byte(b, o + 1)
                               ELSE 256 * Byte(b, o) + Byte(b, o + 1)
Field(b, o, n) == [i \in 1..n |-> Byte(b, o + i - 1)]

NoBytes(n) == [i \in 1..n |-> 0]

get_undefined_eid(reason) ==
    [prefix |-> NoBytes(16), prefix_length |-> 128, reason |-> reason]

V4Mapped(v4) == NoBytes(10) \o <<255, 255>> \o v4

SA_SIZE(b, o) == IF Load16(b, o) = AF_INET THEN 16 ELSE 32

(* The inner loop with its bound at 6 bits (j < 6).                       *)
RECURSIVE LeadingBitsSix(_, _, _)
LeadingBitsSix(byte, bit_window, j) ==
    IF j = 6 \/ (byte \div bit_window) % 2 = 0 THEN 0
    ELSE 1 + LeadingBitsSix(byte, bit_window \div 2, j + 1)

(* The inner loop over a mask byte that is not 0xFF: count its leading    *)
(* one bits, moving bit_window right, for at most 7 bits (j < 7).         *)
RECURSIVE LeadingBits(_, _, _)
LeadingBits(byte, bit_window, j) ==
    IF j = 7 \/ (byte \div bit_window) % 2 = 0 THEN 0
    ELSE 1 + LeadingBits(byte, bit_window \div 2, j + 1)

(* The outer loop with the length counted from 8 * i (off by one byte).   *)
RECURSIVE MaskBitsFromOne(_, _)
MaskBitsFromOne(mask, i) ==
    IF i > Len(mask) THEN -1
    ELSE IF mask[i] = 255 THEN MaskBitsFromOne(mask, i + 1)
    ELSE 8 * i + LeadingBits(mask[i], 128, 0)

(* The outer loop over the mask's bytes from index i (1-based): skip the  *)
(* 0xFF bytes; at the first other one the length is 8 * (i - 1) plus its  *)
(* leading bits; a mask of 0xFF bytes only leaves the initial 128.         *)
RECURSIVE MaskBits(_, _)
MaskBits(mask, i) ==
    IF i > Len(mask) THEN -1
    ELSE IF mask[i] = 255 THEN MaskBits(mask, i + 1)
    ELSE 8 * (i - 1) + LeadingBits(mask[i], 128, 0)

(* process_eid_ipv4 / process_eid_ipv6 with the mask's bytes at offset m:  *)
(* the prefix length is 128, or base (96 for IPv4-mapped, 0 for IPv6)     *)
(* plus the mask's length when a non-0xFF byte ends it.                    *)
MaskLength(b, m, n, base) ==
    LET bits == MaskBits(Field(b, m, n), 1)
    IN  IF bits = -1 THEN 128 ELSE base + bits

(* process_eid_ipv4(raw_eid, has_mask): the sockaddr_in at offset o.       *)
process_eid_ipv4(b, o, has_mask) ==
    [prefix |-> V4Mapped(Field(b, o + 4, 4)),
     prefix_length |-> IF has_mask THEN MaskLength(b, o + SA_SIZE(b, o) + 4, 4, 96)
                       ELSE 128,
     reason |-> "ASIS"]

(* process_eid_ipv6(raw_eid, has_mask): the sockaddr_in6 at offset o.      *)
process_eid_ipv6(b, o, has_mask) ==
    [prefix |-> Field(b, o + 8, 16),
     prefix_length |-> IF has_mask THEN MaskLength(b, o + SA_SIZE(b, o) + 8, 16, 0)
                       ELSE 128,
     reason |-> "ASIS"]

(* extract_eid_mm_add_delete: the EID sockaddr follows the header.         *)
extract_eid_mm_add_delete(b) ==
    LET addrs == Load16(b, 8)
        has_mask == (addrs \div MAPA_EIDMASK) % 2 = 1
        family == Load16(b, HdrLen)
    IN  CASE Load16(b, 10) # 0 -> get_undefined_eid("UNKNVER")
          [] addrs % 2 = 0 -> get_undefined_eid("NOEID")
          [] family = AF_INET -> process_eid_ipv4(b, HdrLen, has_mask)
          [] family = AF_INET6 -> process_eid_ipv6(b, HdrLen, has_mask)
          [] OTHER -> get_undefined_eid("UNKNIP")

(* extract_eid_mm_missheader: skip the EID and mask sockaddrs the header  *)
(* announces, then read the source address of the missed packet's IP      *)
(* header, as a host EID (/128).                                           *)
extract_eid_mm_missheader(b) ==
    LET addrs == Load16(b, 8)
        o1 == IF addrs % 2 = 1 THEN HdrLen + SA_SIZE(b, HdrLen) ELSE HdrLen
        o2 == IF (addrs \div MAPA_EIDMASK) % 2 = 1 THEN o1 + SA_SIZE(b, o1) ELSE o1
        ip_ver == Byte(b, o2) \div 16
    IN  CASE ip_ver = 4 -> [prefix |-> V4Mapped(Field(b, o2 + 12, 4)),
                            prefix_length |-> 128, reason |-> "ASIS"]
          [] ip_ver = 6 -> [prefix |-> Field(b, o2 + 8, 16),
                            prefix_length |-> 128, reason |-> "ASIS"]
          [] OTHER -> get_undefined_eid("UNKNIP")

(* extract_eid_mm(buf, message_length): version check, then by map_type.   *)
extract_eid_mm(b) ==
    LET type == Load16(b, 2) IN
    CASE Load16(b, 10) # 0 -> get_undefined_eid("UNKNVER")
      [] type \in {MAPM_ADD, MAPM_DELETE} -> extract_eid_mm_add_delete(b)
      [] type = MAPM_MISS_HEADER -> extract_eid_mm_missheader(b)
      [] OTHER -> get_undefined_eid("UNKNTYPE")

(* read() into the buffer: the message's bytes over the first ones.        *)
Fill(b, m) == [i \in 1..Len(b) |-> IF i <= Len(m) THEN m[i] ELSE b[i]]

NoMessage == [bytes |-> <<>>, carries |-> get_undefined_eid("NOEID")]

Init ==
    /\ mbuf \in InitialMsgBuf
    /\ l = 0
    /\ meid = get_undefined_eid("NOEID")
    /\ mrcvd = NoMessage

(* One iteration of the map-messages demuxer's loop up to routing: read() *)
(* returns a message, or fails with -1 and leaves the buffer as it was,   *)
(* and process_message parses the buffer either way.                       *)
ReadMessage(msg) ==
    /\ mbuf' = Fill(mbuf, msg.bytes)
    /\ l' = Len(msg.bytes)
    /\ meid' = extract_eid_mm(mbuf')
    /\ mrcvd' = msg

ReadFails ==
    /\ l' = -1
    /\ meid' = extract_eid_mm(mbuf)
    /\ mrcvd' = NoMessage
    /\ UNCHANGED mbuf

PmNext == (\E msg \in Messages : ReadMessage(msg)) \/ ReadFails

PmSpec == Init /\ [][PmNext]_pmVars

-----------------------------------------------------------------------------
PmTypeOK ==
    /\ mbuf \in [1..MsgBufLen -> 0..255]
    /\ l \in {-1} \cup 0..MsgBufLen
    /\ meid \in [prefix : [1..16 -> 0..255], prefix_length : 0..128,
                  reason : {"ASIS", "NOEID", "UNKNTYPE", "UNKNVER", "UNKNIP"}]

(* extract_eid_mm returns the EID a kernel map message is about: the EID  *)
(* sockaddr of an ADD or DELETE, with the prefix length its mask's        *)
(* leading one bits give (IPv4 masks counted from 96), /128 without a     *)
(* mask; the source address of the packet a MISS_HEADER message carries;  *)
(* the sentinel of the right reason otherwise.                            *)
ExtractsMessageEid == mrcvd # NoMessage => meid = mrcvd.carries

=============================================================================
