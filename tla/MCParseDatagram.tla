--------------------------- MODULE MCParseDatagram ---------------------------
(* LISP control datagrams for ParseDatagram, built field by field after   *)
(* the Map-Request and Encapsulated Control Message layouts of RFC 6830,  *)
(* each with the EID its encoding carries.                                *)
EXTENDS ParseDatagram

MCBufLen == 100

(* A fresh thread's stack is zero-filled memory.                           *)
MCInitialBuf == {Zeros(MCBufLen)}

Nonce == <<1, 2, 3, 4, 5, 6, 7, 8>>
Afi(a, addr) == <<a \div 256, a % 256>> \o addr
V4 == <<10, 0, 0, 5>>
V6 == <<32, 1, 13, 184, 0, 1, 0, 0, 0, 0, 0, 0, 0, 0, 0, 9>>
Rloc4 == Afi(AFI_IPV4, <<192, 0, 2, 1>>)
Rloc6 == Afi(AFI_IPV6, V6)

(* Map-Request: type 1, IRC, one record; source EID, ITR-RLOCs, then the  *)
(* record's reserved byte, EID mask length, EID AFI and prefix.           *)
MapRequest(irc, src, rlocs, mask, eidAfi) ==
    <<16, 0, irc, 1>> \o Nonce \o src \o rlocs \o <<0, mask>> \o eidAfi

Carried(prefix, plen) == [prefix |-> prefix, prefix_length |-> plen,
                          reason |-> "ASIS"]
Undefined(r) == get_undefined_eid(r)

MR4 == MapRequest(0, Afi(AFI_EMPTY, <<>>), Rloc4, 24, Afi(AFI_IPV4, V4))
MR6 == MapRequest(1, Afi(AFI_IPV4, V4), Rloc4 \o Rloc6, 48, Afi(AFI_IPV6, V6))

(* An Encapsulated Control Message: type 8, then an IPv4 header of IHL 5  *)
(* or an IPv6 header, a UDP header, and the inner control message.        *)
UdpHdr == <<16, 246, 16, 246, 0, 0, 0, 0>>
ECM4(inner) == <<128, 0, 0, 0, 69>> \o Zeros(19) \o UdpHdr \o inner
ECM6(inner) == <<128, 0, 0, 0, 96>> \o Zeros(39) \o UdpHdr \o inner

WellFormed ==
  { [bytes |-> MR4, carries |-> Carried(Mapped(V4), 120)],
    [bytes |-> MR6, carries |-> Carried(V6, 48)],
    [bytes |-> MapRequest(0, Afi(AFI_EMPTY, <<>>), Rloc4, 0, Afi(AFI_EMPTY, <<>>)),
     carries |-> Undefined("EMPTYAFI")],
    [bytes |-> MapRequest(0, Afi(AFI_EMPTY, <<>>), Rloc4, 8, Afi(9, V4)),
     carries |-> Undefined("UNKNIP")],
    [bytes |-> MapRequest(0, Afi(AFI_EMPTY, <<>>), Afi(7, V4), 8, Afi(AFI_IPV4, V4)),
     carries |-> Undefined("MALFORMED")],
    \* IRC 3 announces four ITR-RLOCs, the datagram holds one
    [bytes |-> MapRequest(3, Afi(AFI_EMPTY, <<>>), Rloc4, 24, Afi(AFI_IPV4, V4)),
     carries |-> Undefined("MALFORMED")],
    [bytes |-> ECM4(MR4), carries |-> Carried(Mapped(V4), 120)],
    [bytes |-> ECM6(MR4), carries |-> Carried(Mapped(V4), 120)],
    [bytes |-> <<128, 0, 0, 0, 80>> \o Zeros(30), carries |-> Undefined("UNKNIP")],
    [bytes |-> <<128, 0, 0, 0, 69, 0>>, carries |-> Undefined("MALFORMED")],
    [bytes |-> <<32, 0, 0, 1>> \o Nonce, carries |-> get_broadcast_eid("MAPREPLY")],
    [bytes |-> <<64, 0, 0, 1>> \o Nonce, carries |-> get_broadcast_eid("MAPNOTIFY")],
    [bytes |-> <<48, 0, 0, 1>> \o Nonce, carries |-> Undefined("UNKNTYPE")] }

(* Datagrams that end inside the EID record, or carry nothing at all.     *)
Truncated ==
  { [bytes |-> SubSeq(MR4, 1, 22), carries |-> Undefined("MALFORMED")],
    [bytes |-> <<>>, carries |-> Undefined("MALFORMED")] }

MCDatagrams == WellFormed
MCDatagramsTruncated == WellFormed \cup Truncated
=============================================================================
