--------------------------- MODULE MCParseMessage ---------------------------
(* Kernel map messages for ParseMessage, laid out as the LINUX_OS branch  *)
(* of parsemessage.c declares them on a little-endian host, each with the *)
(* EID it is about.  The reference prefix length of a mask counts its     *)
(* leading one bits directly on the bit string.                            *)
EXTENDS ParseMessage

MCMsgBufLen == 100

(* A fresh thread's stack is zero-filled memory.                           *)
MCInitialMsgBuf == {NoBytes(MCMsgBufLen)}

LE16(v) == <<v % 256, v \div 256>>
Header(type, addrs, versioning) ==
    <<0, 1>> \o LE16(type) \o LE16(0) \o LE16(0) \o LE16(addrs)
             \o LE16(versioning) \o NoBytes(16)
SockIn(family, a) == LE16(family) \o <<0, 0>> \o a \o NoBytes(8)
SockIn6(a) == LE16(AF_INET6) \o <<0, 0>> \o NoBytes(4) \o a \o NoBytes(8)

A4 == <<10, 1, 0, 0>>
A6 == <<32, 1, 13, 184, 0, 7, 0, 0, 0, 0, 0, 0, 0, 0, 0, 1>>

(* The mask of a given number of leading ones, and two with holes: every *)
(* count of ones in a partial byte (1 to 7), and each byte boundary.      *)
Ones(n, bytes) == [i \in 1..bytes |->
                      IF 8 * i <= n THEN 255
                      ELSE IF 8 * (i - 1) >= n THEN 0
                      ELSE 256 - 2^(8 - (n % 8))]
Bit(m, k) == (m[(k \div 8) + 1] \div 2^(7 - (k % 8))) % 2
LeadingOnes(m) == Max({k \in 0..8 * Len(m) : \A j \in 0..(k - 1) : Bit(m, j) = 1})

Masks4 == {Ones(n, 4) : n \in {0, 1, 5, 8, 10, 14, 16, 19, 23, 24, 28, 32}} \cup {<<255, 0, 255, 0>>, <<255, 253, 0, 0>>}
Masks6 == {Ones(n, 16) : n \in {0, 7, 9, 64, 127, 128}}
          \cup {[i \in 1..16 |-> IF i = 3 THEN 127 ELSE 255]}

Asis(p, n) == [prefix |-> p, prefix_length |-> n, reason |-> "ASIS"]

AddDelete ==
    {[bytes |-> Header(MAPM_ADD, 3, 0) \o SockIn(AF_INET, A4) \o SockIn(AF_INET, m),
      carries |-> Asis(V4Mapped(A4), 96 + LeadingOnes(m))] : m \in Masks4}
    \cup
    {[bytes |-> Header(MAPM_DELETE, 3, 0) \o SockIn6(A6) \o SockIn6(m),
      carries |-> Asis(A6, LeadingOnes(m))] : m \in Masks6}
    \cup
    {[bytes |-> Header(MAPM_DELETE, 1, 0) \o SockIn(AF_INET, A4),
      carries |-> Asis(V4Mapped(A4), 128)],
     [bytes |-> Header(MAPM_ADD, 0, 0) \o SockIn(AF_INET, A4),
      carries |-> get_undefined_eid("NOEID")],
     [bytes |-> Header(MAPM_ADD, 1, 0) \o SockIn(99, A4),
      carries |-> get_undefined_eid("UNKNIP")],
     [bytes |-> Header(MAPM_ADD, 1, 1) \o SockIn(AF_INET, A4),
      carries |-> get_undefined_eid("UNKNVER")],
     [bytes |-> Header(5, 1, 0) \o SockIn(AF_INET, A4),
      carries |-> get_undefined_eid("UNKNTYPE")]}

(* MISS_HEADER: the header's sockaddrs, then the missed packet's IP header *)
Ipv4Hdr(src) == <<69>> \o NoBytes(11) \o src \o <<10, 9, 9, 9>>
Ipv6Hdr(src) == <<96>> \o NoBytes(7) \o src \o A6

Misses ==
    {[bytes |-> Header(MAPM_MISS_HEADER, 3, 0) \o SockIn(AF_INET, A4)
                \o SockIn(AF_INET, Ones(24, 4)) \o Ipv4Hdr(<<192, 0, 2, 7>>),
      carries |-> Asis(V4Mapped(<<192, 0, 2, 7>>), 128)],
     [bytes |-> Header(MAPM_MISS_HEADER, 1, 0) \o SockIn6(A6) \o Ipv6Hdr(A6),
      carries |-> Asis(A6, 128)],
     [bytes |-> Header(MAPM_MISS_HEADER, 0, 0) \o <<80>> \o NoBytes(19),
      carries |-> get_undefined_eid("UNKNIP")]}

MCMessages == AddDelete \cup Misses
=============================================================================
