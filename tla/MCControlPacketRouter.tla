------------------------ MODULE MCControlPacketRouter ------------------------
(* The LISP datagrams of MCParseDatagram, plus Map-Replies of one to      *)
(* three bytes over {0, 255} for the odd lengths and carries of the       *)
(* checksums, sent from two sources to the hypervisor's address; two     *)
(* control planes and an assignment table that makes every sort() result *)
(* happen: ::ffff:10.0.0.0/100 (a mask of 4 bits) for slot 0, the longer *)
(* /104 for slot 1, and a /124 for slot 0 that is longer than the EIDs    *)
(* it shares bytes with and so never covers them.                         *)
EXTENDS ControlPacketRouter, MCParseDatagram

MCHvAddr == <<192, 0, 2, 10>>

(* Two sources whose address and port bytes all differ.                   *)
MCSources == {[saddr |-> <<10, 0, 0, 5>>, sport |-> 4342],
              [saddr |-> <<192, 168, 255, 1>>, sport |-> 61535]}

(* One datagram per sort() result and per kind of sentinel EID.           *)
MCRouted ==
  { [bytes |-> MR4, carries |-> Carried(Mapped(V4), 120)],
    [bytes |-> MR6, carries |-> Carried(V6, 48)],
    [bytes |-> ECM4(MR4), carries |-> Carried(Mapped(V4), 120)],
    [bytes |-> MapRequest(0, Afi(AFI_EMPTY, <<>>), Rloc4, 0, Afi(AFI_EMPTY, <<>>)),
     carries |-> Undefined("EMPTYAFI")],
    [bytes |-> MapRequest(3, Afi(AFI_EMPTY, <<>>), Rloc4, 24, Afi(AFI_IPV4, V4)),
     carries |-> Undefined("MALFORMED")],
    [bytes |-> <<64, 0, 0, 1>> \o Nonce, carries |-> get_broadcast_eid("MAPNOTIFY")],
    [bytes |-> <<48, 0, 0, 1>> \o Nonce, carries |-> Undefined("UNKNTYPE")] }

MCShortReplies ==
    { [bytes |-> <<32>> \o t, carries |-> get_broadcast_eid("MAPREPLY")] :
        t \in UNION {[1..n -> {0, 255}] : n \in 0..2} }

MCCprDatagrams ==
    { [bytes |-> d.bytes, carries |-> d.carries, saddr |-> s.saddr,
       sport |-> s.sport, daddr |-> MCHvAddr] :
        d \in MCRouted \cup MCShortReplies, s \in MCSources }

(* The buffer bytes the model keeps: the longest datagram, MR6, has 62.    *)
MCCprBufLen == 64
MCCprInitialBuf == {Zeros(MCCprBufLen)}

(* A fresh thread's stack is zero-filled: an unwritten sin_addr is 0.0.0.0. *)
MCUninitDsts == {<<0, 0, 0, 0>>}

V4Net(n) == [prefix |-> Mapped(<<10, 0, 0, 0>>), len |-> n]

MCAssignments == << [eid |-> V4Net(100), assignee |-> 0],
                    [eid |-> V4Net(104), assignee |-> 1],
                    [eid |-> V4Net(124), assignee |-> 0] >>

MCPorts == <<6000, 6001>>

=============================================================================
