------------------------- MODULE ControlPacketRouter -------------------------
(***************************************************************************)
(* The control-packets demuxer thread of controlpackets/demux.c end to    *)
(* end: one iteration of start_controlpackets_demuxer_ipv4's loop receives *)
(* a datagram with recvmsg() into the reused buffer (ParseDatagram),      *)
(* takes its original destination address from the IP_RECVDSTADDR control *)
(* message, and process_ipv4_datagram parses the EID, sorts it against    *)
(* the assignment table (Sorting), and injects the datagram with          *)
(* inject_datagram_ipv4 (Injector) to the winning control plane's port,   *)
(* to the default slot's port, to every registered port, or nowhere.      *)
(*                                                                         *)
(* The registry and the assignment table are fixed here: how other        *)
(* threads change them under the rwlocks is the subject of Hypervisor.    *)
(* On a Linux build demux.c defines IP_RECVDSTADDR as 0, no control       *)
(* message has that type, and destination.sin_addr of the datagram, a     *)
(* fresh automatic variable of each iteration, is never written: its      *)
(* value is whatever the build leaves in that stack slot (RecvDstAddr     *)
(* FALSE, a choice from UninitDsts).                                       *)
(***************************************************************************)
EXTENDS ParseDatagram

CONSTANTS LittleEndian,  \* byte order of the build host
          RecvDstAddr,   \* whether recvmsg() returns an IP_RECVDSTADDR cmsg
          UninitDsts,    \* what an unwritten destination.sin_addr may hold
          Assignments,   \* the assignment table, <<[eid, assignee], ...>>
          Ports          \* control_planes[i].port of slots 0..ctr-1

VARIABLES dst,     \* datagram.destination.sin_addr of the last datagram
          sent,    \* the packets sendto() accepted for the last datagram
          failed,  \* the ports whose inject_datagram_ipv4 returned -1
          listening, \* the westbound socket is bound to port 4342
          halted   \* fatal() ended the process

cprVars == <<pdVars, dst, sent, failed, listening, halted>>

Srt == INSTANCE Sorting WITH AddrBytes <- 16
Inj == INSTANCE Injector

(* The recipients' ports of a sort() result: the port read under the      *)
(* rwlocks for ONE and NON, every registered port in slot order for ALL   *)
(* (send_ipv4_datagram_to_all), none for ERR.                              *)
Recipients(r) ==
    CASE r.res \in {"ONE", "NON"} -> <<Ports[r.idx + 1]>>
      [] r.res = "ALL" -> Ports
      [] OTHER -> <<>>

(* The ipv4_datagram inject_datagram_ipv4 sees, its destination port      *)
(* rewritten to a recipient's.                                             *)
Injected(d, port) ==
    [saddr |-> d.saddr, sport |-> d.sport, daddr |-> dst', dport |-> port,
     payload |-> SubSeq(buf', 1, len')]

CprInit ==
    /\ Init
    /\ dst \in UninitDsts
    /\ sent = {}
    /\ failed = {}
    /\ listening = FALSE
    /\ halted = FALSE

(* The thread's set-up: getaddrinfo() for port 4342, then the first      *)
(* address a socket binds to; the option IP_RECVDSTADDR is set, and its   *)
(* result ignored.                                                         *)
Listen ==
    /\ ~listening /\ ~halted
    /\ listening' = TRUE
    /\ UNCHANGED <<pdVars, dst, sent, failed, halted>>

(* getaddrinfo() fails (fatalr) or no address binds (fatal): the process  *)
(* exits.                                                                  *)
ListenFails ==
    /\ ~listening /\ ~halted
    /\ halted' = TRUE
    /\ UNCHANGED <<pdVars, dst, sent, failed, listening>>

(* recvmsg() returned -1: fatal() logs and exits the process.              *)
RecvFails ==
    /\ listening /\ ~halted
    /\ halted' = TRUE
    /\ UNCHANGED <<pdVars, dst, sent, failed, listening>>

(* One iteration of the loop: recvmsg() fills the buffer and the source;  *)
(* the cmsg loop sets the destination address if a cmsg has type          *)
(* IP_RECVDSTADDR; process_ipv4_datagram extracts the EID, sorts it and   *)
(* injects once per recipient, each inject failing on its own (socket()   *)
(* or sendto() returning -1 is a warning and the loop goes on).            *)
ProcessDatagram(d) ==
    /\ listening /\ ~halted
    /\ ReceiveDatagram(d)
    /\ dst' \in IF RecvDstAddr THEN {d.daddr} ELSE UninitDsts
    /\ LET rec == Recipients(Srt!sort(Assignments, Len(Ports),
                      [prefix |-> eid'.prefix, len |-> eid'.prefix_length]))
       IN  \E ok \in SUBSET DOMAIN rec :
               /\ sent' = {Inj!inject_datagram_ipv4(Injected(d, rec[i]),
                                                    i \notin ok) :
                               i \in DOMAIN rec} \ {<<>>}
               /\ failed' = {rec[i] : i \in DOMAIN rec \ ok}
    /\ UNCHANGED <<listening, halted>>

CprNext ==
    \/ Listen \/ ListenFails \/ RecvFails
    \/ \E d \in Datagrams : ProcessDatagram(d)

CprSpec == CprInit /\ [][CprNext]_cprVars

-----------------------------------------------------------------------------
(* Who should receive a datagram, from what its encoding carries (RFC     *)
(* 6830) and the bit-by-bit meaning of a prefix: every registered port    *)
(* for a Map-Reply or Map-Notify, nobody for an EID that could not be     *)
(* extracted, else the owner of the longest assigned prefix covering the  *)
(* EID, or the default slot when none covers it.                          *)
ExpectedPorts(c) ==
    LET p == [prefix |-> c.prefix, len |-> c.prefix_length]
        cov == {i \in DOMAIN Assignments : Srt!Covers(Assignments[i].eid, p)}
        longest == {i \in cov : \A k \in cov :
                        Assignments[k].eid.len <= Assignments[i].eid.len}
    IN  CASE c.reason \in {"MAPREPLY", "MAPNOTIFY"} -> Range(Ports)
          [] c.reason # "ASIS" -> {}
          [] cov = {} -> {Ports[Srt!control_planes_def + 1]}
          [] OTHER -> {Ports[Assignments[i].assignee + 1] : i \in longest}

(* Every packet the demuxer injects passes the receiver's IPv4 and UDP    *)
(* checksum checks (inject.c computes them over host-order words).        *)
ChecksumsVerify == \A pkt \in sent : Inj!ChecksumsOK(pkt)

(* Each datagram reaches exactly the control planes that should receive   *)
(* it: what a receiver reads on the wire of each injected packet names   *)
(* the datagram's source address and port, its original destination      *)
(* address, the recipient's port, and carries the datagram unchanged.     *)
DeliversToOwners ==
    rcvd \in Datagrams =>
        /\ {Inj!BE16(pkt, 23) : pkt \in sent} \cup failed
               = ExpectedPorts(rcvd.carries)
        /\ \A pkt \in sent :
               /\ SubSeq(pkt, 13, 16) = rcvd.saddr
               /\ SubSeq(pkt, 17, 20) = rcvd.daddr
               /\ Inj!BE16(pkt, 21) = rcvd.sport
               /\ SubSeq(pkt, 29, Len(pkt)) = rcvd.bytes

=============================================================================
