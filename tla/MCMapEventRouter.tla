------------------------- MODULE MCMapEventRouter -------------------------
(* The kernel map messages of MCParseMessage routed over two channels and *)
(* a table that makes each sort() result happen for them: 10.0.0.0/8     *)
(* (::ffff:10.0.0.0/104) for slot 0 and the longer 10.1.0.0/16 for slot  *)
(* 1, so that as its mask grows the ADD of 10.1.0.0 goes to everyone     *)
(* (under /8), to slot 0, then to slot 1; and 2001:db8::/32 for           *)
(* slot 0, which covers the IPv6 EIDs of /32 and longer.  The MISS_HEADER *)
(* source 192.0.2.7 and the sentinels are covered by nothing.             *)
EXTENDS MapEventRouter, MCParseMessage

MCMerAssignments ==
    << [eid |-> [prefix |-> V4Mapped(<<10, 0, 0, 0>>), len |-> 104], assignee |-> 0],
       [eid |-> [prefix |-> V4Mapped(<<10, 1, 0, 0>>), len |-> 112], assignee |-> 1],
       [eid |-> [prefix |-> <<32, 1, 13, 184>> \o NoBytes(12), len |-> 32], assignee |-> 0] >>

MCChannels == <<5, 7>>

=============================================================================
