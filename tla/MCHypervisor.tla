---------------------------- MODULE MCHypervisor ----------------------------
(***************************************************************************)
(* Model-checking instance of Hypervisor: two control planes on        *)
(* distinct ports, two nested EID blocks announced by them, and probes   *)
(* that fall in both, in neither, and the all-zero broadcast probe.      *)
(***************************************************************************)
EXTENDS Hypervisor

CONSTANTS c1, c2

P(b1, b2, n) == [prefix |-> <<b1, b2>>, len |-> n]

MCCPs    == {c1, c2}
MCPort   == [c \in MCCPs |-> IF c = c1 THEN 6001 ELSE 6002]
MCEids   == {P(10, 0, 8), P(10, 128, 9)}
MCProbes == {P(10, 200, 16), P(12, 0, 16), P(0, 0, 0)}

\* For the liveness run, whose question concerns registration and the
\* poll set, not matching: one EID, a probe inside it and the broadcast
\* probe, which sends the demuxer down send_ipv4_datagram_to_all.
MCEidsLive   == {P(10, 0, 8)}
MCProbesLive == {P(10, 200, 16), P(0, 0, 0)}

=============================================================================
