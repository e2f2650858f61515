---------------------------- MODULE MCAssignments ----------------------------
(***************************************************************************)
(* Model of the assignment table on 16-bit addresses (AddrBytes = 2, so   *)
(* MaxLen = 16 plays the part of 128).                                     *)
(*   A   = 10.0/8       A2 = 10.85/8 (the block of A, other host bits)    *)
(*   B   = 10.128/9     (inside A, one bit into the second byte)           *)
(*   C   = 11.0/7       (covers both 10.x and 11.x: a partial-byte match)  *)
(*   Z0  = 0.0/0        (the all-zero /0, answered ALL by exact_sort)      *)
(*   Z16 = 0.0/16       (the all-zero host, answered ERR)                  *)
(***************************************************************************)
EXTENDS AssignmentTable

P(b1, b2, n) == [prefix |-> <<b1, b2>>, len |-> n]

MCEids == { P(10, 0, 8), P(10, 85, 8), P(10, 128, 9), P(11, 0, 7),
            P(0, 0, 0), P(0, 0, 16) }

MCProbes == MCEids \cup
            { P(10, 200, 16), P(10, 5, 16), P(11, 7, 16), P(12, 0, 16),
              P(10, 1, 12), P(0, 0, 8), P(10, 200, 20) }
=============================================================================
