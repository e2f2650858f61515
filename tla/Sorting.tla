------------------------------- MODULE Sorting -------------------------------
(***************************************************************************)
(* The prefix matcher of hyLISP-hv (src/hylisp-hv/src/controlplanes/      *)
(* sorting.c): flex_sort and its two entry points sort and exact_sort,    *)
(* over an assignment table given as a sequence of records                *)
(* [eid |-> prefix, assignee |-> slot].                                   *)
(*                                                                         *)
(* An EID prefix is [prefix |-> <<b_1, ..., b_AddrBytes>>, len |-> n]     *)
(* with bytes in 0..255 and len an unsigned 8-bit value (uint8_t          *)
(* prefix_length).  The code fixes AddrBytes at 16 (128-bit addresses);   *)
(* the algorithm is generic in the width, so the model keeps it a         *)
(* parameter and checks it on narrow addresses.                           *)
(*                                                                         *)
(* The module also states the reference meaning of a prefix match, bit by *)
(* bit and without the precomputed masks, against which the code's        *)
(* byte-and-mask comparison is checked.                                   *)
(***************************************************************************)
EXTENDS Integers, Sequences, Bitwise

CONSTANT AddrBytes

ASSUME AddrBytes \in Nat \ {0}

\* 128 in the code: the length of a host prefix, and the degenerate
\* length of the all-zero "undefined" EID built by get_undefined_eid.
MaxLen == 8 * AddrBytes

\* control_planes_def: the slot used for SORTING_NON.  It is initialised
\* to 0 and never assigned anywhere else in the code.
control_planes_def == 0

\* precomputed_masks[left_bits]: the high left_bits bits of a byte.
precomputed_masks == <<0, 128, 192, 224, 240, 248, 252, 254>>  \* 0x00, 0x80, ... 0xFE

\* Variant of Mask for mutation analysis: precomputed_masks indexed one off.
MaskOffByOne(left_bits) == precomputed_masks[left_bits]

Mask(left_bits) == precomputed_masks[left_bits + 1]

\* The loop over the sixteen bytes that detects the all-zero address.
IsZeroAddress(p) == \A j \in 1..AddrBytes : p.prefix[j] = 0

(***************************************************************************)
(* Whether the stored prefix a covers the probe p: p is at least as long  *)
(* as a, the whole bytes of a compare equal with memcmp and the left-over *)
(* bits compare equal under the mask.  The sanitising of a probe length   *)
(* above 128 inside this branch has no effect on the outcome, because a  *)
(* stored length never exceeds 128: once p.len >= a.len holds for every *)
(* stored a it still holds after the cap.                                  *)
(***************************************************************************)
PrefixMatch(p, a) ==
    /\ p.len >= a.len
    /\ LET whole_bytes == a.len \div 8
           left_bits   == a.len % 8
       IN  /\ \A j \in 1..whole_bytes : p.prefix[j] = a.prefix[j]
           /\ \/ left_bits = 0
              \/ (p.prefix[whole_bytes + 1] & Mask(left_bits))
                   = (a.prefix[whole_bytes + 1] & Mask(left_bits))

\* Variant of Candidates for mutation analysis: the length test of an
\* exact scan is dropped.
CandidatesIgnoreExact(assignments, p, exact) ==
    { i \in DOMAIN assignments : PrefixMatch(p, assignments[i].eid) }

\* Positions (1-based) of the entries the scan accepts.
Candidates(assignments, p, exact) ==
    { i \in DOMAIN assignments :
        /\ exact => p.len = assignments[i].eid.len
        /\ PrefixMatch(p, assignments[i].eid) }

\* The scan keeps the last candidate of greatest length (the test is >=).
Winner(assignments, cand) ==
    CHOOSE i \in cand :
        \A k \in cand : \/ assignments[k].eid.len < assignments[i].eid.len
                        \/ /\ assignments[k].eid.len = assignments[i].eid.len
                           /\ k <= i

(***************************************************************************)
(* flex_sort(significant_eid, &control_plane_index, exact), as a record   *)
(* [res |-> result, idx |-> the value written to control_plane_index].   *)
(* For ERR and ALL the code leaves control_plane_index unwritten; idx is  *)
(* then -1 and no caller reads it.                                        *)
(***************************************************************************)
flex_sort(assignments, control_planes_ctr, p, exact) ==
    LET cand == Candidates(assignments, p, exact)
    IN  IF control_planes_ctr = 0 THEN [res |-> "ERR", idx |-> -1]
        ELSE IF IsZeroAddress(p) /\ p.len = 0 THEN [res |-> "ALL", idx |-> -1]
        ELSE IF IsZeroAddress(p) /\ p.len = MaxLen THEN [res |-> "ERR", idx |-> -1]
        ELSE IF cand = {} THEN [res |-> "NON", idx |-> control_planes_def]
        ELSE [res |-> "ONE", idx |-> assignments[Winner(assignments, cand)].assignee]

sort(assignments, control_planes_ctr, p) ==
    flex_sort(assignments, control_planes_ctr, p, FALSE)

exact_sort(assignments, control_planes_ctr, p) ==
    flex_sort(assignments, control_planes_ctr, p, TRUE)

-----------------------------------------------------------------------------
(***************************************************************************)
(* Reference meaning of prefixes, written bit by bit.                     *)
(***************************************************************************)

\* Bit k (0 = most significant) of an address.
Bit(addr, k) == (addr[(k \div 8) + 1] \div 2^(7 - (k % 8))) % 2

\* a covers p: p is at least as specific and agrees on a's first a.len bits.
Covers(a, p) ==
    /\ a.len <= p.len
    /\ \A k \in 0..(a.len - 1) : Bit(a.prefix, k) = Bit(p.prefix, k)

\* Two prefixes denote the same block of addresses.
SamePrefix(a, b) == a.len = b.len /\ Covers(a, b)

\* The probes for which flex_sort answers before scanning the table.
IsSpecialProbe(p) == IsZeroAddress(p) /\ p.len \in {0, MaxLen}

=============================================================================
