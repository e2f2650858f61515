------------------------------ MODULE Connected ------------------------------
(***************************************************************************)
(* The control-plane registry of hyLISP-hv                                *)
(* (src/hylisp-hv/src/controlplanes/connected.c).  `control_planes` is a  *)
(* heap array of control_plane structs of which the first                 *)
(* control_planes_ctr are live.  The model keeps the array itself, up to  *)
(* the highest position ever written: the positions at and above          *)
(* control_planes_ctr keep the structs last stored there, because         *)
(* remove_control_plane compacts with a memmove and clears nothing.  A    *)
(* read of control_planes[k] with k >= control_planes_ctr, which the code *)
(* performs with a stale slot, returns that stale struct, or uninitialised *)
(* memory above the highest position written.                             *)
(*                                                                         *)
(* A struct is [id |-> control_plane_id, cp |-> process]: the registering *)
(* process stands for its socket_descriptor (one per registration, never  *)
(* closed), its port and its pid.                                         *)
(***************************************************************************)
EXTENDS Integers, Sequences

CONSTANT NoCP    \* the process field of uninitialised memory

\* What an out-of-range read returns above the highest position written.
Uninitialised == [id |-> -1, cp |-> NoCP]

\* add_control_plane(cp): store at position control_planes_ctr (the counter
\* is incremented by the same call; an action updates it alongside).
\* Expansion is a realloc that keeps the contents.
add_control_plane(control_planes, control_planes_ctr, cp) ==
    IF control_planes_ctr < Len(control_planes)
    THEN [control_planes EXCEPT ![control_planes_ctr + 1] = cp]
    ELSE Append(control_planes, cp)

\* remove_control_plane with the memmove started one struct too late.
remove_control_plane_late(control_planes, control_planes_ctr, ind) ==
    [k \in DOMAIN control_planes |->
        IF ind + 2 <= k /\ k < control_planes_ctr
        THEN control_planes[k + 1]
        ELSE control_planes[k]]

\* remove_control_plane(ind): positions ind+1 .. ctr-1 move down by one;
\* position ctr-1 keeps its old struct.  The call also decrements the
\* counter, which an action updates alongside.
remove_control_plane(control_planes, control_planes_ctr, ind) ==
    [k \in DOMAIN control_planes |->
        IF ind + 1 <= k /\ k < control_planes_ctr
        THEN control_planes[k + 1]
        ELSE control_planes[k]]

\* control_planes[k], for any k >= 0.
ReadSlot(control_planes, k) ==
    IF k < Len(control_planes) THEN control_planes[k + 1] ELSE Uninitialised

\* The live registry, slot 0 first.
Live(control_planes, control_planes_ctr) == SubSeq(control_planes, 1, control_planes_ctr)

=============================================================================
