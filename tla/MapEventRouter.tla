--------------------------- MODULE MapEventRouter ---------------------------
(***************************************************************************)
(* The map-messages demuxer thread of mapmessages/demux.c end to end: one *)
(* iteration of start_mapmessages_demuxer's loop reads a kernel message   *)
(* from map_socket into the reused buffer (ParseMessage), and             *)
(* process_message extracts its EID, sorts it against the assignment      *)
(* table (Sorting), and writes msg_len bytes of the buffer to the         *)
(* winner's channel for SORTING_ONE, or to every registered channel for   *)
(* any other result.  Each write() fails on its own (a warning).          *)
(*                                                                         *)
(* A failed read() leaves l = -1, and process_message still runs on the   *)
(* previous message's bytes: the EID is extracted and sorted again, and   *)
(* write(fd, buf, -1) asks for (size_t)-1 bytes, a count the kernel's    *)
(* rw_verify_area refuses with EINVAL, so that every such write fails.    *)
(*                                                                         *)
(* The registry and the table are fixed here: how the other threads       *)
(* change them under the rwlocks is the subject of Hypervisor.            *)
(***************************************************************************)
EXTENDS ParseMessage

CONSTANTS Assignments,  \* the assignment table, <<[eid, assignee], ...>>
          Channels      \* control_planes[i].socket_descriptor of slots 0..ctr-1

VARIABLES delivered,  \* [fd, bytes]: the writes of the last message that succeeded
          failed      \* the descriptors whose write() returned -1

merVars == <<pmVars, delivered, failed>>

Srt == INSTANCE Sorting WITH AddrBytes <- 16

\* Variant of Recipients for mutation analysis: SORTING_NON sent to the
\* default slot alone, as the control-packets demuxer does.
RecipientsNonToDefault(r) ==
    IF r.res \in {"ONE", "NON"} THEN <<Channels[r.idx + 1]>> ELSE Channels

(* The descriptors a sort() result sends the message to: the winner's,    *)
(* read under the rwlocks, for SORTING_ONE; every registered one, in slot *)
(* order, for NON, ALL and ERR alike.                                      *)
Recipients(r) == IF r.res = "ONE" THEN <<Channels[r.idx + 1]>> ELSE Channels

(* write(fd, buf, msg_len): the bytes a receiver reads, or <<>> for -1.   *)
(* A negative msg_len is a count of (size_t)-1 bytes: EINVAL.              *)
write(b, msg_len, fails) ==
    IF fails \/ msg_len < 0 THEN <<>> ELSE SubSeq(b, 1, msg_len)

(* The write loop over the recipients, each write() failing on its own:  *)
(* a warning, and the loop goes on (SORTING_ONE has one recipient).        *)
Deliver(b, msg_len, rec) ==
    \E ok \in SUBSET DOMAIN rec :
        LET w    == [i \in DOMAIN rec |-> write(b, msg_len, i \notin ok)]
            sent == {i \in DOMAIN rec : w[i] # <<>>}
        IN  /\ delivered' = {[fd |-> rec[i], bytes |-> w[i]] : i \in sent}
            /\ failed' = {rec[i] : i \in DOMAIN rec \ sent}

(* process_message(buf, msg_len): the EID extracted from buf is sorted     *)
(* under the rwlocks, and the message written to the recipients.           *)
process_message(b, msg_len, eid) ==
    Deliver(b, msg_len, Recipients(Srt!sort(Assignments, Len(Channels),
                            [prefix |-> eid.prefix, len |-> eid.prefix_length])))

MerInit ==
    /\ Init
    /\ delivered = {}
    /\ failed = {}

(* One iteration of the loop: read() returns a message or fails, and     *)
(* process_message runs either way.                                        *)
MerNext ==
    \/ \E msg \in Messages : ReadMessage(msg) /\ process_message(mbuf', l', meid')
    \/ ReadFails /\ process_message(mbuf', l', meid')

MerSpec == MerInit /\ [][MerNext]_merVars

-----------------------------------------------------------------------------
(* Who should receive a kernel message, from the EID it is about and the  *)
(* bit-by-bit meaning of a prefix: the owner of the longest assigned      *)
(* prefix covering the EID, else (no covering prefix, or an EID that      *)
(* could not be extracted) every registered control plane.                *)
ExpectedChannels(c) ==
    LET p       == [prefix |-> c.prefix, len |-> c.prefix_length]
        cov     == {i \in DOMAIN Assignments : Srt!Covers(Assignments[i].eid, p)}
        longest == {i \in cov : \A k \in cov :
                        Assignments[k].eid.len <= Assignments[i].eid.len}
    IN  IF c.reason = "ASIS" /\ cov # {}
        THEN {Channels[Assignments[i].assignee + 1] : i \in longest}
        ELSE Range(Channels)

(* Each kernel message reaches exactly the control planes that should     *)
(* receive it, every write carrying the message unchanged; after a failed *)
(* read(), the previous message still in the buffer reaches no one again. *)
DeliversMapMessages ==
    /\ mrcvd # NoMessage =>
           /\ {w.fd : w \in delivered} \cup failed = ExpectedChannels(mrcvd.carries)
           /\ \A w \in delivered : w.bytes = mrcvd.bytes
    /\ mrcvd = NoMessage => delivered = {}

=============================================================================
