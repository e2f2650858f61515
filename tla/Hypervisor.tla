----------------------------- MODULE Hypervisor -----------------------------
(***************************************************************************)
(* The four threads of hyLISP-hv (src/hylisp-hv/src/main.c) and the two   *)
(* tables they share:                                                      *)
(*   rs   registering server   controlplanes/register.c                   *)
(*   mux  map-messages muxer   mapmessages/mux.c                          *)
(*   cpd  control-packets demuxer (IPv4 listener) controlpackets/demux.c  *)
(*   mmd  map-messages demuxer mapmessages/demux.c                        *)
(* sharing the registry (Connected.tla) behind control_planes_lock and    *)
(* the assignment table (Assignments.tla) behind assignments_lock.       *)
(*                                                                         *)
(* A step is the code between two points where another thread can       *)
(* observe or block it: a lock acquisition, a release, a blocking write. *)
(* A write-locked section is one step (no thread can observe its inside); *)
(* a read-locked section in which the thread reads twice, or in which    *)
(* the muxer mutates, is split so that the lock is held across a state:  *)
(* cpReaders and asReaders are the threads holding the read locks.        *)
(*                                                                         *)
(* Control planes are processes (the model values CPs), each registering *)
(* at most once: the registration socket path is fresh (mkstemp in       *)
(* plugin_hv.c).  Each assignment carries a ghost field `by`, the process *)
(* whose map message set its owner.                                       *)
(***************************************************************************)
EXTENDS Integers, Sequences, SequencesExt, FiniteSets, Assignments, Connected

CONSTANTS
    CPs,        \* control-plane processes
    Port,       \* Port[c]: the UDP port c announces when registering
    Eids,       \* EIDs of the ADD and DELETE map messages of control planes
    Probes,     \* EIDs parsed from control packets and kernel map messages
    MaxEntries, \* bound on the number of assignments
    MaxPings    \* capacity of the poll_update socket queue

ASSUME Port \in [CPs -> Nat] /\ NoCP \notin CPs /\ MaxPings \in Nat \ {0}

Threads == {"rs", "mux", "cpd", "mmd"}
Readers == {"mux", "cpd", "mmd"}
NoPort  == -1

VARIABLES
    control_planes, control_planes_ctr, control_planes_autoindex,
    bound,        \* processes whose reply socket path has been bound
    cpReaders,    \* threads holding control_planes_lock for reading
    asReaders,    \* threads holding assignments_lock for reading
    pc,           \* per-thread program point
    dereg,        \* rs locals of deregister_control_plane: [i, id, port]
    assignments,  \* the assignment table, entries [eid, assignee, by]
    pollset,      \* mmm_poll[1..]: the registry structs last copied
    pings,        \* notifications queued on poll_update
    muxMsg,       \* mux locals of process_message: [type, eid, fd]
    cpdEid, mmdEid,   \* the parsed EID each demuxer is routing
    crashed       \* the process exited (fatal) or faulted

hvVars == <<control_planes, control_planes_ctr, control_planes_autoindex,
            bound, cpReaders, asReaders, pc, dereg, pollset, pings, muxMsg,
            cpdEid, mmdEid, crashed, assignments>>

Registry == Live(control_planes, control_planes_ctr)
PortOf(s) == IF s.cp = NoCP THEN NoPort ELSE Port[s.cp]
IsRegistered(c) == \E k \in DOMAIN Registry : Registry[k].cp = c

\* The first slot in `hits` (1-based registry positions), as a 0-based
\* slot, or control_planes_ctr when there is none: the loop
\* `for (i = 0; i < control_planes_ctr; i++) if (...) break;`.
FirstOf(hits) ==
    IF hits = {} THEN control_planes_ctr
    ELSE (CHOOSE k \in hits : \A j \in hits : k <= j) - 1

\* deregister_control_plane's search by port.
SlotOfPort(p) == FirstOf({k \in DOMAIN Registry : PortOf(Registry[k]) = p})

\* process_message's search by socket descriptor.
SlotOfChannel(fd) == FirstOf({k \in DOMAIN Registry : Registry[k].id = fd})

\* The value a thread-local holds while the thread is idle (the model
\* resets locals that are dead, so that they do not multiply states).
NoEid   == CHOOSE e \in Probes : TRUE
NoMsg   == [type |-> "ADD", eid |-> CHOOSE e \in Eids : TRUE, fd |-> 0]
NoDereg == [i |-> 0, id |-> 0, port |-> NoPort]

HvInit ==
    /\ control_planes = <<>>
    /\ control_planes_ctr = 0
    /\ control_planes_autoindex = 0
    /\ bound = {}
    /\ assignments = <<>>
    /\ cpReaders = {} /\ asReaders = {}
    /\ pc = [rs |-> "idle", mux |-> "init", cpd |-> "init", mmd |-> "init"]
    /\ dereg = NoDereg
    /\ pollset = <<>>
    /\ pings = 0
    /\ muxMsg = NoMsg
    /\ cpdEid = NoEid /\ mmdEid = NoEid
    /\ crashed = FALSE

Running == ~crashed

-----------------------------------------------------------------------------
(***************************************************************************)
(* Registering server.                                                    *)
(***************************************************************************)

\* register_control_plane: under the registry write lock, take the next id,
\* bind and connect the reply socket, add the struct (add_control_plane
\* increments control_planes_ctr); unlock.
RegisterControlPlane(c) ==
    /\ Running /\ pc.rs = "idle"
    /\ c \notin bound
    /\ cpReaders = {}
    /\ control_planes' = add_control_plane(control_planes, control_planes_ctr,
                                           [id |-> control_planes_autoindex, cp |-> c])
    /\ control_planes_ctr' = control_planes_ctr + 1
    /\ control_planes_autoindex' = control_planes_autoindex + 1
    /\ bound' = bound \cup {c}
    /\ pc' = [pc EXCEPT !.rs = "ack"]
    /\ UNCHANGED <<assignments, cpReaders, asReaders, dereg, pollset, pings,
                   muxMsg, cpdEid, mmdEid, crashed>>

\* ack_registration: pass ipv4_controlpackets_socket over the reply socket.
\* It is -1 until the control-packets demuxer has bound it; sendmsg then
\* fails and the failure is fatal.
AckRegistration ==
    /\ Running /\ pc.rs = "ack"
    /\ IF pc.cpd = "init"
       THEN crashed' = TRUE /\ UNCHANGED pc
       ELSE pc' = [pc EXCEPT !.rs = "ping"] /\ UNCHANGED crashed
    /\ UNCHANGED <<control_planes, control_planes_ctr, control_planes_autoindex,
                   bound, assignments, cpReaders, asReaders, dereg, pollset, pings,
                   muxMsg, cpdEid, mmdEid>>

\* deregister_control_plane, first locked section: find the first slot
\* with the given port and remove it; i and id are kept for the second
\* section (id is left unwritten when no slot matches), with the port
\* argument msg->port.
DeregisterControlPlane(p) ==
    /\ Running /\ pc.rs = "idle"
    /\ cpReaders = {}
    /\ LET i == SlotOfPort(p)
       IN  /\ dereg' = [i |-> i,
                        id |-> IF i < control_planes_ctr THEN Registry[i + 1].id ELSE dereg.id,
                        port |-> p]
           /\ IF i < control_planes_ctr
              THEN /\ control_planes' = remove_control_plane(control_planes, control_planes_ctr, i)
                   /\ control_planes_ctr' = control_planes_ctr - 1
              ELSE UNCHANGED <<control_planes, control_planes_ctr>>
    /\ pc' = [pc EXCEPT !.rs = "dereg_assign"]
    /\ UNCHANGED <<control_planes_autoindex, bound, assignments, cpReaders,
                   asReaders, pollset, pings, muxMsg, cpdEid, mmdEid, crashed>>

\* Second locked section: `i < control_planes_ctr` is evaluated against the
\* counter already decremented, and remove_assignee is given the stable id.
DeregisterAssignments ==
    /\ Running /\ pc.rs = "dereg_assign"
    /\ asReaders = {}
    /\ assignments' = IF dereg.i < control_planes_ctr
                      THEN remove_assignee(assignments, dereg.id)
                      ELSE assignments
    /\ dereg' = NoDereg
    /\ pc' = [pc EXCEPT !.rs = "ping"]
    /\ UNCHANGED <<control_planes, control_planes_ctr, control_planes_autoindex,
                   bound, cpReaders, asReaders, pollset, pings, muxMsg,
                   cpdEid, mmdEid, crashed>>

\* Variant of PingMmm for mutation analysis: the notification is lost (a
\* failed write is only a warning in ping_mmm).
PingMmmLost ==
    /\ Running /\ pc.rs = "ping"
    /\ IF pc.mux = "init"
       THEN crashed' = TRUE /\ UNCHANGED pc
       ELSE pc' = [pc EXCEPT !.rs = "idle"] /\ UNCHANGED crashed
    /\ UNCHANGED <<control_planes, control_planes_ctr, control_planes_autoindex,
                   bound, assignments, cpReaders, asReaders, dereg, pollset, pings,
                   muxMsg, cpdEid, mmdEid>>

\* Variant of PingMmm for mutation analysis: the write does not wait for
\* room in the notification queue.
PingMmmNonBlocking ==
    /\ Running /\ pc.rs = "ping"
    /\ IF pc.mux = "init"
       THEN crashed' = TRUE /\ UNCHANGED <<pings, pc>>
       ELSE /\ pings' = pings + 1
            /\ pc' = [pc EXCEPT !.rs = "idle"]
            /\ UNCHANGED crashed
    /\ UNCHANGED <<control_planes, control_planes_ctr, control_planes_autoindex,
                   bound, assignments, cpReaders, asReaders, dereg, pollset,
                   muxMsg, cpdEid, mmdEid>>

\* ping_mmm: connect to poll_update (fatal if the muxer has not bound it
\* yet), then a blocking write of one notification.
PingMmm ==
    /\ Running /\ pc.rs = "ping"
    /\ IF pc.mux = "init"
       THEN crashed' = TRUE /\ UNCHANGED <<pings, pc>>
       ELSE /\ pings < MaxPings
            /\ pings' = pings + 1
            /\ pc' = [pc EXCEPT !.rs = "idle"]
            /\ UNCHANGED crashed
    /\ UNCHANGED <<control_planes, control_planes_ctr, control_planes_autoindex,
                   bound, assignments, cpReaders, asReaders, dereg, pollset,
                   muxMsg, cpdEid, mmdEid>>

-----------------------------------------------------------------------------
(***************************************************************************)
(* Map-messages muxer.                                                    *)
(***************************************************************************)

\* start_mapmessages_muxer: open map_socket, then init_mmm_poll binds
\* poll_update (slot 0 of the poll set).
StartMapMessagesMuxer ==
    /\ Running /\ pc.mux = "init"
    /\ pc' = [pc EXCEPT !.mux = "idle"]
    /\ UNCHANGED <<control_planes, control_planes_ctr, control_planes_autoindex,
                   bound, assignments, cpReaders, asReaders, dereg, pollset, pings,
                   muxMsg, cpdEid, mmdEid, crashed>>

\* poll reports slot 0 readable: update_mmm_poll drains every notification
\* and copies the registry into slots 1.., under the registry read lock.
\* The other slots' revents are cleared, so no message is read this round.
UpdateMmmPoll ==
    /\ Running /\ pc.mux = "idle"
    /\ pings > 0
    /\ pings' = 0
    /\ pollset' = Registry
    /\ UNCHANGED <<control_planes, control_planes_ctr, control_planes_autoindex,
                   bound, assignments, cpReaders, asReaders, pc, dereg, muxMsg,
                   cpdEid, mmdEid, crashed>>

\* poll reports channel fd readable: process_message reads a map message
\* from a channel of the poll set.  poll may have returned before a
\* notification was queued, so a pending notification does not prevent
\* this.  A message that is not a local-database ADD or DELETE is only
\* forwarded to map_socket, with no effect on the tables (not modelled).
\* For an ADD or DELETE the muxer takes the registry read lock.
MuxReceive(s, type, e) ==
    /\ Running /\ pc.mux = "idle"
    /\ s \in ToSet(pollset)
    /\ type = "ADD" => Len(assignments) < MaxEntries
    /\ muxMsg' = [type |-> type, eid |-> e, fd |-> s.id]
    /\ cpReaders' = cpReaders \cup {"mux"}
    /\ asReaders' = asReaders \cup {"mux"}
    /\ pc' = [pc EXCEPT !.mux = "mirror"]
    /\ UNCHANGED <<control_planes, control_planes_ctr, control_planes_autoindex,
                   bound, assignments, dereg, pollset, pings,
                   cpdEid, mmdEid, crashed>>

\* Still holding both READ locks, find the slot of the channel and mirror
\* the ADD or DELETE with that slot as assignee; release both locks and
\* forward the message to map_socket.
MuxMirror ==
    /\ Running /\ pc.mux = "mirror"
    /\ LET i    == SlotOfChannel(muxMsg.fd)
           item == [eid |-> muxMsg.eid, assignee |-> i,
                    by |-> IF i < control_planes_ctr THEN Registry[i + 1].cp ELSE NoCP]
           outs == IF i >= control_planes_ctr THEN {Done(assignments)}
                   ELSE IF muxMsg.type = "ADD"
                        THEN add_assignment(assignments, control_planes_ctr, item)
                        ELSE remove_assignment(assignments, control_planes_ctr, item)
       IN  \E o \in outs : assignments' = o.assignments /\ crashed' = o.crashed
    /\ cpReaders' = cpReaders \ {"mux"}
    /\ asReaders' = asReaders \ {"mux"}
    /\ muxMsg' = NoMsg
    /\ pc' = [pc EXCEPT !.mux = "idle"]
    /\ UNCHANGED <<control_planes, control_planes_ctr, control_planes_autoindex,
                   bound, dereg, pollset, pings,
                   cpdEid, mmdEid>>

-----------------------------------------------------------------------------
(***************************************************************************)
(* Control-packets demuxer (the IPv4 listener thread).                    *)
(***************************************************************************)

\* start_controlpackets_demuxer_ipv4: bind port 4342 and publish the socket
\* in ipv4_controlpackets_socket.
StartControlPacketsDemuxer ==
    /\ Running /\ pc.cpd = "init"
    /\ pc' = [pc EXCEPT !.cpd = "idle"]
    /\ UNCHANGED <<control_planes, control_planes_ctr, control_planes_autoindex,
                   bound, assignments, cpReaders, asReaders, dereg, pollset, pings,
                   muxMsg, cpdEid, mmdEid, crashed>>

\* process_ipv4_datagram: extract_eid_cp gives the EID e (ControlPacket
\* parsing is abstracted to the choice of e); take both read locks.
CpdReceive(e) ==
    /\ Running /\ pc.cpd = "idle"
    /\ cpdEid' = e
    /\ cpReaders' = cpReaders \cup {"cpd"}
    /\ asReaders' = asReaders \cup {"cpd"}
    /\ pc' = [pc EXCEPT !.cpd = "sorting"]
    /\ UNCHANGED <<control_planes, control_planes_ctr, control_planes_autoindex,
                   bound, assignments, dereg, pollset, pings, muxMsg, mmdEid, crashed>>

(***************************************************************************)
(* process_ipv4_datagram after sort, under both read locks: the result   *)
(* and, for ONE and NON, control_planes[control_plane_index].port.        *)
(***************************************************************************)
CpdRouting(eid) ==
    LET r == sort(assignments, control_planes_ctr, eid)
    IN  [res  |-> r.res,
         port |-> IF r.res \in {"ONE", "NON"}
                  THEN PortOf(ReadSlot(control_planes, r.idx)) ELSE NoPort]

\* sort, read the port, release both locks; inject to that port (ONE,
\* NON), go on to send_ipv4_datagram_to_all (ALL) or drop (ERR).
CpdSort ==
    /\ Running /\ pc.cpd = "sorting"
    /\ pc' = [pc EXCEPT !.cpd = IF CpdRouting(cpdEid).res = "ALL" THEN "all" ELSE "idle"]
    /\ cpdEid' = NoEid
    /\ cpReaders' = cpReaders \ {"cpd"}
    /\ asReaders' = asReaders \ {"cpd"}
    /\ UNCHANGED <<control_planes, control_planes_ctr, control_planes_autoindex,
                   bound, assignments, dereg, pollset, pings, muxMsg,
                   mmdEid, crashed>>

\* send_ipv4_datagram_to_all: under a fresh registry read lock, inject one
\* copy to the port of every registered control plane.
CpdSendToAll ==
    /\ Running /\ pc.cpd = "all"
    /\ pc' = [pc EXCEPT !.cpd = "idle"]
    /\ UNCHANGED <<control_planes, control_planes_ctr, control_planes_autoindex,
                   bound, assignments, cpReaders, asReaders, dereg, pollset, pings,
                   muxMsg, cpdEid, mmdEid, crashed>>

-----------------------------------------------------------------------------
(***************************************************************************)
(* Map-messages demuxer.                                                  *)
(***************************************************************************)

\* start_mapmessages_demuxer: spin until the muxer has opened map_socket.
StartMapMessagesDemuxer ==
    /\ Running /\ pc.mmd = "init"
    /\ pc.mux # "init"
    /\ pc' = [pc EXCEPT !.mmd = "idle"]
    /\ UNCHANGED <<control_planes, control_planes_ctr, control_planes_autoindex,
                   bound, assignments, cpReaders, asReaders, dereg, pollset, pings,
                   muxMsg, cpdEid, mmdEid, crashed>>

\* process_message: read a kernel map message, extract_eid_mm gives e;
\* take both read locks.
MmdReceive(e) ==
    /\ Running /\ pc.mmd = "idle"
    /\ mmdEid' = e
    /\ cpReaders' = cpReaders \cup {"mmd"}
    /\ asReaders' = asReaders \cup {"mmd"}
    /\ pc' = [pc EXCEPT !.mmd = "sorting"]
    /\ UNCHANGED <<control_planes, control_planes_ctr, control_planes_autoindex,
                   bound, assignments, dereg, pollset, pings, muxMsg, cpdEid, crashed>>

\* sort; for ONE read the recipient socket, release both locks and write
\* the message to it; for any other result broadcast.
MmdSort ==
    /\ Running /\ pc.mmd = "sorting"
    /\ pc' = [pc EXCEPT !.mmd = IF sort(assignments, control_planes_ctr, mmdEid).res = "ONE"
                                THEN "idle" ELSE "all"]
    /\ mmdEid' = NoEid
    /\ cpReaders' = cpReaders \ {"mmd"}
    /\ asReaders' = asReaders \ {"mmd"}
    /\ UNCHANGED <<control_planes, control_planes_ctr, control_planes_autoindex,
                   bound, assignments, dereg, pollset, pings, muxMsg, cpdEid,
                   crashed>>

\* The broadcast: under a fresh registry read lock, write to every channel.
MmdBroadcast ==
    /\ Running /\ pc.mmd = "all"
    /\ pc' = [pc EXCEPT !.mmd = "idle"]
    /\ UNCHANGED <<control_planes, control_planes_ctr, control_planes_autoindex,
                   bound, assignments, cpReaders, asReaders, dereg, pollset, pings,
                   muxMsg, cpdEid, mmdEid, crashed>>

-----------------------------------------------------------------------------
\* fatal() or a fault ends the process: nothing happens any more.
Terminated == crashed /\ UNCHANGED hvVars

Ports == {Port[c] : c \in CPs}

RsStep    == AckRegistration \/ DeregisterAssignments \/ PingMmm
MuxStep   == StartMapMessagesMuxer \/ UpdateMmmPoll \/ MuxMirror
CpdStep   == StartControlPacketsDemuxer \/ CpdSort \/ CpdSendToAll
MmdStep   == StartMapMessagesDemuxer \/ MmdSort \/ MmdBroadcast

HvNext ==
    \/ \E c \in CPs : RegisterControlPlane(c)
    \/ \E p \in Ports : DeregisterControlPlane(p)
    \/ \E s \in ToSet(pollset), t \in {"ADD", "DELETE"}, e \in Eids : MuxReceive(s, t, e)
    \/ \E e \in Probes : CpdReceive(e) \/ MmdReceive(e)
    \/ RsStep \/ MuxStep \/ CpdStep \/ MmdStep
    \/ Terminated

HvSpec == HvInit /\ [][HvNext]_hvVars

\* Every thread is an OS thread: once it can continue, it eventually does.
\* Taking a new request, message or datagram is up to the environment.
\* A queued notification is seen by the muxer's next poll, and
\* start_mapmessages_muxer tests slot 0 before any channel on every return
\* of poll: UpdateMmmPoll, disabled only while a message read before the
\* notification arrived is being mirrored, is strongly fair.
HvFairSpec ==
    /\ HvSpec
    /\ WF_hvVars(RsStep) /\ WF_hvVars(MuxStep)
    /\ WF_hvVars(CpdStep) /\ WF_hvVars(MmdStep)
    /\ SF_hvVars(UpdateMmmPoll)

-----------------------------------------------------------------------------
HvTypeOK ==
    /\ control_planes \in Seq([id : Nat, cp : CPs])
    /\ control_planes_ctr \in 0..Len(control_planes)
    /\ bound \subseteq CPs
    /\ assignments \in Seq([eid : Eids, assignee : Nat, by : CPs])
    /\ cpReaders \subseteq Readers /\ asReaders \subseteq Readers
    /\ pc \in [Threads -> {"init", "idle", "ack", "dereg_assign", "ping", "mirror", "sorting", "all"}]
    /\ pings \in 0..MaxPings
    /\ crashed \in BOOLEAN

-----------------------------------------------------------------------------
(***************************************************************************)
(* Properties.                                                            *)
(***************************************************************************)

\* The registry as the rest of the hypervisor sees it, through the
\* refinement mapping: the live slots in order, and the next identity.
\* A deregistration is pending while the registering server is between
\* its two locked sections.
Reg == INSTANCE RegistrySpec WITH registered <- Registry,
                                  nextId <- control_planes_autoindex,
                                  pending <- IF pc.rs = "dereg_assign"
                                             THEN dereg.port ELSE NoPort

\* register_control_plane and deregister_control_plane, with
\* add_control_plane's store at position control_planes_ctr and
\* remove_control_plane's memmove, implement RegistrySpec: every
\* registration appends the process under a fresh identity, every
\* deregistration removes the first slot holding the port and keeps the
\* others in order, and no other step of any thread changes the registry.
\* deregister_control_plane, process_message and update_mmm_poll find a
\* control plane by its first matching slot, which is only right while
\* this holds.
ImplementsRegistry == Reg!Spec

\* The muxer polls a stale set of channels only while a notification is
\* owed: whenever the registering server is back in its recv loop and no
\* notification is queued on poll_update, the poll set is exactly the
\* registry.  A channel deregistered, or registered, since the last
\* update_mmm_poll is covered by the ping_mmm that register_control_plane
\* and deregister_control_plane end with, and update_mmm_poll drains the
\* queue before it copies the registry.
PollSetMatchesRegistry ==
    (Running /\ pc.rs = "idle" /\ pings = 0) => pollset = Registry

\* A registered control plane's channel eventually enters the muxer's poll
\* set: register_control_plane's ping_mmm reaches update_mmm_poll, which
\* copies the registry (unless the process exits or the control plane
\* deregisters first).
PollSetConverges ==
    \A c \in CPs :
        IsRegistered(c) ~> (crashed \/ ~IsRegistered(c)
                            \/ \E k \in DOMAIN pollset : pollset[k].cp = c)

\* The assignment table changes only while no other thread holds
\* assignments_lock (spec 4.10: the muxer mirrors under both WRITE locks;
\* process_message takes them for reading).
NoTableWriteUnderReaders ==
    [][assignments' # assignments => asReaders \subseteq {"mux"}]_hvVars

\* A control packet that process_ipv4_datagram routes as ONE is injected
\* to the port of the registered control plane whose map message created
\* or last rewrote the winning assignment.  Broken both by a packet sorted
\* between deregister_control_plane's two locked sections, and by the
\* assignments of a control plane deregistered from the last slot, which
\* stay in the table and win for whichever control plane takes that slot.
RouteToOwner ==
    [][ (pc.cpd = "sorting" /\ pc'.cpd # "sorting" /\ CpdRouting(cpdEid).res = "ONE") =>
          LET owner == assignments[Winner(assignments, Candidates(assignments, cpdEid, FALSE))].by
          IN  IsRegistered(owner) /\ CpdRouting(cpdEid).port = Port[owner] ]_hvVars

=============================================================================
