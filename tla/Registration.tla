---------------------------- MODULE Registration ----------------------------
(***************************************************************************)
(* The registration handshake between hyLISP-hv's registering server     *)
(* (controlplanes/register.c) and the control-plane processes running    *)
(* register_virtual_plane (hylisp-cp/plugin_hv/plugin_hv.c).              *)
(*                                                                         *)
(* A control plane binds a datagram socket to a fresh path, writes a      *)
(* REGISTER to the register socket and blocks in recvmsg for the ACK,     *)
(* which carries the hypervisor's raw sockets as SCM_RIGHTS descriptors.  *)
(* The server takes REGISTERs one at a time: it connects a reply socket   *)
(* <path>_r to the control plane's path, adds it to the registry, sends   *)
(* the ACK and pings the map-messages muxer.                              *)
(*                                                                         *)
(* The other threads appear only through what the handshake depends on:  *)
(* the control-packets demuxer binds ipv4_controlpackets_socket (a       *)
(* datagram routed while the registry is empty, or before               *)
(* init_control_planes, sorts to SORTING_ERR and is dropped, so routing   *)
(* changes nothing the handshake sees); the muxer binds poll_update and   *)
(* drains it; the map-messages demuxer writes kernel messages to          *)
(* registered channels (to which ones is the subject of MapEventRouter).  *)
(* Deregistration and the assignment table are the subject of Hypervisor. *)
(***************************************************************************)
EXTENDS Integers, Sequences

CONSTANTS
    CPs,       \* control-plane processes
    NoCP,      \* no control plane
    MaxPings   \* capacity of the poll_update socket queue

ASSUME NoCP \notin CPs /\ MaxPings \in Nat \ {0}

VARIABLES
    rs,          \* the registering server: "init", "idle", "ack", "ping"
    current,     \* the control plane register_control_plane is serving
    registered,  \* the processes with a channel in control_planes
    cpd_up,      \* ipv4_controlpackets_socket bound (no longer -1)
    mux_up,      \* poll_update bound by init_mmm_poll
    mmd_up,      \* the map-messages demuxer past its wait for map_socket
    pings,       \* notifications queued on poll_update
    crashed,     \* hyLISP-hv exited (fatal)
    plugin,      \* plugin[c]: how far process c has got (PluginStates)
    unlinked,    \* processes whose socket file `rm -f cp_*` removed
    regq,        \* REGISTER datagrams queued on the register socket
    chan,        \* chan[c]: the first datagram queued on c's socket
    hv_sockets   \* hv_sockets[c]: c's ipv4_hv_socket and ipv6_hv_socket

hvThreads == <<rs, current, registered, cpd_up, mux_up, mmd_up, pings, crashed>>
cpVars    == <<plugin, unlinked, regq, chan, hv_sockets>>
regVars   == <<hvThreads, cpVars>>

\* "new": not started; "bound": its socket bound to the mkstemp path;
\* "waiting": REGISTER written, blocked in recvmsg; "ready": returned
\* from register_virtual_plane; "exited": exit(0), or the process died.
PluginStates == {"new", "bound", "waiting", "ready", "exited"}

\* What a descriptor variable of the plugin holds: the hypervisor's raw
\* IPv4 socket, -1, or whatever uninitialised memory held ("garbage"
\* stands for any such int).
FdValues == {"raw4", "none", "garbage"}

RegInit ==
    /\ rs = "init" /\ current = NoCP /\ registered = {}
    /\ cpd_up = FALSE /\ mux_up = FALSE /\ mmd_up = FALSE
    /\ pings = 0 /\ crashed = FALSE
    /\ plugin = [c \in CPs |-> "new"]
    /\ unlinked = {} /\ regq = <<>>
    /\ chan = [c \in CPs |-> "empty"]
    /\ hv_sockets = [c \in CPs |-> [v4 |-> "none", v6 |-> "none"]]

\* A datagram written to the sockets of the processes in cs: it is the
\* first one queued for a process still waiting for its ACK.
WriteChan(cs, kind) ==
    [c \in CPs |-> IF c \in cs /\ plugin[c] = "waiting" /\ chan[c] = "empty"
                   THEN kind ELSE chan[c]]

-----------------------------------------------------------------------------
(***************************************************************************)
(* Registering server (start_registering_server's thread).                *)
(***************************************************************************)

\* Up to the loop: init_control_planes and init_assignments allocate the
\* tables (control_planes is NULL until then); `rm -f cp_*` removes the
\* socket files of the control planes bound so far; the register socket is
\* bound, and the ping socket created.
StartRegisteringServer ==
    /\ ~crashed /\ rs = "init"
    /\ unlinked' = {c \in CPs : plugin[c] = "bound"}
    /\ rs' = "idle"
    /\ UNCHANGED <<current, registered, cpd_up, mux_up, mmd_up, pings, crashed,
                   plugin, regq, chan, hv_sockets>>

\* recv takes the REGISTER at the head of the queue (it has the length of
\* hv_registration_message) and register_control_plane runs: bind the reply
\* socket <path>_r, connect it to the sender's path, add the control plane
\* to the registry.  connect fails, and the failure is fatal, when the
\* socket file has been removed or the process bound to it has died.
RegisterControlPlane(c) ==
    /\ ~crashed /\ rs = "idle"
    /\ regq # <<>> /\ Head(regq) = c
    /\ regq' = Tail(regq)
    /\ IF c \in unlinked \/ plugin[c] = "exited"
       THEN crashed' = TRUE /\ UNCHANGED <<rs, current, registered>>
       ELSE /\ registered' = registered \cup {c}
            /\ current' = c
            /\ rs' = "ack"
            /\ UNCHANGED crashed
    /\ UNCHANGED <<cpd_up, mux_up, mmd_up, pings, plugin, unlinked, chan, hv_sockets>>

\* Variant of AckRegistration for mutation analysis: the ACK is sent on a
\* socket other than the new reply socket and never reaches the process.
AckRegistrationAstray ==
    /\ ~crashed /\ rs = "ack"
    /\ IF ~cpd_up \/ plugin[current] = "exited"
       THEN crashed' = TRUE /\ UNCHANGED rs
       ELSE rs' = "ping" /\ UNCHANGED crashed
    /\ UNCHANGED <<current, registered, cpd_up, mux_up, mmd_up, pings, cpVars>>

\* ack_registration: sendmsg "ACK" on the reply socket with
\* ipv4_controlpackets_socket, and ipv6_controlpackets_socket if it is not
\* negative, which it never is (no IPv6 listener is opened), as
\* SCM_RIGHTS.  sendmsg fails, fatally, while the IPv4 socket is still -1
\* or when the process has died (ECONNREFUSED).
AckRegistration ==
    /\ ~crashed /\ rs = "ack"
    /\ IF ~cpd_up \/ plugin[current] = "exited"
       THEN crashed' = TRUE /\ UNCHANGED <<rs, chan>>
       ELSE /\ chan' = WriteChan({current}, "ack")
            /\ rs' = "ping"
            /\ UNCHANGED crashed
    /\ UNCHANGED <<current, registered, cpd_up, mux_up, mmd_up, pings,
                   plugin, unlinked, regq, hv_sockets>>

\* Variant of PingMmm for mutation analysis: the write does not wait for
\* room in the notification queue.
PingMmmNonBlocking ==
    /\ ~crashed /\ rs = "ping"
    /\ IF ~mux_up
       THEN crashed' = TRUE /\ UNCHANGED <<rs, current, pings>>
       ELSE /\ pings' = pings + 1
            /\ rs' = "idle" /\ current' = NoCP
            /\ UNCHANGED crashed
    /\ UNCHANGED <<registered, cpd_up, mux_up, mmd_up, cpVars>>

\* ping_mmm: connect to poll_update, fatal before the muxer has bound it;
\* then a blocking write of "UPDATE".
PingMmm ==
    /\ ~crashed /\ rs = "ping"
    /\ IF ~mux_up
       THEN crashed' = TRUE /\ UNCHANGED <<rs, current, pings>>
       ELSE /\ pings < MaxPings
            /\ pings' = pings + 1
            /\ rs' = "idle" /\ current' = NoCP
            /\ UNCHANGED crashed
    /\ UNCHANGED <<registered, cpd_up, mux_up, mmd_up, cpVars>>

-----------------------------------------------------------------------------
(***************************************************************************)
(* The other threads, as the handshake sees them.                         *)
(***************************************************************************)

\* start_controlpackets_demuxer_ipv4 binds port 4342 and publishes the
\* socket in ipv4_controlpackets_socket.
StartControlPacketsDemuxer ==
    /\ ~crashed /\ ~cpd_up
    /\ cpd_up' = TRUE
    /\ UNCHANGED <<rs, current, registered, mux_up, mmd_up, pings, crashed, cpVars>>

\* start_mapmessages_muxer: open map_socket; init_mmm_poll binds poll_update.
StartMapMessagesMuxer ==
    /\ ~crashed /\ ~mux_up
    /\ mux_up' = TRUE
    /\ UNCHANGED <<rs, current, registered, cpd_up, mmd_up, pings, crashed, cpVars>>

\* update_mmm_poll drains every queued notification.
UpdateMmmPoll ==
    /\ ~crashed /\ mux_up /\ pings > 0
    /\ pings' = 0
    /\ UNCHANGED <<rs, current, registered, cpd_up, mux_up, mmd_up, crashed, cpVars>>

\* start_mapmessages_demuxer spins until the muxer has opened map_socket.
StartMapMessagesDemuxer ==
    /\ ~crashed /\ mux_up /\ ~mmd_up
    /\ mmd_up' = TRUE
    /\ UNCHANGED <<rs, current, registered, cpd_up, mux_up, pings, crashed, cpVars>>

\* process_message writes a kernel map message to the channel of the
\* winning control plane, or to every registered channel.
MmdWrite(cs) ==
    /\ ~crashed /\ mmd_up
    /\ chan' = WriteChan(cs, "map")
    /\ UNCHANGED <<hvThreads, plugin, unlinked, regq, hv_sockets>>

-----------------------------------------------------------------------------
(***************************************************************************)
(* Control-plane processes: register_virtual_plane.  Each registers once, *)
(* and may die at any point; the hypervisor is not told.                  *)
(***************************************************************************)

\* socket; mkstemp, then unlink, for a fresh path; bind to it; chmod.
PluginBind(c) ==
    /\ plugin[c] = "new"
    /\ plugin' = [plugin EXCEPT ![c] = "bound"]
    /\ UNCHANGED <<hvThreads, unlinked, regq, chan, hv_sockets>>

\* Build the REGISTER message, connect to the register socket, write it.
\* connect fails, and the process exits, before start_registering_server
\* has bound that socket, or after hyLISP-hv has exited.
PluginRegister(c) ==
    /\ plugin[c] = "bound"
    /\ IF rs = "init" \/ crashed
       THEN plugin' = [plugin EXCEPT ![c] = "exited"] /\ UNCHANGED regq
       ELSE /\ plugin' = [plugin EXCEPT ![c] = "waiting"]
            /\ regq' = Append(regq, c)
    /\ UNCHANGED <<hvThreads, unlinked, chan, hv_sockets>>

\* recvmsg returns the first datagram queued on the socket, whatever it
\* is, and the descriptors are read from the control buffer: from the ACK
\* the raw IPv4 socket, and no IPv6 one (cmsg_len counts one descriptor);
\* from a map message, which carries no control data, whatever the
\* malloc'd buffer held.  Then connect to <path>_r, which fails once
\* hyLISP-hv has exited.  (chan is reset: later datagrams are read outside
\* register_virtual_plane.)
PluginAck(c) ==
    /\ plugin[c] = "waiting" /\ chan[c] # "empty"
    /\ \E fds \in IF chan[c] = "ack"
                  THEN {[v4 |-> "raw4", v6 |-> hv_sockets[c].v6]}
                  ELSE {[v4 |-> "garbage", v6 |-> v6] : v6 \in {hv_sockets[c].v6, "garbage"}} :
           hv_sockets' = [hv_sockets EXCEPT ![c] = fds]
    /\ plugin' = [plugin EXCEPT ![c] = IF crashed THEN "exited" ELSE "ready"]
    /\ chan' = [chan EXCEPT ![c] = "empty"]
    /\ UNCHANGED <<hvThreads, unlinked, regq>>

\* The process dies after writing its REGISTER (killed, or an error of
\* its own).  Dying before is, to hyLISP-hv, never registering.
PluginExits(c) ==
    /\ plugin[c] \in {"waiting", "ready"}
    /\ plugin' = [plugin EXCEPT ![c] = "exited"]
    /\ chan' = [chan EXCEPT ![c] = "empty"]
    /\ UNCHANGED <<hvThreads, unlinked, regq, hv_sockets>>

\* sendtov(real_socket, ...) in a process that has registered: what it
\* would send on its raw sockets skfd and skfd6 goes to the descriptors it
\* received instead.
sendtov(c, real_socket) ==
    CASE real_socket = "skfd"  -> hv_sockets[c].v4
      [] real_socket = "skfd6" -> hv_sockets[c].v6
      [] OTHER                 -> real_socket

-----------------------------------------------------------------------------
RsStep  == StartRegisteringServer \/ (\E c \in CPs : RegisterControlPlane(c))
             \/ AckRegistration \/ PingMmm
MuxStep == StartMapMessagesMuxer \/ UpdateMmmPoll
PluginStep(c) == PluginRegister(c) \/ PluginAck(c)

RegNext ==
    \/ RsStep \/ MuxStep
    \/ StartControlPacketsDemuxer
    \/ StartMapMessagesDemuxer
    \/ \E cs \in {{c} : c \in registered} \cup {registered} : MmdWrite(cs)
    \/ \E c \in CPs : PluginBind(c) \/ PluginStep(c) \/ PluginExits(c)

RegSpec == RegInit /\ [][RegNext]_regVars

\* Threads and processes, once able to continue, eventually do: the
\* server's recv takes a queued REGISTER, a blocked recvmsg returns once a
\* datagram is queued.  Starting or killing a control plane, and the
\* arrival of datagrams and kernel messages, are up to the environment.
RegFairSpec ==
    /\ RegSpec
    /\ WF_regVars(RsStep) /\ WF_regVars(MuxStep)
    /\ WF_regVars(StartControlPacketsDemuxer) /\ WF_regVars(StartMapMessagesDemuxer)
    /\ \A c \in CPs : WF_regVars(PluginStep(c))

-----------------------------------------------------------------------------
RegTypeOK ==
    /\ rs \in {"init", "idle", "ack", "ping"}
    /\ current \in CPs \cup {NoCP}
    /\ registered \subseteq CPs
    /\ {cpd_up, mux_up, mmd_up, crashed} \subseteq BOOLEAN
    /\ pings \in 0..MaxPings
    /\ plugin \in [CPs -> PluginStates]
    /\ unlinked \subseteq CPs
    /\ regq \in Seq(CPs)
    /\ chan \in [CPs -> {"empty", "ack", "map"}]
    /\ hv_sockets \in [CPs -> [v4 : FdValues, v6 : FdValues]]

(***************************************************************************)
(* Properties.                                                            *)
(***************************************************************************)

\* No request and no control plane makes hyLISP-hv exit (spec 4.4 and 6:
\* only setup failures are fatal; a failure while servicing one request
\* is logged and the request dropped).  Covers the fatal() calls of
\* register_control_plane, ack_registration and ping_mmm.
NeverExits == ~crashed

\* A control plane that register_virtual_plane has returned for sends its
\* IPv4 control packets, through sendtov, on the hypervisor's raw IPv4
\* socket that ack_registration passes (spec 4.4).
SendsOnHvSocket ==
    \A c \in CPs : plugin[c] = "ready" => sendtov(c, "skfd") = "raw4"

\* The handshake terminates: a control plane blocked in recvmsg after
\* writing its REGISTER eventually returns from register_virtual_plane,
\* or exits, unless hyLISP-hv has exited (recvmsg has no timeout): the
\* server takes the REGISTER and ack_registration's sendmsg reaches it.
RegistrationCompletes ==
    \A c \in CPs : plugin[c] = "waiting" ~> (plugin[c] # "waiting" \/ crashed)

=============================================================================
