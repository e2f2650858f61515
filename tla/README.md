# TLA+ models of hyLISP-hv

This directory holds TLA+ specifications of the hyLISP hypervisor
(`src/hylisp-hv/src`), the TLC configurations that check them, and
`PROJECT.json`. PROJECT.json lists the components, runs, mutants, findings,
hazards and the map from every definition to the source lines it models.

## 1. The system

hyLISP-hv sits between a LISP data plane (the kernel mapping socket and the
network) and several control-plane processes. It routes each inbound control
packet and each kernel map message to the control plane that owns the EID.
Ownership is decided by longest-prefix match.

`main.c` starts four threads in this order, none of which waits for another:

| thread | code | what it does |
|---|---|---|
| registering server (`rs`) | `controlplanes/register.c` | Serves REGISTER and DEREGISTER requests on a UNIX socket. On REGISTER it opens a channel to the control plane, adds it to the registry and passes the control-packet socket back (`ack_registration`). On DEREGISTER it removes the control plane and then its assignments. Both notify the muxer (`ping_mmm`). |
| map-messages muxer (`mux`) | `mapmessages/mux.c` | Polls the notification socket (slot 0) and every registered channel. On a notification it rebuilds the poll set from the registry (`update_mmm_poll`). On a channel message it mirrors a local-database ADD or DELETE into the assignment table, with the channel's registry slot as owner, and forwards the message to the kernel. |
| control-packets demuxer (`cpd`) | `controlpackets/demux.c` | Binds UDP 4342 and parses the EID of each datagram. It sorts the EID and injects the datagram to the owner's port (ONE), to slot `control_planes_def` (NON), or to every port (ALL), or drops it (ERR). |
| map-messages demuxer (`mmd`) | `mapmessages/demux.c` | Waits for `map_socket`, reads kernel messages and sorts their EID. It writes to the owner's channel (ONE) or to every channel otherwise. |

The threads share two tables. Each is a hand-grown array behind a
`pthread_rwlock`:

- **the registry** (`connected.c`): `control_planes[0..ctr-1]`, structs
  `{id, socket_descriptor, port, pid}`. `id` is a counter that is never
  reused. The array position is the *slot*, and removal compacts with a
  `memmove`, so slots shift.
- **the assignment table** (`assignments.c`): pointers to `{eid, assignee_index}`.
  `assignee_index` is a registry *slot*.

`sorting.c`'s `flex_sort` is the matcher. It returns ERR for an empty
registry, ALL for the all-zero /0 EID and ERR for the all-zero /128 EID.
Otherwise it returns ONE with the owner of the last longest covering entry,
or NON with `control_planes_def`, which is always 0. `exact_sort` also
requires equal length.

### Inventory: state, operations, hard behaviour

| component | state | operations (state-changing) | hard behaviour |
|---|---|---|---|
| PrefixMatcher | none (pure) | `flex_sort`, `sort`, `exact_sort` | byte and mask comparison at lengths that are not multiples of 8; the special all-zero probes |
| AssignmentTable | `assignments`, `assignments_ctr` | `add_assignment`, `remove_assignment`, `remove_assignee` | `exact_sort` returns an owner slot, which is used as a position; positions past `assignments_ctr` are undefined behaviour |
| Registry | `control_planes`, `control_planes_ctr`, `control_planes_autoindex` | `add_control_plane`, `remove_control_plane` | the compaction shifts slots that assignments still name; stale structs stay behind `ctr` |
| RegistrationService | registry, `s_ping` | register (locked section, ack, ping), deregister (two locked sections, ping) | runs during start-up of the other threads; deregistration is not atomic; the `i < ctr` test comes after the decrement |
| Muxer | `mmm_poll`, `pings` queued on slot 0 | `init_mmm_poll`, `update_mmm_poll`, mirror in `process_message` | writes the table under READ locks; polls deregistered channels until the next update |
| ControlPacketRouter | `ipv4_controlpackets_socket`, the stack buffer, `datagram.destination` | bind; receive with the destination-address cmsg; locked sort and port read; inject or broadcast | reads a slot chosen from an assignment whose slot may be stale; the destination address exists only if the platform's cmsg arrives; each inject of a broadcast may fail alone |
| MapEventRouter | the stack buffer reused by every `read()` | read (or fail); locked sort and socket read; write or broadcast | the same, for channels; a failed `read()` still sends the old buffer on with length -1; each write may fail alone |
| ControlPlanePlugin (hylisp-cp/plugin_hv) | its socket path, `ipv4_hv_socket`, `ipv6_hv_socket` | bind, write REGISTER, `recvmsg` of the first datagram, connect to `<path>_r`; `sendtov` | takes whatever datagram comes first as the ACK; reads descriptors from an uninitialised control buffer; no timeout on `recvmsg` |
| Parsers, injector | none (pure) | `extract_eid_cp`, `extract_eid_mm`, `inject_datagram_ipv4` | unchecked offsets, uint8 wrap of a mask length, the checksum |

Properties per component. Each name is stated in the module.

- PrefixMatcher: `LongestMatch` and `ExactHit` against a bitwise reference.
- AssignmentTable: `NoDuplicatePrefix`.
- Registry: `ImplementsRegistry`, a refinement of the abstract `RegistrySpec`.
- RegistrationService: `RouteToOwner`; with the control planes' side of the
  handshake, `NeverExits` and `RegistrationCompletes`.
- ControlPlanePlugin: `SendsOnHvSocket`.
- Muxer: `PollSetMatchesRegistry`, `PollSetConverges` and `NoTableWriteUnderReaders`.
- Routers: `RouteToOwner`; the
  control-packets demuxer end to end `DeliversToOwners` and `ChecksumsVerify`.
- Control-packet parser: `ExtractsDatagramEid`, `ReadsOnlyDatagramBytes`.
- Map-message parser: `ExtractsMessageEid`; the map-messages demuxer end
  to end `DeliversMapMessages`.

## 2. Modules and how they compose

```
Sorting  <-  Assignments  <-  AssignmentTable  <-  MCAssignments
                 ^
Connected  <-  Hypervisor  <-  MCHypervisor
                   |
                   +-- INSTANCE RegistrySpec (refinement)

Registration  <-  MCRegistration

ParseDatagram  <-  ControlPacketRouter  <-  MCControlPacketRouter
                      |    |                     |
        INSTANCE Sorting   INSTANCE Injector     +-- EXTENDS MCParseDatagram
ParseMessage   <-  MapEventRouter  <-  MCMapEventRouter
      ^               |                     |
      |     INSTANCE Sorting                +-- EXTENDS MCParseMessage
      +--------- MCParseMessage --------------+
```

- **Sorting.tla**: `flex_sort` over a table of `[eid, assignee]` records.
  Prefixes are `AddrBytes` bytes wide, and the code's 16 bytes / 128 bits
  are the parameter `MaxLen`. The algorithm does not depend on the width, so
  2-byte addresses exercise every branch: whole bytes, the partial-byte mask,
  and the all-zero /0 and /MaxLen probes. `Covers` and `SamePrefix` are the
  reference meaning, written bit by bit.
- **Assignments.tla**: `add_assignment`, `remove_assignment` and
  `remove_assignee`. Each operator returns the *set of outcomes*
  `[crashed, assignments]` the build can produce. An index past
  `assignments_ctr` is undefined behaviour, and its outcomes are:
  - a fault;
  - no visible change;
  - for a write, a change to a live entry. The pointer can alias one:
    the `memmove` leaves the old last position pointing to a live entry,
    and freed memory is reused by `malloc`.
- **AssignmentTable.tla**: the table alone, with a fixed registry of `NCP`
  slots. Any slot may add, remove or drop all its entries. It checks the
  matcher on every table the operations can build.
- **Connected.tla**: the registry as the raw array. Positions at and above
  `control_planes_ctr` keep the struct last stored there. A read past the
  highest position written returns `Uninitialised`.
- **Hypervisor.tla**: the four threads over both tables. The variables are:
  - the tables;
  - `pc` for each thread;
  - the read-lock holders `cpReaders` and `asReaders`;
  - the muxer's `pollset` and `pings`, the notification queue;
  - the locals each thread keeps between two steps: `dereg`, `muxMsg`,
    `cpdEid` and `mmdEid`;
  - `crashed`, set by `fatal()` or a fault;
  - `bound`, the set of control planes that have registered.

  A control plane is a model value standing for its channel, port and pid.
  Each assignment carries a ghost field `by`, the control plane whose message
  set its owner.
- **RegistrySpec.tla**: what the registry promises, without slots or locks:
  a sequence of `[id, cp]`. REGISTER appends the next id; DEREGISTER of a
  port removes the first entry holding it (or nothing) and is pending until
  its second half is served. Hypervisor implements it through
  `Reg == INSTANCE RegistrySpec WITH registered <- Registry,
  nextId <- control_planes_autoindex, pending <- ...`, where `pending` is the
  port of a deregistration between its two locked sections.
- **Registration.tla**: the registration handshake between the registering
  server and the control-plane processes (`register_virtual_plane` in
  `hylisp-cp/plugin_hv/plugin_hv.c`). The server's thread is `rs`
  ("init" until `start_registering_server` has allocated the tables, run
  `rm -f cp_*` and bound the register socket; then "idle", "ack", "ping"
  through one REGISTER). Each process goes `new`, `bound`, `waiting`,
  `ready` or `exited`; `regq` is the register socket's queue, `chan[c]` the
  first datagram queued on c's socket, and `hv_sockets[c]` the two
  descriptors c read from it. The other threads appear only as far as the
  handshake depends on them: the demuxer's bind of
  `ipv4_controlpackets_socket` (`cpd_up`), the muxer's bind
  of `poll_update` and its drain, and the map-messages demuxer writing a
  kernel message to one or all registered channels (`MmdWrite`). A process
  may die after writing its REGISTER (`PluginExits`); hyLISP-hv is not
  told. `sendtov` is the plugin's routing of its raw sockets to the ones
  received. Kept apart from Hypervisor because the processes multiply its
  state space beyond what TLC finishes in the time a run has.
- **ParseDatagram.tla**: `extract_eid_cp` and its helpers (Map-Request
  with its ITR-RLOC list, Encapsulated Control Message over IPv4 or IPv6,
  AFI-address pairs) as operators over the control-packets demuxer's one
  stack buffer. `ReceiveDatagram` overlays the datagram's bytes on the
  buffer (recvmsg writes `payload_len` bytes and leaves the rest) and parses
  it. Offsets are C offsets; `ntohs` reads big-endian.
- **ParseMessage.tla**: `extract_eid_mm` (the Linux `map_msghdr` layout:
  28 bytes, type at 2, addrs at 8, versioning at 10), ADD/DELETE with the
  mask loops, MISS_HEADER with `SA_SIZE`, over the map-messages demuxer's
  buffer. `ReadMessage` and `ReadFails` (read() returning -1, after which
  `process_message` still runs) are the two outcomes of the loop's read.
- **Injector.tla**: `inject_datagram_ipv4`. The `uint16_t header[14]` is
  modelled as host-order words whose bytes depend on `LittleEndian`;
  `htons`, `checksum` (the 32-bit carry fold and the final fold),
  `checksum_ipv4` and `checksum_udp` (pseudo header, odd payload padded)
  are operators, and `Packet(d)` is the buffer handed to `sendto()`. The
  receiver's side (RFC 768/1071 sums over big-endian words, `ChecksumsOK`)
  is the reference. The module has no state of its own: the outcomes of a
  call are steps of ControlPacketRouter.
- **ControlPacketRouter.tla**: the control-packets demuxer thread end to
  end. It EXTENDS ParseDatagram (the buffer, `ReceiveDatagram`) and
  instantiates Sorting (with the code's 16-byte addresses) and Injector.
  `Listen`/`ListenFails` are the thread's set-up (getaddrinfo, the bind
  loop, `fatal`); `RecvFails` is `recvmsg` returning -1. `ProcessDatagram(d)`
  is one iteration of the loop: receive into the buffer, take
  `destination.sin_addr` from the `IP_RECVDSTADDR` cmsg when the platform
  sends one (`RecvDstAddr`; otherwise a value from `UninitDsts`), extract the
  EID, `sort` it, and inject once per recipient (`Recipients`: the port read
  for ONE/NON, every port for ALL, none for ERR). Each inject may fail on its
  own; `sent` holds the packets that went out and `failed` the ports whose
  inject returned -1. The registry and table are constants here; their
  concurrent changes are Hypervisor's subject.
- **MapEventRouter.tla**: the map-messages demuxer thread end to end. It
  EXTENDS ParseMessage (the buffer, `ReadMessage`, `ReadFails`) and
  instantiates Sorting. A step is one iteration of the loop: `read()` fills
  the buffer or returns -1, and `process_message(buf, l, eid)` sorts the
  extracted EID and writes `msg_len` bytes of the buffer to the recipients
  (`Recipients`: the winner's channel for ONE, every channel otherwise).
  `Deliver` lets each `write()` fail on its own; `write` with a length of
  -1 always fails, because a count of `(size_t)-1` bytes is refused by the
  kernel's `rw_verify_area` with EINVAL. `delivered` holds the writes that succeeded and `failed` the
  descriptors whose write returned -1.

### Steps of Hypervisor and the code they stand for

A step runs from one point where another thread can observe or block the
running thread to the next one. Such points are lock acquisitions, releases
and blocking I/O.

- A write-locked section is one step, because no reader can be inside it.
- A read-locked section that other threads can overlap is split into two
  steps. Taking the locks joins `cpReaders`/`asReaders`, and the step that
  acts releases them. A writer's step is enabled only when the matching
  reader set is empty.

| action | code |
|---|---|
| `RegisterControlPlane(c)` | `register_control_plane` up to the unlock (register.c:133-172) |
| `AckRegistration` | `ack_registration`; fatal while `cpd` has not bound (register.c:242-282) |
| `DeregisterControlPlane(p)` | first locked section: find by port, `remove_control_plane` (register.c:182-202) |
| `DeregisterAssignments` | second locked section: `if (i < control_planes_ctr) remove_assignee(id)` (register.c:204-212) |
| `PingMmm` | `ping_mmm`: fatal before the muxer is bound, otherwise a blocking write to a queue of `MaxPings` |
| `StartMapMessagesMuxer`, `UpdateMmmPoll` | `init_mmm_poll`, `update_mmm_poll` (drain and copy the registry) |
| `MuxReceive`, `MuxMirror` | `process_message` in mux.c: read from a polled channel and take both read locks; find the slot by descriptor and call add/remove |
| `StartControlPacketsDemuxer`, `CpdReceive`, `CpdSort`, `CpdSendToAll` | the IPv4 listener, `process_ipv4_datagram`, `send_ipv4_datagram_to_all` |
| `StartMapMessagesDemuxer`, `MmdReceive`, `MmdSort`, `MmdBroadcast` | `start_mapmessages_demuxer` and `process_message` in mapmessages/demux.c |
| `Terminated` | after `fatal()` or a fault, nothing happens |

Which request, datagram or message arrives next is the environment's
choice: the `\E` in `HvNext`. Parsing is abstracted to the choice of the
EID, from `Probes` for the demuxers and from `Eids` for ADD/DELETE messages;
the parsers are checked end to end in ControlPacketRouter and MapEventRouter.

## 3. Runs

| run | cfg | expect | what it shows |
|---|---|---|---|
| assign_safety | MCAssignments.cfg | pass | `sort` answers with the last longest covering entry (`LongestMatch`), checked against the bitwise reference. `exact_sort` hits exactly the same block (`ExactHit`). Only the all-zero /0 can be stored twice (`NoDuplicatePrefix`). 6,963 states. |
| hv_safety | MCHypervisor.cfg | pass | In every interleaving of the four threads the registry refines `RegistrySpec` (`ImplementsRegistry`): ids are handed out once and in order, and a deregistration removes exactly the first holder of the port. Whenever the registering server is back in its loop and no notification is queued, the muxer polls exactly the registered channels (`PollSetMatchesRegistry`): a channel deregistered or registered since the last `update_mmm_poll` is always owed a ping. About 443,000 states. |
| hv_live | MCHypervisor_live.cfg | pass | Every registered channel eventually enters the poll set (`PollSetConverges`). |
| hv_race | MCHypervisor_NoTableWriteUnderReaders.cfg | violation | The muxer mutates the table while `cpd` holds the read lock, whereas spec 4.10 says it takes write locks. |
| hv_route | MCHypervisor_RouteToOwner.cfg | violation | Between the two locked sections of a deregistration, a packet for the leaving control plane's EID goes to the control plane that moved into its slot. Checked with the two sections merged, the property is still violated: the assignments of a control plane deregistered from the last slot stay (register.c:206) and route to whoever takes that slot next. |
| reg_handshake | MCRegistration.cfg | pass | Under fair scheduling, every control plane blocked in `recvmsg` after its REGISTER eventually returns or exits, unless hyLISP-hv has exited (`RegistrationCompletes`), over every order of the threads' start-up, two registrations, process deaths and kernel messages. 3,407 states. |
| reg_exit | MCRegistration_NeverExits.cfg | violation | `NeverExits`: hyLISP-hv exits while servicing its first requests. TLC's shortest trace is the `rm -f cp_*` race: a control plane binds, the server starts and removes its socket file, and the REGISTER's `connect` fails. Checked with the other paths closed, each of these also violates it: an ACK before `ipv4_controlpackets_socket` is bound, a `ping_mmm` before the muxer has bound `poll_update`, and a REGISTER from a process that died. (A datagram routed before the tables exist is harmless: `flex_sort` answers SORTING_ERR while the registry is empty.) Spec 4.4 drops a failed request instead. |
| reg_ack | MCRegistration_SendsOnHvSocket.cfg | violation | `SendsOnHvSocket`: a kernel message written to a newly registered channel before the ACK is taken as the ACK, and the control plane sends its IPv4 control packets on a descriptor read from uninitialised memory. |
| cpr_route | MCControlPacketRouter.cfg | pass | With a platform that reports the destination address: for 14 datagrams from two sources, received in any order over the reused buffer, `extract_eid_cp` returns the EID each one carries (`ExtractsDatagramEid`), and the datagram goes exactly to the owner of the longest covering prefix, to the default slot, to every control plane (Map-Reply, Map-Notify) or to nobody (sentinels). Each packet carries the datagram's source, destination address and bytes, and the recipient's port (`DeliversToOwners`), and passes the receiver's checksums (`ChecksumsVerify`). About 4,400 states, 45 s. |
| cpr_linux_dst | MCControlPacketRouter_linux.cfg | violation | `DeliversToOwners` on the Linux build: demux.c:51 defines `IP_RECVDSTADDR` as 0, no cmsg matches, and the first injected packet carries the unwritten `destination.sin_addr` (0.0.0.0 on a fresh stack) instead of the datagram's destination address. |
| pd_stale | MCParseDatagram_stale.cfg | violation | `ReadsOnlyDatagramBytes`: an empty datagram after a truncated ECM is parsed as that ECM, from the bytes it left in the buffer (parsedatagram.c:57 and 113). |
| mer_route | MCMapEventRouter.cfg | pass | For ADD/DELETE messages with IPv4 and IPv6 masks of every partial-byte count and byte boundary, and with masks with holes, for MISS_HEADER over IPv4 and IPv6, for other types and versions, and for failed reads, in any order over the reused buffer, `extract_eid_mm` returns the message's EID (`ExtractsMessageEid`). Each message is written unchanged to exactly the owner of the longest covering prefix, or to every channel when none covers it or the EID is a sentinel, whichever writes fail. A failed `read()` re-delivers nothing (`DeliversMapMessages`). 18,044 states, about 50 s. |

Every property of a passing run has a mutant in PROJECT.json. A mutant is
a variant of one mapped definition, defined just before it, with a
plausible bug. Under the run's own cfg it makes TLC find that property
violated:
- an off-by-one mask;
- a dropped length test;
- a dropped presence check;
- a `memmove` that starts one entry late in `remove_control_plane`;
- a lost or non-blocking notification, an ACK sent on the wrong socket;
- an unpadded odd payload in `checksum_udp`, a destination port without `htons`;
- the ITR-RLOC count read without its +1, a raw-socket `payload_len`;
- a 6-bit inner mask loop, a mask length counted one byte late;
- an unmatched map message sent to the default slot alone.

### Bounds

- `AddrBytes = 2` (16-bit addresses).
- The EIDs are nested and overlapping: 10.0/8, 10.128/9 and 11.0/7, plus
  the special ::/0 and ::/16. The probes fall inside one, both or none of
  them, and include lengths above `MaxLen`.
- In AssignmentTable, `NCP = 2` slots and `MaxEntries = 3` entries. This is
  enough for the owner slot to differ from the position, and for a slot
  number past the table's end.
- In Hypervisor:
  - two control planes on distinct ports;
  - the EIDs 10.0/8 and 10.128/9;
  - the probes 10.200/16, inside both EIDs, and 12.0/16, inside neither,
    plus the broadcast ::/0;
  - `MaxEntries = 2`, `MaxPings = 2`.

  Two control planes are enough to shift a slot, to deregister the last
  slot, to leave a channel polled after deregistration and to fill the
  queue. Three control planes (needed to show `remove_assignee` given an id
  that differs from the slot) make the state space exceed 7 million states
  and are left to a later, targeted run.
- In Registration, two control planes and `MaxPings = 1`: enough for a
  REGISTER queued behind another, for one process to die while the other
  registers, for a broadcast to reach a channel before its ACK, and for
  the second ping to wait on a full queue.
- The liveness run uses one EID, the probe inside it and the broadcast
  probe, because its question does not depend on matching.
- ParseDatagram keeps 100 bytes of the buffer (the longest datagram, a
  Map-Request inside an IPv6 ECM, is 80 bytes). Its datagrams: Map-Requests
  for an IPv4 and an IPv6 EID with IRC 0 and 1 and both ITR-RLOC families;
  an empty and an unknown EID AFI; an unknown ITR-RLOC AFI; an IRC that
  runs past the end; the IPv4 Map-Request inside IPv4 and IPv6 ECMs; an ECM
  with an unknown IP version and one cut after its first inner byte;
  Map-Reply, Map-Notify and Map-Register. The stale run adds a Map-Request
  cut inside its EID record and the empty datagram.
- MapEventRouter keeps 100 bytes of the buffer (the longest message, a
  MISS_HEADER over IPv6, is 100). The IPv4 masks have 0, 1, 5, 8, 10, 14,
  16, 19, 23, 24, 28 and 32 ones: every count of ones in a partial byte
  (1 to 7), every byte boundary, and so each exit of both loops, 7 set bits
  of a partial byte included. The IPv6 masks have 0, 7, 9, 64, 127 and 128.
  Two IPv4 masks and one IPv6 mask have holes. The messages have four
  lengths, so the buffer holds every mix of a message and the tail of a
  longer earlier one. The table is ::ffff:10.0.0.0/104 for slot 0,
  ::ffff:10.1.0.0/112 for slot 1 and 2001:db8::/32 for slot 0. As its mask
  grows, the ADD of 10.1.0.0 goes to everyone, then to slot 0, then to
  slot 1. With two channels, every subset of a broadcast's writes can fail.
  The full range of IPv4 masks (0..32) makes the run exceed 5 minutes.
- ControlPacketRouter keeps 64 bytes of the buffer (the longest of its
  datagrams, the IPv6 Map-Request, is 62). Its datagrams are one per sort
  result and sentinel: the IPv4 Map-Request (ONE to slot 1), alone and in an
  IPv4 ECM; the IPv6 one (NON); Map-Notify and Map-Replies of 1 to 3 bytes
  over {0, 255} (ALL, with odd lengths and carries in the sums); the empty
  AFI, the short ITR-RLOC list and an unknown type (ERR). Each comes from two
  sources whose address and port bytes all differ, so a missing byte swap
  shows. The table has ::ffff:10.0.0.0/100 (a 4-bit mask) for slot 0, /104
  for slot 1, and a /124 for slot 0 that is longer than the EID and must not
  cover it. With two ports, every subset of a broadcast's injects can fail.
- The checksum loop is written as a recursion that forces the running sum
  at every word, so that TLC's evaluation stays shallow on 90-byte packets.

### Fairness

Each thread is an OS thread (spec 7), so each thread's own continuation
steps are weakly fair. Arrivals of requests, datagrams and messages get no
fairness.

`UpdateMmmPoll` is strongly fair. The muxer tests slot 0 before any channel
on every return of `poll`, and a queued notification is seen by the next
`poll`. The model lets a channel message read before the notification
arrived be mirrored first, which disables `UpdateMmmPoll` for one step.
Strong fairness excludes only the behaviour the loop cannot have: the
notification passed over forever.

Registration's fairness is the same: the registering server's steps, the
muxer's, the two demuxers' start-ups and each process's REGISTER write and
`recvmsg` are weakly fair, since each is a thread or process that, once it
can continue, does. Starting a process (`PluginBind`), its death, and
kernel messages get none. The run stops when every process has registered
or exited and every thread is blocked in `recv`, so it does not check
deadlock.

## 4. Findings and hazards not made runs

Four further defects were confirmed on the models and are kept as hazards
in PROJECT.json rather than runs:
- **inject.c:83**: a computed UDP checksum of 0 is sent as 0 ("no
  checksum") instead of 0xFFFF (RFC 768); some 2-byte payloads compute to 0.
- **parsedatagram.c:162**: an IPv4 EID mask above 159 wraps the uint8_t
  prefix length; mask 200 gives ::ffff:10.0.0.5/40.
- **sorting.c:118**: NON always routes to slot 0, since `control_planes_def`
  is never set; spec 8 drops such a packet with ERR when there is no default.
- **assignments.c:73**: `exact_sort` returns the owner's slot and
  `add_assignment`/`remove_assignment` use it as a position, so a remove can
  drop another prefix's entry. No run catches it: `RouteToOwner` follows
  the ghost field `by`, which the misplaced rewrite moves along with the
  entry.

The all-zero /0 EID (**sorting.c:64**) is appended on every ADD and never
removed. `NoDuplicatePrefix` exempts it, as the code intends, so no run
flags it.

One hazard turned out to be harmless. At **mapmessages/demux.c:96** a
failed `read()` (-1) still goes to `process_message`, which parses and
sorts the previous message again. The message is not delivered twice,
because every `write` of -1 bytes fails with EINVAL. `mer_route` checks
this, but the part of `DeliversMapMessages` about it follows directly from
how `write` is modelled, so it confirms that reading of the kernel rather
than testing the code.

## 5. Not modelled

- **extract_type_mm and extract_flags_mm**: single field loads used only
  by the muxer to decide whether to mirror; the muxer's choice of message
  kind stands for them.
- **The control plane's side of the plugin** after `register_virtual_plane`
  returns, but for `sendtov`: the control plane itself is another program.
- **Deregistration in Registration**: its interleavings are Hypervisor's
  subject; REGISTERs of the wrong length or unknown action are skipped by
  the loop and change nothing.
- **The IPv6 control-packet listener**: `start_controlpackets_demuxer`
  leaves it as a TODO and starts no thread.
- **I/O of no consequence to the tables:** socket setup in
  `start_registering_server`, forwarding to `map_socket`, daemonising and
  logging.
- **Writer starvation** under glibc's reader-preferring rwlocks, a rwlock
  reinitialised by `init_control_planes` while a demuxer holds it (its
  effect on glibc's reader count is not modelled; the NULL tables before it are
  never read, since `flex_sort` answers SORTING_ERR on an empty registry), and two control planes on one port. These are listed as hazards with the reason they have
  no property.
