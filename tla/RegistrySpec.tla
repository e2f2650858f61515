---------------------------- MODULE RegistrySpec ----------------------------
(***************************************************************************)
(* What the control-plane registry promises the rest of the hypervisor    *)
(* (spec 4.3 and 4.4), with no array, counter or lock: the live control   *)
(* planes in the order they registered, each under an identity that no    *)
(* other registration ever had.  Registering appends the process under    *)
(* the next identity; deregistering a port drops the first control plane  *)
(* with that port and leaves the others, in order; a port nobody holds   *)
(* changes nothing.  A deregistration request stays pending until it is *)
(* served (the owner's assignments are dropped), and no registration or *)
(* other deregistration starts meanwhile.  Hypervisor.tla is checked to implement this module.  *)
(***************************************************************************)
EXTENDS Integers, Sequences, SequencesExt

CONSTANTS CPs,    \* control-plane processes
          Port    \* Port[c]: the UDP port c registers with

CONSTANT NoPort       \* no deregistration pending

VARIABLES registered,  \* <<[id, cp], ...>>, in registration order
          nextId,      \* the identity the next registration gets
          pending      \* the port of the deregistration being served

regVars == <<registered, nextId, pending>>

HoldsPort(k, p) == Port[registered[k].cp] = p

Init == registered = <<>> /\ nextId = 0 /\ pending = NoPort

Register(c) ==
    /\ pending = NoPort
    /\ UNCHANGED pending
    /\ \A k \in DOMAIN registered : registered[k].cp # c
    /\ registered' = Append(registered, [id |-> nextId, cp |-> c])
    /\ nextId' = nextId + 1

Deregister(p) ==
    /\ pending = NoPort
    /\ pending' = p
    /\ UNCHANGED nextId
    /\ IF \E k \in DOMAIN registered : HoldsPort(k, p)
       THEN \E k \in DOMAIN registered :
                /\ HoldsPort(k, p)
                /\ \A j \in 1..(k - 1) : ~HoldsPort(j, p)
                /\ registered' = RemoveAt(registered, k)
       ELSE UNCHANGED registered

Served ==
    /\ pending # NoPort
    /\ pending' = NoPort
    /\ UNCHANGED <<registered, nextId>>

Next == (\E c \in CPs : Register(c) \/ Deregister(Port[c])) \/ Served

Spec == Init /\ [][Next]_regVars
=============================================================================
