--------------------------- MODULE AssignmentTable ---------------------------
(***************************************************************************)
(* The assignment table on its own: a sequential specification in which  *)
(* the registry holds NCP control planes and does not change, and any    *)
(* slot may call add_assignment, remove_assignment or remove_assignee.    *)
(* It checks the matcher of Sorting.tla on every table the operations of *)
(* Assignments.tla can build, and what those operations do to the table. *)
(***************************************************************************)
EXTENDS Assignments

CONSTANTS
    NCP,         \* control_planes_ctr, fixed: slots 0..NCP-1 exist
    Eids,        \* the EID prefixes the operations are called with
    Probes,      \* the probes the matcher is checked on
    MaxEntries   \* bound on the length of the table

ASSUME NCP \in Nat \ {0} /\ MaxEntries \in Nat

VARIABLES
    assignments,
    crashed,     \* the process died in an operation
    lastOp       \* the last operation and its argument, for the properties

vars == <<assignments, crashed, lastOp>>

Slots == 0..(NCP - 1)

Item(e, s) == [eid |-> e, assignee |-> s]

Init ==
    /\ assignments = <<>>
    /\ crashed = FALSE
    /\ lastOp = [op |-> "none", eid |-> CHOOSE e \in Eids : TRUE, slot |-> 0]

Apply(outcomes, op, e, s) ==
    \E o \in outcomes :
        /\ assignments' = o.assignments
        /\ crashed' = o.crashed
        /\ lastOp' = [op |-> op, eid |-> e, slot |-> s]

AddAssignment(e, s) ==
    /\ ~crashed
    /\ Len(assignments) < MaxEntries
    /\ Apply(add_assignment(assignments, NCP, Item(e, s)), "add", e, s)

RemoveAssignment(e, s) ==
    /\ ~crashed
    /\ Apply(remove_assignment(assignments, NCP, Item(e, s)), "remove", e, s)

RemoveAssignee(s) ==
    /\ ~crashed
    /\ assignments' = remove_assignee(assignments, s)
    /\ lastOp' = [op |-> "remove_assignee", eid |-> lastOp.eid, slot |-> s]
    /\ UNCHANGED crashed

\* After a crash nothing happens any more.
Halted == crashed /\ UNCHANGED vars

Next ==
    \/ \E e \in Eids, s \in Slots : AddAssignment(e, s) \/ RemoveAssignment(e, s)
    \/ \E s \in Slots : RemoveAssignee(s)
    \/ Halted

Spec == Init /\ [][Next]_vars

-----------------------------------------------------------------------------
TypeOK ==
    /\ assignments \in Seq([eid : Eids, assignee : Slots])
    /\ crashed \in BOOLEAN
    /\ lastOp.op \in {"none", "add", "remove", "remove_assignee"}

(***************************************************************************)
(* sort (live routing) answers with the longest stored prefix containing *)
(* the probe: ONE names the slot of a containing entry of greatest       *)
(* length, and NON is answered exactly when no entry contains the probe. *)
(* This checks the byte-compare and precomputed-mask logic of flex_sort  *)
(* against the bitwise meaning of a prefix, on every reachable table.    *)
(***************************************************************************)
LongestMatch ==
    \A p \in Probes : ~IsSpecialProbe(p) =>
        LET r   == sort(assignments, NCP, p)
            cov == {i \in DOMAIN assignments : Covers(assignments[i].eid, p)}
        IN  /\ r.res \in {"ONE", "NON"}
            /\ (r.res = "NON") <=> (cov = {})
            /\ r.res = "ONE" =>
                 \E i \in cov :
                    /\ assignments[i].assignee = r.idx
                    /\ \A k \in cov : assignments[k].eid.len <= assignments[i].eid.len

(***************************************************************************)
(* exact_sort (table maintenance) hits exactly when the table holds an   *)
(* entry for the same block of addresses with the same length.            *)
(***************************************************************************)
ExactHit ==
    \A p \in Probes : ~IsSpecialProbe(p) =>
        (exact_sort(assignments, NCP, p).res = "ONE")
            <=> \E i \in DOMAIN assignments : SamePrefix(assignments[i].eid, p)

(***************************************************************************)
(* add_assignment never stores a second entry for a block that is        *)
(* already assigned; the one exception is the all-zero /0 prefix, which   *)
(* exact_sort answers with SORTING_ALL so that it is appended each time.  *)
(***************************************************************************)
NoDuplicatePrefix ==
    \A i, k \in DOMAIN assignments :
        (i < k /\ SamePrefix(assignments[i].eid, assignments[k].eid))
            => IsSpecialProbe(assignments[i].eid)

=============================================================================
