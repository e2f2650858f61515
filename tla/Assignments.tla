----------------------------- MODULE Assignments -----------------------------
(***************************************************************************)
(* The assignment table of hyLISP-hv                                      *)
(* (src/hylisp-hv/src/controlplanes/assignments.c): add_assignment,       *)
(* remove_assignment and remove_assignee over the sequence               *)
(* `assignments` of [eid, assignee] records, assignee being a positional *)
(* slot of the control-plane registry.                                    *)
(*                                                                         *)
(* The operations are defined as operators returning the SET of outcomes *)
(* the build can produce, each a record [crashed, assignments]: where the *)
(* code indexes the array past assignments_ctr the behaviour is          *)
(* undefined, and the outcomes are a crash (segmentation fault on a NULL *)
(* or wild pointer) or no visible change (a write or read through a      *)
(* dangling pointer).  AssignmentTable.tla and Hypervisor.tla use these  *)
(* operators.                                                              *)
(***************************************************************************)
EXTENDS Integers, Sequences, SequencesExt, Sorting

\* The in-place overwrite of an entry by item: every field but the EID
\* (the assignee, and a ghost field a composing module may add) is copied.
Reassign(entry, item) == [f \in DOMAIN entry |-> IF f = "eid" THEN entry.eid ELSE item[f]]

\* The outcome of an operation that completed without fault.
Done(asg) == [crashed |-> FALSE, assignments |-> asg]

\* The outcomes of reading assignments[k] for k >= assignments_ctr and
\* acting on what was read: a fault, or (a read of a freed entry, or of
\* the live entry a memmove left a second pointer to) no visible change
\* (a matching owner makes remove_assignment free that entry and memmove
\* a negative count, which faults).
Undefined(asg) == {[crashed |-> TRUE, assignments |-> asg], Done(asg)}

\* The outcomes of writing item's owner through assignments[k] for
\* k >= assignments_ctr: besides a fault or no visible change, the pointer
\* may alias a live entry, because remove_assignment's memmove leaves the
\* old last position pointing to the entry now one below it, and a freed
\* entry's memory may have been handed to a later malloc.
UndefinedWrite(asg, item) ==
    Undefined(asg) \cup {Done([asg EXCEPT ![k] = Reassign(@, item)]) : k \in DOMAIN asg}

\* Variants of add_assignment for mutation analysis.
\* Without the presence check: every ADD appends.
add_assignment_nocheck(asg, ncp, item) ==
    IF exact_sort(asg, ncp, item.eid).res = "ERR" THEN {Done(asg)}
    ELSE {Done(Append(asg, item))}

\* The appended entry takes the index exact_sort wrote instead of the owner.
add_assignment_stores_index(asg, ncp, item) ==
    LET s == exact_sort(asg, ncp, item.eid)
    IN  IF s.res = "ONE"
        THEN IF s.idx < Len(asg)
             THEN {Done([asg EXCEPT ![s.idx + 1] = Reassign(@, item)])}
             ELSE UndefinedWrite(asg, item)
        ELSE IF s.res = "ERR" THEN {Done(asg)}
        ELSE {Done(Append(asg, [item EXCEPT !.assignee = s.idx]))}

(***************************************************************************)
(* add_assignment(item).  exact_sort writes the ASSIGNEE SLOT of the     *)
(* matching entry into present_index, which is then used as a POSITION   *)
(* in `assignments`.  An all-zero /0 EID makes exact_sort answer          *)
(* SORTING_ALL, which falls through to the append.  Growing the array is *)
(* a realloc that keeps the contents, so it is not visible here.          *)
(***************************************************************************)
add_assignment(asg, ncp, item) ==
    LET s             == exact_sort(asg, ncp, item.eid)
        present_index == s.idx
    IN  IF s.res = "ONE"
        THEN IF present_index < Len(asg)
             THEN {Done([asg EXCEPT ![present_index + 1] = Reassign(@, item)])}
             ELSE UndefinedWrite(asg, item)
        ELSE IF s.res = "ERR" THEN {Done(asg)}
        ELSE {Done(Append(asg, item))}

(***************************************************************************)
(* remove_assignment(item): again present_index is the owner's slot used *)
(* as a position; the owner check and the memmove apply to that entry.   *)
(***************************************************************************)
remove_assignment(asg, ncp, item) ==
    LET s             == exact_sort(asg, ncp, item.eid)
        present_index == s.idx
    IN  IF s.res # "ONE" THEN {Done(asg)}
        ELSE IF present_index >= Len(asg) THEN Undefined(asg)
        ELSE IF item.assignee # asg[present_index + 1].assignee THEN {Done(asg)}
        ELSE {Done(RemoveAt(asg, present_index + 1))}

\* remove_assignee(assignee_index): drops every entry of that slot, in order.
remove_assignee(asg, assignee_index) ==
    SelectSeq(asg, LAMBDA a : a.assignee # assignee_index)

=============================================================================
