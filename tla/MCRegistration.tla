--------------------------- MODULE MCRegistration ---------------------------
(***************************************************************************)
(* Model-checking instance of Registration: two control planes, so that  *)
(* one can register while the other's REGISTER is queued, and a           *)
(* poll_update queue of one notification, so that ping_mmm blocks.        *)
(***************************************************************************)
EXTENDS Registration

CONSTANTS c1, c2

MCCPs == {c1, c2}

=============================================================================
