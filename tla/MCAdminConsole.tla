---------------------------- MODULE MCAdminConsole ----------------------------
(* AdminConsole for TLC. *)
EXTENDS AdminConsole

CONSTANTS s1, i1, aws

AllAtAws == [s \in Server |-> aws]
=============================================================================
