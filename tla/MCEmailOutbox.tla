---------------------------- MODULE MCEmailOutbox ----------------------------
(* Instances of EmailOutbox for TLC.                                       *)
EXTENDS EmailOutbox

=============================================================================
