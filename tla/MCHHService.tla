---------------------------- MODULE MCHHService ----------------------------
(* Small instances of the hinted-handoff service: two writers, one node. *)
EXTENDS HHService

CONSTANTS w1, w2

TwoWriters == {w1, w2}
OneWriter == {w1}

=============================================================================
