---------------------------- MODULE MCTSMEngine ----------------------------
(* Small instances of the storage engine. *)
EXTENDS TSMEngine

\* The name of the file that a compaction of the first two snapshots writes.
MergedName == {<<2, 2>>}

=============================================================================
