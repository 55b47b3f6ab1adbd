----------------------------- MODULE MCHHQueue -----------------------------
(* Small instances of the hinted-handoff queue. *)
EXTENDS HHQueue

\* Blocks of two sizes that fit in one segment together, the larger of which
\* does not unmarshal, and a block that no segment can hold.
SmallPayloads == {[len |-> 1, ok |-> TRUE], [len |-> 5, ok |-> TRUE], [len |-> 2, ok |-> FALSE]}

\* Blocks of one size, of which two fit in a segment.
PlainPayloads == {[len |-> 1, ok |-> TRUE]}

=============================================================================
