--------------------------- MODULE MCPointsWriter ---------------------------
(* Small clusters for the PointsWriter. *)
EXTENDS PointsWriter, TLC

CONSTANTS n1, n2, n3, s1, s2

AllLevels == {"any", "one", "quorum", "all"}

\* One shard on three nodes, one of which coordinates.
ThreeOwners == [s \in {s1} |-> {n1, n2, n3}]

\* A shard on the coordinating node and another, and one that has lost its
\* owners.
OwnerlessShard == (s1 :> {n1, n2}) @@ (s2 :> {})

=============================================================================
