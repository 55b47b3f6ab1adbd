---------------------------- MODULE MCMetaStore -----------------------------
(* Policies of the small instances of MetaStore.                            *)
EXTENDS MetaStore, TLC

\* Two replicas in groups of one time unit; an automatic policy has one
\* replica in groups of two.
SmallSpecs == {[replicaN |-> 2, duration |-> 1, sgd |-> 1]}

\* Servers are interchangeable, and so are addresses of the same kind.
Symmetry == Permutations(DataAddrs \ MetaAddrs) \cup Permutations(DataAddrs \cap MetaAddrs)
              \cup Permutations(Servers)
=============================================================================
