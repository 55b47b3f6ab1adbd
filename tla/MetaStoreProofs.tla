-------------------------- MODULE MetaStoreProofs ---------------------------
(* Proofs about the metadata and the replicated meta store, for any number of servers,
   nodes, databases, policies and commands. *)
EXTENDS MetaStore, FiniteSetTheorems, WellFoundedInduction, TLAPS

-----------------------------------------------------------------------------
(* The inductive invariant: what every server's metadata satisfies *)

IsFunction(f) == f = [x \in DOMAIN f |-> f[x]]

\* The fields of store.data, and of a shard group.
IsMetadata(d) ==
  d = [index |-> d.index, dataNodes |-> d.dataNodes, metaNodes |-> d.metaNodes,
       maxNode |-> d.maxNode, defaults |-> d.defaults, policies |-> d.policies,
       groups |-> d.groups, maxGroup |-> d.maxGroup, maxShard |-> d.maxShard,
       users |-> d.users]

IsGroup(g) ==
  g = [db |-> g.db, rp |-> g.rp, start |-> g.start, end |-> g.end, deleted |-> g.deleted,
       shards |-> g.shards]

PolicyRecords == [replicaN : Nat, duration : Nat, sgd : Nat \ {0}]

\* No ID is above the highest given.
NodesOK(d) ==
  /\ d.dataNodes \subseteq [id : Nat \ {0}, addr : DataAddrs] /\ IsFiniteSet(d.dataNodes)
  /\ d.metaNodes \subseteq [id : Nat \ {0}, addr : MetaAddrs]
  /\ d.maxNode \in Nat
  /\ \A n \in d.dataNodes \cup d.metaNodes : n.id <= d.maxNode

\* As long as no meta node moved away from a data node with its ID: nodes of one kind
\* have different IDs, and a data node shares its ID with the meta node at its address.
SharedIDsOK(d) ==
  /\ UniqueIDs(d.dataNodes) /\ UniqueIDs(d.metaNodes)
  /\ \A m \in d.metaNodes, n \in d.dataNodes : m.id = n.id => m.addr = n.addr

PoliciesOK(d) ==
  /\ IsFunction(d.defaults) /\ DatabasesOf(d) \subseteq Databases
  /\ \A db \in DatabasesOf(d) : d.defaults[db] \in Policies \cup {NoPolicy}
  /\ \A k \in DOMAIN d.policies : /\ k \in DatabasesOf(d) \X Policies
                                  /\ d.policies[k] \in PolicyRecords

\* The groups of a policy start at multiples of its shard group duration, which no
\* command changes.
Aligned(G, p) == \E i \in Nat : G.start = i * p.sgd /\ G.end = G.start + p.sgd

Owned(G, ids) ==
  \A h \in DOMAIN G.shards : G.shards[h] \subseteq ids /\ (~G.deleted => G.shards[h] # {})

GroupOK(d, g) ==
  /\ IsGroup(d.groups[g]) /\ g \in 1 .. d.maxGroup
  /\ <<d.groups[g].db, d.groups[g].rp>> \in DOMAIN d.policies
  /\ d.groups[g].deleted \in BOOLEAN
  /\ Aligned(d.groups[g], d.policies[<<d.groups[g].db, d.groups[g].rp>>])
  /\ Owned(d.groups[g], IDs(d.dataNodes))

Apart(G, H) ==
  G.db = H.db /\ G.rp = H.rp /\ ~G.deleted /\ ~H.deleted => G.end <= H.start \/ H.end <= G.start

GroupsOK(d) ==
  /\ IsFunction(d.groups) /\ d.maxGroup \in Nat /\ d.maxShard \in Nat
  /\ \A g \in DOMAIN d.groups : GroupOK(d, g)
  /\ \A g, h \in DOMAIN d.groups : g # h => Apart(d.groups[g], d.groups[h])

UsersOK(d) ==
  /\ IsFunction(d.users) /\ DOMAIN d.users \subseteq Users
  /\ \A u \in DOMAIN d.users : d.users[u] \subseteq DatabasesOf(d)

MetadataOK(d) ==
  /\ IsMetadata(d) /\ d.index \in Nat \ {0}
  /\ NodesOK(d) /\ PoliciesOK(d) /\ GroupsOK(d) /\ UsersOK(d)

\* What a command does to metadata, whichever it is.
Good(d, e) == MetadataOK(e) /\ NoIDAgain(d, e) /\ OwnersKept(d, e)

\* The commands that a server can be given.
Commands ==
  [op : {"CreateDataNode"}, addr : DataAddrs]
    \cup [op : {"CreateMetaNode", "SetMetaNode"}, addr : MetaAddrs]
    \cup [op : {"DeleteDataNode", "DeleteMetaNode"}, id : Nat]
    \cup [op : {"CreateDatabase", "DropDatabase"}, db : Databases]
    \cup [op : {"DropRetentionPolicy", "SetDefaultRetentionPolicy"}, db : Databases, rp : Policies]
    \cup [op : {"CreateDatabaseWith", "CreateRetentionPolicy"}, db : Databases, rp : Policies,
          spec : PolicySpecs]
    \cup [op : {"UpdateRetentionPolicy"}, db : Databases, rp : Policies, name : Policies,
          duration : Durations, replicaN : ReplicaNs]
    \cup [op : {"CreateShardGroup"}, db : Databases, rp : Policies, time : Times]
    \cup [op : {"DeleteShardGroup"}, db : Databases, rp : Policies, id : Nat]
    \cup [op : {"CreateUser", "DropUser"}, user : Users]
    \cup [op : {"SetPrivilege"}, user : Users, db : Databases]

StoreInv ==
  /\ IsFunction(data) /\ DOMAIN data = Servers
  /\ pending \in [Servers -> Seq(Commands)]
  /\ moved \in [Servers -> BOOLEAN]
  /\ \A s \in Servers : /\ MetadataOK(data[s]) /\ CommittedIndex(s) <= MaxIndex
                        /\ ~moved[s] => SharedIDsOK(data[s])

-----------------------------------------------------------------------------
(* What the operators do *)

\* A command that adds or removes nodes, policies or whole groups and leaves the other
\* groups alone.
LEMMA GroupsStay ==
  ASSUME NEW d, NEW e, GroupsOK(d), IsFunction(e.groups),
         DOMAIN e.groups \subseteq DOMAIN d.groups,
         e.maxGroup = d.maxGroup, e.maxShard = d.maxShard,
         IDs(d.dataNodes) \subseteq IDs(e.dataNodes),
         \A g \in DOMAIN e.groups :
           LET k == <<d.groups[g].db, d.groups[g].rp>>
           IN  /\ e.groups[g] = d.groups[g] /\ k \in DOMAIN e.policies
               /\ e.policies[k].sgd = d.policies[k].sgd
  PROVE  GroupsOK(e) /\ NoIDAgain(d, e) /\ OwnersKept(d, e)
<1>1. ASSUME NEW g \in DOMAIN e.groups PROVE GroupOK(e, g)
  <2>1. GroupOK(d, g) /\ e.groups[g] = d.groups[g]
    BY <1>1 DEF GroupsOK
  <2>2. Aligned(e.groups[g], e.policies[<<e.groups[g].db, e.groups[g].rp>>])
    BY <2>1 DEF GroupOK, Aligned
  <2>3. Owned(e.groups[g], IDs(e.dataNodes))
    BY <2>1 DEF GroupOK, Owned
  <2> QED BY <2>1, <2>2, <2>3 DEF GroupOK
<1>2. \A g, h \in DOMAIN e.groups : g # h => Apart(e.groups[g], e.groups[h])
  BY DEF GroupsOK
<1>3. GroupsOK(e)
  BY <1>1, <1>2 DEF GroupsOK
<1>4. NoIDAgain(d, e)
  <2>1. ShardsOf(e) \subseteq ShardsOf(d)
    BY DEF ShardsOf
  <2>2. d.maxShard >= d.maxShard /\ d.maxGroup >= d.maxGroup
    BY DEF GroupsOK
  <2> QED BY <2>1, <2>2 DEF NoIDAgain
<1>5. OwnersKept(d, e)
  BY DEF OwnersKept
<1> QED BY <1>3, <1>4, <1>5

-----------------------------------------------------------------------------
(* Nodes *)

LEMMA CreateDataNodeGood ==
  ASSUME NEW d, MetadataOK(d), NEW a \in DataAddrs
  PROVE  Good(d, CreateDataNode(d, a))
<1>i. PICK id : id = NodeID(d, d.metaNodes, a)
  OBVIOUS
<1>e. PICK e : e = CreateDataNode(d, a)
  OBVIOUS
<1>1. CASE \E n \in d.dataNodes : n.addr = a
  <2>1. e = d
    BY <1>1, <1>e DEF CreateDataNode
  <2>2. GroupsOK(d) /\ NoIDAgain(d, d) /\ OwnersKept(d, d)
    BY GroupsStay DEF MetadataOK, GroupsOK, GroupOK
  <2> QED BY <1>e, <2>1, <2>2 DEF Good
<1>2. CASE ~\E n \in d.dataNodes : n.addr = a
  <2>n. PICK new : new = [id |-> id, addr |-> a]
    OBVIOUS
  <2>1. e = [d EXCEPT !.dataNodes = d.dataNodes \cup {new},
                      !.maxNode = IF id > d.maxNode THEN id ELSE d.maxNode]
    BY <1>2, <1>i, <1>e, <2>n DEF CreateDataNode
  <2>2. /\ IsMetadata(e) /\ e.dataNodes = d.dataNodes \cup {new}
        /\ e.maxNode = IF id > d.maxNode THEN id ELSE d.maxNode
        /\ e.index = d.index /\ e.metaNodes = d.metaNodes /\ e.defaults = d.defaults
        /\ e.policies = d.policies /\ e.groups = d.groups /\ e.maxGroup = d.maxGroup
        /\ e.maxShard = d.maxShard /\ e.users = d.users
    BY <2>1 DEF MetadataOK, IsMetadata
  <2>3. \/ id = d.maxNode + 1
        \/ \E m \in d.metaNodes : m.addr = a /\ id = m.id
    BY <1>i DEF NodeID
  <2>4. NodesOK(e)
    <3>1. id \in Nat \ {0} /\ id <= e.maxNode /\ e.maxNode \in Nat /\ d.maxNode <= e.maxNode
      BY <2>2, <2>3 DEF MetadataOK, NodesOK
    <3>2. new.id = id /\ new.addr = a
      BY <2>n
    <3>3. e.dataNodes \subseteq [id : Nat \ {0}, addr : DataAddrs] /\ IsFiniteSet(e.dataNodes)
      BY <2>n, <2>2, <3>1, FS_AddElement DEF MetadataOK, NodesOK
    <3>4. \A n \in e.dataNodes \cup e.metaNodes : n.id <= e.maxNode
      BY <2>2, <3>1, <3>2 DEF MetadataOK, NodesOK
    <3> QED BY <2>2, <3>1, <3>3, <3>4 DEF MetadataOK, NodesOK
  <2>5. IDs(d.dataNodes) \subseteq IDs(e.dataNodes)
    BY <2>2 DEF IDs
  <2>6. GroupsOK(e) /\ NoIDAgain(d, e) /\ OwnersKept(d, e)
    BY <2>2, <2>5, GroupsStay DEF MetadataOK, GroupsOK, GroupOK
  <2>7. PoliciesOK(e) /\ UsersOK(e)
    BY <2>2 DEF MetadataOK, PoliciesOK, UsersOK, DatabasesOf
  <2> QED BY <1>e, <2>2, <2>4, <2>6, <2>7 DEF Good, MetadataOK
<1> QED BY <1>1, <1>2

\* A command that changes meta nodes only.
LEMMA MetaNodesGood ==
  ASSUME NEW d, MetadataOK(d), NEW e, IsMetadata(e), NodesOK(e),
         e.index = d.index, e.dataNodes = d.dataNodes, e.defaults = d.defaults,
         e.policies = d.policies, e.groups = d.groups, e.maxGroup = d.maxGroup,
         e.maxShard = d.maxShard, e.users = d.users
  PROVE  Good(d, e)
<1>1. GroupsOK(e) /\ NoIDAgain(d, e) /\ OwnersKept(d, e)
  BY GroupsStay DEF MetadataOK, GroupsOK, GroupOK
<1>2. PoliciesOK(e) /\ UsersOK(e)
  BY DEF MetadataOK, PoliciesOK, UsersOK, DatabasesOf
<1> QED BY <1>1, <1>2 DEF Good, MetadataOK

LEMMA SameIsGood ==
  ASSUME NEW d, MetadataOK(d)
  PROVE  Good(d, d)
  BY MetaNodesGood DEF MetadataOK

LEMMA CreateMetaNodeGood ==
  ASSUME NEW d, MetadataOK(d), NEW a \in MetaAddrs
  PROVE  Good(d, CreateMetaNode(d, a))
<1>i. PICK id : id = NodeID(d, d.dataNodes, a)
  OBVIOUS
<1>e. PICK e : e = CreateMetaNode(d, a)
  OBVIOUS
<1>1. CASE \E n \in d.metaNodes : n.addr = a
  <2>1. e = d
    BY <1>1, <1>e DEF CreateMetaNode
  <2> QED BY <1>e, <2>1, SameIsGood
<1>2. CASE ~\E n \in d.metaNodes : n.addr = a
  <2>n. PICK new : new = [id |-> id, addr |-> a]
    OBVIOUS
  <2>1. e = [d EXCEPT !.metaNodes = d.metaNodes \cup {new},
                      !.maxNode = IF id > d.maxNode THEN id ELSE d.maxNode]
    BY <1>2, <1>i, <1>e, <2>n DEF CreateMetaNode
  <2>2. /\ IsMetadata(e) /\ e.metaNodes = d.metaNodes \cup {new}
        /\ e.maxNode = IF id > d.maxNode THEN id ELSE d.maxNode
        /\ e.index = d.index /\ e.dataNodes = d.dataNodes /\ e.defaults = d.defaults
        /\ e.policies = d.policies /\ e.groups = d.groups /\ e.maxGroup = d.maxGroup
        /\ e.maxShard = d.maxShard /\ e.users = d.users
    BY <2>1 DEF MetadataOK, IsMetadata
  <2>3. \/ id = d.maxNode + 1
        \/ \E n \in d.dataNodes : n.addr = a /\ id = n.id
    BY <1>i DEF NodeID
  <2>4. NodesOK(e)
    <3>1. id \in Nat \ {0} /\ id <= e.maxNode /\ e.maxNode \in Nat /\ d.maxNode <= e.maxNode
      BY <2>2, <2>3 DEF MetadataOK, NodesOK
    <3>2. e.metaNodes \subseteq [id : Nat \ {0}, addr : MetaAddrs]
      BY <2>n, <2>2, <3>1 DEF MetadataOK, NodesOK
    <3>3. new.id = id /\ new.addr = a
      BY <2>n
    <3>4. \A n \in e.dataNodes \cup e.metaNodes : n.id <= e.maxNode
      BY <2>2, <3>1, <3>3 DEF MetadataOK, NodesOK
    <3> QED BY <2>2, <3>1, <3>2, <3>4 DEF MetadataOK, NodesOK
  <2> QED BY <1>e, <2>2, <2>4, MetaNodesGood
<1> QED BY <1>1, <1>2

LEMMA SetMetaNodeGood ==
  ASSUME NEW d, MetadataOK(d), NEW a \in MetaAddrs
  PROVE  Good(d, SetMetaNode(d, a))
<1>e. PICK e : e = SetMetaNode(d, a)
  OBVIOUS
<1>m. PICK new : new = {[n EXCEPT !.addr = a] : n \in d.metaNodes}
  OBVIOUS
<1>1. CASE e = d \/ e = CreateMetaNode(d, a)
  BY <1>e, <1>1, SameIsGood, CreateMetaNodeGood
<1>2. CASE e = [d EXCEPT !.metaNodes = new]
  <2>1. /\ IsMetadata(e) /\ e.metaNodes = new /\ e.maxNode = d.maxNode
        /\ e.index = d.index /\ e.dataNodes = d.dataNodes /\ e.defaults = d.defaults
        /\ e.policies = d.policies /\ e.groups = d.groups /\ e.maxGroup = d.maxGroup
        /\ e.maxShard = d.maxShard /\ e.users = d.users
    BY <1>2 DEF MetadataOK, IsMetadata
  <2>2. ASSUME NEW n \in new
        PROVE  n \in [id : Nat \ {0}, addr : MetaAddrs] /\ \E m \in d.metaNodes : n.id = m.id
    <3>1. PICK m \in d.metaNodes : n = [m EXCEPT !.addr = a]
      BY <1>m
    <3>2. m \in [id : Nat \ {0}, addr : MetaAddrs]
      BY DEF MetadataOK, NodesOK
    <3> QED BY <3>1, <3>2
  <2>3. NodesOK(e)
    BY <2>1, <2>2 DEF MetadataOK, NodesOK
  <2> QED BY <1>e, <2>1, <2>3, MetaNodesGood
<1> QED BY <1>e, <1>m, <1>1, <1>2 DEF SetMetaNode

LEMMA DeleteMetaNodeGood ==
  ASSUME NEW d, MetadataOK(d), NEW id, NEW e \in DeleteMetaNode(d, id)
  PROVE  Good(d, e)
<1>1. CASE e = d
  BY <1>1, SameIsGood
<1>2. CASE e = [d EXCEPT !.metaNodes = {n \in d.metaNodes : n.id # id}]
  <2>1. /\ IsMetadata(e) /\ e.metaNodes \subseteq d.metaNodes /\ e.maxNode = d.maxNode
        /\ e.index = d.index /\ e.dataNodes = d.dataNodes /\ e.defaults = d.defaults
        /\ e.policies = d.policies /\ e.groups = d.groups /\ e.maxGroup = d.maxGroup
        /\ e.maxShard = d.maxShard /\ e.users = d.users
    BY <1>2 DEF MetadataOK, IsMetadata
  <2>2. NodesOK(e)
    BY <2>1 DEF MetadataOK, NodesOK
  <2> QED BY <2>1, <2>2, MetaNodesGood
<1> QED BY <1>1, <1>2 DEF DeleteMetaNode

\* What DeleteDataNode does to one group.
LEMMA RemovedOwner ==
  ASSUME NEW G, IsGroup(G), G.deleted \in BOOLEAN, NEW ids, Owned(G, ids), NEW id,
         NEW H \in RemoveOwner(G, id)
  PROVE  /\ IsGroup(H) /\ H.db = G.db /\ H.rp = G.rp /\ H.start = G.start /\ H.end = G.end
         /\ H.deleted \in BOOLEAN /\ (G.deleted => H.deleted)
         /\ DOMAIN H.shards = DOMAIN G.shards /\ Owned(H, ids \ {id})
         /\ \A s \in DOMAIN G.shards :
               /\ G.shards[s] \cap (ids \ {id}) \subseteq H.shards[s]
               /\ H.shards[s] \subseteq G.shards[s] \/ G.shards[s] \cap (ids \ {id}) = {}
<1>1. CASE Orphans(G, id) = DOMAIN G.shards
  <2>s. PICK new : new = [s \in DOMAIN G.shards |->
                           IF s \in DOMAIN << >> THEN {<< >>[s]} ELSE Relinquish(G.shards[s], id)]
    OBVIOUS
  <2>1. H = [G EXCEPT !.deleted = TRUE, !.shards = new]
    BY <1>1, <2>s DEF RemoveOwner
  <2>2. DOMAIN new = DOMAIN G.shards /\ \A s \in DOMAIN G.shards : new[s] = G.shards[s] \ {id}
    BY <2>s DEF Relinquish
  <2>3. /\ IsGroup(H) /\ H.db = G.db /\ H.rp = G.rp /\ H.start = G.start /\ H.end = G.end
        /\ H.deleted = TRUE /\ H.shards = new
    BY <2>1 DEF IsGroup
  <2>4. Owned(H, ids \ {id})
    BY <2>2, <2>3 DEF Owned
  <2>5. \A s \in DOMAIN G.shards : G.shards[s] \subseteq ids
    BY DEF Owned
  <2> QED BY <2>2, <2>3, <2>4, <2>5
<1>2. CASE Orphans(G, id) # DOMAIN G.shards
  <2>f. PICK f \in [Orphans(G, id) -> Remaining(G, id)] :
          H = [G EXCEPT !.shards = [s \in DOMAIN G.shards |->
                 IF s \in DOMAIN f THEN {f[s]} ELSE Relinquish(G.shards[s], id)]]
    BY <1>2 DEF RemoveOwner
  <2>s. PICK new : new = [s \in DOMAIN G.shards |->
                           IF s \in DOMAIN f THEN {f[s]} ELSE Relinquish(G.shards[s], id)]
    OBVIOUS
  <2>1. H = [G EXCEPT !.shards = new]
    BY <2>f, <2>s
  <2>2. /\ DOMAIN new = DOMAIN G.shards
        /\ \A s \in DOMAIN G.shards :
             IF s \in Orphans(G, id) THEN new[s] = {f[s]} ELSE new[s] = G.shards[s] \ {id}
    BY <2>s DEF Relinquish
  <2>3. /\ IsGroup(H) /\ H.db = G.db /\ H.rp = G.rp /\ H.start = G.start /\ H.end = G.end
        /\ H.deleted = G.deleted /\ H.shards = new
    BY <2>1 DEF IsGroup
  <2>4. \A s \in DOMAIN G.shards : G.shards[s] \subseteq ids
    BY DEF Owned
  <2>5. ASSUME NEW s \in DOMAIN G.shards
        PROVE  /\ new[s] \subseteq ids \ {id} /\ new[s] # {}
               /\ G.shards[s] \cap (ids \ {id}) \subseteq new[s]
               /\ new[s] \subseteq G.shards[s] \/ G.shards[s] \cap (ids \ {id}) = {}
    <3>1. CASE s \in Orphans(G, id)
      <4>1. new[s] = {f[s]} /\ f[s] \in Remaining(G, id) /\ G.shards[s] \subseteq {id}
        BY <2>2, <3>1 DEF Orphans
      <4>2. f[s] \in ids \ {id}
        BY <2>4, <4>1 DEF Remaining
      <4> QED BY <4>1, <4>2
    <3>2. CASE s \notin Orphans(G, id)
      BY <2>2, <2>4, <3>2 DEF Orphans
    <3> QED BY <3>1, <3>2
  <2>6. Owned(H, ids \ {id})
    BY <2>2, <2>3, <2>5 DEF Owned
  <2> QED BY <2>2, <2>3, <2>5, <2>6
<1> QED BY <1>1, <1>2

LEMMA DeleteDataNodeGood ==
  ASSUME NEW d, MetadataOK(d), NEW id, NEW e \in DeleteDataNode(d, id)
  PROVE  Good(d, e)
<1>1. CASE id \notin IDs(d.dataNodes)
  <2>1. e = d
    BY <1>1 DEF DeleteDataNode
  <2> QED BY <2>1, SameIsGood
<1>2. CASE id \in IDs(d.dataNodes)
  <2>n. PICK nodes : nodes = {n \in d.dataNodes : n.id # id}
    OBVIOUS
  <2>g. PICK gs : /\ e = [d EXCEPT !.dataNodes = nodes, !.groups = gs]
                  /\ IsFunction(gs) /\ DOMAIN gs = DOMAIN d.groups
                  /\ \A g \in DOMAIN gs : gs[g] \in RemoveOwner(d.groups[g], id)
    BY <1>2, <2>n DEF DeleteDataNode, IsFunction
  <2>1. /\ IsMetadata(e) /\ e.dataNodes = nodes /\ e.groups = gs
        /\ e.metaNodes = d.metaNodes /\ e.maxNode = d.maxNode
        /\ e.index = d.index /\ e.defaults = d.defaults
        /\ e.policies = d.policies /\ e.maxGroup = d.maxGroup
        /\ e.maxShard = d.maxShard /\ e.users = d.users
    BY <2>g DEF MetadataOK, IsMetadata
  <2>2. nodes \subseteq d.dataNodes /\ IsFiniteSet(nodes) /\ IDs(nodes) = IDs(d.dataNodes) \ {id}
    <3>1. nodes \subseteq d.dataNodes
      BY <2>n
    <3> QED BY <2>n, <3>1, FS_Subset DEF MetadataOK, NodesOK, IDs
  <2>3. NodesOK(e)
    BY <2>1, <2>2 DEF MetadataOK, NodesOK
  <2>4. PoliciesOK(e) /\ UsersOK(e)
    BY <2>1 DEF MetadataOK, PoliciesOK, UsersOK, DatabasesOf
  <2>5. ASSUME NEW g \in DOMAIN d.groups
        PROVE  /\ IsGroup(gs[g]) /\ gs[g].db = d.groups[g].db /\ gs[g].rp = d.groups[g].rp
               /\ gs[g].start = d.groups[g].start /\ gs[g].end = d.groups[g].end
               /\ gs[g].deleted \in BOOLEAN /\ (d.groups[g].deleted => gs[g].deleted)
               /\ DOMAIN gs[g].shards = DOMAIN d.groups[g].shards /\ Owned(gs[g], IDs(nodes))
               /\ \A s \in DOMAIN d.groups[g].shards :
                     /\ d.groups[g].shards[s] \cap IDs(nodes) \subseteq gs[g].shards[s]
                     /\ gs[g].shards[s] \subseteq d.groups[g].shards[s]
                        \/ d.groups[g].shards[s] \cap IDs(nodes) = {}
    <3>1. /\ IsGroup(d.groups[g]) /\ d.groups[g].deleted \in BOOLEAN
          /\ Owned(d.groups[g], IDs(d.dataNodes)) /\ gs[g] \in RemoveOwner(d.groups[g], id)
      BY <2>g DEF MetadataOK, GroupsOK, GroupOK
    <3>2. PICK G, H, ids : G = d.groups[g] /\ H = gs[g] /\ ids = IDs(d.dataNodes)
      OBVIOUS
    <3>3. IsGroup(G) /\ G.deleted \in BOOLEAN /\ Owned(G, ids) /\ H \in RemoveOwner(G, id)
      BY <3>1, <3>2
    <3>4. /\ IsGroup(H) /\ H.db = G.db /\ H.rp = G.rp /\ H.start = G.start /\ H.end = G.end
          /\ H.deleted \in BOOLEAN /\ (G.deleted => H.deleted)
          /\ DOMAIN H.shards = DOMAIN G.shards /\ Owned(H, ids \ {id})
          /\ \A s \in DOMAIN G.shards :
                /\ G.shards[s] \cap (ids \ {id}) \subseteq H.shards[s]
                /\ H.shards[s] \subseteq G.shards[s] \/ G.shards[s] \cap (ids \ {id}) = {}
      BY <3>3, RemovedOwner
    <3>5. IDs(nodes) = ids \ {id}
      BY <2>2, <3>2
    <3> QED BY <3>2, <3>4, <3>5
  <2>6. GroupsOK(e)
    <3>1. ASSUME NEW g \in DOMAIN d.groups PROVE GroupOK(e, g)
      <4>1. GroupOK(d, g)
        BY DEF MetadataOK, GroupsOK
      <4>2. Aligned(gs[g], d.policies[<<gs[g].db, gs[g].rp>>])
        BY <2>5, <4>1 DEF GroupOK, Aligned
      <4>3. /\ IsGroup(gs[g]) /\ gs[g].deleted \in BOOLEAN /\ Owned(gs[g], IDs(nodes))
            /\ <<gs[g].db, gs[g].rp>> = <<d.groups[g].db, d.groups[g].rp>>
        BY <2>5
      <4>4. g \in 1 .. d.maxGroup /\ <<gs[g].db, gs[g].rp>> \in DOMAIN d.policies
        BY <4>1, <4>3 DEF GroupOK
      <4> QED BY <2>1, <4>2, <4>3, <4>4 DEF GroupOK
    <3>2. \A g, h \in DOMAIN d.groups : g # h => Apart(gs[g], gs[h])
      BY <2>5 DEF MetadataOK, GroupsOK, Apart
    <3> QED BY <2>g, <2>1, <3>1, <3>2 DEF MetadataOK, GroupsOK
  <2>7. NoIDAgain(d, e)
    <3>1. ShardsOf(e) \subseteq ShardsOf(d)
      BY <2>g, <2>1, <2>5 DEF ShardsOf
    <3>2. d.maxShard >= d.maxShard /\ d.maxGroup >= d.maxGroup
      BY DEF MetadataOK, GroupsOK
    <3> QED BY <2>g, <2>1, <2>5, <3>1, <3>2 DEF NoIDAgain
  <2>8. OwnersKept(d, e)
    BY <2>g, <2>1, <2>5 DEF OwnersKept
  <2> QED BY <2>1, <2>3, <2>4, <2>6, <2>7, <2>8 DEF Good, MetadataOK
<1> QED BY <1>1, <1>2

-----------------------------------------------------------------------------
(* Databases, policies and users *)

\* A command that changes databases, policies or users, and may drop groups with them.
LEMMA PoliciesGood ==
  ASSUME NEW d, MetadataOK(d), NEW e, IsMetadata(e), PoliciesOK(e), UsersOK(e),
         IsFunction(e.groups), DOMAIN e.groups \subseteq DOMAIN d.groups,
         e.index = d.index, e.dataNodes = d.dataNodes, e.metaNodes = d.metaNodes,
         e.maxNode = d.maxNode, e.maxGroup = d.maxGroup, e.maxShard = d.maxShard,
         \A g \in DOMAIN e.groups :
           LET k == <<d.groups[g].db, d.groups[g].rp>>
           IN  /\ e.groups[g] = d.groups[g] /\ k \in DOMAIN e.policies
               /\ e.policies[k].sgd = d.policies[k].sgd
  PROVE  Good(d, e)
<1>1. GroupsOK(e) /\ NoIDAgain(d, e) /\ OwnersKept(d, e)
  BY GroupsStay DEF MetadataOK
<1>2. NodesOK(e)
  BY DEF MetadataOK, NodesOK
<1> QED BY <1>1, <1>2 DEF Good, MetadataOK

LEMMA CreateRetentionPolicyGood ==
  ASSUME NEW d, MetadataOK(d), NEW db, NEW rp \in Policies, NEW p \in PolicyRecords
  PROVE  Good(d, CreateRetentionPolicy(d, db, rp, p))
<1>e. PICK e : e = CreateRetentionPolicy(d, db, rp, p)
  OBVIOUS
<1>1. CASE e = d
  BY <1>e, <1>1, SameIsGood
<1>2. CASE e # d
  <2>k. PICK k : k = <<db, rp>>
    OBVIOUS
  <2>1. /\ e = [d EXCEPT !.policies = Put(d.policies, k, p)]
        /\ db \in DatabasesOf(d) /\ k \notin DOMAIN d.policies
    BY <1>e, <1>2, <2>k DEF CreateRetentionPolicy
  <2>2. /\ IsMetadata(e) /\ e.policies = Put(d.policies, k, p)
        /\ e.dataNodes = d.dataNodes /\ e.groups = d.groups
        /\ e.metaNodes = d.metaNodes /\ e.maxNode = d.maxNode
        /\ e.index = d.index /\ e.defaults = d.defaults /\ e.maxGroup = d.maxGroup
        /\ e.maxShard = d.maxShard /\ e.users = d.users
    BY <2>1 DEF MetadataOK, IsMetadata
  <2>3. /\ DOMAIN e.policies = DOMAIN d.policies \cup {k} /\ e.policies[k] = p
        /\ \A x \in DOMAIN d.policies : e.policies[x] = d.policies[x]
    <3>1. PICK old, new : old = d.policies /\ new = Put(old, k, p)
      OBVIOUS
    <3>2. /\ DOMAIN new = DOMAIN old \cup {k} /\ new[k] = p
          /\ \A x \in DOMAIN old : x # k => new[x] = old[x]
      BY <3>1 DEF Put
    <3> QED BY <2>1, <2>2, <3>1, <3>2
  <2>4. PoliciesOK(e) /\ UsersOK(e)
    <3>1. k \in DatabasesOf(d) \X Policies
      BY <2>k, <2>1
    <3>2. DatabasesOf(e) = DatabasesOf(d)
      BY <2>2 DEF DatabasesOf
    <3> QED BY <2>2, <2>3, <3>1, <3>2 DEF MetadataOK, PoliciesOK, UsersOK
  <2> QED BY <1>e, <2>2, <2>3, <2>4, PoliciesGood DEF MetadataOK, GroupsOK, GroupOK
<1> QED BY <1>1, <1>2

LEMMA SetDefaultRetentionPolicyGood ==
  ASSUME NEW d, MetadataOK(d), NEW db, NEW rp \in Policies
  PROVE  Good(d, SetDefaultRetentionPolicy(d, db, rp))
<1>e. PICK e : e = SetDefaultRetentionPolicy(d, db, rp)
  OBVIOUS
<1>1. CASE e = d
  BY <1>e, <1>1, SameIsGood
<1>2. CASE e # d
  <2>f. PICK f : f = [d.defaults EXCEPT ![db] = rp]
    OBVIOUS
  <2>1. e = [d EXCEPT !.defaults = f]
    BY <1>e, <1>2, <2>f DEF SetDefaultRetentionPolicy
  <2>2. /\ IsMetadata(e) /\ e.defaults = f
        /\ e.dataNodes = d.dataNodes /\ e.groups = d.groups
        /\ e.metaNodes = d.metaNodes /\ e.maxNode = d.maxNode
        /\ e.index = d.index /\ e.policies = d.policies /\ e.maxGroup = d.maxGroup
        /\ e.maxShard = d.maxShard /\ e.users = d.users
    BY <2>1 DEF MetadataOK, IsMetadata
  <2>3. /\ IsFunction(f) /\ DOMAIN f = DOMAIN d.defaults
        /\ \A x \in DOMAIN f : f[x] = rp \/ f[x] = d.defaults[x]
    BY <2>f DEF MetadataOK, PoliciesOK, IsFunction
  <2>4. DatabasesOf(e) = DatabasesOf(d)
    BY <2>2, <2>3 DEF DatabasesOf
  <2>5. PoliciesOK(e) /\ UsersOK(e)
    BY <2>2, <2>3, <2>4 DEF MetadataOK, PoliciesOK, UsersOK, DatabasesOf
  <2> QED BY <1>e, <2>2, <2>5, PoliciesGood DEF MetadataOK, GroupsOK, GroupOK
<1> QED BY <1>1, <1>2

LEMMA CreateDatabaseWithGood ==
  ASSUME NEW d, MetadataOK(d), NEW db \in Databases, NEW rp \in Policies, NEW p \in PolicyRecords
  PROVE  Good(d, CreateDatabaseWith(d, db, rp, p))
<1>f. PICK old, f : old = d.defaults /\ f = IF db \in DOMAIN old THEN old ELSE Put(old, db, NoPolicy)
  OBVIOUS
<1>m. PICK made : made = [d EXCEPT !.defaults = f]
  OBVIOUS
<1>w. PICK with : with = CreateRetentionPolicy(made, db, rp, p)
  OBVIOUS
<1>e. PICK e : e = CreateDatabaseWith(d, db, rp, p)
  OBVIOUS
<1>1. e = d \/ (Valid(p) /\ e = SetDefaultRetentionPolicy(with, db, rp))
  BY <1>f, <1>m, <1>w, <1>e DEF CreateDatabaseWith, WithDatabase
<1>2. CASE e = d
  BY <1>e, <1>2, SameIsGood
<1>3. CASE Valid(p) /\ e = SetDefaultRetentionPolicy(with, db, rp)
  <2>k. PICK k, ps : k = <<db, rp>> /\ ps = d.policies
    OBVIOUS
  <2>1. /\ IsFunction(f) /\ DOMAIN f = DOMAIN old \cup {db}
        /\ \A x \in DOMAIN old : x # db => f[x] = old[x]
    <3>1. CASE db \in DOMAIN old
      BY <1>f, <3>1 DEF MetadataOK, PoliciesOK
    <3>2. CASE db \notin DOMAIN old
      BY <1>f, <3>2 DEF Put, IsFunction
    <3> QED BY <3>1, <3>2
  <2>2. /\ IsMetadata(made) /\ made.defaults = f
        /\ made.dataNodes = d.dataNodes /\ made.groups = d.groups
        /\ made.metaNodes = d.metaNodes /\ made.maxNode = d.maxNode
        /\ made.index = d.index /\ made.policies = ps /\ made.maxGroup = d.maxGroup
        /\ made.maxShard = d.maxShard /\ made.users = d.users
    BY <1>m, <2>k DEF MetadataOK, IsMetadata
  <2>q. PICK qs : qs = IF k \in DOMAIN ps THEN ps ELSE Put(ps, k, p)
    OBVIOUS
  <2>3. with = made \/ with = [made EXCEPT !.policies = qs]
    BY <1>w, <2>k, <2>2, <2>q DEF CreateRetentionPolicy
  <2>4. with.policies = qs
    <3>1. db \in DatabasesOf(made)
      BY <2>1, <2>2 DEF DatabasesOf
    <3>2. CASE k \in DOMAIN ps
      BY <1>w, <2>k, <2>2, <2>q, <3>2 DEF CreateRetentionPolicy
    <3>3. CASE k \notin DOMAIN ps
      <4>1. with = [made EXCEPT !.policies = qs]
        BY <1>w, <1>3, <2>k, <2>2, <2>q, <3>1, <3>3 DEF CreateRetentionPolicy
      <4> QED BY <2>2, <4>1 DEF IsMetadata
    <3> QED BY <3>2, <3>3
  <2>5. /\ IsMetadata(with) /\ with.defaults = f
        /\ with.dataNodes = d.dataNodes /\ with.groups = d.groups
        /\ with.metaNodes = d.metaNodes /\ with.maxNode = d.maxNode
        /\ with.index = d.index /\ with.maxGroup = d.maxGroup
        /\ with.maxShard = d.maxShard /\ with.users = d.users
    BY <2>2, <2>3 DEF IsMetadata
  <2>6. /\ DOMAIN qs = DOMAIN ps \cup {k} /\ (k \notin DOMAIN ps => qs[k] = p)
        /\ \A x \in DOMAIN ps : qs[x] = ps[x]
    <3>1. CASE k \in DOMAIN ps
      BY <2>q, <3>1
    <3>2. CASE k \notin DOMAIN ps
      BY <2>q, <3>2 DEF Put
    <3> QED BY <3>1, <3>2
  <2>g. PICK new : new = [f EXCEPT ![db] = rp]
    OBVIOUS
  <2>7. e = [with EXCEPT !.defaults = new]
    BY <1>3, <2>k, <2>g, <2>4, <2>5, <2>6 DEF SetDefaultRetentionPolicy
  <2>8. /\ IsMetadata(e) /\ e.defaults = new
        /\ e.dataNodes = d.dataNodes /\ e.groups = d.groups
        /\ e.metaNodes = d.metaNodes /\ e.maxNode = d.maxNode
        /\ e.index = d.index /\ e.policies = qs /\ e.maxGroup = d.maxGroup
        /\ e.maxShard = d.maxShard /\ e.users = d.users
    BY <2>4, <2>5, <2>7 DEF IsMetadata
  <2>9. /\ IsFunction(new) /\ DOMAIN new = DOMAIN old \cup {db} /\ new[db] = rp
        /\ \A x \in DOMAIN old : x # db => new[x] = old[x]
    BY <2>1, <2>g DEF IsFunction
  <2>10. DatabasesOf(e) = DatabasesOf(d) \cup {db}
    BY <1>f, <2>8, <2>9 DEF DatabasesOf
  <2>11. PoliciesOK(e)
    <3>1. /\ IsFunction(e.defaults) /\ DatabasesOf(e) \subseteq Databases
          /\ \A x \in DatabasesOf(e) : e.defaults[x] \in Policies \cup {NoPolicy}
      BY <1>f, <2>8, <2>9, <2>10 DEF MetadataOK, PoliciesOK, DatabasesOf
    <3>2. k \in DatabasesOf(e) \X Policies
      BY <2>k, <2>10
    <3>3. ASSUME NEW x \in DOMAIN qs
          PROVE  x \in DatabasesOf(e) \X Policies /\ qs[x] \in PolicyRecords
      <4>1. CASE x \in DOMAIN ps
        <5>1. x \in DatabasesOf(d) \X Policies /\ ps[x] \in PolicyRecords
          BY <2>k, <4>1 DEF MetadataOK, PoliciesOK
        <5> QED BY <2>6, <2>10, <4>1, <5>1
      <4>2. CASE x \notin DOMAIN ps
        BY <2>6, <3>2, <4>2
      <4> QED BY <4>1, <4>2
    <3> QED BY <2>8, <3>1, <3>3 DEF PoliciesOK
  <2>12. UsersOK(e)
    BY <2>8, <2>10 DEF MetadataOK, UsersOK
  <2>13. \A g \in DOMAIN e.groups :
           LET x == <<d.groups[g].db, d.groups[g].rp>>
           IN  x \in DOMAIN e.policies /\ e.policies[x].sgd = d.policies[x].sgd
    BY <2>k, <2>6, <2>8 DEF MetadataOK, GroupsOK, GroupOK
  <2> QED BY <1>e, <2>8, <2>11, <2>12, <2>13, PoliciesGood DEF MetadataOK, GroupsOK
<1> QED BY <1>1, <1>2, <1>3

LEMMA WithDatabaseGood ==
  ASSUME NEW d, MetadataOK(d), NEW db \in Databases
  PROVE  Good(d, WithDatabase(d, db))
<1>f. PICK old, f : old = d.defaults /\ f = IF db \in DOMAIN old THEN old ELSE Put(old, db, NoPolicy)
  OBVIOUS
<1>e. PICK e : e = WithDatabase(d, db)
  OBVIOUS
<1>1. e = [d EXCEPT !.defaults = f]
  BY <1>f, <1>e DEF WithDatabase
<1>2. /\ IsMetadata(e) /\ e.defaults = f
      /\ e.dataNodes = d.dataNodes /\ e.groups = d.groups
      /\ e.metaNodes = d.metaNodes /\ e.maxNode = d.maxNode
      /\ e.index = d.index /\ e.policies = d.policies /\ e.maxGroup = d.maxGroup
      /\ e.maxShard = d.maxShard /\ e.users = d.users
  BY <1>1 DEF MetadataOK, IsMetadata
<1>3. /\ IsFunction(f) /\ DOMAIN f = DOMAIN old \cup {db}
      /\ \A x \in DOMAIN f : f[x] = NoPolicy \/ (x \in DOMAIN old /\ f[x] = old[x])
  <2>1. CASE db \in DOMAIN old
    BY <1>f, <2>1 DEF MetadataOK, PoliciesOK
  <2>2. CASE db \notin DOMAIN old
    BY <1>f, <2>2 DEF Put, IsFunction
  <2> QED BY <2>1, <2>2
<1>4. DatabasesOf(e) = DatabasesOf(d) \cup {db}
  BY <1>f, <1>2, <1>3 DEF DatabasesOf
<1>5. PoliciesOK(e)
  <2>1. \A x \in DatabasesOf(e) : e.defaults[x] \in Policies \cup {NoPolicy}
    BY <1>f, <1>2, <1>3 DEF MetadataOK, PoliciesOK, DatabasesOf
  <2>2. \A k \in DOMAIN d.policies : k \in DatabasesOf(e) \X Policies
    BY <1>4 DEF MetadataOK, PoliciesOK
  <2> QED BY <1>2, <1>3, <1>4, <2>1, <2>2 DEF MetadataOK, PoliciesOK
<1>6. UsersOK(e)
  BY <1>2, <1>4 DEF MetadataOK, UsersOK
<1> QED BY <1>e, <1>2, <1>5, <1>6, PoliciesGood DEF MetadataOK, GroupsOK, GroupOK

LEMMA CreateDatabaseGood ==
  ASSUME NEW d, MetadataOK(d), NEW db \in Databases, NEW auto \in BOOLEAN
  PROVE  Good(d, CreateDatabase(d, db, auto))
<1>1. [replicaN |-> 1, duration |-> 0, sgd |-> AutoSGD] \in PolicyRecords
  BY MetaDataAssumption DEF PolicyRecords
<1>2. CASE auto
  BY <1>1, <1>2, CreateDatabaseWithGood, MetaStoreAssumption DEF CreateDatabase
<1>3. CASE ~auto
  BY <1>3, WithDatabaseGood DEF CreateDatabase
<1> QED BY <1>2, <1>3

LEMMA DropDatabaseGood ==
  ASSUME NEW d, MetadataOK(d), NEW db
  PROVE  Good(d, DropDatabase(d, db))
<1>e. PICK e : e = DropDatabase(d, db)
  OBVIOUS
<1>n. PICK f, ps, gs, us :
        /\ f = Without(d.defaults, {db})
        /\ ps = Without(d.policies, {k \in DOMAIN d.policies : k[1] = db})
        /\ gs = Without(d.groups, {g \in DOMAIN d.groups : d.groups[g].db = db})
        /\ us = [u \in DOMAIN d.users |-> d.users[u] \ {db}]
  OBVIOUS
<1>1. e = [d EXCEPT !.defaults = f, !.policies = ps, !.groups = gs, !.users = us]
  BY <1>e, <1>n DEF DropDatabase
<1>2. /\ IsMetadata(e) /\ e.defaults = f /\ e.policies = ps /\ e.groups = gs /\ e.users = us
      /\ e.dataNodes = d.dataNodes /\ e.metaNodes = d.metaNodes /\ e.maxNode = d.maxNode
      /\ e.index = d.index /\ e.maxGroup = d.maxGroup /\ e.maxShard = d.maxShard
  BY <1>1 DEF MetadataOK, IsMetadata
<1>3. /\ IsFunction(f) /\ DOMAIN f = DOMAIN d.defaults \ {db}
      /\ \A x \in DOMAIN f : f[x] = d.defaults[x]
  BY <1>n DEF Without, Restrict, IsFunction
<1>4. /\ DOMAIN ps = {k \in DOMAIN d.policies : k[1] # db}
      /\ \A x \in DOMAIN ps : ps[x] = d.policies[x]
  BY <1>n DEF Without, Restrict
<1>5. /\ IsFunction(gs) /\ DOMAIN gs = {g \in DOMAIN d.groups : d.groups[g].db # db}
      /\ \A g \in DOMAIN gs : gs[g] = d.groups[g]
  BY <1>n DEF Without, Restrict, IsFunction
<1>6. DatabasesOf(e) = DatabasesOf(d) \ {db}
  BY <1>2, <1>3 DEF DatabasesOf
<1>7. PoliciesOK(e)
  <2>1. /\ IsFunction(e.defaults) /\ DatabasesOf(e) \subseteq Databases
        /\ \A x \in DatabasesOf(e) : e.defaults[x] \in Policies \cup {NoPolicy}
    BY <1>2, <1>3, <1>6 DEF MetadataOK, PoliciesOK, DatabasesOf
  <2>2. ASSUME NEW k \in DOMAIN ps
        PROVE  k \in DatabasesOf(e) \X Policies /\ ps[k] \in PolicyRecords
    <3>1. k \in DatabasesOf(d) \X Policies /\ d.policies[k] \in PolicyRecords /\ k[1] # db
      BY <1>4 DEF MetadataOK, PoliciesOK
    <3> QED BY <1>4, <1>6, <3>1
  <2> QED BY <1>2, <2>1, <2>2 DEF PoliciesOK
<1>8. UsersOK(e)
  <2>1. IsFunction(us) /\ DOMAIN us = DOMAIN d.users /\ \A u \in DOMAIN us : us[u] = d.users[u] \ {db}
    BY <1>n DEF IsFunction
  <2> QED BY <1>2, <1>6, <2>1 DEF MetadataOK, UsersOK
<1>9. ASSUME NEW g \in DOMAIN gs
      PROVE  LET k == <<d.groups[g].db, d.groups[g].rp>>
             IN  gs[g] = d.groups[g] /\ k \in DOMAIN ps /\ ps[k].sgd = d.policies[k].sgd
  <2>1. <<d.groups[g].db, d.groups[g].rp>> \in DOMAIN d.policies /\ d.groups[g].db # db
    BY <1>5 DEF MetadataOK, GroupsOK, GroupOK
  <2>2. <<d.groups[g].db, d.groups[g].rp>>[1] # db
    BY <2>1
  <2> QED BY <1>4, <1>5, <2>1, <2>2
<1> QED BY <1>e, <1>2, <1>5, <1>7, <1>8, <1>9, PoliciesGood

LEMMA DropRetentionPolicyGood ==
  ASSUME NEW d, MetadataOK(d), NEW db, NEW rp
  PROVE  Good(d, DropRetentionPolicy(d, db, rp))
<1>e. PICK e : e = DropRetentionPolicy(d, db, rp)
  OBVIOUS
<1>n. PICK ps, gs : /\ ps = Without(d.policies, {<<db, rp>>})
                    /\ gs = Without(d.groups, GroupsOf(d, db, rp))
  OBVIOUS
<1>1. e = [d EXCEPT !.policies = ps, !.groups = gs]
  BY <1>e, <1>n DEF DropRetentionPolicy
<1>2. /\ IsMetadata(e) /\ e.policies = ps /\ e.groups = gs
      /\ e.defaults = d.defaults /\ e.users = d.users
      /\ e.dataNodes = d.dataNodes /\ e.metaNodes = d.metaNodes /\ e.maxNode = d.maxNode
      /\ e.index = d.index /\ e.maxGroup = d.maxGroup /\ e.maxShard = d.maxShard
  BY <1>1 DEF MetadataOK, IsMetadata
<1>3. DOMAIN ps = DOMAIN d.policies \ {<<db, rp>>} /\ \A x \in DOMAIN ps : ps[x] = d.policies[x]
  BY <1>n DEF Without, Restrict
<1>4. /\ IsFunction(gs) /\ DOMAIN gs = DOMAIN d.groups \ GroupsOf(d, db, rp)
      /\ \A g \in DOMAIN gs : gs[g] = d.groups[g]
  BY <1>n DEF Without, Restrict, IsFunction
<1>5. DatabasesOf(e) = DatabasesOf(d)
  BY <1>2 DEF DatabasesOf
<1>6. PoliciesOK(e) /\ UsersOK(e)
  BY <1>2, <1>3, <1>5 DEF MetadataOK, PoliciesOK, UsersOK
<1>7. ASSUME NEW g \in DOMAIN gs
      PROVE  LET k == <<d.groups[g].db, d.groups[g].rp>>
             IN  gs[g] = d.groups[g] /\ k \in DOMAIN ps /\ ps[k].sgd = d.policies[k].sgd
  <2>1. <<d.groups[g].db, d.groups[g].rp>> \in DOMAIN d.policies
    BY <1>4 DEF MetadataOK, GroupsOK, GroupOK
  <2>2. <<d.groups[g].db, d.groups[g].rp>> # <<db, rp>>
    BY <1>4 DEF GroupsOf
  <2> QED BY <1>3, <1>4, <2>1, <2>2
<1> QED BY <1>e, <1>2, <1>4, <1>6, <1>7, PoliciesGood

\* The groups of a policy that is renamed move with it, and nobody else's groups are there.
LEMMA UpdateRetentionPolicyGood ==
  ASSUME NEW d, MetadataOK(d), NEW db, NEW rp, NEW name \in Policies,
         NEW duration \in Nat, NEW replicaN \in Nat
  PROVE  Good(d, UpdateRetentionPolicy(d, db, rp, name, duration, replicaN))
<1>e. PICK e : e = UpdateRetentionPolicy(d, db, rp, name, duration, replicaN)
  OBVIOUS
<1>k. PICK old, to, ps : old = <<db, rp>> /\ to = <<db, name>> /\ ps = d.policies
  OBVIOUS
<1>p. PICK new : new = Updated(ps[old], duration, replicaN)
  OBVIOUS
<1>1. CASE ~UpdateAllowed(d, db, rp, name, new)
  <2>1. e = d
    BY <1>1, <1>e, <1>k, <1>p DEF UpdateRetentionPolicy
  <2> QED BY <1>e, <2>1, SameIsGood
<1>2. CASE UpdateAllowed(d, db, rp, name, new)
  <2>n. PICK qs, gs :
          /\ qs = Put(Without(ps, {old}), to, new)
          /\ gs = [g \in DOMAIN d.groups |->
                     IF g \in GroupsOf(d, db, rp) THEN [d.groups[g] EXCEPT !.rp = name] ELSE d.groups[g]]
    OBVIOUS
  <2>1. e = [d EXCEPT !.policies = qs, !.groups = gs]
    BY <1>2, <1>e, <1>k, <1>p, <2>n DEF UpdateRetentionPolicy
  <2>2. /\ IsMetadata(e) /\ e.policies = qs /\ e.groups = gs
        /\ e.defaults = d.defaults /\ e.users = d.users
        /\ e.dataNodes = d.dataNodes /\ e.metaNodes = d.metaNodes /\ e.maxNode = d.maxNode
        /\ e.index = d.index /\ e.maxGroup = d.maxGroup /\ e.maxShard = d.maxShard
    BY <2>1 DEF MetadataOK, IsMetadata
  <2>3. /\ old \in DOMAIN ps /\ (to # old => to \notin DOMAIN ps)
        /\ old \in DatabasesOf(d) \X Policies /\ ps[old] \in PolicyRecords
    BY <1>2, <1>k DEF UpdateAllowed, MetadataOK, PoliciesOK
  <2>4. new \in PolicyRecords /\ new.sgd = ps[old].sgd
    BY <1>p, <2>3 DEF Updated, PolicyRecords
  <2>5. /\ DOMAIN qs = (DOMAIN ps \ {old}) \cup {to} /\ qs[to] = new
        /\ \A x \in DOMAIN ps : x # old /\ x # to => qs[x] = ps[x]
    BY <2>n DEF Put, Without, Restrict
  <2>6. DatabasesOf(e) = DatabasesOf(d) /\ to \in DatabasesOf(d) \X Policies
    BY <1>k, <2>2, <2>3 DEF DatabasesOf
  <2>7. PoliciesOK(e)
    <3>1. /\ IsFunction(e.defaults) /\ DatabasesOf(e) \subseteq Databases
          /\ \A x \in DatabasesOf(e) : e.defaults[x] \in Policies \cup {NoPolicy}
      BY <2>2, <2>6 DEF MetadataOK, PoliciesOK
    <3>2. ASSUME NEW x \in DOMAIN qs
          PROVE  x \in DatabasesOf(d) \X Policies /\ qs[x] \in PolicyRecords
      <4>1. CASE x = to
        BY <2>4, <2>5, <2>6, <4>1
      <4>2. CASE x # to
        <5>1. x \in DOMAIN ps /\ x # old
          BY <2>5, <4>2
        <5>2. x \in DatabasesOf(d) \X Policies /\ ps[x] \in PolicyRecords
          BY <1>k, <5>1 DEF MetadataOK, PoliciesOK
        <5> QED BY <2>5, <4>2, <5>1, <5>2
      <4> QED BY <4>1, <4>2
    <3> QED BY <2>2, <2>6, <3>1, <3>2 DEF PoliciesOK
  <2>8. UsersOK(e) /\ NodesOK(e)
    BY <2>2, <2>6 DEF MetadataOK, UsersOK, NodesOK
  <2>9. ASSUME NEW g \in DOMAIN d.groups
        PROVE  /\ g \in DOMAIN gs /\ IsGroup(gs[g]) /\ gs[g].db = d.groups[g].db
               /\ gs[g].start = d.groups[g].start /\ gs[g].end = d.groups[g].end
               /\ gs[g].deleted = d.groups[g].deleted /\ gs[g].shards = d.groups[g].shards
               /\ <<d.groups[g].db, d.groups[g].rp>> = old => <<gs[g].db, gs[g].rp>> = to
               /\ <<d.groups[g].db, d.groups[g].rp>> # old =>
                     <<gs[g].db, gs[g].rp>> = <<d.groups[g].db, d.groups[g].rp>>
    <3>1. IsGroup(d.groups[g])
      BY DEF MetadataOK, GroupsOK, GroupOK
    <3>2. CASE g \in GroupsOf(d, db, rp)
      <4>1. gs[g] = [d.groups[g] EXCEPT !.rp = name] /\ d.groups[g].db = db /\ d.groups[g].rp = rp
        BY <2>n, <3>2 DEF GroupsOf
      <4>2. PICK G : G = d.groups[g]
        OBVIOUS
      <4>3. /\ IsGroup([G EXCEPT !.rp = name])
            /\ [G EXCEPT !.rp = name].db = G.db /\ [G EXCEPT !.rp = name].rp = name
            /\ [G EXCEPT !.rp = name].start = G.start /\ [G EXCEPT !.rp = name].end = G.end
            /\ [G EXCEPT !.rp = name].deleted = G.deleted /\ [G EXCEPT !.rp = name].shards = G.shards
        BY <3>1, <4>2 DEF IsGroup
      <4> QED BY <1>k, <2>n, <4>1, <4>2, <4>3
    <3>3. CASE g \notin GroupsOf(d, db, rp)
      <4>1. gs[g] = d.groups[g] /\ g \in DOMAIN gs
        BY <2>n, <3>3
      <4>2. <<d.groups[g].db, d.groups[g].rp>> # old
        BY <1>k, <3>3 DEF GroupsOf
      <4> QED BY <3>1, <4>1, <4>2
    <3> QED BY <3>2, <3>3
  <2>10. DOMAIN gs = DOMAIN d.groups /\ IsFunction(gs)
    BY <2>n DEF IsFunction
  <2>11. ASSUME NEW g \in DOMAIN d.groups
         PROVE  /\ <<gs[g].db, gs[g].rp>> \in DOMAIN qs
                /\ qs[<<gs[g].db, gs[g].rp>>].sgd = ps[<<d.groups[g].db, d.groups[g].rp>>].sgd
    <3>1. <<d.groups[g].db, d.groups[g].rp>> \in DOMAIN ps
      BY <1>k DEF MetadataOK, GroupsOK, GroupOK
    <3>2. CASE <<d.groups[g].db, d.groups[g].rp>> = old
      BY <2>4, <2>5, <2>9, <3>2
    <3>3. CASE <<d.groups[g].db, d.groups[g].rp>> # old
      <4>1. <<d.groups[g].db, d.groups[g].rp>> # to
        BY <2>3, <3>1, <3>3
      <4> QED BY <2>5, <2>9, <3>1, <3>3, <4>1
    <3> QED BY <3>2, <3>3
  <2>12. GroupsOK(e)
    <3>1. ASSUME NEW g \in DOMAIN d.groups PROVE GroupOK(e, g)
      <4>1. GroupOK(d, g)
        BY DEF MetadataOK, GroupsOK
      <4>2. Aligned(gs[g], qs[<<gs[g].db, gs[g].rp>>])
        BY <1>k, <2>9, <2>11, <4>1 DEF GroupOK, Aligned
      <4>3. Owned(gs[g], IDs(d.dataNodes))
        BY <2>9, <4>1 DEF GroupOK, Owned
      <4>4. gs[g].deleted \in BOOLEAN /\ IsGroup(gs[g]) /\ <<gs[g].db, gs[g].rp>> \in DOMAIN qs
        BY <2>9, <2>11, <4>1 DEF GroupOK
      <4>5. g \in 1 .. d.maxGroup
        BY <4>1 DEF GroupOK
      <4> QED BY <2>2, <4>2, <4>3, <4>4, <4>5 DEF GroupOK
    <3>2. ASSUME NEW g \in DOMAIN d.groups, NEW h \in DOMAIN d.groups, g # h
          PROVE  Apart(gs[g], gs[h])
      <4>1. Apart(d.groups[g], d.groups[h])
        BY <3>2 DEF MetadataOK, GroupsOK
      <4>2. /\ <<d.groups[g].db, d.groups[g].rp>> \in DOMAIN ps
            /\ <<d.groups[h].db, d.groups[h].rp>> \in DOMAIN ps
        BY <1>k DEF MetadataOK, GroupsOK, GroupOK
      <4>3. <<gs[g].db, gs[g].rp>> = <<gs[h].db, gs[h].rp>> =>
              <<d.groups[g].db, d.groups[g].rp>> = <<d.groups[h].db, d.groups[h].rp>>
        BY <2>3, <2>9, <4>2
      <4> QED BY <2>9, <4>1, <4>3 DEF Apart
    <3> QED BY <2>2, <2>10, <3>1, <3>2 DEF MetadataOK, GroupsOK
  <2>13. NoIDAgain(d, e) /\ OwnersKept(d, e)
    <3>1. ShardsOf(e) \subseteq ShardsOf(d)
      BY <2>2, <2>9, <2>10 DEF ShardsOf
    <3>2. d.maxShard >= d.maxShard /\ d.maxGroup >= d.maxGroup
      BY DEF MetadataOK, GroupsOK
    <3>3. NoIDAgain(d, e)
      BY <2>2, <2>9, <2>10, <3>1, <3>2 DEF NoIDAgain
    <3>4. OwnersKept(d, e)
      BY <2>2, <2>9, <2>10 DEF OwnersKept
    <3> QED BY <3>3, <3>4
  <2> QED BY <1>e, <2>2, <2>7, <2>8, <2>12, <2>13 DEF Good, MetadataOK
<1> QED BY <1>1, <1>2

\* A command that changes users only.
LEMMA UsersGood ==
  ASSUME NEW d, MetadataOK(d), NEW us, IsFunction(us), DOMAIN us \subseteq Users,
         \A u \in DOMAIN us : us[u] \subseteq DatabasesOf(d)
  PROVE  Good(d, [d EXCEPT !.users = us])
<1>e. PICK e : e = [d EXCEPT !.users = us]
  OBVIOUS
<1>1. /\ IsMetadata(e) /\ e.users = us
      /\ e.dataNodes = d.dataNodes /\ e.groups = d.groups
      /\ e.metaNodes = d.metaNodes /\ e.maxNode = d.maxNode
      /\ e.index = d.index /\ e.defaults = d.defaults /\ e.policies = d.policies
      /\ e.maxGroup = d.maxGroup /\ e.maxShard = d.maxShard
  BY <1>e DEF MetadataOK, IsMetadata
<1>2. DatabasesOf(e) = DatabasesOf(d)
  BY <1>1 DEF DatabasesOf
<1>3. PoliciesOK(e) /\ UsersOK(e)
  BY <1>1, <1>2 DEF MetadataOK, PoliciesOK, UsersOK
<1> QED BY <1>e, <1>1, <1>3, PoliciesGood DEF MetadataOK, GroupsOK, GroupOK

LEMMA CreateUserGood ==
  ASSUME NEW d, MetadataOK(d), NEW u \in Users
  PROVE  Good(d, CreateUser(d, u))
<1>1. CASE u \in DOMAIN d.users
  BY <1>1, SameIsGood DEF CreateUser
<1>2. CASE u \notin DOMAIN d.users
  <2>1. PICK old, new : old = d.users /\ new = Put(old, u, {})
    OBVIOUS
  <2>2. /\ IsFunction(new) /\ DOMAIN new = DOMAIN old \cup {u} /\ new[u] = {}
        /\ \A x \in DOMAIN old : x # u => new[x] = old[x]
    BY <2>1 DEF Put, IsFunction
  <2>3. DOMAIN new \subseteq Users /\ \A x \in DOMAIN new : new[x] \subseteq DatabasesOf(d)
    BY <2>1, <2>2 DEF MetadataOK, UsersOK
  <2>4. CreateUser(d, u) = [d EXCEPT !.users = new]
    BY <1>2, <2>1 DEF CreateUser
  <2> QED BY <2>2, <2>3, <2>4, UsersGood
<1> QED BY <1>1, <1>2

LEMMA DropUserGood ==
  ASSUME NEW d, MetadataOK(d), NEW u
  PROVE  Good(d, DropUser(d, u))
<1>1. PICK old, new : old = d.users /\ new = Without(old, {u})
  OBVIOUS
<1>2. /\ IsFunction(new) /\ DOMAIN new = DOMAIN old \ {u}
      /\ \A x \in DOMAIN new : new[x] = old[x]
  BY <1>1 DEF Without, Restrict, IsFunction
<1>3. DOMAIN new \subseteq Users /\ \A x \in DOMAIN new : new[x] \subseteq DatabasesOf(d)
  BY <1>1, <1>2 DEF MetadataOK, UsersOK
<1>4. DropUser(d, u) = [d EXCEPT !.users = new]
  BY <1>1 DEF DropUser
<1> QED BY <1>2, <1>3, <1>4, UsersGood

LEMMA SetPrivilegeGood ==
  ASSUME NEW d, MetadataOK(d), NEW u, NEW db
  PROVE  Good(d, SetPrivilege(d, u, db))
<1>1. CASE ~(u \in DOMAIN d.users /\ db \in DatabasesOf(d))
  BY <1>1, SameIsGood DEF SetPrivilege
<1>2. CASE u \in DOMAIN d.users /\ db \in DatabasesOf(d)
  <2>1. PICK old, new : old = d.users /\ new = [old EXCEPT ![u] = old[u] \cup {db}]
    OBVIOUS
  <2>2. /\ IsFunction(new) /\ DOMAIN new = DOMAIN old /\ new[u] = old[u] \cup {db}
        /\ \A x \in DOMAIN old : x # u => new[x] = old[x]
    BY <1>2, <2>1 DEF IsFunction
  <2>3. DOMAIN new \subseteq Users /\ \A x \in DOMAIN new : new[x] \subseteq DatabasesOf(d)
    BY <1>2, <2>1, <2>2 DEF MetadataOK, UsersOK
  <2>4. SetPrivilege(d, u, db) = [d EXCEPT !.users = new]
    BY <1>2, <2>1 DEF SetPrivilege
  <2> QED BY <2>2, <2>3, <2>4, UsersGood
<1> QED BY <1>1, <1>2

-----------------------------------------------------------------------------
(* Shard groups *)

LEMMA DeleteShardGroupGood ==
  ASSUME NEW d, MetadataOK(d), NEW db, NEW rp, NEW id
  PROVE  Good(d, DeleteShardGroup(d, db, rp, id))
<1>1. CASE id \notin GroupsOf(d, db, rp)
  BY <1>1, SameIsGood DEF DeleteShardGroup
<1>2. CASE id \in GroupsOf(d, db, rp)
  <2>e. PICK e : e = DeleteShardGroup(d, db, rp, id)
    OBVIOUS
  <2>o. PICK old, G : old = d.groups /\ G = [old[id] EXCEPT !.deleted = TRUE]
    OBVIOUS
  <2>g. PICK gs : gs = [old EXCEPT ![id] = G]
    OBVIOUS
  <2>1. e = [d EXCEPT !.groups = gs]
    BY <1>2, <2>e, <2>o, <2>g DEF DeleteShardGroup
  <2>2. /\ IsMetadata(e) /\ e.groups = gs
        /\ e.dataNodes = d.dataNodes /\ e.metaNodes = d.metaNodes /\ e.maxNode = d.maxNode
        /\ e.index = d.index /\ e.defaults = d.defaults /\ e.policies = d.policies
        /\ e.maxGroup = d.maxGroup /\ e.maxShard = d.maxShard /\ e.users = d.users
    BY <2>1 DEF MetadataOK, IsMetadata
  <2>3. IsFunction(gs) /\ DOMAIN gs = DOMAIN old
    BY <2>o, <2>g DEF MetadataOK, GroupsOK, IsFunction
  <2>4. id \in DOMAIN old /\ IsGroup(old[id])
    BY <1>2, <2>o DEF GroupsOf, MetadataOK, GroupsOK, GroupOK
  <2>5. /\ IsGroup(G) /\ G.deleted = TRUE
        /\ G.db = old[id].db /\ G.rp = old[id].rp /\ G.start = old[id].start
        /\ G.end = old[id].end /\ G.shards = old[id].shards
    BY <2>o, <2>4 DEF IsGroup
  <2>6. gs[id] = G /\ \A g \in DOMAIN old : g # id => gs[g] = old[g]
    BY <2>g, <2>3, <2>4
  <2>7. ASSUME NEW g \in DOMAIN old
        PROVE  /\ IsGroup(gs[g]) /\ gs[g].db = old[g].db /\ gs[g].rp = old[g].rp
               /\ gs[g].start = old[g].start /\ gs[g].end = old[g].end
               /\ gs[g].deleted \in BOOLEAN /\ (old[g].deleted => gs[g].deleted)
               /\ gs[g].shards = old[g].shards
    <3>1. IsGroup(old[g]) /\ old[g].deleted \in BOOLEAN
      BY <2>o DEF MetadataOK, GroupsOK, GroupOK
    <3>2. CASE g = id
      BY <2>5, <2>6, <3>2
    <3>3. CASE g # id
      BY <2>6, <3>1, <3>3
    <3> QED BY <3>2, <3>3
  <2>8. GroupsOK(e)
    <3>1. ASSUME NEW g \in DOMAIN old PROVE GroupOK(e, g)
      <4>1. GroupOK(d, g)
        BY <2>o DEF MetadataOK, GroupsOK
      <4>2. Aligned(gs[g], d.policies[<<gs[g].db, gs[g].rp>>])
        BY <2>o, <2>7, <4>1 DEF GroupOK, Aligned
      <4>3. Owned(gs[g], IDs(d.dataNodes))
        BY <2>o, <2>7, <4>1 DEF GroupOK, Owned
      <4>4. g \in 1 .. d.maxGroup /\ <<gs[g].db, gs[g].rp>> \in DOMAIN d.policies
        BY <2>o, <2>7, <4>1 DEF GroupOK
      <4> QED BY <2>2, <2>7, <4>2, <4>3, <4>4 DEF GroupOK
    <3>2. \A g, h \in DOMAIN old : g # h => Apart(gs[g], gs[h])
      BY <2>o, <2>7 DEF MetadataOK, GroupsOK, Apart
    <3> QED BY <2>2, <2>3, <3>1, <3>2 DEF MetadataOK, GroupsOK
  <2>9. NoIDAgain(d, e)
    <3>1. ShardsOf(e) \subseteq ShardsOf(d)
      BY <2>o, <2>2, <2>3, <2>7 DEF ShardsOf
    <3>2. d.maxShard >= d.maxShard /\ d.maxGroup >= d.maxGroup
      BY DEF MetadataOK, GroupsOK
    <3> QED BY <2>o, <2>2, <2>3, <2>7, <3>1, <3>2 DEF NoIDAgain
  <2>10. OwnersKept(d, e)
    BY <2>o, <2>2, <2>3, <2>7 DEF OwnersKept
  <2>11. PoliciesOK(e) /\ UsersOK(e) /\ NodesOK(e)
    BY <2>2 DEF MetadataOK, PoliciesOK, UsersOK, NodesOK, DatabasesOf
  <2> QED BY <2>e, <2>2, <2>8, <2>9, <2>10, <2>11 DEF Good, MetadataOK
<1> QED BY <1>1, <1>2

\* The next lemmas stand in for inductions over the natural numbers: a least
\* counterexample exists, and there is none.
LEMMA LeastNumber ==
  ASSUME NEW S \in SUBSET Nat, S # {}
  PROVE  \E x \in S : \A y \in S : x <= y
<1> DEFINE Less == {ss \in Nat \X Nat : ss[1] < ss[2]}
<1>1. IsWellFoundedOn(Less, Nat)
  BY NatLessThanWellFounded, Zenon DEF OpToRel
<1>2. \A x, y \in Nat : <<y, x>> \notin Less => x <= y
  OBVIOUS
<1> HIDE DEF Less
<1>3. PICK x \in S : \A y \in S : ~(<<y, x>> \in Less)
  BY <1>1, WFMin
<1> QED BY <1>2, <1>3

\* A set of n numbers has one that k of them are below, for every k less than n.
LEMMA RankExists ==
  ASSUME NEW S \in SUBSET Nat, IsFiniteSet(S), NEW k \in Nat, k < Cardinality(S)
  PROVE  \E i \in S : Cardinality({j \in S : j < i}) = k
<1> DEFINE Below(i) == {j \in S : j < i}
           Bad == {m \in Nat : m < Cardinality(S) /\ \A i \in S : Cardinality(Below(i)) # m}
<1>c. Cardinality(S) \in Nat
  BY FS_CardinalityType
<1> SUFFICES ASSUME Bad # {} PROVE FALSE
  OBVIOUS
<1>1. PICK m \in Bad : \A y \in Bad : m <= y
  <2>1. Bad \in SUBSET Nat
    OBVIOUS
  <2> HIDE DEF Bad
  <2> QED BY <2>1, LeastNumber
<1>2. m \in Nat /\ m < Cardinality(S) /\ \A i \in S : Cardinality(Below(i)) # m
  OBVIOUS
<1>3. CASE m = 0
  <2>1. S # {}
    BY <1>2, <1>3, FS_EmptySet
  <2>2. PICK i \in S : \A y \in S : i <= y
    BY <2>1, LeastNumber
  <2>3. Below(i) = {}
    <3>1. \A y \in S : ~(y < i)
      BY <2>2
    <3> QED BY <3>1
  <2> QED BY <1>2, <1>3, <2>3, FS_EmptySet
<1>4. CASE m # 0
  <2>1. m - 1 \in Nat /\ m - 1 < Cardinality(S) /\ ~(m <= m - 1)
    BY <1>c, <1>2, <1>4
  <2>2. m - 1 \notin Bad
    BY <1>1, <2>1
  <2>3. PICK i \in S : Cardinality(Below(i)) = m - 1
    BY <2>1, <2>2
  <2>t. PICK T : T = Below(i) \cup {i}
    OBVIOUS
  <2>4. IsFiniteSet(Below(i)) /\ i \notin Below(i)
    <3>1. Below(i) \in SUBSET S
      OBVIOUS
    <3> QED BY <3>1, FS_Subset
  <2>b. PICK B : B = Below(i)
    OBVIOUS
  <2>5. Cardinality(T) = (m - 1) + 1
    <3>1. IsFiniteSet(B) /\ i \notin B /\ T = B \cup {i} /\ Cardinality(B) = m - 1
      BY <2>t, <2>b, <2>3, <2>4
    <3> QED BY <3>1, FS_AddElement
  <2>6. Cardinality(T) = m
    BY <1>2, <2>5
  <2>7. T \in SUBSET S /\ T # S
    BY <1>2, <2>t, <2>6, <1>c
  <2>8. PICK x \in S \ T : \A y \in S \ T : x <= y
    <3>1. S \ T \in SUBSET Nat /\ S \ T # {}
      BY <2>7
    <3> QED BY <3>1, LeastNumber
  <2>9. i < x
    BY <2>t, <2>8
  <2>10. Below(x) = T
    <3>1. ASSUME NEW j \in S, j < x PROVE j \in T
      BY <2>8, <3>1
    <3>2. ASSUME NEW j \in T PROVE j \in S /\ j < x
      BY <2>t, <2>7, <2>9
    <3> QED BY <3>1, <3>2
  <2> QED BY <1>2, <2>6, <2>8, <2>10
<1> QED BY <1>3, <1>4

\* Data nodes have different IDs, so there are as many IDs as nodes.
LEMMA AsManyIDs ==
  ASSUME NEW d, NodesOK(d), UniqueIDs(d.dataNodes)
  PROVE  /\ IDs(d.dataNodes) \in SUBSET Nat /\ IsFiniteSet(IDs(d.dataNodes))
         /\ Cardinality(IDs(d.dataNodes)) = Cardinality(d.dataNodes)
         /\ Cardinality(d.dataNodes) \in Nat
<1>n. PICK nodes, ids : nodes = d.dataNodes /\ ids = IDs(nodes)
  OBVIOUS
<1>1. /\ nodes \subseteq [id : Nat \ {0}, addr : DataAddrs] /\ IsFiniteSet(nodes)
      /\ \A x, y \in nodes : x.id = y.id => x = y
  BY <1>n DEF NodesOK, UniqueIDs
<1>f. PICK f : f = [x \in nodes |-> x.id]
  OBVIOUS
<1>2. f \in [nodes -> ids] /\ (\A x, y \in nodes : f[x] = f[y] => x = y)
      /\ \A i \in ids : \E x \in nodes : f[x] = i
  BY <1>n, <1>1, <1>f DEF IDs
<1>3. f \in Surjection(nodes, ids) /\ f \in Injection(nodes, ids)
  BY <1>2 DEF Surjection, Injection, IsInjective
<1>4. IsFiniteSet(ids) /\ Cardinality(ids) = Cardinality(nodes)
  BY <1>1, <1>3, FS_Surjection
<1>5. ids \in SUBSET Nat
  BY <1>n, <1>1 DEF IDs
<1> QED BY <1>n, <1>1, <1>4, <1>5, FS_CardinalityType

\* The k-th node exists, and different places have different nodes.
LEMMA NodeAtPlace ==
  ASSUME NEW d, NodesOK(d), UniqueIDs(d.dataNodes), NEW k \in Nat, k < Cardinality(d.dataNodes)
  PROVE  /\ NodeAt(d, k) \in IDs(d.dataNodes)
         /\ Cardinality({j \in IDs(d.dataNodes) : j < NodeAt(d, k)}) = k
<1>1. PICK ids : ids = IDs(d.dataNodes)
  OBVIOUS
<1>2. ids \in SUBSET Nat /\ IsFiniteSet(ids) /\ k < Cardinality(ids)
  BY <1>1, AsManyIDs
<1>3. \E i \in ids : Cardinality({j \in ids : j < i}) = k
  BY <1>2, RankExists
<1> QED BY <1>1, <1>3 DEF NodeAt

\* Two numbers with one remainder are at least n apart.
LEMMA SameRemainder ==
  ASSUME NEW n \in Nat \ {0}, NEW a \in Nat, NEW b \in Nat, a < b, a % n = b % n
  PROVE  b - a >= n
<1>q. PICK x, y, r : x = a \div n /\ y = b \div n /\ r = a % n
  OBVIOUS
<1>1. x \in Nat /\ y \in Nat /\ r \in 0 .. n - 1
  BY <1>q
<1>2. a = n * x + r /\ b = n * y + r
  BY <1>q
<1>3. x < y
  <2> SUFFICES ASSUME y <= x PROVE FALSE
    BY <1>1
  <2>1. n * y <= n * x
    BY <1>1
  <2> QED BY <1>1, <1>2, <2>1
<1>4. n * x + n <= n * y
  <2>1. x + 1 <= y
    BY <1>1, <1>3
  <2>2. n * (x + 1) <= n * y /\ n * (x + 1) = n * x + n
    BY <1>1, <2>1
  <2> QED BY <2>2
<1> QED BY <1>1, <1>2, <1>4

\* The number of replicas is what was asked for, as far as there are nodes, and there is
\* room for at least one shard.
LEMMA ReplicasFit ==
  ASSUME NEW p \in PolicyRecords, NEW n \in Nat \ {0}, NEW r, r = ReplicaN(p, n)
  PROVE  /\ r \in 1 .. n /\ (r = n \/ r >= p.replicaN)
         /\ n \div r \in Nat \ {0} /\ r * (n \div r) <= n
<1>1. p.replicaN \in Nat
  BY DEF PolicyRecords
<1>2. r \in 1 .. n /\ (r = n \/ r >= p.replicaN)
  <2>1. CASE p.replicaN = 0
    BY <2>1 DEF ReplicaN
  <2>2. CASE p.replicaN # 0 /\ p.replicaN > n
    BY <2>2 DEF ReplicaN
  <2>3. CASE p.replicaN # 0 /\ ~(p.replicaN > n)
    BY <1>1, <2>3 DEF ReplicaN
  <2> QED BY <2>1, <2>2, <2>3
<1>q. PICK q, m : q = n \div r /\ m = n % r
  OBVIOUS
<1>3. q \in Nat /\ m \in 0 .. r - 1 /\ n = r * q + m
  BY <1>2, <1>q
<1>4. q # 0
  <2> SUFFICES ASSUME q = 0 PROVE FALSE
    OBVIOUS
  <2>1. r * q = 0
    BY <1>2
  <2> QED BY <1>2, <1>3, <2>1
<1>5. r * q \in Nat
  BY <1>2, <1>3
<1> QED BY <1>2, <1>q, <1>3, <1>4, <1>5

\* The owners of the i-th new shard.
Dealt(d, r, i) ==
  {NodeAt(d, (d.index + i * r + j) % Cardinality(d.dataNodes)) : j \in 0 .. r - 1}

\* They are as many as the replicas, and no node is dealt two shards.
LEMMA DealtOwners ==
  ASSUME NEW d, NodesOK(d), UniqueIDs(d.dataNodes), d.index \in Nat,
         NEW n \in Nat \ {0}, n = Cardinality(d.dataNodes),
         NEW r \in 1 .. n, NEW q \in Nat, r * q <= n, NEW i \in 0 .. q - 1
  PROVE  /\ Dealt(d, r, i) \subseteq IDs(d.dataNodes) /\ Dealt(d, r, i) # {}
         /\ Cardinality(Dealt(d, r, i)) = r
         /\ \A h \in 0 .. q - 1 : h # i => Dealt(d, r, i) \cap Dealt(d, r, h) = {}
<1> DEFINE At(h, j) == h * r + j
           Node(o) == NodeAt(d, (d.index + o) % n)
<1>1. ASSUME NEW h \in 0 .. q - 1, NEW j \in 0 .. r - 1
      PROVE  At(h, j) \in Nat /\ At(h, j) < n /\ d.index + h * r + j = d.index + At(h, j)
  <2>1. h * r \in Nat
    OBVIOUS
  <2>2. h + 1 <= q
    OBVIOUS
  <2>3. r * (h + 1) <= r * q /\ r * (h + 1) = h * r + r
    BY <2>2
  <2>4. r * q \in Nat
    OBVIOUS
  <2> QED BY <2>1, <2>3, <2>4
<1>2. ASSUME NEW o \in Nat
      PROVE  (d.index + o) % n \in Nat /\ (d.index + o) % n < n
  OBVIOUS
<1>3. ASSUME NEW o \in Nat
      PROVE  /\ Node(o) \in IDs(d.dataNodes)
             /\ Cardinality({j \in IDs(d.dataNodes) : j < Node(o)}) = (d.index + o) % n
  BY <1>2, NodeAtPlace
<1>4. ASSUME NEW x \in Nat, NEW y \in Nat, x < n, y < n, Node(x) = Node(y)
      PROVE  x = y
  <2>1. (d.index + x) % n = (d.index + y) % n
    BY <1>3, <1>4
  <2>2. PICK a, b : a = d.index + x /\ b = d.index + y
    OBVIOUS
  <2>3. a \in Nat /\ b \in Nat /\ a % n = b % n /\ a - b = x - y /\ b - a = y - x
    <3>1. a % n = b % n
      BY <2>1, <2>2
    <3>2. a \in Nat /\ b \in Nat /\ a - b = x - y /\ b - a = y - x
      BY <2>2
    <3> QED BY <3>1, <3>2
  <2>4. ~(a < b)
    <3> SUFFICES ASSUME a < b PROVE FALSE
      OBVIOUS
    <3>1. b - a >= n
      BY <2>3, SameRemainder
    <3> QED BY <1>4, <2>3, <3>1
  <2>5. ~(b < a)
    <3> SUFFICES ASSUME b < a PROVE FALSE
      OBVIOUS
    <3>1. a - b >= n
      BY <2>3, SameRemainder
    <3> QED BY <1>4, <2>3, <3>1
  <2> QED BY <2>2, <2>3, <2>4, <2>5
<1> HIDE DEF Node
<1>5. ASSUME NEW h \in 0 .. q - 1
      PROVE  Dealt(d, r, h) = {Node(At(h, j)) : j \in 0 .. r - 1}
  <2>1. \A j \in 0 .. r - 1 : NodeAt(d, (d.index + h * r + j) % Cardinality(d.dataNodes)) = Node(At(h, j))
    BY <1>1, <1>5 DEF Node
  <2> QED BY <2>1 DEF Dealt
<1>6. \A h, k \in 0 .. q - 1 : \A j, l \in 0 .. r - 1 : At(h, j) = At(k, l) => h = k /\ j = l
  OBVIOUS
<1>7. \A h \in 0 .. q - 1 : \A j \in 0 .. r - 1 : At(h, j) \in Nat /\ At(h, j) < n
  BY <1>1
<1> HIDE DEF At
<1>8. Dealt(d, r, i) \subseteq IDs(d.dataNodes) /\ Dealt(d, r, i) # {}
  <2>1. 0 \in 0 .. r - 1
    OBVIOUS
  <2>2. \A j \in 0 .. r - 1 : Node(At(i, j)) \in IDs(d.dataNodes)
    BY <1>3, <1>7
  <2>3. Dealt(d, r, i) = {Node(At(i, j)) : j \in 0 .. r - 1}
    BY <1>5
  <2> QED BY <2>1, <2>2, <2>3
<1>9. Cardinality(Dealt(d, r, i)) = r
  <2>f. PICK f : f = [j \in 0 .. r - 1 |-> Node(At(i, j))]
    OBVIOUS
  <2>1. f \in [0 .. r - 1 -> Dealt(d, r, i)] /\ \A x \in Dealt(d, r, i) : \E j \in 0 .. r - 1 : f[j] = x
    BY <1>5, <2>f
  <2>2. \A j, l \in 0 .. r - 1 : f[j] = f[l] => j = l
    BY <1>4, <1>6, <1>7, <2>f
  <2>3. f \in Surjection(0 .. r - 1, Dealt(d, r, i)) /\ f \in Injection(0 .. r - 1, Dealt(d, r, i))
    BY <2>1, <2>2 DEF Surjection, Injection, IsInjective
  <2>4. IsFiniteSet(0 .. r - 1) /\ Cardinality(0 .. r - 1) = r
    <3>1. 0 \in Int /\ r - 1 \in Int /\ ~(0 > r - 1) /\ (r - 1) - 0 + 1 = r
      OBVIOUS
    <3> QED BY <3>1, FS_Interval
  <2> QED BY <2>3, <2>4, FS_Surjection
<1>10. ASSUME NEW h \in 0 .. q - 1, h # i PROVE Dealt(d, r, i) \cap Dealt(d, r, h) = {}
  <2>1. ASSUME NEW j \in 0 .. r - 1, NEW l \in 0 .. r - 1 PROVE Node(At(i, j)) # Node(At(h, l))
    BY <1>4, <1>6, <1>7, <1>10
  <2> QED BY <1>5, <2>1
<1> QED BY <1>8, <1>9, <1>10

\* Groups that start at different multiples of a duration do not overlap.
LEMMA AlignedAreApart ==
  ASSUME NEW s \in Nat \ {0}, NEW i \in Nat, NEW j \in Nat, i # j
  PROVE  i * s + s <= j * s \/ j * s + s <= i * s
<1>1. CASE i < j
  BY <1>1
<1>2. CASE j < i
  BY <1>2
<1> QED BY <1>1, <1>2

LEMMA CreateShardGroupGood ==
  ASSUME NEW d, MetadataOK(d), UniqueIDs(d.dataNodes), NEW db, NEW rp, NEW t \in Nat
  PROVE  Good(d, CreateShardGroup(d, db, rp, t)) /\ Spread(d, CreateShardGroup(d, db, rp, t))
<1> DEFINE Wanted == /\ d.dataNodes # {} /\ <<db, rp>> \in DOMAIN d.policies
                     /\ \A g \in GroupsOf(d, db, rp) :
                           d.groups[g].deleted \/ ~Contains(d.groups[g], t)
<1>e. PICK e : e = CreateShardGroup(d, db, rp, t)
  OBVIOUS
<1>1. CASE ~Wanted
  <2>1. e = d
    BY <1>1, <1>e DEF CreateShardGroup
  <2> QED BY <1>e, <2>1, SameIsGood DEF Spread
<1>2. CASE Wanted
  <2>k. PICK k, p, n : k = <<db, rp>> /\ p = d.policies[k] /\ n = Cardinality(d.dataNodes)
    OBVIOUS
  <2>r. PICK r : r = ReplicaN(p, n)
    OBVIOUS
  <2>q. PICK q : q = n \div r
    OBVIOUS
  <2>1. p \in PolicyRecords /\ p.sgd \in Nat \ {0} /\ n \in Nat \ {0}
    <3>1. p \in PolicyRecords
      BY <1>2, <2>k DEF MetadataOK, PoliciesOK
    <3>2. n \in Nat /\ n # 0
      BY <1>2, <2>k, AsManyIDs, FS_EmptySet DEF MetadataOK, NodesOK
    <3> QED BY <3>1, <3>2 DEF PolicyRecords
  <2>2. r \in 1 .. n /\ (r = n \/ r >= p.replicaN) /\ q \in Nat \ {0} /\ r * q <= n
    BY <2>1, <2>r, <2>q, ReplicasFit
  <2>s. PICK start, x : start = t - (t % p.sgd) /\ x = t \div p.sgd
    OBVIOUS
  <2>3. start \in Nat /\ x \in Nat /\ start = x * p.sgd /\ start <= t /\ t < start + p.sgd
    BY <2>1, <2>s
  <2>h. PICK shards : shards = [h \in d.maxShard + 1 .. d.maxShard + q |->
                                 Dealt(d, r, h - d.maxShard - 1)]
    OBVIOUS
  <2>g. PICK new, G : /\ new = d.maxGroup + 1
                      /\ G = [db |-> db, rp |-> rp, start |-> start, end |-> start + p.sgd,
                              deleted |-> FALSE, shards |-> shards]
    OBVIOUS
  <2>o. PICK old, gs : old = d.groups /\ gs = Put(old, new, G)
    OBVIOUS
  <2>4. e = [d EXCEPT !.groups = gs, !.maxGroup = new, !.maxShard = d.maxShard + q]
    <3> DEFINE owners(i) == {NodeAt(d, (d.index + i * r + j) % n) : j \in 0 .. r - 1}
               placed == [s \in d.maxShard + 1 .. d.maxShard + q |-> owners(s - d.maxShard - 1)]
               group == [db |-> db, rp |-> rp, start |-> start, end |-> start + p.sgd,
                         deleted |-> FALSE, shards |-> placed]
    <3>1. e = [d EXCEPT !.groups = Put(@, d.maxGroup + 1, group),
                        !.maxGroup = @ + 1, !.maxShard = @ + q]
      BY <1>2, <1>e, <2>k, <2>r, <2>q, <2>s DEF CreateShardGroup
    <3>2. placed = shards
      BY <2>h, <2>k, Zenon DEF Dealt
    <3>3. group = G
      BY <2>g, <3>2, Zenon
    <3> HIDE DEF placed, group
    <3> QED BY <2>g, <2>o, <3>1, <3>3
  <2>5. /\ IsMetadata(e) /\ e.groups = gs /\ e.maxGroup = new /\ e.maxShard = d.maxShard + q
        /\ e.dataNodes = d.dataNodes /\ e.metaNodes = d.metaNodes /\ e.maxNode = d.maxNode
        /\ e.index = d.index /\ e.defaults = d.defaults /\ e.policies = d.policies
        /\ e.users = d.users
    BY <2>4 DEF MetadataOK, IsMetadata
  <2>6. d.maxGroup \in Nat /\ d.maxShard \in Nat /\ new \in Nat /\ new > d.maxGroup /\ new \notin DOMAIN old
    <3>1. d.maxGroup \in Nat /\ d.maxShard \in Nat /\ \A g \in DOMAIN old : g \in 1 .. d.maxGroup
      BY <2>o DEF MetadataOK, GroupsOK, GroupOK
    <3> QED BY <2>g, <3>1
  <2>7. /\ IsFunction(gs) /\ DOMAIN gs = DOMAIN old \cup {new} /\ gs[new] = G
        /\ \A g \in DOMAIN old : gs[g] = old[g]
    <3>1. /\ IsFunction(gs) /\ DOMAIN gs = DOMAIN old \cup {new} /\ gs[new] = G
          /\ \A g \in DOMAIN old : g # new => gs[g] = old[g]
      BY <2>o DEF Put, IsFunction
    <3> QED BY <2>6, <3>1
  <2>8. /\ IsGroup(G) /\ G.db = db /\ G.rp = rp /\ G.start = start /\ G.end = start + p.sgd
        /\ G.deleted = FALSE /\ G.shards = shards
    BY <2>g DEF IsGroup
  <2>9. ASSUME NEW h \in DOMAIN shards
        PROVE  /\ shards[h] \subseteq IDs(d.dataNodes) /\ shards[h] # {}
               /\ Cardinality(shards[h]) = r /\ h > d.maxShard
               /\ \A i \in DOMAIN shards : i # h => shards[h] \cap shards[i] = {}
    <3>1. /\ \A i \in DOMAIN shards : i - d.maxShard - 1 \in 0 .. q - 1 /\ i > d.maxShard
          /\ \A i \in DOMAIN shards : i # h => i - d.maxShard - 1 # h - d.maxShard - 1
          /\ \A i \in DOMAIN shards : shards[i] = Dealt(d, r, i - d.maxShard - 1)
      <4>1. PICK m : m = d.maxShard
        OBVIOUS
      <4>2. DOMAIN shards = m + 1 .. m + q /\ \A i \in DOMAIN shards : shards[i] = Dealt(d, r, i - m - 1)
        BY <2>h, <4>1
      <4>3. /\ \A i \in DOMAIN shards : i - m - 1 \in 0 .. q - 1 /\ i > m
            /\ \A i, j \in DOMAIN shards : i # j => i - m - 1 # j - m - 1
        <5>1. q \in Nat /\ m \in Nat
          BY <2>2, <2>6, <4>1
        <5>2. \A i \in m + 1 .. m + q : i - m - 1 \in 0 .. q - 1 /\ i > m
          BY <5>1
        <5>3. \A i, j \in m + 1 .. m + q : i # j => i - m - 1 # j - m - 1
          BY <5>1
        <5> QED BY <4>2, <5>2, <5>3, Zenon
      <4> QED BY <4>1, <4>2, <4>3
    <3>2. NodesOK(d) /\ d.index \in Nat
      BY DEF MetadataOK
    <3>a. PICK a : a = h - d.maxShard - 1
      OBVIOUS
    <3>3. /\ Dealt(d, r, a) \subseteq IDs(d.dataNodes) /\ Dealt(d, r, a) # {}
          /\ Cardinality(Dealt(d, r, a)) = r
          /\ \A i \in 0 .. q - 1 : i # a => Dealt(d, r, a) \cap Dealt(d, r, i) = {}
      <4>1. a \in 0 .. q - 1 /\ q \in Nat
        BY <2>2, <3>1, <3>a
      <4> QED BY <2>k, <2>1, <2>2, <3>2, <4>1, DealtOwners
    <3> QED BY <3>1, <3>a, <3>3
  <2>10. GroupsOK(e)
    <3>1. ASSUME NEW g \in DOMAIN old PROVE GroupOK(e, g)
      <4>1. GroupOK(d, g) /\ gs[g] = old[g]
        BY <2>o, <2>7 DEF MetadataOK, GroupsOK
      <4>2. g \in 1 .. new
        BY <2>g, <2>6, <4>1 DEF GroupOK
      <4> QED BY <2>o, <2>5, <4>1, <4>2 DEF GroupOK
    <3>2. GroupOK(e, new)
      <4>1. Aligned(G, p)
        BY <2>3, <2>8 DEF Aligned
      <4>2. Owned(G, IDs(d.dataNodes))
        BY <2>8, <2>9 DEF Owned
      <4>3. <<G.db, G.rp>> = k /\ k \in DOMAIN d.policies /\ new \in 1 .. new
        BY <1>2, <2>g, <2>k, <2>6, <2>8
      <4> QED BY <2>k, <2>5, <2>7, <2>8, <4>1, <4>2, <4>3 DEF GroupOK
    <3>3. ASSUME NEW g \in DOMAIN old PROVE Apart(old[g], G) /\ Apart(G, old[g])
      <4> SUFFICES ASSUME old[g].db = db, old[g].rp = rp, ~old[g].deleted
                   PROVE  old[g].end <= start \/ start + p.sgd <= old[g].start
        BY <2>8 DEF Apart
      <4>1. PICK i \in Nat : old[g].start = i * p.sgd /\ old[g].end = old[g].start + p.sgd
        BY <2>o, <2>k DEF MetadataOK, GroupsOK, GroupOK, Aligned
      <4>2. ~(old[g].start <= t /\ t < old[g].end)
        BY <1>2, <2>o DEF GroupsOf, Contains
      <4>3. i # x
        BY <2>3, <4>1, <4>2
      <4> QED BY <2>1, <2>3, <4>1, <4>3, AlignedAreApart
    <3>4. \A g, h \in DOMAIN old : g # h => Apart(old[g], old[h])
      BY <2>o DEF MetadataOK, GroupsOK
    <3>5. \A g, h \in DOMAIN gs : g # h => Apart(gs[g], gs[h])
      BY <2>7, <3>3, <3>4
    <3>6. e.maxGroup \in Nat /\ e.maxShard \in Nat
      BY <2>2, <2>5, <2>6
    <3> QED BY <2>5, <2>7, <3>1, <3>2, <3>5, <3>6 DEF GroupsOK
  <2>11. NoIDAgain(d, e)
    <3>1. e.maxShard >= d.maxShard /\ e.maxGroup >= d.maxGroup
      BY <2>2, <2>5, <2>6
    <3>2. ASSUME NEW h \in ShardsOf(e), h \notin ShardsOf(d) PROVE h > d.maxShard
      <4>1. PICK g \in DOMAIN gs : h \in DOMAIN gs[g].shards
        BY <2>5 DEF ShardsOf
      <4>2. g = new
        BY <2>o, <2>7, <3>2, <4>1 DEF ShardsOf
      <4> QED BY <2>7, <2>8, <2>9, <4>1, <4>2
    <3>3. ASSUME NEW g \in DOMAIN gs
          PROVE  IF g \in DOMAIN old THEN old[g].deleted => gs[g].deleted ELSE g > d.maxGroup
      BY <2>6, <2>7
    <3> QED BY <2>o, <2>5, <3>1, <3>2, <3>3 DEF NoIDAgain
  <2>12. OwnersKept(d, e)
    BY <2>o, <2>5, <2>7 DEF OwnersKept
  <2>13. PoliciesOK(e) /\ UsersOK(e) /\ NodesOK(e)
    BY <2>5 DEF MetadataOK, PoliciesOK, UsersOK, NodesOK, DatabasesOf
  <2>14. Good(d, e)
    BY <2>5, <2>10, <2>11, <2>12, <2>13 DEF Good, MetadataOK
  <2>15. Spread(d, e)
    <3>1. shards # <<>>
      <4>1. d.maxShard + 1 \in DOMAIN shards
        BY <2>2, <2>6, <2>h
      <4> QED BY <4>1
    <3>2. <<G.db, G.rp>> = k
      BY <2>k, <2>8
    <3>3. \A h \in DOMAIN shards : Cardinality(shards[h]) = n \/ Cardinality(shards[h]) >= p.replicaN
      BY <2>2, <2>9
    <3>4. DOMAIN e.groups \ DOMAIN d.groups = {new} /\ e.groups[new] = G
      BY <2>o, <2>5, <2>6, <2>7
    <3> QED BY <2>k, <2>8, <2>9, <3>1, <3>2, <3>3, <3>4 DEF Spread
  <2> QED BY <1>e, <2>14, <2>15
<1> QED BY <1>1, <1>2

-----------------------------------------------------------------------------
(* The state machine *)

\* Only CreateShardGroup takes a group ID.
LEMMA MaxGroupStays ==
  ASSUME NEW d, MetadataOK(d), NEW c \in Commands, c.op # "CreateShardGroup",
         NEW e \in Outcomes(c, d)
  PROVE  e.maxGroup = d.maxGroup
<1> USE DEF MetadataOK, IsMetadata
<1>1. CASE c.op \in {"CreateDataNode", "CreateMetaNode", "SetMetaNode"}
  BY <1>1 DEF Outcomes, CreateDataNode, CreateMetaNode, SetMetaNode
<1>2. CASE c.op \in {"DeleteDataNode", "DeleteMetaNode"}
  BY <1>2 DEF Outcomes, DeleteDataNode, DeleteMetaNode
<1>3. ASSUME NEW db, NEW rp, NEW p
      PROVE  /\ CreateRetentionPolicy(d, db, rp, p).maxGroup = d.maxGroup
             /\ SetDefaultRetentionPolicy(d, db, rp).maxGroup = d.maxGroup
             /\ CreateDatabaseWith(d, db, rp, p).maxGroup = d.maxGroup
             /\ WithDatabase(d, db).maxGroup = d.maxGroup
  BY DEF CreateRetentionPolicy, SetDefaultRetentionPolicy, CreateDatabaseWith, WithDatabase
<1>4. CASE c.op \in {"CreateDatabase", "CreateDatabaseWith", "CreateRetentionPolicy",
                     "SetDefaultRetentionPolicy"}
  BY <1>3, <1>4 DEF Outcomes, CreateDatabase
<1>5. CASE c.op \in {"DropDatabase", "DropRetentionPolicy", "UpdateRetentionPolicy"}
  BY <1>5 DEF Outcomes, DropDatabase, DropRetentionPolicy, UpdateRetentionPolicy
<1>6. CASE c.op \in {"DeleteShardGroup", "CreateUser", "DropUser", "SetPrivilege"}
  BY <1>6 DEF Outcomes, DeleteShardGroup, CreateUser, DropUser, SetPrivilege
<1> QED BY <1>1, <1>2, <1>4, <1>5, <1>6 DEF Commands

\* Whatever a server is told to do, its metadata stays as MetadataOK has it.
LEMMA CommandGood ==
  ASSUME NEW d, MetadataOK(d), UniqueIDs(d.dataNodes), NEW c \in Commands, NEW e \in Outcomes(c, d)
  PROVE  Good(d, e) /\ Spread(d, e)
<1>1. CASE c.op = "CreateShardGroup"
  <2>1. e = CreateShardGroup(d, c.db, c.rp, c.time) /\ c.time \in Nat
    BY <1>1, MetaStoreAssumption DEF Outcomes, Commands
  <2> QED BY <2>1, CreateShardGroupGood
<1>2. CASE c.op # "CreateShardGroup"
  <2>1. Good(d, e)
    <3>1. CASE c.op = "CreateDataNode"
      <4>1. e = CreateDataNode(d, c.addr)
        BY <3>1 DEF Outcomes
      <4>2. c.addr \in DataAddrs
        BY <3>1 DEF Commands
      <4> QED BY <4>1, <4>2, CreateDataNodeGood
    <3>2. CASE c.op = "CreateMetaNode"
      <4>1. e = CreateMetaNode(d, c.addr)
        BY <3>2 DEF Outcomes
      <4>2. c.addr \in MetaAddrs
        BY <3>2 DEF Commands
      <4> QED BY <4>1, <4>2, CreateMetaNodeGood
    <3>3. CASE c.op = "SetMetaNode"
      <4>1. e = SetMetaNode(d, c.addr)
        BY <3>3 DEF Outcomes
      <4>2. c.addr \in MetaAddrs
        BY <3>3 DEF Commands
      <4> QED BY <4>1, <4>2, SetMetaNodeGood
    <3>4. CASE c.op = "DeleteDataNode"
      BY <3>4, DeleteDataNodeGood DEF Outcomes
    <3>5. CASE c.op = "DeleteMetaNode"
      BY <3>5, DeleteMetaNodeGood DEF Outcomes
    <3>6. CASE c.op = "CreateDatabase"
      <4>1. PICK auto \in BOOLEAN : e = CreateDatabase(d, c.db, auto)
        BY <3>6, MetaDataAssumption DEF Outcomes
      <4>2. c.db \in Databases
        BY <3>6 DEF Commands
      <4> QED BY <4>1, <4>2, CreateDatabaseGood
    <3>7. CASE c.op = "DropDatabase"
      <4>1. e = DropDatabase(d, c.db)
        BY <3>7 DEF Outcomes
      <4> QED BY <4>1, DropDatabaseGood
    <3>8. CASE c.op = "DropRetentionPolicy"
      <4>1. e = DropRetentionPolicy(d, c.db, c.rp)
        BY <3>8 DEF Outcomes
      <4> QED BY <4>1, DropRetentionPolicyGood
    <3>9. CASE c.op = "SetDefaultRetentionPolicy"
      <4>1. e = SetDefaultRetentionPolicy(d, c.db, c.rp)
        BY <3>9 DEF Outcomes
      <4>2. c.rp \in Policies
        BY <3>9 DEF Commands
      <4> QED BY <4>1, <4>2, SetDefaultRetentionPolicyGood
    <3>10. CASE c.op = "CreateDatabaseWith"
      <4>1. e = CreateDatabaseWith(d, c.db, c.rp, c.spec)
        BY <3>10 DEF Outcomes
      <4>2. c.db \in Databases /\ c.rp \in Policies /\ c.spec \in PolicyRecords
        BY <3>10, MetaStoreAssumption DEF Commands, PolicyRecords
      <4> QED BY <4>1, <4>2, CreateDatabaseWithGood
    <3>11. CASE c.op = "CreateRetentionPolicy"
      <4>1. e = CreateRetentionPolicy(d, c.db, c.rp, c.spec)
        BY <3>11 DEF Outcomes
      <4>2. c.rp \in Policies /\ c.spec \in PolicyRecords
        BY <3>11, MetaStoreAssumption DEF Commands, PolicyRecords
      <4> QED BY <4>1, <4>2, CreateRetentionPolicyGood
    <3>12. CASE c.op = "UpdateRetentionPolicy"
      <4>1. e = UpdateRetentionPolicy(d, c.db, c.rp, c.name, c.duration, c.replicaN)
        BY <3>12 DEF Outcomes
      <4>2. c.name \in Policies /\ c.duration \in Nat /\ c.replicaN \in Nat
        BY <3>12, MetaStoreAssumption DEF Commands
      <4> QED BY <4>1, <4>2, UpdateRetentionPolicyGood
    <3>13. CASE c.op = "DeleteShardGroup"
      <4>1. e = DeleteShardGroup(d, c.db, c.rp, c.id)
        BY <3>13 DEF Outcomes
      <4> QED BY <4>1, DeleteShardGroupGood
    <3>14. CASE c.op = "CreateUser"
      <4>1. e = CreateUser(d, c.user)
        BY <3>14 DEF Outcomes
      <4>2. c.user \in Users
        BY <3>14 DEF Commands
      <4> QED BY <4>1, <4>2, CreateUserGood
    <3>15. CASE c.op = "DropUser"
      <4>1. e = DropUser(d, c.user)
        BY <3>15 DEF Outcomes
      <4> QED BY <4>1, DropUserGood
    <3>16. CASE c.op = "SetPrivilege"
      <4>1. e = SetPrivilege(d, c.user, c.db)
        BY <3>16 DEF Outcomes
      <4> QED BY <4>1, SetPrivilegeGood
    <3> QED BY <1>2, <3>1, <3>2, <3>3, <3>4, <3>5, <3>6, <3>7, <3>8, <3>9,
               <3>10, <3>11, <3>12, <3>13, <3>14, <3>15, <3>16 DEF Commands
  <2>2. Spread(d, e)
    <3>1. e.maxGroup = d.maxGroup
      BY <1>2, MaxGroupStays
    <3>2. d.maxGroup \in Nat /\ \A g \in DOMAIN e.groups : g \in 1 .. d.maxGroup
      BY <2>1, <3>1 DEF Good, MetadataOK, GroupsOK, GroupOK
    <3>3. \A g \in DOMAIN e.groups : g \notin DOMAIN d.groups => g > d.maxGroup
      BY <2>1 DEF Good, NoIDAgain
    <3>4. DOMAIN e.groups \subseteq DOMAIN d.groups
      BY <3>2, <3>3
    <3> QED BY <3>4 DEF Spread
  <2> QED BY <2>1, <2>2
<1> QED BY <1>1, <1>2

-----------------------------------------------------------------------------
(* IDs that data and meta nodes share *)

\* Only five commands change the nodes.
LEMMA NodesStay ==
  ASSUME NEW d, MetadataOK(d), NEW c \in Commands, NEW e \in Outcomes(c, d),
         c.op \notin {"CreateDataNode", "DeleteDataNode", "CreateMetaNode", "SetMetaNode",
                     "DeleteMetaNode"}
  PROVE  e.dataNodes = d.dataNodes /\ e.metaNodes = d.metaNodes
<1> USE DEF MetadataOK, IsMetadata
<1> DEFINE Same(x) == x.dataNodes = d.dataNodes /\ x.metaNodes = d.metaNodes
<1>1. ASSUME NEW db, NEW rp, NEW p
      PROVE  /\ Same(CreateRetentionPolicy(d, db, rp, p)) /\ Same(SetDefaultRetentionPolicy(d, db, rp))
             /\ Same(CreateDatabaseWith(d, db, rp, p)) /\ Same(WithDatabase(d, db))
  BY DEF CreateRetentionPolicy, SetDefaultRetentionPolicy, CreateDatabaseWith, WithDatabase
<1>2. CASE c.op \in {"CreateDatabase", "CreateDatabaseWith", "CreateRetentionPolicy",
                     "SetDefaultRetentionPolicy"}
  BY <1>1, <1>2 DEF Outcomes, CreateDatabase
<1>3. CASE c.op \in {"DropDatabase", "DropRetentionPolicy", "UpdateRetentionPolicy"}
  BY <1>3 DEF Outcomes, DropDatabase, DropRetentionPolicy, UpdateRetentionPolicy
<1>4. CASE c.op \in {"DeleteShardGroup", "CreateUser", "DropUser", "SetPrivilege"}
  BY <1>4 DEF Outcomes, DeleteShardGroup, CreateUser, DropUser, SetPrivilege
<1>5. CASE c.op = "CreateShardGroup"
  <2>1. PICK gs, g, h : \/ e = d
                        \/ e = [d EXCEPT !.groups = gs, !.maxGroup = g, !.maxShard = h]
    BY <1>5 DEF Outcomes, CreateShardGroup
  <2> QED BY <2>1
<1> QED BY <1>2, <1>3, <1>4, <1>5 DEF Commands

\* An ID goes from a meta node to a data node, or back, with the address only, and a
\* new ID is greater than all.
LEMMA SharedIDsStay ==
  ASSUME NEW d, MetadataOK(d), SharedIDsOK(d), NEW c \in Commands, ~MovesAway(c, d),
         NEW e \in Outcomes(c, d)
  PROVE  SharedIDsOK(e)
<1> USE DEF SharedIDsOK, UniqueIDs
<1>d. /\ d.dataNodes \subseteq [id : Nat \ {0}, addr : DataAddrs]
      /\ d.metaNodes \subseteq [id : Nat \ {0}, addr : MetaAddrs]
      /\ d.maxNode \in Nat /\ \A n \in d.dataNodes \cup d.metaNodes : n.id <= d.maxNode
  BY DEF MetadataOK, NodesOK
<1>0. CASE e.dataNodes = d.dataNodes /\ e.metaNodes = d.metaNodes
  BY <1>0
<1>a. ASSUME NEW a, CreateMetaNode(d, a) = e
      PROVE  SharedIDsOK(e)
  <2>1. CASE \E n \in d.metaNodes : n.addr = a
    BY <1>0, <1>a, <2>1 DEF CreateMetaNode
  <2>2. CASE ~\E n \in d.metaNodes : n.addr = a
    <3>i. PICK id, new : id = NodeID(d, d.dataNodes, a) /\ new = [id |-> id, addr |-> a]
      OBVIOUS
    <3>1. e.metaNodes = d.metaNodes \cup {new} /\ e.dataNodes = d.dataNodes
      BY <1>a, <2>2, <3>i DEF CreateMetaNode, MetadataOK, IsMetadata
    <3>2. new.id = id /\ new.addr = a
      BY <3>i
    <3>3. /\ \A m \in d.metaNodes : m.id # id
          /\ \A n \in d.dataNodes : n.id = id => n.addr = a
      <4>1. CASE \E n \in d.dataNodes : n.addr = a
        <5>1. PICK n \in d.dataNodes : n.addr = a /\ id = n.id
          BY <3>i, <4>1 DEF NodeID
        <5> QED BY <2>2, <5>1
      <4>2. CASE ~\E n \in d.dataNodes : n.addr = a
        <5>1. id = d.maxNode + 1
          BY <3>i, <4>2 DEF NodeID
        <5> QED BY <1>d, <5>1
      <4> QED BY <4>1, <4>2
    <3> QED BY <3>1, <3>2, <3>3
  <2> QED BY <2>1, <2>2
<1>1. CASE c.op = "CreateDataNode"
  <2>a. PICK a : a = c.addr /\ e = CreateDataNode(d, a)
    BY <1>1 DEF Outcomes
  <2>1. CASE \E n \in d.dataNodes : n.addr = a
    BY <1>0, <2>a, <2>1 DEF CreateDataNode
  <2>2. CASE ~\E n \in d.dataNodes : n.addr = a
    <3>i. PICK id, new : id = NodeID(d, d.metaNodes, a) /\ new = [id |-> id, addr |-> a]
      OBVIOUS
    <3>1. e.dataNodes = d.dataNodes \cup {new} /\ e.metaNodes = d.metaNodes
      BY <2>a, <2>2, <3>i DEF CreateDataNode, MetadataOK, IsMetadata
    <3>2. new.id = id /\ new.addr = a
      BY <3>i
    <3>3. /\ \A n \in d.dataNodes : n.id # id
          /\ \A m \in d.metaNodes : m.id = id => m.addr = a
      <4>1. CASE \E m \in d.metaNodes : m.addr = a
        <5>1. PICK m \in d.metaNodes : m.addr = a /\ id = m.id
          BY <3>i, <4>1 DEF NodeID
        <5> QED BY <2>2, <5>1
      <4>2. CASE ~\E m \in d.metaNodes : m.addr = a
        <5>1. id = d.maxNode + 1
          BY <3>i, <4>2 DEF NodeID
        <5> QED BY <1>d, <5>1
      <4> QED BY <4>1, <4>2
    <3> QED BY <3>1, <3>2, <3>3
  <2> QED BY <2>1, <2>2
<1>2. CASE c.op = "CreateMetaNode"
  BY <1>a, <1>2 DEF Outcomes
<1>3. CASE c.op = "SetMetaNode"
  <2>a. PICK a, new : /\ a = c.addr /\ e = SetMetaNode(d, a)
                      /\ new = {[n EXCEPT !.addr = a] : n \in d.metaNodes}
    BY <1>3 DEF Outcomes
  <2>1. CASE e = d \/ e = CreateMetaNode(d, a)
    BY <1>0, <1>a, <2>1
  <2>2. CASE ~(Cardinality(d.metaNodes) > 1) /\ e = [d EXCEPT !.metaNodes = new]
    <3>1. e.metaNodes = new /\ e.dataNodes = d.dataNodes
      BY <2>2 DEF MetadataOK, IsMetadata
    <3>2. \A m \in d.metaNodes, n \in d.dataNodes : m.id = n.id => n.addr = a
      BY <1>3, <2>a, <2>2 DEF MovesAway
    <3>3. \A m \in new : /\ m = [id |-> m.id, addr |-> a]
                          /\ \E k \in d.metaNodes : k.id = m.id
      BY <1>d, <2>a
    <3> QED BY <3>1, <3>2, <3>3
  <2> QED BY <2>a, <2>1, <2>2 DEF SetMetaNode
<1>4. CASE c.op = "DeleteDataNode"
  <2>1. e \in DeleteDataNode(d, c.id)
    BY <1>4 DEF Outcomes
  <2>2. CASE c.id \notin IDs(d.dataNodes)
    BY <1>0, <2>1, <2>2 DEF DeleteDataNode
  <2>3. CASE c.id \in IDs(d.dataNodes)
    <3>n. PICK nodes : nodes = {n \in d.dataNodes : n.id # c.id}
      OBVIOUS
    <3>1. PICK gs : e = [d EXCEPT !.dataNodes = nodes, !.groups = gs]
      BY <2>1, <2>3, <3>n DEF DeleteDataNode
    <3>2. e.dataNodes \subseteq d.dataNodes /\ e.metaNodes = d.metaNodes
      BY <3>n, <3>1 DEF MetadataOK, IsMetadata
    <3> QED BY <3>2
  <2> QED BY <2>2, <2>3
<1>5. CASE c.op = "DeleteMetaNode"
  <2>1. e.metaNodes \subseteq d.metaNodes /\ e.dataNodes = d.dataNodes
    BY <1>5 DEF Outcomes, DeleteMetaNode, MetadataOK, IsMetadata
  <2> QED BY <2>1
<1> QED BY <1>0, <1>1, <1>2, <1>3, <1>4, <1>5, NodesStay

-----------------------------------------------------------------------------
(* The replicated store *)

\* The index moves on after a command.
LEMMA IndexMovesOn ==
  ASSUME NEW d, NEW e, Good(d, e), Spread(d, e), NEW i \in Nat \ {0},
         NEW f, f = [e EXCEPT !.index = i]
  PROVE  Good(d, f) /\ Spread(d, f) /\ f.index = i
<1>1. /\ IsMetadata(f) /\ f.index = i
      /\ f.dataNodes = e.dataNodes /\ f.metaNodes = e.metaNodes /\ f.maxNode = e.maxNode
      /\ f.defaults = e.defaults /\ f.policies = e.policies /\ f.groups = e.groups
      /\ f.maxGroup = e.maxGroup /\ f.maxShard = e.maxShard /\ f.users = e.users
  BY DEF Good, MetadataOK, IsMetadata
<1>2. NodesOK(f) /\ PoliciesOK(f) /\ UsersOK(f)
  BY <1>1 DEF Good, MetadataOK, NodesOK, PoliciesOK, UsersOK, DatabasesOf
<1>3. GroupsOK(f)
  BY <1>1 DEF Good, MetadataOK, GroupsOK, GroupOK
<1>4. NoIDAgain(d, f)
  <2>1. ShardsOf(f) = ShardsOf(e)
    BY <1>1 DEF ShardsOf
  <2> QED BY <1>1, <2>1 DEF Good, NoIDAgain
<1>5. OwnersKept(d, f)
  BY <1>1 DEF Good, OwnersKept
<1>6. Spread(d, f)
  BY <1>1 DEF Spread
<1> QED BY <1>1, <1>2, <1>3, <1>4, <1>5, <1>6 DEF Good, MetadataOK

LEMMA NewDataOK == MetadataOK(NewData)
<1>d. PICK d : d = NewData
  OBVIOUS
<1>1. /\ IsMetadata(d) /\ d.index = 1 /\ d.dataNodes = {} /\ d.metaNodes = {} /\ d.maxNode = 0
      /\ d.defaults = <<>> /\ d.policies = <<>> /\ d.groups = <<>> /\ d.maxGroup = 0
      /\ d.maxShard = 0 /\ d.users = <<>>
  BY <1>d DEF NewData, IsMetadata
<1>2. IsFunction(<<>>) /\ DOMAIN <<>> = {}
  BY DEF IsFunction
<1>3. NodesOK(d)
  BY <1>1, FS_EmptySet DEF NodesOK
<1>4. PoliciesOK(d) /\ UsersOK(d)
  BY <1>1, <1>2 DEF PoliciesOK, UsersOK, DatabasesOf
<1>5. GroupsOK(d)
  BY <1>1, <1>2 DEF GroupsOK
<1> QED BY <1>d, <1>1, <1>3, <1>4, <1>5 DEF MetadataOK

LEMMA StoreInvInit == Init => StoreInv
<1> SUFFICES ASSUME Init PROVE StoreInv
  OBVIOUS
<1>0. moved \in [Servers -> BOOLEAN] /\ SharedIDsOK(NewData)
  BY DEF Init, SharedIDsOK, UniqueIDs, NewData
<1>1. /\ IsFunction(data) /\ DOMAIN data = Servers /\ \A s \in Servers : data[s] = NewData
      /\ pending \in [Servers -> Seq(Commands)] /\ \A s \in Servers : pending[s] = <<>>
  BY DEF Init, IsFunction
<1>2. NewData.index = 1 /\ Len(<<>>) = 0
  BY DEF NewData
<1>3. \A s \in Servers : CommittedIndex(s) <= MaxIndex
  BY <1>1, <1>2, MetaStoreAssumption DEF CommittedIndex
<1> QED BY <1>0, <1>1, <1>3, NewDataOK DEF StoreInv

LEMMA CommitStep ==
  ASSUME StoreInv, NEW c \in Commands, Commit(c)
  PROVE  StoreInv'
<1>1. /\ data' = data /\ moved' = moved /\ DOMAIN pending' = Servers
      /\ \A s \in Servers : pending'[s] = Append(pending[s], c)
  BY DEF Commit
<1>2. ASSUME NEW s \in Servers
      PROVE  /\ Append(pending[s], c) \in Seq(Commands)
             /\ data[s].index + Len(Append(pending[s], c)) <= MaxIndex
  <2>1. /\ pending[s] \in Seq(Commands) /\ data[s].index \in Nat
        /\ data[s].index + Len(pending[s]) < MaxIndex
    BY DEF StoreInv, Commit, CommittedIndex, MetadataOK
  <2>2. /\ Append(pending[s], c) \in Seq(Commands) /\ Len(pending[s]) \in Nat
        /\ Len(Append(pending[s], c)) = Len(pending[s]) + 1
    BY <2>1
  <2> QED BY <2>1, <2>2, MetaStoreAssumption
<1>3. pending' \in [Servers -> Seq(Commands)]
  BY <1>2 DEF Commit
<1>4. \A s \in Servers : data'[s].index + Len(pending'[s]) <= MaxIndex
  BY <1>1, <1>2
<1> QED BY <1>1, <1>3, <1>4 DEF StoreInv, CommittedIndex

\* What is true of the command that a server applies.
LEMMA ApplyIsGood ==
  ASSUME StoreInv, NEW s \in Servers, Apply(s)
  PROVE  /\ Good(data[s], data'[s]) /\ Spread(data[s], data'[s])
         /\ data'[s].index = data[s].index + 1
         /\ ~moved'[s] => SharedIDsOK(data'[s])
<1>c. PICK c, d : c = Head(pending[s]) /\ d = data[s]
  OBVIOUS
<1>1. c \in Commands /\ MetadataOK(d) /\ UniqueIDs(d.dataNodes) /\ d.index + 1 \in Nat \ {0}
  <2>1. pending[s] \in Seq(Commands) /\ pending[s] # <<>>
    BY DEF StoreInv, Apply
  <2> QED BY <1>c, <2>1 DEF StoreInv, MetadataOK, Apply
<1>2. PICK e \in Outcomes(c, d) : data' = [data EXCEPT ![s] = [e EXCEPT !.index = d.index + 1]]
  BY <1>c DEF Apply
<1>3. Good(d, e) /\ Spread(d, e)
  BY <1>1, CommandGood
<1>f. PICK f : f = [e EXCEPT !.index = d.index + 1]
  OBVIOUS
<1>4. Good(d, f) /\ Spread(d, f) /\ f.index = d.index + 1
  BY <1>1, <1>3, <1>f, IndexMovesOn
<1>5. data'[s] = f
  BY <1>2, <1>f DEF StoreInv
<1>6. ASSUME ~moved'[s] PROVE SharedIDsOK(f)
  <2>1. ~moved[s] /\ ~MovesAway(c, d)
    BY <1>6, <1>c DEF Apply, StoreInv
  <2>2. SharedIDsOK(e)
    BY <1>1, <1>c, <2>1, SharedIDsStay DEF StoreInv
  <2>3. f.dataNodes = e.dataNodes /\ f.metaNodes = e.metaNodes
    BY <1>3, <1>f DEF Good, MetadataOK, IsMetadata
  <2> QED BY <2>2, <2>3 DEF SharedIDsOK
<1> QED BY <1>c, <1>4, <1>5, <1>6

LEMMA ApplyStep ==
  ASSUME StoreInv, NEW s \in Servers, Apply(s)
  PROVE  StoreInv'
<1>1. /\ IsFunction(data') /\ DOMAIN data' = Servers
      /\ moved' \in [Servers -> BOOLEAN]
      /\ \A r \in Servers : r # s => /\ data'[r] = data[r] /\ pending'[r] = pending[r]
                                     /\ moved'[r] = moved[r]
  <2>1. PICK f : data' = [data EXCEPT ![s] = f]
    BY DEF Apply
  <2>2. pending' = [pending EXCEPT ![s] = Tail(pending[s])]
    BY DEF Apply
  <2>3. /\ moved' \in [Servers -> BOOLEAN]
        /\ \A r \in Servers : r # s => moved'[r] = moved[r]
    BY DEF Apply, StoreInv, MovesAway
  <2> QED BY <2>1, <2>2, <2>3 DEF StoreInv, IsFunction
<1>2. /\ MetadataOK(data'[s]) /\ data'[s].index = data[s].index + 1
      /\ ~moved'[s] => SharedIDsOK(data'[s])
  BY ApplyIsGood DEF Good
<1>3. /\ pending[s] \in Seq(Commands) /\ pending[s] # <<>>
      /\ data[s].index \in Nat /\ data[s].index + Len(pending[s]) <= MaxIndex
  BY DEF StoreInv, Apply, CommittedIndex, MetadataOK
<1>4. Tail(pending[s]) \in Seq(Commands) /\ Len(Tail(pending[s])) = Len(pending[s]) - 1
  BY <1>3
<1>5. pending' \in [Servers -> Seq(Commands)] /\ pending'[s] = Tail(pending[s])
  BY <1>4 DEF Apply, StoreInv
<1>6. data'[s].index + Len(pending'[s]) <= MaxIndex
  <2>1. Len(pending[s]) \in Nat
    BY <1>3
  <2>2. PICK i, n : i = data[s].index /\ n = Len(pending[s])
    OBVIOUS
  <2>3. Len(pending'[s]) = n - 1 /\ data'[s].index = i + 1
    BY <1>2, <1>4, <1>5, <2>2
  <2>4. i \in Nat /\ n \in Nat /\ i + n <= MaxIndex /\ (i + 1) + (n - 1) = i + n
    BY <1>3, <2>1, <2>2
  <2> QED BY <2>3, <2>4
<1>7. ASSUME NEW r \in Servers
      PROVE  /\ MetadataOK(data'[r]) /\ data'[r].index + Len(pending'[r]) <= MaxIndex
             /\ ~moved'[r] => SharedIDsOK(data'[r])
  <2>1. CASE r = s
    BY <1>2, <1>6, <2>1
  <2>2. CASE r # s
    BY <1>1, <2>2 DEF StoreInv, CommittedIndex
  <2> QED BY <2>1, <2>2
<1> QED BY <1>1, <1>5, <1>7 DEF StoreInv, CommittedIndex

LEMMA RestoreStep ==
  ASSUME StoreInv, NEW s \in Servers, NEW from \in Servers, Restore(s, from)
  PROVE  StoreInv'
<1>1. /\ IsFunction(data') /\ DOMAIN data' = Servers
      /\ pending' \in [Servers -> Seq(Commands)]
      /\ moved' \in [Servers -> BOOLEAN]
      /\ data'[s] = data[from] /\ pending'[s] = pending[from] /\ moved'[s] = moved[from]
      /\ \A r \in Servers : r # s => /\ data'[r] = data[r] /\ pending'[r] = pending[r]
                                     /\ moved'[r] = moved[r]
  BY DEF StoreInv, Restore, IsFunction
<1>2. ASSUME NEW r \in Servers
      PROVE  /\ MetadataOK(data'[r]) /\ data'[r].index + Len(pending'[r]) <= MaxIndex
             /\ ~moved'[r] => SharedIDsOK(data'[r])
  <2>1. CASE r = s
    BY <1>1, <2>1 DEF StoreInv, CommittedIndex
  <2>2. CASE r # s
    BY <1>1, <2>2 DEF StoreInv, CommittedIndex
  <2> QED BY <2>1, <2>2
<1> QED BY <1>1, <1>2 DEF StoreInv, CommittedIndex

\* The commands carry IDs that were read from some server.
LEMMA KnownIDs ==
  ASSUME StoreInv
  PROVE  /\ KnownGroups \subseteq Nat
         /\ KnownNodes([s \in Servers |-> data[s].dataNodes]) \subseteq Nat
         /\ KnownNodes([s \in Servers |-> data[s].metaNodes]) \subseteq Nat
<1>1. ASSUME NEW s \in Servers
      PROVE  /\ DOMAIN data[s].groups \subseteq Nat
             /\ IDs(data[s].dataNodes) \subseteq Nat /\ IDs(data[s].metaNodes) \subseteq Nat
  <2>1. NodesOK(data[s]) /\ GroupsOK(data[s])
    BY DEF StoreInv, MetadataOK
  <2>2. \A g \in DOMAIN data[s].groups : g \in 1 .. data[s].maxGroup
    BY <2>1 DEF GroupsOK, GroupOK
  <2>3. DOMAIN data[s].groups \subseteq Nat
    BY <2>1, <2>2 DEF GroupsOK
  <2>4. \A n \in data[s].dataNodes \cup data[s].metaNodes : n.id \in Nat
    BY <2>1 DEF NodesOK
  <2> QED BY <2>3, <2>4 DEF IDs
<1> QED BY <1>1 DEF KnownGroups, KnownNodes

LEMMA StoreInvStep == StoreInv /\ [Next]_vars => StoreInv'
<1> SUFFICES ASSUME StoreInv, [Next]_vars PROVE StoreInv'
  OBVIOUS
<1>1. CASE CommitNodes
  <2>1. \E c \in Commands : Commit(c)
    BY <1>1, KnownIDs DEF CommitNodes, Commands
  <2> QED BY <2>1, CommitStep
<1>2. CASE CommitDatabases
  <2>1. \E c \in Commands : Commit(c)
    BY <1>2 DEF CommitDatabases, Commands
  <2> QED BY <2>1, CommitStep
<1>3. CASE CommitGroups
  <2>1. \E c \in Commands : Commit(c)
    BY <1>3, KnownIDs DEF CommitGroups, Commands
  <2> QED BY <2>1, CommitStep
<1>4. CASE CommitUsers
  <2>1. \E c \in Commands : Commit(c)
    BY <1>4 DEF CommitUsers, Commands
  <2> QED BY <2>1, CommitStep
<1>5. CASE \E s \in Servers : Apply(s)
  BY <1>5, ApplyStep
<1>6. CASE \E s, from \in Servers : Restore(s, from)
  BY <1>6, RestoreStep
<1>7. CASE UNCHANGED vars
  BY <1>7 DEF vars, StoreInv, CommittedIndex
<1> QED BY <1>1, <1>2, <1>3, <1>4, <1>5, <1>6, <1>7 DEF Next

-----------------------------------------------------------------------------
(* The theorems *)

\* The metadata of every server satisfies MetadataOK, whatever is committed, applied
\* and restored in whatever order, and SharedIDsOK until a meta node moves away from a
\* data node with its ID (storeFSM.Apply, storeFSM.Restore).
THEOREM StoreInvariant == Spec => []StoreInv
<1>1. Init => StoreInv
  BY StoreInvInit
<1>2. StoreInv /\ [Next]_vars => StoreInv'
  BY StoreInvStep
<1> QED BY <1>1, <1>2, PTL DEF Spec

\* Every field of every server's metadata has its type, and what it refers to exists.
THEOREM StoreTypeCorrect == Spec => []TypeOK
<1>1. StoreInv => TypeOK
  <2> SUFFICES ASSUME StoreInv, NEW s \in Servers, NEW d, d = data[s]
               PROVE  /\ d.index \in 1 .. MaxIndex
                      /\ d.dataNodes \subseteq Nodes /\ d.metaNodes \subseteq Nodes
                      /\ DatabasesOf(d) \subseteq Databases
                      /\ \A db \in DatabasesOf(d) : d.defaults[db] \in Policies \cup {NoPolicy}
                      /\ \A k \in DOMAIN d.policies : k \in DatabasesOf(d) \X Policies
                      /\ \A g \in DOMAIN d.groups :
                            /\ g \in 1 .. d.maxGroup
                            /\ <<d.groups[g].db, d.groups[g].rp>> \in DOMAIN d.policies
                            /\ d.groups[g].deleted \in BOOLEAN
                      /\ DOMAIN d.users \subseteq Users
                      /\ \A u \in DOMAIN d.users : d.users[u] \subseteq DatabasesOf(d)
    BY DEF TypeOK
  <2>1. MetadataOK(d)
    BY DEF StoreInv
  <2>2. d.index \in 1 .. MaxIndex
    <3>1. pending[s] \in Seq(Commands) /\ d.index + Len(pending[s]) <= MaxIndex
      BY DEF StoreInv, CommittedIndex
    <3>2. Len(pending[s]) \in Nat /\ d.index \in Nat \ {0}
      BY <2>1, <3>1 DEF MetadataOK
    <3> QED BY <3>1, <3>2, MetaStoreAssumption
  <2>3. d.dataNodes \subseteq Nodes /\ d.metaNodes \subseteq Nodes
    BY <2>1 DEF MetadataOK, NodesOK, Nodes
  <2>4. \A g \in DOMAIN d.groups :
            /\ g \in 1 .. d.maxGroup
            /\ <<d.groups[g].db, d.groups[g].rp>> \in DOMAIN d.policies
            /\ d.groups[g].deleted \in BOOLEAN
    BY <2>1 DEF MetadataOK, GroupsOK, GroupOK
  <2> QED BY <2>1, <2>2, <2>3, <2>4 DEF MetadataOK, PoliciesOK, UsersOK
<1> QED BY <1>1, StoreInvariant, PTL

\* Two data nodes have one ID only after a meta node that shared its ID with a data
\* node was given another address (CreateDataNode, CreateMetaNode, SetMetaNode).
THEOREM IDsAreSharedByMovesOnly == Spec => []OnlyMovesShareIDs
<1>1. StoreInv => OnlyMovesShareIDs
  BY DEF StoreInv, SharedIDsOK, OnlyMovesShareIDs
<1> QED BY <1>1, StoreInvariant, PTL

\* Every owner is a data node, and a shard that takes writes has an owner, whichever
\* nodes are removed (DeleteDataNode, CreateShardGroup).
THEOREM ShardsHaveOwners == Spec => []LiveShardsAreOwned
<1>1. StoreInv => LiveShardsAreOwned
  BY DEF StoreInv, MetadataOK, GroupsOK, GroupOK, Owned, LiveShardsAreOwned
<1> QED BY <1>1, StoreInvariant, PTL

\* A timestamp belongs to one live group of a policy at most (CreateShardGroup,
\* UpdateRetentionPolicy).
THEOREM APointHasOneHome == Spec => []LiveGroupsAreDisjoint
<1>1. StoreInv => LiveGroupsAreDisjoint
  BY DEF StoreInv, MetadataOK, GroupsOK, Apart, LiveGroupsAreDisjoint
<1> QED BY <1>1, StoreInvariant, PTL

\* A command takes no shard from an owner that stays, and gives a shard a new owner only
\* when it has lost the others (DeleteDataNode).
THEOREM OwnersStay == Spec => OwnersKeepTheirShards
<1>1. StoreInv /\ [Next]_vars =>
        [\A s \in Servers : Apply(s) => OwnersKept(data[s], data'[s])]_vars
  BY ApplyIsGood DEF Good
<1> QED BY <1>1, StoreInvariant, PTL DEF Spec, OwnersKeepTheirShards

\* A command gives no group or shard ID a second time, and revives no deleted group
\* (CreateShardGroup, DropRetentionPolicy, DeleteShardGroup).
THEOREM IDsAreGivenOnce == Spec => IDsAreNotReused
<1>1. StoreInv /\ [Next]_vars =>
        [\A s \in Servers : Apply(s) => NoIDAgain(data[s], data'[s])]_vars
  BY ApplyIsGood DEF Good
<1> QED BY <1>1, StoreInvariant, PTL DEF Spec, IDsAreNotReused

\* The round robin of CreateShardGroup gives every shard the replicas its policy asks for,
\* as far as there are nodes, and no node two shards of a group.
THEOREM RoundRobinIsFair == Spec => NewGroupsAreSpread
<1>1. StoreInv /\ [Next]_vars =>
        [\A s \in Servers : Apply(s) => Spread(data[s], data'[s])]_vars
  BY ApplyIsGood
<1> QED BY <1>1, StoreInvariant, PTL DEF Spec, NewGroupsAreSpread

=============================================================================
