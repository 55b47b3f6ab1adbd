----------------------------- MODULE MetaStore ------------------------------
(***************************************************************************)
(* The replicated meta store (services/meta/store.go, store_fsm.go): raft  *)
(* commits commands in one order, and every meta server applies them to    *)
(* its own copy of the metadata, at its own pace.  Raft itself is external *)
(* (vendor/github.com/hashicorp/raft): a command that is committed is      *)
(* given to every server once, in order, and a server that is started or   *)
(* has fallen behind is given a snapshot and the commands after it.        *)
(***************************************************************************)
EXTENDS MetaData, Sequences

CONSTANTS
    Servers,     \* meta servers
    Databases, Policies, Users,
    PolicySpecs, \* the policies that clients create
    Durations, ReplicaNs, \* what clients change a policy to
    Times,       \* timestamps of points that need a shard group
    MaxIndex,    \* bound on the raft index
    MaxLag       \* bound on the commands a server is behind

ASSUME MetaStoreAssumption ==
    /\ Servers # {} /\ IsFiniteSet(Servers)
    /\ AutoGen \in Policies /\ NoPolicy \notin Policies
    /\ Times \subseteq Nat /\ ReplicaNs \subseteq Nat /\ Durations \subseteq Nat
    /\ PolicySpecs \subseteq [replicaN : Nat, duration : Nat, sgd : Nat \ {0}]
    /\ MaxIndex \in Nat \ {0} /\ MaxLag \in Nat

VARIABLES data,    \* server -> store.data
          pending, \* server -> committed commands it has not applied
          moved    \* server -> whether a meta node took a data node's ID elsewhere (history)

vars == <<data, pending, moved>>

Init ==
    /\ data = [s \in Servers |-> NewData]
    /\ pending = [s \in Servers |-> <<>>]
    /\ moved = [s \in Servers |-> FALSE]

\* raft: a command is committed.
CommittedIndex(s) == data[s].index + Len(pending[s])

Commit(c) ==
    /\ \A s \in Servers : CommittedIndex(s) < MaxIndex /\ Len(pending[s]) < MaxLag
    /\ pending' = [s \in Servers |-> Append(pending[s], c)]
    /\ UNCHANGED <<data, moved>>

\* storeFSM.Apply: the outcomes of a command on a server's metadata.  The
\* configuration belongs to the server and may change when it is restarted.
Outcomes(c, d) ==
    CASE c.op = "CreateDataNode" -> {CreateDataNode(d, c.addr)}
      [] c.op = "DeleteDataNode" -> DeleteDataNode(d, c.id)
      [] c.op = "CreateMetaNode" -> {CreateMetaNode(d, c.addr)}
      [] c.op = "SetMetaNode" -> {SetMetaNode(d, c.addr)}
      [] c.op = "DeleteMetaNode" -> DeleteMetaNode(d, c.id)
      [] c.op = "CreateDatabase" -> {CreateDatabase(d, c.db, auto) : auto \in RetentionAutoCreate}
      [] c.op = "CreateDatabaseWith" -> {CreateDatabaseWith(d, c.db, c.rp, c.spec)}
      [] c.op = "DropDatabase" -> {DropDatabase(d, c.db)}
      [] c.op = "CreateRetentionPolicy" -> {CreateRetentionPolicy(d, c.db, c.rp, c.spec)}
      [] c.op = "DropRetentionPolicy" -> {DropRetentionPolicy(d, c.db, c.rp)}
      [] c.op = "SetDefaultRetentionPolicy" -> {SetDefaultRetentionPolicy(d, c.db, c.rp)}
      [] c.op = "UpdateRetentionPolicy" ->
            {UpdateRetentionPolicy(d, c.db, c.rp, c.name, c.duration, c.replicaN)}
      [] c.op = "CreateShardGroup" -> {CreateShardGroup(d, c.db, c.rp, c.time)}
      [] c.op = "DeleteShardGroup" -> {DeleteShardGroup(d, c.db, c.rp, c.id)}
      [] c.op = "CreateUser" -> {CreateUser(d, c.user)}
      [] c.op = "DropUser" -> {DropUser(d, c.user)}
      [] c.op = "SetPrivilege" -> {SetPrivilege(d, c.user, c.db)}

\* The only meta node shares its ID with a data node, whose address is not the one
\* that the meta node gets.
MovesAway(c, d) ==
    /\ c.op = "SetMetaNode" /\ ~(Cardinality(d.metaNodes) > 1)
    /\ \E m \in d.metaNodes, n \in d.dataNodes : m.id = n.id /\ n.addr # c.addr

UniqueIDs(nodes) == \A m, n \in nodes : m.id = n.id => m = n

\* The index moves on, whether the command failed or not.  A server is followed
\* until two of its data nodes have one ID: the list of a shard's owners, a set
\* here, could hold that ID twice.
Apply(s) ==
    /\ pending[s] # <<>>
    /\ UniqueIDs(data[s].dataNodes)
    /\ \E d \in Outcomes(Head(pending[s]), data[s]) :
          data' = [data EXCEPT ![s] = [d EXCEPT !.index = data[s].index + 1]]
    /\ pending' = [pending EXCEPT ![s] = Tail(@)]
    /\ moved' = [moved EXCEPT ![s] = @ \/ MovesAway(Head(pending[s]), data[s])]

\* storeFSM.Restore: the metadata of the snapshot replaces the server's own.
Restore(s, from) ==
    /\ data[s].index < data[from].index
    /\ data' = [data EXCEPT ![s] = data[from]]
    /\ pending' = [pending EXCEPT ![s] = pending[from]]
    /\ moved' = [moved EXCEPT ![s] = moved[from]]

-----------------------------------------------------------------------------
(* The commands that clients and meta servers send, with IDs they can have *)
(* read from some server.                                                  *)

KnownGroups == UNION {DOMAIN data[s].groups : s \in Servers}
KnownNodes(nodes) == UNION {IDs(nodes[s]) : s \in Servers}

CommitNodes ==
    \/ \E a \in DataAddrs : Commit([op |-> "CreateDataNode", addr |-> a])
    \/ \E i \in KnownNodes([s \in Servers |-> data[s].dataNodes]) :
          Commit([op |-> "DeleteDataNode", id |-> i])
    \/ \E a \in MetaAddrs, o \in {"CreateMetaNode", "SetMetaNode"} :
          Commit([op |-> o, addr |-> a])
    \/ \E i \in KnownNodes([s \in Servers |-> data[s].metaNodes]) :
          Commit([op |-> "DeleteMetaNode", id |-> i])

CommitDatabases ==
    \E db \in Databases :
       \/ \E o \in {"CreateDatabase", "DropDatabase"} : Commit([op |-> o, db |-> db])
       \/ \E rp \in Policies, o \in {"DropRetentionPolicy", "SetDefaultRetentionPolicy"} :
             Commit([op |-> o, db |-> db, rp |-> rp])
       \/ \E rp \in Policies, p \in PolicySpecs, o \in {"CreateDatabaseWith", "CreateRetentionPolicy"} :
             Commit([op |-> o, db |-> db, rp |-> rp, spec |-> p])
       \/ \E rp, name \in Policies, t \in Durations, n \in ReplicaNs :
             Commit([op |-> "UpdateRetentionPolicy", db |-> db, rp |-> rp, name |-> name,
                     duration |-> t, replicaN |-> n])

CommitGroups ==
    \E db \in Databases, rp \in Policies :
       \/ \E t \in Times : Commit([op |-> "CreateShardGroup", db |-> db, rp |-> rp, time |-> t])
       \/ \E g \in KnownGroups :
             Commit([op |-> "DeleteShardGroup", db |-> db, rp |-> rp, id |-> g])

CommitUsers ==
    \E u \in Users :
       \/ \E o \in {"CreateUser", "DropUser"} : Commit([op |-> o, user |-> u])
       \/ \E db \in Databases : Commit([op |-> "SetPrivilege", user |-> u, db |-> db])

Next ==
    \/ CommitNodes
    \/ CommitDatabases
    \/ CommitGroups
    \/ CommitUsers
    \/ \E s \in Servers : Apply(s)
    \/ \E s, from \in Servers : Restore(s, from)

Spec == Init /\ [][Next]_vars

-----------------------------------------------------------------------------
Nodes == [id : Nat \ {0}, addr : DataAddrs \cup MetaAddrs]

\* Every field has its type, and what it refers to exists: a policy its
\* database, a group its policy, a privilege its database, whatever is dropped
\* (DropDatabase, DropRetentionPolicy).
TypeOK ==
    \A s \in Servers : LET d == data[s] IN
        /\ d.index \in 1 .. MaxIndex
        /\ d.dataNodes \subseteq Nodes /\ d.metaNodes \subseteq Nodes
        /\ DatabasesOf(d) \subseteq Databases
        /\ \A db \in DatabasesOf(d) : d.defaults[db] \in Policies \cup {NoPolicy}
        /\ \A k \in DOMAIN d.policies : k \in DatabasesOf(d) \X Policies
        /\ \A g \in DOMAIN d.groups :
              /\ g \in 1 .. d.maxGroup
              /\ <<d.groups[g].db, d.groups[g].rp>> \in DOMAIN d.policies
              /\ d.groups[g].deleted \in BOOLEAN
        /\ DOMAIN d.users \subseteq Users
        /\ \A u \in DOMAIN d.users : d.users[u] \subseteq DatabasesOf(d)

\* "these nodes are actually the same so re-use the existing ID" (data.go:78): nodes
\* with one ID are one node.  Owners, connections and hints are addressed by ID.
NodeIDsAreUnique == \A s \in Servers : UniqueIDs(data[s].dataNodes)

\* Two data nodes have one ID only after a meta node that shared its ID with a
\* data node was given another address: neither the IDs that data and meta nodes
\* take over from each other, nor any order of joins and removals, nor a move of a
\* meta node that shares its ID with nobody, gives an ID to a second data node
\* (CreateDataNode, CreateMetaNode, SetMetaNode).
OnlyMovesShareIDs ==
    \A s \in Servers : moved[s] \/ UniqueIDs(data[s].dataNodes)

\* Every owner of a shard is a data node of the cluster, and every shard of a
\* group that takes writes has an owner, whichever nodes are removed in
\* whichever order (DeleteDataNode).
LiveShardsAreOwned ==
    \A s \in Servers : \A g \in DOMAIN data[s].groups :
        LET sg == data[s].groups[g] IN
        \A h \in DOMAIN sg.shards :
            /\ sg.shards[h] \subseteq IDs(data[s].dataNodes)
            /\ ~sg.deleted => sg.shards[h] # {}

\* A timestamp belongs to one group of a policy at most, also after the policy
\* was altered, renamed, dropped and created again: a point has one home
\* (CreateShardGroup, UpdateRetentionPolicy).
LiveGroupsAreDisjoint ==
    \A s \in Servers : \A g, h \in DOMAIN data[s].groups :
        LET G == data[s].groups[g]
            H == data[s].groups[h]
        IN  g # h /\ G.db = H.db /\ G.rp = H.rp /\ ~G.deleted /\ ~H.deleted
                => G.end <= H.start \/ H.end <= G.start

-----------------------------------------------------------------------------
\* Metadata d before a command and e after it.
OwnersKept(d, e) ==
    \A g \in DOMAIN d.groups \cap DOMAIN e.groups :
        LET old == d.groups[g].shards
            new == e.groups[g].shards
        IN  \A h \in DOMAIN old :
                /\ h \in DOMAIN new
                /\ old[h] \cap IDs(e.dataNodes) \subseteq new[h]
                /\ new[h] \subseteq old[h] \/ old[h] \cap IDs(e.dataNodes) = {}

NoIDAgain(d, e) ==
    /\ e.maxShard >= d.maxShard /\ e.maxGroup >= d.maxGroup
    /\ \A h \in ShardsOf(e) \ ShardsOf(d) : h > d.maxShard
    /\ \A g \in DOMAIN e.groups :
          IF g \in DOMAIN d.groups
          THEN d.groups[g].deleted => e.groups[g].deleted
          ELSE g > d.maxGroup

Spread(d, e) ==
    \A g \in DOMAIN e.groups \ DOMAIN d.groups :
        LET sg == e.groups[g]
            n == Cardinality(d.dataNodes)
            asked == d.policies[<<sg.db, sg.rp>>].replicaN
        IN  /\ sg.shards # <<>>
            /\ \A h \in DOMAIN sg.shards :
                  /\ Cardinality(sg.shards[h]) = n \/ Cardinality(sg.shards[h]) >= asked
                  /\ \A i \in DOMAIN sg.shards :
                        i # h => sg.shards[h] \cap sg.shards[i] = {}

\* Removing nodes never takes a shard away from an owner that stays, and a
\* node becomes an owner of an existing shard only if the shard had lost all
\* the others: data nodes do not have to move shards otherwise.
OwnersKeepTheirShards ==
    [][\A s \in Servers : Apply(s) => OwnersKept(data[s], data'[s])]_vars

\* Commands never give an ID twice, and a group marked as deleted stays so until its
\* policy goes: data nodes remove the files of deleted groups by ID, and would
\* remove those of a new shard with an old ID.
IDsAreNotReused ==
    [][\A s \in Servers : Apply(s) => NoIDAgain(data[s], data'[s])]_vars

\* A new group gives every shard as many different owners as the policy asks
\* for, as far as there are nodes, and no node two of its shards
\* (CreateShardGroup).
NewGroupsAreSpread ==
    [][\A s \in Servers : Apply(s) => Spread(data[s], data'[s])]_vars

\* What raft requires of Apply: servers that have applied the same commands
\* have the same shard groups, with the same owners.
ServersAgree ==
    \A s, r \in Servers : data[s].index = data[r].index => data[s].groups = data[r].groups
=============================================================================
