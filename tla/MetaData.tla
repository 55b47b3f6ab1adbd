------------------------------ MODULE MetaData ------------------------------
(***************************************************************************)
(* The cluster's metadata and the commands that change it                  *)
(* (services/meta/data.go, and the apply functions of store_fsm.go).       *)
(*                                                                         *)
(* Every command is an operator from metadata to metadata; it returns its  *)
(* argument where the code returns an error, because the state machine     *)
(* then keeps the metadata it has.  DeleteDataNode returns a set: it asks  *)
(* a Go map which of several equally loaded nodes comes first.             *)
(*                                                                         *)
(* Left out: continuous queries, subscriptions, password hashes and the    *)
(* admin flag of users, the commands of servers older than 0.10, and       *)
(* TruncatedAt, which no command sets.                                     *)
(***************************************************************************)
EXTENDS Naturals, FiniteSets, Functions

CONSTANTS
    DataAddrs,   \* addresses (Host and TCPHost) of data nodes
    MetaAddrs,   \* addresses of meta nodes
    AutoGen,     \* autoCreateRetentionPolicyName
    AutoSGD,     \* the shard group duration of an infinite policy
    RetentionAutoCreate \* the settings of retention-autocreate that servers run with

ASSUME MetaDataAssumption ==
    /\ AutoSGD \in Nat \ {0}
    /\ RetentionAutoCreate \subseteq BOOLEAN /\ RetentionAutoCreate # {}

NoPolicy == "no policy"

NewData ==
    [index     |-> 1,    \* raft index of the last command
     dataNodes |-> {},   \* NodeInfo
     metaNodes |-> {},
     maxNode   |-> 0,
     defaults  |-> <<>>, \* database -> its DefaultRetentionPolicy, or NoPolicy
     policies  |-> <<>>, \* <<database, policy>> -> RetentionPolicyInfo
     groups    |-> <<>>, \* ID -> ShardGroupInfo; shards: ID -> its owners
     maxGroup  |-> 0,
     maxShard  |-> 0,
     users     |-> <<>>] \* user -> databases it has a privilege on

Put(f, k, v) == [x \in DOMAIN f \cup {k} |-> IF x = k THEN v ELSE f[x]]
Without(f, S) == Restrict(f, DOMAIN f \ S)

IDs(nodes) == {n.id : n \in nodes}
DatabasesOf(d) == DOMAIN d.defaults
GroupsOf(d, db, rp) ==
    {g \in DOMAIN d.groups : d.groups[g].db = db /\ d.groups[g].rp = rp}
ShardsOf(d) == UNION {DOMAIN d.groups[g].shards : g \in DOMAIN d.groups}
Contains(g, t) == g.start <= t /\ t < g.end

-----------------------------------------------------------------------------
(* Nodes                                                                   *)

NodeIDByCount(d, others, a) == Cardinality(d.dataNodes) + 1

\* A server that is a meta node and a data node has one ID for both.
NodeID(d, others, a) ==
    IF \E n \in others : n.addr = a
    THEN (CHOOSE n \in others : n.addr = a).id
    ELSE d.maxNode + 1

CreateDataNode(d, a) ==
    LET id == NodeID(d, d.metaNodes, a)
    IN  IF \E n \in d.dataNodes : n.addr = a THEN d
        ELSE [d EXCEPT !.dataNodes = @ \cup {[id |-> id, addr |-> a]},
                       !.maxNode = IF id > @ THEN id ELSE @]

CreateMetaNode(d, a) ==
    LET id == NodeID(d, d.dataNodes, a)
    IN  IF \E n \in d.metaNodes : n.addr = a THEN d
        ELSE [d EXCEPT !.metaNodes = @ \cup {[id |-> id, addr |-> a]},
                       !.maxNode = IF id > @ THEN id ELSE @]

\* The only meta node has a new address.
SetMetaNode(d, a) ==
    CASE Cardinality(d.metaNodes) > 1 -> d
      [] d.metaNodes = {} -> CreateMetaNode(d, a)
      [] OTHER -> [d EXCEPT !.metaNodes = {[n EXCEPT !.addr = a] : n \in @}]

\* applyDeleteMetaNodeCommand: the raft leader removes the server from the
\* raft group first, and does nothing if that fails.
DeleteMetaNode(d, id) ==
    {d, [d EXCEPT !.metaNodes = {n \in @ : n.id # id}]}

\* What DeleteDataNode does to a shard group: the node is taken off every
\* shard, and a shard without owners goes to the node that owns the fewest
\* shards of the group by then (newShardOwner); f says which one that is.
Orphans(g, id) == {s \in DOMAIN g.shards : g.shards[s] \subseteq {id}}
RemainingAll(g, id) == UNION {g.shards[s] : s \in DOMAIN g.shards}
Remaining(g, id) == (UNION {g.shards[s] : s \in DOMAIN g.shards}) \ {id}
Load(g, n) == Cardinality({s \in DOMAIN g.shards : n \in g.shards[s]})
LoadBefore(g, f, s, n) == Load(g, n) + Cardinality({o \in DOMAIN f : o < s /\ f[o] = n})
newShardOwner(g, id, f) ==
    \A s \in DOMAIN f : \A n \in Remaining(g, id) :
        LoadBefore(g, f, s, f[s]) <= LoadBefore(g, f, s, n)

RelinquishFirst(owners, id) ==
    IF id \in owners THEN owners \ {id} ELSE owners \ {CHOOSE o \in owners : TRUE}

Relinquish(owners, id) == owners \ {id}

RemoveOwner(g, id) ==
    LET orphans == Orphans(g, id)
        Left(f) == [s \in DOMAIN g.shards |->
                       IF s \in DOMAIN f THEN {f[s]} ELSE Relinquish(g.shards[s], id)]
    IN  IF orphans = DOMAIN g.shards
        THEN {[g EXCEPT !.deleted = TRUE, !.shards = Left(<<>>)]}
        ELSE {[g EXCEPT !.shards = Left(f)] :
                 f \in {h \in [orphans -> Remaining(g, id)] : newShardOwner(g, id, h)}}

DeleteDataNode(d, id) ==
    LET After == [g \in DOMAIN d.groups |-> RemoveOwner(d.groups[g], id)]
    IN  IF id \notin IDs(d.dataNodes) THEN {d}
        ELSE {[d EXCEPT !.dataNodes = {n \in @ : n.id # id}, !.groups = gs] :
                 gs \in {h \in [DOMAIN After -> UNION Range(After)] :
                            \A g \in DOMAIN After : h[g] \in After[g]}}

-----------------------------------------------------------------------------
(* Databases and retention policies                                        *)

Compatible(p) == p.duration > 0 => p.duration >= p.sgd
Valid(p) == p.replicaN >= 1 /\ Compatible(p)

\* A policy that exists already is left alone, an error or not; the command
\* never asks for the policy to become the default.
CreateRetentionPolicy(d, db, rp, p) ==
    IF /\ Valid(p)
       /\ db \in DatabasesOf(d)
       /\ <<db, rp>> \notin DOMAIN d.policies
    THEN [d EXCEPT !.policies = Put(@, <<db, rp>>, p)]
    ELSE d

SetDefaultRetentionPolicy(d, db, rp) ==
    IF <<db, rp>> \in DOMAIN d.policies THEN [d EXCEPT !.defaults[db] = rp] ELSE d

\* A database that exists already is left alone; a new one has no policy yet.
WithDatabase(d, db) ==
    [d EXCEPT !.defaults = IF db \in DOMAIN @ THEN @ ELSE Put(@, db, NoPolicy)]

\* applyCreateDatabaseCommand with a policy of the client's; it fails as a
\* whole when the policy exists and differs, or is not valid.
CreateDatabaseWith(d, db, rp, p) ==
    LET with == CreateRetentionPolicy(WithDatabase(d, db), db, rp, p)
    IN  IF Valid(p) /\ with.policies[<<db, rp>>] = p
        THEN SetDefaultRetentionPolicy(with, db, rp)
        ELSE d

\* The same without a policy: a server whose configuration says so makes one, and
\* any other leaves the database without a default.
CreateDatabase(d, db, autoCreate) ==
    IF autoCreate
    THEN CreateDatabaseWith(d, db, AutoGen, [replicaN |-> 1, duration |-> 0, sgd |-> AutoSGD])
    ELSE WithDatabase(d, db)

DropDatabaseKeepingPrivileges(d, db) ==
    [d EXCEPT !.defaults = Without(@, {db}),
              !.policies = Without(@, {k \in DOMAIN @ : k[1] = db}),
              !.groups = Without(@, {g \in DOMAIN @ : @[g].db = db})]

\* The privileges on the database go with it.
DropDatabase(d, db) ==
    [d EXCEPT !.defaults = Without(@, {db}),
              !.policies = Without(@, {k \in DOMAIN @ : k[1] = db}),
              !.groups = Without(@, {g \in DOMAIN @ : @[g].db = db}),
              !.users = [u \in DOMAIN @ |-> @[u] \ {db}]]

DropRetentionPolicyCountingGroups(d, db, rp) ==
    [d EXCEPT !.policies = Without(@, {<<db, rp>>}),
              !.groups = Without(@, GroupsOf(d, db, rp)),
              !.maxGroup = Cardinality(DOMAIN d.groups \ GroupsOf(d, db, rp))]

\* The default of the database is not looked at.
DropRetentionPolicy(d, db, rp) ==
    [d EXCEPT !.policies = Without(@, {<<db, rp>>}),
              !.groups = Without(@, GroupsOf(d, db, rp))]

UpdatedResized(p, duration, replicaN) ==
    [p EXCEPT !.duration = duration, !.replicaN = replicaN,
              !.sgd = IF duration = 0 THEN AutoSGD ELSE @]

Updated(p, duration, replicaN) == [p EXCEPT !.duration = duration, !.replicaN = replicaN]

UpdateAllowed(d, db, rp, name, new) ==
    /\ <<db, rp>> \in DOMAIN d.policies
    /\ name # rp => <<db, name>> \notin DOMAIN d.policies
    /\ Compatible(new)

\* The command carries a new name, a duration and a replication factor; the
\* shard group duration stays, and the default keeps the old name.
UpdateRetentionPolicy(d, db, rp, name, duration, replicaN) ==
    LET new == Updated(d.policies[<<db, rp>>], duration, replicaN)
    IN  IF UpdateAllowed(d, db, rp, name, new)
        THEN [d EXCEPT !.policies = Put(Without(@, {<<db, rp>>}), <<db, name>>, new),
                       !.groups = [g \in DOMAIN @ |->
                           IF g \in GroupsOf(d, db, rp) THEN [@[g] EXCEPT !.rp = name] ELSE @[g]]]
        ELSE d

-----------------------------------------------------------------------------
(* Shard groups                                                            *)

\* The k-th data node by ID, counted from 0.
NodeAt(d, k) ==
    CHOOSE i \in IDs(d.dataNodes) : Cardinality({j \in IDs(d.dataNodes) : j < i}) = k

ReplicaNUncapped(p, n) == IF p.replicaN = 0 THEN 1 ELSE p.replicaN

\* At least one replica but no more replicas than nodes.
ReplicaN(p, n) ==
    CASE p.replicaN = 0 -> 1
      [] p.replicaN > n -> n
      [] OTHER -> p.replicaN

\* Owners are dealt out round robin.
CreateShardGroup(d, db, rp, t) ==
    LET p == d.policies[<<db, rp>>]
        n == Cardinality(d.dataNodes)
        replicaN == ReplicaN(p, n)
        shardN == n \div replicaN
        start == t - (t % p.sgd)
        owners(i) == {NodeAt(d, (d.index + i * replicaN + j) % n) : j \in 0 .. replicaN - 1}
        group == [db |-> db, rp |-> rp, start |-> start, end |-> start + p.sgd,
                  deleted |-> FALSE,
                  shards |-> [s \in d.maxShard + 1 .. d.maxShard + shardN |->
                                 owners(s - d.maxShard - 1)]]
    IN  IF /\ d.dataNodes # {}
           /\ <<db, rp>> \in DOMAIN d.policies
           /\ \A g \in GroupsOf(d, db, rp) :
                 d.groups[g].deleted \/ ~Contains(d.groups[g], t)
        THEN [d EXCEPT !.groups = Put(@, d.maxGroup + 1, group),
                       !.maxGroup = @ + 1,
                       !.maxShard = @ + shardN]
        ELSE d

DeleteShardGroup(d, db, rp, g) ==
    IF g \in GroupsOf(d, db, rp) THEN [d EXCEPT !.groups[g].deleted = TRUE] ELSE d

-----------------------------------------------------------------------------
(* Users                                                                   *)

CreateUser(d, u) ==
    IF u \in DOMAIN d.users THEN d ELSE [d EXCEPT !.users = Put(@, u, {})]

DropUser(d, u) == [d EXCEPT !.users = Without(@, {u})]

SetPrivilege(d, u, db) ==
    IF u \in DOMAIN d.users /\ db \in DatabasesOf(d)
    THEN [d EXCEPT !.users[u] = @ \cup {db}]
    ELSE d
=============================================================================
