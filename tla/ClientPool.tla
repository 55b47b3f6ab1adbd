----------------------------- MODULE ClientPool -----------------------------
(***************************************************************************)
(* The connections of the shard writer (coordinator/client_pool.go,        *)
(* pool.go and the parts of shard_writer.go that use them): a map from     *)
(* nodes to bounded pools behind one RWMutex, and goroutines that write    *)
(* shards over connections taken from the pools.  MetaExecutor has a       *)
(* second clientPool that it uses in the same way.                         *)
(*                                                                         *)
(* A goroutine holds Client.mu for reading while Get runs; Get may call    *)
(* connFactory.dial, which takes the same lock for reading once more.      *)
(***************************************************************************)
EXTENDS Naturals, Sequences, FiniteSets, SequencesExt

CONSTANTS Threads,   \* goroutines inside ShardWriter.WriteShard
          Nodes,     \* the nodes they write to
          Conns,     \* connections that may be open at once
          MaxCap,    \* maxCap of every pool (max-remote-write-connections)
          MaxIdle    \* the constant maxConnections of shard_writer.go

None == 0

ASSUME PoolAssumption ==
    /\ IsFiniteSet(Threads) /\ Threads # {} /\ None \notin Threads
    /\ Conns \subseteq Nat \ {None} /\ IsFiniteSet(Conns)
    /\ MaxCap \in Nat \ {0} /\ MaxIdle \in Nat

VARIABLES
    pc, node, \* the place of a goroutine in WriteShard, and its target
    cur,      \* the pool a goroutine made or got its connection from
    held,     \* the connection a goroutine uses, or None
    pool,     \* clientPool.pool: node -> number of its pool, or None
    pools,    \* the pools made so far: their channel and their total
    wire,     \* connection -> writers whose answers are still to be read
    readers,  \* the goroutines that hold clientPool.mu for reading
    announced \* the goroutine whose Lock keeps new readers out, or None

vars == <<pc, node, cur, held, pool, pools, wire, readers, announced>>

Idle(p) == Range(pools[p].conns)
UsersOf(p) == {t \in Threads : held[t] # None /\ cur[t] = p}
OpenOf(p) == Idle(p) \cup {held[t] : t \in UsersOf(p)}
Open == (UNION {OpenOf(p) : p \in DOMAIN pools}) \cup
        {held[t] : t \in {u \in Threads : held[u] # None}}

\* clientPool.size: only idle connections of pools in the map are counted.
size == FoldSet(LAMBDA n, s : s + Cardinality(Idle(pool[n])), 0,
                {n \in Nodes : pool[n] # None})

\* The connection that the next successful dial returns: which one is
\* immaterial, so it is the first that is not open.
NewConn == Min(Conns \ Open)

-----------------------------------------------------------------------------
(* sync.RWMutex: a Lock that waits keeps new readers out.                  *)

CanRLock == announced = None
CanLock(t) == announced = t /\ readers = {}

-----------------------------------------------------------------------------
Init ==
    /\ pc = [t \in Threads |-> "idle"]
    /\ node = [t \in Threads |-> None]
    /\ cur = [t \in Threads |-> None]
    /\ held = [t \in Threads |-> None]
    /\ pool = [n \in Nodes |-> None]
    /\ pools = <<>>
    /\ wire = [c \in Conns |-> <<>>]
    /\ readers = {}
    /\ announced = None

Goto(t, l) == pc' = [pc EXCEPT ![t] = l]

\* WriteShard returns to its caller.
Leave(t) ==
    /\ Goto(t, "idle")
    /\ node' = [node EXCEPT ![t] = None]
    /\ cur' = [cur EXCEPT ![t] = None]
    /\ held' = [held EXCEPT ![t] = None]

Call(t, n) ==
    /\ pc[t] = "idle"
    /\ Goto(t, "lookup")
    /\ node' = [node EXCEPT ![t] = n]
    /\ UNCHANGED <<cur, held, pool, pools, wire, readers, announced>>

\* getPool: the lock is released before the answer is used.
GetPool(t) ==
    /\ pc[t] = "lookup"
    /\ CanRLock
    /\ Goto(t, IF pool[node[t]] = None THEN "newSize" ELSE "conn")
    /\ UNCHANGED <<node, cur, held, pool, pools, wire, readers, announced>>

\* connFactory.dial for the first connection of a new pool and for Get:
\* size takes the read lock, which the goroutine may hold already.
FactorySize(t) ==
    /\ pc[t] \in {"newSize", "getSize"}
    /\ CanRLock
    /\ size <= MaxIdle
    /\ Goto(t, IF pc[t] = "newSize" THEN "newDial" ELSE "getDial")
    /\ UNCHANGED <<node, cur, held, pool, pools, wire, readers, announced>>

\* Too many connections, the node is unknown, or it does not answer.
FactoryFails(t) ==
    /\ \/ pc[t] \in {"newSize", "getSize"} /\ CanRLock /\ size > MaxIdle
       \/ pc[t] \in {"newDial", "getDial"}
    /\ Leave(t)
    /\ readers' = readers \ {t}
    /\ UNCHANGED <<pool, pools, wire, announced>>

\* NewBoundedPool(1, maxCap): the first connection goes into the channel.
NewBoundedPool(t) ==
    /\ pc[t] = "newDial"
    /\ Conns \ Open # {}
    /\ pools' = Append(pools, [conns |-> <<NewConn>>, total |-> 1])
    /\ cur' = [cur EXCEPT ![t] = Len(pools')]
    /\ Goto(t, "announce")
    /\ UNCHANGED <<node, held, pool, wire, readers, announced>>

Announce(t) ==
    /\ pc[t] = "announce"
    /\ announced = None
    /\ announced' = t
    /\ Goto(t, "setPool")
    /\ UNCHANGED <<node, cur, held, pool, pools, wire, readers>>

SetPoolKeepingLock(t) ==
    /\ pc[t] = "setPool"
    /\ CanLock(t)
    /\ pool' = [pool EXCEPT ![node[t]] = cur[t]]
    /\ cur' = [cur EXCEPT ![t] = None]
    /\ Goto(t, "conn")
    /\ UNCHANGED <<node, held, pools, wire, readers, announced>>

\* setPool replaces whatever pool the node has by now.
SetPool(t) ==
    /\ pc[t] = "setPool"
    /\ CanLock(t)
    /\ pool' = [pool EXCEPT ![node[t]] = cur[t]]
    /\ cur' = [cur EXCEPT ![t] = None]
    /\ announced' = None
    /\ Goto(t, "conn")
    /\ UNCHANGED <<node, held, pools, wire, readers>>

TakeCopy(t, p) ==
    /\ pools[p].conns # <<>>
    /\ held' = [held EXCEPT ![t] = Head(pools[p].conns)]
    /\ readers' = readers \ {t}
    /\ Goto(t, "send")
    /\ UNCHANGED pools

\* A connection leaves the channel of pool p for goroutine t, and conn unlocks.
Take(t, p) ==
    /\ pools[p].conns # <<>>
    /\ held' = [held EXCEPT ![t] = Head(pools[p].conns)]
    /\ pools' = [pools EXCEPT ![p].conns = Tail(@)]
    /\ readers' = readers \ {t}
    /\ Goto(t, "send")

\* conn takes the lock and calls Get, whose first select either finds a
\* connection, or may make one, or has to wait.
ConnTakes(t) ==
    /\ pc[t] = "conn"
    /\ CanRLock
    /\ cur' = [cur EXCEPT ![t] = pool[node[t]]]
    /\ Take(t, pool[node[t]])
    /\ UNCHANGED <<node, pool, wire, announced>>

MayGrowToo(p) == p.total <= MaxCap
MayGrow(p) == p.total < MaxCap

\* total is tested here and increased only after the dial (GetDials).
ConnMisses(t) ==
    /\ pc[t] = "conn"
    /\ CanRLock
    /\ LET p == pools[pool[node[t]]]
       IN  /\ p.conns = <<>>
           /\ Goto(t, IF MayGrow(p) THEN "getSize" ELSE "getWait")
    /\ cur' = [cur EXCEPT ![t] = pool[node[t]]]
    /\ readers' = readers \cup {t}
    /\ UNCHANGED <<node, held, pool, pools, wire, announced>>

GetDials(t) ==
    /\ pc[t] = "getDial"
    /\ Conns \ Open # {}
    /\ held' = [held EXCEPT ![t] = NewConn]
    /\ pools' = [pools EXCEPT ![cur[t]].total = @ + 1]
    /\ readers' = readers \ {t}
    /\ Goto(t, "send")
    /\ UNCHANGED <<node, cur, pool, wire, announced>>

\* The second select of Get.
WaitTakes(t) ==
    /\ pc[t] = "getWait"
    /\ Take(t, cur[t])
    /\ UNCHANGED <<node, cur, pool, wire, announced>>

WaitTimesOut(t) ==
    /\ pc[t] = "getWait"
    /\ Leave(t)
    /\ readers' = readers \ {t}
    /\ UNCHANGED <<pool, pools, wire, announced>>

-----------------------------------------------------------------------------
\* put: a connection that finds the channel full is closed, not counted off.
put(t) ==
    pools' = [pools EXCEPT ![cur[t]].conns =
                 IF Len(@) < MaxCap THEN Append(@, held[t]) ELSE @]

DiscardTwice(t) ==
    /\ pools' = [pools EXCEPT ![cur[t]].total = @ - 2]
    /\ wire' = [wire EXCEPT ![held[t]] = <<>>]

\* MarkUnusable and the deferred Close: the connection is gone.
Discard(t) ==
    /\ pools' = [pools EXCEPT ![cur[t]].total = @ - 1]
    /\ wire' = [wire EXCEPT ![held[t]] = <<>>]

\* The shard group is gone: the request is dropped.
DropRequest(t) ==
    /\ pc[t] = "send"
    /\ put(t)
    /\ Leave(t)
    /\ UNCHANGED <<pool, wire, readers, announced>>

Send(t) ==
    /\ pc[t] = "send"
    /\ wire' = [wire EXCEPT ![held[t]] = Append(@, t)]
    /\ Goto(t, "receive")
    /\ UNCHANGED <<node, cur, held, pool, pools, readers, announced>>

SendFails(t) ==
    /\ pc[t] = "send"
    /\ Discard(t)
    /\ Leave(t)
    /\ UNCHANGED <<pool, readers, announced>>

\* The next answer on the connection is read; it may be an error code.
Receive(t) ==
    /\ pc[t] = "receive"
    /\ wire' = [wire EXCEPT ![held[t]] = Tail(@)]
    /\ put(t)
    /\ Leave(t)
    /\ UNCHANGED <<pool, readers, announced>>

ReceiveFailsUnmarked(t) ==
    /\ pc[t] = "receive"
    /\ put(t)
    /\ Leave(t)
    /\ UNCHANGED <<pool, wire, readers, announced>>

\* The deadline passes while the answer may still be on its way.
ReceiveFails(t) ==
    /\ pc[t] = "receive"
    /\ Discard(t)
    /\ Leave(t)
    /\ UNCHANGED <<pool, readers, announced>>

-----------------------------------------------------------------------------
Steps(t) ==
    \/ GetPool(t)
    \/ FactorySize(t)
    \/ FactoryFails(t)
    \/ NewBoundedPool(t)
    \/ Announce(t)
    \/ SetPool(t)
    \/ ConnTakes(t)
    \/ ConnMisses(t)
    \/ GetDials(t)
    \/ WaitTakes(t)
    \/ WaitTimesOut(t)
    \/ DropRequest(t)
    \/ Send(t)
    \/ SendFails(t)
    \/ Receive(t)
    \/ ReceiveFails(t)

Next == \E t \in Threads : Steps(t) \/ \E n \in Nodes : Call(t, n)

Spec == Init /\ [][Next]_vars

-----------------------------------------------------------------------------
Places == {"idle", "lookup", "newSize", "newDial", "announce", "setPool", "conn",
           "getSize", "getDial", "getWait", "send", "receive"}

TypeOK ==
    /\ pc \in [Threads -> Places]
    /\ node \in [Threads -> Nodes \cup {None}]
    /\ cur \in [Threads -> 0 .. Len(pools)]
    /\ held \in [Threads -> Conns \cup {None}]
    /\ pool \in [Nodes -> 0 .. Len(pools)]
    /\ pools \in Seq([conns : Seq(Conns), total : Nat])
    /\ wire \in [Conns -> Seq(Threads)]
    /\ readers \subseteq Threads
    /\ announced \in Threads \cup {None}

\* A connection is in one place only: in the hands of one goroutine, or once
\* in the channel of one pool.  Two writers on one connection would mix
\* their requests (pool.go: Get, put, pooledConn.Close).
OneUserPerConnection ==
    /\ \A t, u \in Threads : held[t] # None /\ held[t] = held[u] => t = u
    /\ \A p \in DOMAIN pools :
          /\ IsInjective(pools[p].conns)
          /\ \A t \in Threads : held[t] \notin Idle(p)
          /\ \A q \in DOMAIN pools : p # q => Idle(p) \cap Idle(q) = {}

\* The answer a goroutine reads is the answer to its own request, although
\* the one before it on the same connection may have timed out: a
\* connection never goes back with an answer still to come.
AnswersMatchRequests ==
    /\ \A p \in DOMAIN pools : \A c \in Idle(p) : wire[c] = <<>>
    /\ \A t \in Threads : pc[t] = "receive" => wire[held[t]] = <<t>>

\* The limit of a pool can be exceeded because total is tested before the
\* dial and counted after it, but by no more than the other goroutines that
\* dial at the same time; and total never counts fewer than are open.
LimitExceededOnlyByRace ==
    \A p \in DOMAIN pools :
        /\ Cardinality(OpenOf(p)) <= pools[p].total
        /\ pools[p].total < MaxCap + Cardinality(Threads)

\* Goroutines that no step of theirs can move.
Stuck(t) ==
    \/ pc[t] \in {"lookup", "newSize", "getSize", "conn"} /\ ~CanRLock
    \/ pc[t] = "announce" /\ announced # None
    \/ pc[t] = "setPool" /\ ~CanLock(t)

\* The goroutines inside WriteShard can stop one another in one way only: one
\* holds the read lock and asks for it again in size, behind a setPool that
\* waits for the first (client_pool.go: conn, size).  Whatever else happens,
\* somebody can move on.
OnlyRecursiveReadLockBlocks ==
    LET busy == {t \in Threads : pc[t] # "idle"}
    IN  busy # {} /\ (\A t \in busy : Stuck(t)) =>
        /\ \E t \in busy : pc[t] = "getSize" /\ t \in readers
        /\ \E t \in busy : pc[t] = "setPool" /\ announced = t

\* What pool.go says of Get: with no connection in the pool and fewer than the
\* maximum in existence, a new one is made.
FewerThanMaxCanGrow ==
    \A p \in DOMAIN pools :
        Cardinality(OpenOf(p)) < MaxCap /\ (\A t \in Threads : cur[t] # p)
            => pools[p].total < MaxCap \/ pools[p].conns # <<>>
=============================================================================
