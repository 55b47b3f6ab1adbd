-------------------------- MODULE ClientPoolProofs --------------------------
(* Proofs about the connection pools, for any number of goroutines, nodes and
   connections and any limits. *)
EXTENDS ClientPool, FiniteSetTheorems, WellFoundedInduction, TLAPS

-----------------------------------------------------------------------------
(* What the operators do *)

\* A set of numbers that is not empty has a least element.
LEMMA LeastNumber ==
  ASSUME NEW S \in SUBSET Nat, S # {}
  PROVE  \E x \in S : \A y \in S : x <= y
<1> DEFINE R == {ss \in Nat \X Nat : ss[1] < ss[2]}
<1>1. IsWellFoundedOn(R, Nat)
  BY NatLessThanWellFounded, Zenon DEF OpToRel
<1>2. \A x, y \in Nat : <<y, x>> \notin R => x <= y
  OBVIOUS
<1> HIDE DEF R
<1>3. PICK x \in S : \A y \in S : ~(<<y, x>> \in R)
  BY <1>1, WFMin
<1> QED BY <1>2, <1>3

\* The connection that a dial returns was not open.
LEMMA NewConnIsNew ==
  ASSUME Conns \ Open # {}
  PROVE  NewConn \in Conns /\ NewConn \notin Open
<1>1. \E x \in Conns \ Open : \A y \in Conns \ Open : x =< y
  BY LeastNumber, PoolAssumption
<1> QED BY <1>1 DEF NewConn, Min

\* It is in nobody's hands and in no channel.
LEMMA NotOpen ==
  ASSUME NEW c, c \notin Open, c # None
  PROVE  /\ \A u \in Threads : held[u] # c
         /\ \A o \in DOMAIN pools : c \notin OpenOf(o) /\ c \notin Idle(o)
<1>1. ASSUME NEW u \in Threads PROVE held[u] # c
  <2> SUFFICES ASSUME held[u] = c PROVE FALSE
    OBVIOUS
  <2>1. u \in {v \in Threads : held[v] # None}
    OBVIOUS
  <2>2. c \in {held[w] : w \in {v \in Threads : held[v] # None}}
    BY <2>1
  <2>3. {held[w] : w \in {v \in Threads : held[v] # None}} \subseteq Open
    BY DEF Open
  <2> QED BY <2>2, <2>3
<1>2. ASSUME NEW o \in DOMAIN pools PROVE c \notin OpenOf(o)
  BY DEF Open
<1> QED BY <1>1, <1>2 DEF OpenOf

\* A channel that a connection is added to.
LEMMA AppendedChannel ==
  ASSUME NEW q \in Seq(Conns), NEW c \in Conns
  PROVE  /\ Append(q, c) \in Seq(Conns)
         /\ Range(Append(q, c)) = Range(q) \cup {c}
         /\ IsInjective(q) /\ c \notin Range(q) => IsInjective(Append(q, c))
<1>1. /\ Append(q, c) \in Seq(Conns) /\ Len(Append(q, c)) = Len(q) + 1
      /\ \A i \in 1 .. Len(q) : Append(q, c)[i] = q[i]
      /\ Append(q, c)[Len(q) + 1] = c /\ Len(q) \in Nat
  OBVIOUS
<1>2. Range(Append(q, c)) = Range(q) \cup {c}
  BY <1>1 DEF Range
<1>3. IsInjective(q) /\ c \notin Range(q) => IsInjective(Append(q, c))
  BY <1>1 DEF Range, IsInjective
<1> QED BY <1>1, <1>2, <1>3

\* A channel that the first connection is taken from.
LEMMA TakenChannel ==
  ASSUME NEW q \in Seq(Conns), q # <<>>, IsInjective(q)
  PROVE  /\ Tail(q) \in Seq(Conns) /\ Head(q) \in Conns
         /\ Head(q) \in Range(q)
         /\ Range(Tail(q)) = Range(q) \ {Head(q)}
         /\ IsInjective(Tail(q))
<1>1. /\ Tail(q) \in Seq(Conns) /\ Len(Tail(q)) = Len(q) - 1 /\ Len(q) \in Nat /\ Len(q) > 0
      /\ \A i \in 1 .. Len(q) - 1 : Tail(q)[i] = q[i + 1]
      /\ Head(q) = q[1] /\ Head(q) \in Conns
  OBVIOUS
<1>2. Head(q) \in Range(q)
  BY <1>1 DEF Range
<1>3. Range(Tail(q)) = Range(q) \ {Head(q)}
  <2>1. ASSUME NEW x \in Range(Tail(q)) PROVE x \in Range(q) \ {Head(q)}
    <3>1. PICK i \in 1 .. Len(q) - 1 : x = q[i + 1]
      BY <1>1, <2>1 DEF Range
    <3> QED BY <1>1, <3>1 DEF Range, IsInjective
  <2>2. ASSUME NEW x \in Range(q) \ {Head(q)} PROVE x \in Range(Tail(q))
    <3>1. PICK i \in 1 .. Len(q) : x = q[i] /\ i # 1
      BY <1>1, <2>2 DEF Range
    <3>2. i - 1 \in 1 .. Len(q) - 1 /\ Tail(q)[i - 1] = x
      BY <1>1, <3>1
    <3>3. i - 1 \in DOMAIN Tail(q)
      BY <1>1, <3>2
    <3> QED BY <3>2, <3>3, Zenon DEF Range
  <2> QED BY <2>1, <2>2
<1>4. IsInjective(Tail(q))
  BY <1>1 DEF IsInjective
<1> QED BY <1>1, <1>2, <1>3, <1>4

-----------------------------------------------------------------------------
(* The inductive invariant *)

Records == [conns : Seq(Conns), total : Nat]

Dialing == {"getSize", "getDial"}
InGet == {"getSize", "getDial", "getWait"}
WithPool == InGet \cup {"announce", "setPool", "send", "receive"}

\* Where a goroutine is says what it holds: a connection while it writes, the read
\* lock inside Get, the write lock's place in setPool.
ThreadOK(t) ==
  /\ held[t] # None <=> pc[t] \in {"send", "receive"}
  /\ pc[t] # "idle" => node[t] \in Nodes
  /\ pc[t] \in WithPool => cur[t] # None
  /\ pc[t] = "conn" => pool[node[t]] # None
  /\ t \in readers <=> pc[t] \in InGet
  /\ announced = t <=> pc[t] = "setPool"

ControlOK == \A t \in Threads : ThreadOK(t)

\* An answer is on its way on the connections that somebody reads from, and on no
\* other.
WiresOK ==
  /\ \A t \in Threads : pc[t] = "receive" => wire[held[t]] = <<t>>
  /\ \A c \in Conns : wire[c] # <<>> => \E t \in Threads : pc[t] = "receive" /\ held[t] = c

\* A pool never counts fewer connections than it has.
CountsOK == \A p \in DOMAIN pools : Cardinality(OpenOf(p)) <= pools[p].total

Dialers(p) == {t \in Threads : pc[t] \in Dialing /\ cur[t] = p}

\* Goroutines that have been allowed to dial are counted before they have dialled.
GrowthOK ==
  \A p \in DOMAIN pools :
    pools[p].total + Cardinality(Dialers(p)) < MaxCap + Cardinality(Threads)

PoolInv == TypeOK /\ ControlOK /\ OneUserPerConnection /\ WiresOK /\ CountsOK /\ GrowthOK

-----------------------------------------------------------------------------
(* Facts about the state *)

\* The pools as a sequence.
LEMMA PoolSequence ==
  ASSUME NEW q \in Seq(Records)
  PROVE  /\ DOMAIN q = 1 .. Len(q) /\ Len(q) \in Nat
         /\ \A p \in DOMAIN q : /\ q[p] \in Records /\ q[p].total \in Nat
                                /\ q[p].conns \in Seq(Conns) /\ Range(q[p].conns) \subseteq Conns
<1>1. /\ DOMAIN q = 1 .. Len(q) /\ Len(q) \in Nat
      /\ \A p \in DOMAIN q : q[p] \in Records
  OBVIOUS
<1>2. ASSUME NEW p \in DOMAIN q
      PROVE  q[p].total \in Nat /\ q[p].conns \in Seq(Conns)
  BY <1>1 DEF Records
<1>3. ASSUME NEW c \in Seq(Conns) PROVE Range(c) \subseteq Conns
  BY DEF Range
<1> QED BY <1>1, <1>2, <1>3

\* A pool and what is open of it.
LEMMA PoolFacts ==
  ASSUME TypeOK
  PROVE  /\ DOMAIN pools = 1 .. Len(pools) /\ Len(pools) \in Nat
         /\ \A p \in DOMAIN pools : pools[p] \in Records /\ Idle(p) \subseteq Conns
  BY PoolSequence DEF TypeOK, Records, Idle

\* What is open of a pool is finite.
LEMMA OpenIsFinite ==
  ASSUME TypeOK, NEW p \in DOMAIN pools
  PROVE  /\ OpenOf(p) \subseteq Conns /\ IsFiniteSet(OpenOf(p))
         /\ Cardinality(OpenOf(p)) \in Nat
<1>1. OpenOf(p) \subseteq Conns
  BY PoolFacts DEF OpenOf, UsersOf, TypeOK
<1> QED BY <1>1, PoolAssumption, FS_Subset, FS_CardinalityType

\* The goroutines that dial for a pool, and all of them.
LEMMA DialersAreFinite ==
  ASSUME NEW p
  PROVE  /\ IsFiniteSet(Dialers(p)) /\ Cardinality(Dialers(p)) \in Nat
         /\ Cardinality(Dialers(p)) <= Cardinality(Threads)
         /\ Cardinality(Threads) \in Nat /\ Cardinality(Threads) >= 1
<1>1. Dialers(p) \subseteq Threads
  BY DEF Dialers
<1>2. Cardinality(Threads) \in Nat /\ Cardinality(Threads) # 0
  BY PoolAssumption, FS_CardinalityType, FS_EmptySet
<1> QED BY <1>1, <1>2, PoolAssumption, FS_Subset, FS_CardinalityType

\* A pool whose channel or whose count changes.
LEMMA ChangedRecord ==
  ASSUME NEW r \in Records, NEW x, NEW n
  PROVE  /\ [r EXCEPT !.conns = x] = [conns |-> x, total |-> r.total]
         /\ [r EXCEPT !.total = n] = [conns |-> r.conns, total |-> n]
  BY DEF Records

\* One pool changes.
LEMMA ChangedPool ==
  ASSUME TypeOK, NEW p \in DOMAIN pools, NEW q \in Seq(Conns), NEW n \in Nat,
         pools' = [pools EXCEPT ![p] = [conns |-> q, total |-> n]]
  PROVE  /\ pools' \in Seq(Records) /\ Len(pools') = Len(pools) /\ DOMAIN pools' = DOMAIN pools
         /\ pools'[p].conns = q /\ pools'[p].total = n
         /\ \A o \in DOMAIN pools : o # p => pools'[o] = pools[o]
  BY DEF TypeOK, Records

\* The pool of a goroutine exists.
LEMMA CurIsPool ==
  ASSUME TypeOK, ControlOK, NEW t \in Threads, pc[t] \in WithPool
  PROVE  cur[t] \in DOMAIN pools
  BY PoolFacts DEF TypeOK, ControlOK, ThreadOK, None

\* So does that of a node which conn is called for.
LEMMA ConnIsPool ==
  ASSUME TypeOK, ControlOK, NEW t \in Threads, pc[t] = "conn"
  PROVE  pool[node[t]] \in DOMAIN pools /\ node[t] \in Nodes
  BY PoolFacts DEF TypeOK, ControlOK, ThreadOK, None

-----------------------------------------------------------------------------
(* Steps that move no connection *)

\* A step of t that changes neither connections nor pools, nor the pool of
\* somebody who uses one, keeps everything about connections.
LEMMA ConnectionsStay ==
  ASSUME PoolInv, UNCHANGED <<held, pools, wire>>,
         \A u \in Threads : held[u] # None => cur'[u] = cur[u],
         \A u \in Threads : pc'[u] = "receive" <=> pc[u] = "receive"
  PROVE  OneUserPerConnection' /\ WiresOK' /\ CountsOK'
<1>1. \A p \in DOMAIN pools : Idle(p)' = Idle(p)
  BY DEF Idle
<1>2. OneUserPerConnection'
  BY <1>1 DEF PoolInv, OneUserPerConnection
<1>3. WiresOK'
  BY DEF PoolInv, WiresOK
<1>4. ASSUME NEW p \in DOMAIN pools PROVE OpenOf(p)' = OpenOf(p)
  <2>1. UsersOf(p)' = UsersOf(p)
    BY <1>4 DEF UsersOf
  <2> QED BY <1>1, <2>1 DEF OpenOf
<1>5. CountsOK'
  BY <1>4 DEF PoolInv, CountsOK
<1> QED BY <1>2, <1>3, <1>5

\* A step in which nobody begins to dial for a pool and no pool grows.
LEMMA NoGrowth ==
  ASSUME PoolInv, TypeOK',
         \A p \in DOMAIN pools' : p \in DOMAIN pools /\ pools'[p].total <= pools[p].total,
         \A u \in Threads : pc'[u] \in Dialing => pc[u] \in Dialing /\ cur'[u] = cur[u]
  PROVE  GrowthOK'
<1> SUFFICES ASSUME NEW p \in DOMAIN pools'
             PROVE  pools'[p].total + Cardinality(Dialers(p)') < MaxCap + Cardinality(Threads)
  BY DEF GrowthOK
<1>1. Dialers(p)' \subseteq Dialers(p)
  BY DEF Dialers
<1>2. Cardinality(Dialers(p)') <= Cardinality(Dialers(p)) /\ Cardinality(Dialers(p)') \in Nat
  BY <1>1, DialersAreFinite, FS_Subset, FS_CardinalityType
<1>3. pools'[p].total \in Nat /\ pools[p].total \in Nat /\ pools'[p].total <= pools[p].total
  <2>1. pools \in Seq(Records) /\ pools' \in Seq(Records)
    BY DEF PoolInv, TypeOK, Records
  <2> QED BY <2>1, PoolSequence
<1>4. pools[p].total + Cardinality(Dialers(p)) < MaxCap + Cardinality(Threads)
  BY DEF PoolInv, GrowthOK
<1> QED BY <1>2, <1>3, <1>4, DialersAreFinite, PoolAssumption

\* Calls, looks at the map and at its size, failed dials, timeouts, and the lock.
LEMMA QuietStep ==
  ASSUME PoolInv, NEW t \in Threads,
         \/ \E n \in Nodes : Call(t, n)
         \/ GetPool(t) \/ FactorySize(t) \/ FactoryFails(t) \/ Announce(t) \/ SetPool(t)
         \/ WaitTimesOut(t)
  PROVE  PoolInv'
<1> USE DEF PoolInv
<1>0. ThreadOK(t) /\ \A u \in Threads : u # None
  BY PoolAssumption DEF ControlOK
<1>1. /\ UNCHANGED <<held, pools, wire>>
      /\ \A u \in Threads : u # t => pc'[u] = pc[u] /\ node'[u] = node[u] /\ cur'[u] = cur[u]
      /\ held[t] = None /\ pc[t] # "receive" /\ pc'[t] # "receive" /\ held'[t] = None
  BY <1>0 DEF Call, GetPool, FactorySize, FactoryFails, Announce, SetPool, WaitTimesOut, Leave, Goto,
     ThreadOK, TypeOK
<1>2. OneUserPerConnection' /\ WiresOK' /\ CountsOK'
  BY <1>1, ConnectionsStay
<1>3. TypeOK'
  <2>1. 0 \in 0 .. Len(pools) /\ pc' \in [Threads -> Places]
    <3>1. PICK l \in {"idle", "lookup", "newSize", "newDial", "setPool", "conn", "getDial"} :
            pc' = [pc EXCEPT ![t] = l]
      BY DEF Call, GetPool, FactorySize, FactoryFails, Announce, SetPool, WaitTimesOut, Leave, Goto
    <3>2. l \in Places
      BY DEF Places
    <3> QED BY <3>1, <3>2, PoolFacts DEF TypeOK
  <2>2. CASE \E n \in Nodes : Call(t, n)
    BY <1>1, <2>1, <2>2 DEF Call, TypeOK
  <2>3. CASE GetPool(t) \/ FactorySize(t) \/ Announce(t)
    BY <1>1, <2>1, <2>3 DEF GetPool, FactorySize, Announce, TypeOK
  <2>4. CASE FactoryFails(t) \/ WaitTimesOut(t)
    BY <1>1, <2>1, <2>4 DEF FactoryFails, WaitTimesOut, Leave, TypeOK, None
  <2>5. CASE SetPool(t)
    BY <1>0, <1>1, <2>1, <2>5 DEF SetPool, TypeOK, None, ThreadOK
  <2> QED BY <2>2, <2>3, <2>4, <2>5
<1>4. ControlOK'
  <2>1. CASE \E n \in Nodes : Call(t, n)
    BY <2>1, <1>0, <1>1 DEF Call, Goto, ControlOK, ThreadOK, TypeOK, InGet, WithPool, None
  <2>2. CASE GetPool(t)
    BY <2>2, <1>0, <1>1 DEF GetPool, Goto, ControlOK, ThreadOK, TypeOK, InGet, WithPool, None
  <2>3. CASE FactorySize(t)
    BY <2>3, <1>0, <1>1 DEF FactorySize, Goto, ControlOK, ThreadOK, TypeOK, InGet, WithPool, None
  <2>4. CASE FactoryFails(t) \/ WaitTimesOut(t)
    BY <2>4, <1>0, <1>1 DEF FactoryFails, WaitTimesOut, Leave, Goto, ControlOK, ThreadOK, TypeOK,
       InGet, WithPool, None
  <2>5. CASE Announce(t)
    BY <2>5, <1>0, <1>1 DEF Announce, Goto, ControlOK, ThreadOK, TypeOK, InGet, WithPool, None
  <2>6. CASE SetPool(t)
    BY <2>6, <1>0, <1>1, CurIsPool DEF SetPool, CanLock, Goto, ControlOK, ThreadOK, TypeOK, InGet,
       WithPool, None
  <2> QED BY <2>1, <2>2, <2>3, <2>4, <2>5, <2>6
<1>5. GrowthOK'
  <2>1. pc'[t] \in Dialing => pc[t] \in Dialing /\ cur'[t] = cur[t]
    BY <1>0 DEF Call, GetPool, FactorySize, FactoryFails, Announce, SetPool, WaitTimesOut, Leave, Goto,
     TypeOK, Dialing
  <2>2. \A p \in DOMAIN pools' : p \in DOMAIN pools /\ pools'[p].total <= pools[p].total
    BY <1>1, PoolFacts DEF Records
  <2> QED BY <1>1, <1>3, <2>1, <2>2, NoGrowth
<1> QED BY <1>2, <1>3, <1>4, <1>5

\* conn finds no connection: it may dial, or has to wait.
LEMMA ConnMissesStep ==
  ASSUME PoolInv, NEW t \in Threads, ConnMisses(t)
  PROVE  PoolInv'
<1> USE DEF PoolInv
<1> DEFINE p == pool[node[t]]
<1>0. ThreadOK(t) /\ (\A u \in Threads : u # None) /\ p \in DOMAIN pools /\ held[t] = None
  BY PoolAssumption, ConnIsPool DEF ControlOK, ConnMisses, ThreadOK
<1>1. /\ UNCHANGED <<held, pools, wire, node, pool, announced>>
      /\ \A u \in Threads : u # t => pc'[u] = pc[u] /\ cur'[u] = cur[u]
      /\ pc[t] = "conn" /\ cur'[t] = p /\ readers' = readers \cup {t}
      /\ pc'[t] = IF MayGrow(pools[p]) THEN "getSize" ELSE "getWait"
      /\ DOMAIN cur' = Threads /\ DOMAIN pc' = Threads
  BY DEF ConnMisses, Goto, TypeOK
<1> HIDE DEF p
<1>2. OneUserPerConnection' /\ WiresOK' /\ CountsOK'
  BY <1>0, <1>1, ConnectionsStay
<1>3. TypeOK'
  <2>1. pc'[t] \in Places /\ p \in 0 .. Len(pools)
    BY <1>0, <1>1, PoolFacts DEF Places
  <2>2. pc' \in [Threads -> Places] /\ cur' \in [Threads -> 0 .. Len(pools)]
    BY <1>1, <2>1 DEF ConnMisses, Goto, TypeOK
  <2> QED BY <1>1, <2>2 DEF TypeOK
<1>4. ControlOK'
  <2>1. p # None
    BY <1>0, PoolFacts DEF None
  <2> QED BY <1>0, <1>1, <2>1 DEF ControlOK, ThreadOK, InGet, WithPool
<1>5. GrowthOK'
  <2> SUFFICES ASSUME NEW o \in DOMAIN pools
               PROVE  pools[o].total + Cardinality(Dialers(o)') < MaxCap + Cardinality(Threads)
    BY <1>1 DEF GrowthOK
  <2>1. pools[o].total \in Nat
    BY PoolFacts DEF Records
  <2>2. CASE o = p /\ MayGrow(pools[p])
    <3>1. Dialers(o)' \subseteq Threads
      BY DEF Dialers
    <3>2. Cardinality(Dialers(o)') <= Cardinality(Threads) /\ Cardinality(Dialers(o)') \in Nat
      BY <3>1, PoolAssumption, FS_Subset, FS_CardinalityType
    <3>3. pools[o].total < MaxCap /\ MaxCap \in Nat
      BY <2>2, PoolAssumption DEF MayGrow
    <3>4. Cardinality(Threads) \in Nat
      BY DialersAreFinite
    <3> QED BY <2>1, <3>2, <3>3, <3>4
  <2>3. CASE ~(o = p /\ MayGrow(pools[p]))
    <3>1. Dialers(o)' = Dialers(o)
      BY <1>1, <2>3 DEF Dialers, Dialing
    <3> QED BY <3>1 DEF GrowthOK
  <2> QED BY <2>2, <2>3
<1> QED BY <1>2, <1>3, <1>4, <1>5

-----------------------------------------------------------------------------
(* Steps that move connections *)

\* The first connection of a pool goes to a goroutine (ConnTakes, WaitTakes).
LEMMA TakeStep ==
  ASSUME PoolInv, NEW t \in Threads, NEW p \in DOMAIN pools,
         pc[t] \in {"conn", "getWait"}, Take(t, p),
         cur' = [cur EXCEPT ![t] = p],
         UNCHANGED <<node, pool, wire, announced>>
  PROVE  PoolInv'
<1> USE DEF PoolInv
<1> DEFINE q == pools[p].conns
<1>0. /\ ThreadOK(t) /\ (\A u \in Threads : u # None) /\ held[t] = None
      /\ q \in Seq(Conns) /\ q # <<>> /\ IsInjective(q) /\ pools[p].total \in Nat /\ q = pools[p].conns
      /\ Range(q) = Idle(p) /\ pools \in Seq(Records)
  <2>1. pools \in Seq(Records)
    BY DEF TypeOK, Records
  <2> QED BY <2>1, PoolSequence, PoolAssumption
          DEF ControlOK, Take, ThreadOK, OneUserPerConnection, Idle
<1>1. /\ pc' = [pc EXCEPT ![t] = "send"] /\ held' = [held EXCEPT ![t] = Head(q)]
      /\ readers' = readers \ {t}
      /\ pools' = [pools EXCEPT ![p] = [conns |-> Tail(q), total |-> pools[p].total]]
  <2>1. pools[p] \in Records
    BY <1>0, PoolSequence
  <2>2. pools' = [pools EXCEPT ![p] = [pools[p] EXCEPT !.conns = Tail(q)]]
    BY DEF Take
  <2>3. pools' = [pools EXCEPT ![p] = [conns |-> Tail(q), total |-> pools[p].total]]
    BY <2>1, <2>2, ChangedRecord
  <2> QED BY <2>3 DEF Take, Goto
<1> HIDE DEF q
<1>2. /\ Tail(q) \in Seq(Conns) /\ Head(q) \in Conns /\ Head(q) \in Idle(p)
      /\ Range(Tail(q)) = Idle(p) \ {Head(q)} /\ IsInjective(Tail(q)) /\ Head(q) # None
  BY <1>0, TakenChannel, PoolAssumption
<1>3. /\ pools' \in Seq(Records) /\ Len(pools') = Len(pools) /\ DOMAIN pools' = DOMAIN pools
      /\ pools'[p].conns = Tail(q) /\ pools'[p].total = pools[p].total
      /\ \A o \in DOMAIN pools : o # p => pools'[o] = pools[o]
  BY <1>0, <1>1, <1>2, ChangedPool
<1>4. /\ Idle(p)' = Idle(p) \ {Head(q)}
      /\ \A o \in DOMAIN pools : o # p => Idle(o)' = Idle(o)
  BY <1>2, <1>3 DEF Idle
<1>5. TypeOK'
  <2>1. pc' \in [Threads -> Places] /\ held' \in [Threads -> Conns \cup {None}]
    BY <1>1, <1>2 DEF TypeOK, Places
  <2>2. cur' \in [Threads -> 0 .. Len(pools')] /\ pool' \in [Nodes -> 0 .. Len(pools')]
    BY <1>3, PoolFacts DEF TypeOK
  <2> QED BY <1>1, <1>3, <2>1, <2>2 DEF TypeOK, Records
<1>6. ControlOK'
  <2>1. p # None
    BY PoolFacts DEF None
  <2> QED BY <1>0, <1>1, <1>2, <2>1 DEF ControlOK, ThreadOK, TypeOK, InGet, WithPool
<1>7. OneUserPerConnection'
  <2>1. \A u \in Threads : held[u] # Head(q)
    BY <1>2 DEF OneUserPerConnection
  <2>2. \A o \in DOMAIN pools : o # p => Head(q) \notin Idle(o)
    BY <1>2 DEF OneUserPerConnection
  <2>3. \A u \in Threads : held'[u] = IF u = t THEN Head(q) ELSE held[u]
    BY <1>1 DEF TypeOK
  <2>4. \A v, u \in Threads : held'[v] # None /\ held'[v] = held'[u] => v = u
    BY <2>1, <2>3 DEF OneUserPerConnection
  <2>5. ASSUME NEW o \in DOMAIN pools'
        PROVE  /\ IsInjective(pools'[o].conns)
               /\ \A u \in Threads : held'[u] \notin Idle(o)'
               /\ \A r \in DOMAIN pools' : o # r => Idle(o)' \cap Idle(r)' = {}
    <3>1. IsInjective(pools'[o].conns)
      BY <1>2, <1>3 DEF OneUserPerConnection
    <3>2. \A u \in Threads : held'[u] \notin Idle(o)'
      BY <1>3, <1>4, <2>2, <2>3 DEF OneUserPerConnection
    <3>3. \A r \in DOMAIN pools' : o # r => Idle(o)' \cap Idle(r)' = {}
      BY <1>3, <1>4 DEF OneUserPerConnection
    <3> QED BY <3>1, <3>2, <3>3
  <2> QED BY <2>4, <2>5 DEF OneUserPerConnection
<1>8. WiresOK'
  <2>1. \A u \in Threads : pc'[u] = "receive" <=> pc[u] = "receive"
    BY <1>1 DEF TypeOK
  <2>2. \A u \in Threads : pc[u] = "receive" => held'[u] = held[u]
    BY <1>1 DEF TypeOK
  <2> QED BY <2>1, <2>2 DEF WiresOK
<1>9. ASSUME NEW o \in DOMAIN pools PROVE OpenOf(o)' = OpenOf(o)
  <2>1. CASE o = p
    <3>1. UsersOf(p)' = UsersOf(p) \cup {t} /\ t \notin UsersOf(p)
      BY <1>0, <1>1, <1>2 DEF UsersOf, TypeOK
    <3>2. {held'[u] : u \in UsersOf(p)'} = {held[u] : u \in UsersOf(p)} \cup {Head(q)}
      BY <3>1, <1>1 DEF TypeOK, UsersOf
    <3> QED BY <2>1, <3>2, <1>2, <1>4 DEF OpenOf
  <2>2. CASE o # p
    <3>1. UsersOf(o)' = UsersOf(o) /\ t \notin UsersOf(o)
      BY <1>0, <1>1, <2>2 DEF UsersOf, TypeOK
    <3>2. {held'[u] : u \in UsersOf(o)'} = {held[u] : u \in UsersOf(o)}
      BY <3>1, <1>1 DEF TypeOK, UsersOf
    <3>3. Idle(o)' = Idle(o)
      BY <2>2, <1>4
    <3> QED BY <3>2, <3>3 DEF OpenOf
  <2> QED BY <2>1, <2>2
<1>10. CountsOK'
  BY <1>3, <1>9 DEF CountsOK
<1>11. GrowthOK'
  <2>1. \A o \in DOMAIN pools' : o \in DOMAIN pools /\ pools'[o].total <= pools[o].total
    <3>1. \A o \in DOMAIN pools : pools[o].total \in Nat
      BY PoolFacts DEF Records
    <3>2. ASSUME NEW o \in DOMAIN pools PROVE pools'[o].total = pools[o].total
      <4>1. CASE o = p
        BY <4>1, <1>3
      <4>2. CASE o # p
        BY <4>2, <1>3
      <4> QED BY <4>1, <4>2
    <3> QED BY <3>1, <3>2, <1>3
  <2>2. \A u \in Threads : pc'[u] \in Dialing => pc[u] \in Dialing /\ cur'[u] = cur[u]
    BY <1>1 DEF TypeOK, Dialing
  <2> QED BY <1>5, <2>1, <2>2, NoGrowth
<1> QED BY <1>5, <1>6, <1>7, <1>8, <1>10, <1>11

\* A new pool with its first connection (NewBoundedPool).
LEMMA NewPoolStep ==
  ASSUME PoolInv, NEW t \in Threads, NewBoundedPool(t)
  PROVE  PoolInv'
<1> USE DEF PoolInv
<1>0. /\ ThreadOK(t) /\ (\A u \in Threads : u # None) /\ pc[t] = "newDial" /\ held[t] = None
      /\ pools \in Seq(Records) /\ DOMAIN pools = 1 .. Len(pools) /\ Len(pools) \in Nat
  BY PoolAssumption, PoolFacts DEF ControlOK, NewBoundedPool, ThreadOK, TypeOK, Records
<1>c. PICK c \in Conns : c = NewConn /\ c \notin Open /\ c # None
  BY NewConnIsNew, PoolAssumption DEF NewBoundedPool
<1>n. PICK n \in Nat : n = Len(pools) + 1
  BY <1>0
<1>1. c \in Conns /\ c \notin Open /\ c # None
  BY <1>c
<1>2. pools' = Append(pools, [conns |-> <<c>>, total |-> 1]) /\ n \in Nat
  BY <1>0, <1>c DEF NewBoundedPool
<1>3. /\ pools' \in Seq(Records) /\ Len(pools') = n /\ DOMAIN pools' = DOMAIN pools \cup {n}
      /\ pools'[n] = [conns |-> <<c>>, total |-> 1] /\ n \notin DOMAIN pools
      /\ \A o \in DOMAIN pools : pools'[o] = pools[o]
  <2>1. [conns |-> <<c>>, total |-> 1] \in Records
    BY <1>1 DEF Records
  <2> QED BY <1>0, <1>n, <1>2, <2>1
<1>4. /\ pc' = [pc EXCEPT ![t] = "announce"] /\ cur' = [cur EXCEPT ![t] = n]
      /\ UNCHANGED <<node, held, pool, wire, readers, announced>>
  BY <1>3 DEF NewBoundedPool, Goto
<1>5. Idle(n)' = {c} /\ IsInjective(pools'[n].conns) /\ \A o \in DOMAIN pools : Idle(o)' = Idle(o)
  <2>1. pools'[n].conns = <<c>> /\ Len(<<c>>) = 1 /\ <<c>>[1] = c /\ DOMAIN <<c>> = {1}
    BY <1>3
  <2> QED BY <1>3, <2>1 DEF Idle, Range, IsInjective
<1>6. TypeOK'
  <2>1. pc' \in [Threads -> Places]
    BY <1>4 DEF TypeOK, Places
  <2>2. \A m \in 0 .. Len(pools) : m \in 0 .. Len(pools')
    BY <1>0, <1>n, <1>3
  <2>3. cur' \in [Threads -> 0 .. Len(pools')] /\ pool' \in [Nodes -> 0 .. Len(pools')]
    BY <1>2, <1>3, <1>4, <2>2 DEF TypeOK
  <2> QED BY <1>3, <1>4, <2>1, <2>3 DEF TypeOK, Records
<1>7. ControlOK'
  <2>1. n # None
    BY <1>0, <1>n DEF None
  <2> QED BY <1>0, <1>4, <2>1 DEF ControlOK, ThreadOK, TypeOK, InGet, WithPool
<1>8. OneUserPerConnection'
  <2>1. \A u \in Threads : held[u] # c
    BY <1>1, NotOpen
  <2>2. \A o \in DOMAIN pools : c \notin Idle(o)
    BY <1>1, NotOpen
  <2>3. \A v, u \in Threads : held'[v] # None /\ held'[v] = held'[u] => v = u
    BY <1>4 DEF OneUserPerConnection
  <2>4. ASSUME NEW o \in DOMAIN pools'
        PROVE  /\ IsInjective(pools'[o].conns)
               /\ \A u \in Threads : held'[u] \notin Idle(o)'
               /\ \A r \in DOMAIN pools' : o # r => Idle(o)' \cap Idle(r)' = {}
    <3>1. IsInjective(pools'[o].conns)
      BY <1>3, <1>5 DEF OneUserPerConnection
    <3>2. \A u \in Threads : held'[u] \notin Idle(o)'
      BY <1>3, <1>4, <1>5, <2>1 DEF OneUserPerConnection
    <3>3. \A r \in DOMAIN pools' : o # r => Idle(o)' \cap Idle(r)' = {}
      BY <1>3, <1>5, <2>2 DEF OneUserPerConnection
    <3> QED BY <3>1, <3>2, <3>3
  <2> QED BY <2>3, <2>4 DEF OneUserPerConnection
<1>9. WiresOK'
  BY <1>0, <1>4 DEF WiresOK, TypeOK
<1>10. CountsOK'
  <2>1. ASSUME NEW o \in DOMAIN pools PROVE OpenOf(o)' = OpenOf(o)
    <3>1. UsersOf(o)' = UsersOf(o)
      BY <1>0, <1>4 DEF UsersOf, TypeOK
    <3> QED BY <1>4, <1>5, <3>1 DEF OpenOf
  <2>2. UsersOf(n)' = {}
    <3>1. \A u \in Threads : cur[u] # n
      BY <1>0, <1>n DEF TypeOK
    <3> QED BY <1>0, <1>4, <3>1 DEF UsersOf, TypeOK
  <2>3. OpenOf(n)' = {c}
    BY <1>5, <2>2 DEF OpenOf
  <2>4. Cardinality(OpenOf(n)') <= pools'[n].total
    <3>1. Cardinality(OpenOf(n)') = 1
      BY <2>3, FS_Singleton
    <3>2. pools'[n].total = 1
      BY <1>3
    <3> QED BY <3>1, <3>2
  <2> QED BY <1>3, <2>1, <2>4 DEF CountsOK
<1>11. GrowthOK'
  <2>1. ASSUME NEW o \in DOMAIN pools PROVE Dialers(o)' = Dialers(o)
    BY <1>0, <1>4 DEF Dialers, Dialing, TypeOK
  <2>2. Dialers(n)' = {}
    <3>1. \A u \in Threads : cur[u] # n
      BY <1>0, <1>n DEF TypeOK
    <3> QED BY <1>0, <1>4, <3>1 DEF Dialers, Dialing, TypeOK
  <2>3. pools'[n].total + Cardinality(Dialers(n)') < MaxCap + Cardinality(Threads)
    <3>1. Cardinality(Dialers(n)') = 0
      BY <2>2, FS_EmptySet
    <3>2. pools'[n].total = 1
      BY <1>3
    <3>3. /\ Cardinality(Threads) \in Nat /\ Cardinality(Threads) >= 1
          /\ MaxCap \in Nat /\ MaxCap >= 1
      BY DialersAreFinite, PoolAssumption
    <3> QED BY <3>1, <3>2, <3>3
  <2> QED BY <1>3, <2>1, <2>3 DEF GrowthOK
<1> QED BY <1>6, <1>7, <1>8, <1>9, <1>10, <1>11

\* Get has dialled: the connection is counted and used (GetDials).
LEMMA GetDialsStep ==
  ASSUME PoolInv, NEW t \in Threads, GetDials(t)
  PROVE  PoolInv'
<1> USE DEF PoolInv
<1>p. PICK p \in DOMAIN pools : p = cur[t]
  BY CurIsPool DEF GetDials, WithPool, InGet
<1>0. /\ ThreadOK(t) /\ (\A u \in Threads : u # None) /\ pc[t] = "getDial" /\ held[t] = None
      /\ pools \in Seq(Records) /\ p \in DOMAIN pools /\ p # None /\ p = cur[t]
  BY <1>p, PoolAssumption, PoolFacts
  DEF ControlOK, GetDials, ThreadOK, TypeOK, Records, WithPool, InGet
<1>c. PICK c \in Conns : c = NewConn /\ c \notin Open /\ c # None
  BY NewConnIsNew, PoolAssumption DEF GetDials
<1>1. c \in Conns /\ c \notin Open /\ c # None
  BY <1>c
<1>m. /\ pools[p].conns \in Seq(Conns) /\ pools[p].total \in Nat
      /\ pools[p] \in Records /\ pools[p].total + 1 \in Nat
  BY <1>0, PoolSequence
<1>2. PICK m \in Nat : m = pools[p].total + 1
  BY <1>m
<1>3. pools' = [pools EXCEPT ![p] = [conns |-> pools[p].conns, total |-> m]]
  <2>1. pools' = [pools EXCEPT ![p] = [pools[p] EXCEPT !.total = m]]
    BY <1>p, <1>2 DEF GetDials
  <2> QED BY <1>m, <2>1, ChangedRecord
<1>4. /\ pc' = [pc EXCEPT ![t] = "send"] /\ held' = [held EXCEPT ![t] = c]
      /\ readers' = readers \ {t} /\ UNCHANGED <<node, cur, pool, wire, announced>>
  BY <1>c DEF GetDials, Goto
<1>5. /\ pools' \in Seq(Records) /\ Len(pools') = Len(pools) /\ DOMAIN pools' = DOMAIN pools
      /\ pools'[p].conns = pools[p].conns /\ pools'[p].total = m
      /\ \A o \in DOMAIN pools : o # p => pools'[o] = pools[o]
  BY <1>0, <1>m, <1>2, <1>3, ChangedPool
<1>6. \A o \in DOMAIN pools : Idle(o)' = Idle(o) /\ pools'[o].conns = pools[o].conns
  BY <1>5 DEF Idle
<1>7. TypeOK'
  <2>1. pc' \in [Threads -> Places] /\ held' \in [Threads -> Conns \cup {None}]
    BY <1>1, <1>4 DEF TypeOK, Places
  <2> QED BY <1>4, <1>5, <2>1 DEF TypeOK, Records
<1>8. ControlOK'
  BY <1>0, <1>1, <1>4 DEF ControlOK, ThreadOK, TypeOK, InGet, WithPool
<1>9. /\ \A u \in Threads : held[u] # c
      /\ \A o \in DOMAIN pools : c \notin Idle(o)
      /\ \A u \in Threads : held'[u] = IF u = t THEN c ELSE held[u]
  BY <1>1, <1>4, NotOpen DEF TypeOK
<1>10. OneUserPerConnection'
  <2>1. \A v, u \in Threads : held'[v] # None /\ held'[v] = held'[u] => v = u
    BY <1>9 DEF OneUserPerConnection
  <2>2. ASSUME NEW o \in DOMAIN pools'
        PROVE  /\ IsInjective(pools'[o].conns)
               /\ \A u \in Threads : held'[u] \notin Idle(o)'
               /\ \A r \in DOMAIN pools' : o # r => Idle(o)' \cap Idle(r)' = {}
    BY <1>5, <1>6, <1>9 DEF OneUserPerConnection
  <2> QED BY <2>1, <2>2 DEF OneUserPerConnection
<1>11. WiresOK'
  <2>1. \A u \in Threads : pc'[u] = "receive" <=> pc[u] = "receive"
    BY <1>0, <1>4 DEF TypeOK
  <2>2. \A u \in Threads : pc[u] = "receive" => held'[u] = held[u]
    BY <1>0, <1>4 DEF TypeOK
  <2> QED BY <1>4, <2>1, <2>2 DEF WiresOK
<1>12. CountsOK'
  <2>1. ASSUME NEW o \in DOMAIN pools, o # p PROVE OpenOf(o)' = OpenOf(o)
    <3>1. UsersOf(o)' = UsersOf(o) /\ t \notin UsersOf(o)
      BY <1>0, <1>4, <2>1 DEF UsersOf, TypeOK
    <3>2. {held'[u] : u \in UsersOf(o)'} = {held[u] : u \in UsersOf(o)}
      BY <3>1, <1>9 DEF UsersOf
    <3> QED BY <3>2, <1>6 DEF OpenOf
  <2>2. OpenOf(p)' = OpenOf(p) \cup {c}
    <3>1. UsersOf(p)' = UsersOf(p) \cup {t} /\ t \notin UsersOf(p)
      BY <1>0, <1>1, <1>4 DEF UsersOf, TypeOK
    <3>2. {held'[u] : u \in UsersOf(p)'} = {held[u] : u \in UsersOf(p)} \cup {c}
      BY <3>1, <1>9 DEF UsersOf
    <3> QED BY <1>0, <3>2, <1>6 DEF OpenOf
  <2>3. Cardinality(OpenOf(p)') <= Cardinality(OpenOf(p)) + 1 /\ Cardinality(OpenOf(p)) \in Nat
    <3>1. IsFiniteSet(OpenOf(p)) /\ Cardinality(OpenOf(p)) \in Nat
      BY <1>0, OpenIsFinite
    <3>2. Cardinality(OpenOf(p) \cup {c}) \in {Cardinality(OpenOf(p)), Cardinality(OpenOf(p)) + 1}
      BY <3>1, FS_AddElement
    <3> QED BY <2>2, <3>1, <3>2
  <2>4. Cardinality(OpenOf(p)) <= pools[p].total
    BY <1>0 DEF CountsOK
  <2>5. Cardinality(OpenOf(p)') <= pools'[p].total
    <3>1. Cardinality(OpenOf(p)') \in Nat
      BY <1>0, <2>2, OpenIsFinite, FS_AddElement, FS_CardinalityType
    <3> QED BY <1>m, <1>2, <1>5, <2>3, <2>4, <3>1
  <2> QED BY <1>5, <2>1, <2>5 DEF CountsOK
<1>13. GrowthOK'
  <2>1. ASSUME NEW o \in DOMAIN pools, o # p PROVE Dialers(o)' = Dialers(o)
    BY <1>0, <1>4, <2>1 DEF Dialers, Dialing, TypeOK
  <2>2. Dialers(p)' = Dialers(p) \ {t} /\ t \in Dialers(p)
    BY <1>0, <1>4 DEF Dialers, Dialing, TypeOK
  <2>3. Cardinality(Dialers(p)') = Cardinality(Dialers(p)) - 1
    BY <2>2, DialersAreFinite, FS_RemoveElement
  <2>4. pools'[p].total + Cardinality(Dialers(p)') < MaxCap + Cardinality(Threads)
    <3>1. pools[p].total + Cardinality(Dialers(p)) < MaxCap + Cardinality(Threads)
      BY <1>0 DEF GrowthOK
    <3>2. Cardinality(Dialers(p)) \in Nat /\ Cardinality(Threads) \in Nat /\ MaxCap \in Nat
      BY DialersAreFinite, PoolAssumption
    <3>3. pools'[p].total = pools[p].total + 1 /\ pools[p].total \in Nat
      BY <1>m, <1>2, <1>5
    <3> QED BY <2>3, <3>1, <3>2, <3>3
  <2> QED BY <1>5, <2>1, <2>4 DEF GrowthOK
<1> QED BY <1>7, <1>8, <1>10, <1>11, <1>12, <1>13

\* A goroutine is done with its connection: it goes back into the channel, or is
\* closed and still counted, or is closed and counted off.
LEMMA ReleaseStep ==
  ASSUME PoolInv, NEW t \in Threads, pc[t] \in {"send", "receive"}, Leave(t),
         NEW p \in DOMAIN pools, p = cur[t], NEW c \in Conns, c = held[t],
         NEW q \in Seq(Conns), NEW m \in Nat, IsInjective(q),
         \/ Range(q) \subseteq Idle(p) \cup {c} /\ m = pools[p].total
         \/ Range(q) = Idle(p) /\ m = pools[p].total - 1,
         pools' = [pools EXCEPT ![p] = [conns |-> q, total |-> m]],
         wire' = [wire EXCEPT ![c] = <<>>], UNCHANGED <<pool, readers, announced>>
  PROVE  PoolInv'
<1> USE DEF PoolInv
<1>0. /\ ThreadOK(t) /\ (\A u \in Threads : u # None) /\ c # None
      /\ Range(q) \subseteq Idle(p) \cup {c} /\ pools[p].total \in Nat /\ m <= pools[p].total
  BY PoolAssumption, PoolFacts DEF ControlOK, Records
<1>1. /\ pools' \in Seq(Records) /\ Len(pools') = Len(pools) /\ DOMAIN pools' = DOMAIN pools
      /\ pools'[p].conns = q /\ pools'[p].total = m
      /\ \A o \in DOMAIN pools : o # p => pools'[o] = pools[o]
  BY ChangedPool
<1>2. /\ pc' = [pc EXCEPT ![t] = "idle"] /\ node' = [node EXCEPT ![t] = None]
      /\ cur' = [cur EXCEPT ![t] = None] /\ held' = [held EXCEPT ![t] = None]
      /\ \A u \in Threads : held'[u] = IF u = t THEN None ELSE held[u]
      /\ \A u \in Threads : u # t => pc'[u] = pc[u] /\ cur'[u] = cur[u]
      /\ pc'[t] = "idle" /\ cur'[t] = None
  BY DEF Leave, Goto, TypeOK
<1>3. Idle(p)' = Range(q) /\ \A o \in DOMAIN pools : o # p => Idle(o)' = Idle(o)
  BY <1>1 DEF Idle
<1>4. TypeOK'
  <2>1. 0 \in 0 .. Len(pools)
    BY PoolFacts
  <2>2. pc' \in [Threads -> Places] /\ held' \in [Threads -> Conns \cup {None}]
    BY <1>2 DEF TypeOK, Places
  <2>3. cur' \in [Threads -> 0 .. Len(pools')] /\ pool' \in [Nodes -> 0 .. Len(pools')]
    BY <1>1, <1>2, <2>1 DEF TypeOK, None
  <2>4. wire' \in [Conns -> Seq(Threads)]
    BY DEF TypeOK
  <2> QED BY <1>1, <1>2, <2>2, <2>3, <2>4 DEF TypeOK, Records
<1>5. ControlOK'
  BY <1>0, <1>2 DEF ControlOK, ThreadOK, TypeOK, InGet, WithPool
<1>6. /\ \A u \in Threads : u # t => held[u] # c
      /\ \A o \in DOMAIN pools : c \notin Idle(o)
  BY <1>0 DEF OneUserPerConnection
<1>7. OneUserPerConnection'
  <2>1. \A v, u \in Threads : held'[v] # None /\ held'[v] = held'[u] => v = u
    BY <1>2 DEF OneUserPerConnection
  <2>2. ASSUME NEW o \in DOMAIN pools'
        PROVE  /\ IsInjective(pools'[o].conns)
               /\ \A u \in Threads : held'[u] \notin Idle(o)'
               /\ \A r \in DOMAIN pools' : o # r => Idle(o)' \cap Idle(r)' = {}
    <3>1. IsInjective(pools'[o].conns)
      BY <1>1 DEF OneUserPerConnection
    <3>2. Idle(o)' \subseteq Conns /\ None \notin Conns
      <4>1. Idle(o) \subseteq Conns
        BY <1>1, PoolFacts
      <4>2. CASE o = p
        BY <1>0, <1>3, <4>1, <4>2, PoolAssumption
      <4>3. CASE o # p
        BY <1>1, <1>3, <4>1, <4>3, PoolAssumption
      <4> QED BY <4>2, <4>3
    <3>3. \A u \in Threads : held'[u] \notin Idle(o)'
      BY <1>0, <1>1, <1>2, <1>3, <1>6, <3>2 DEF OneUserPerConnection
    <3>4. \A r \in DOMAIN pools' : o # r => Idle(o)' \cap Idle(r)' = {}
      BY <1>0, <1>1, <1>3, <1>6 DEF OneUserPerConnection
    <3> QED BY <3>1, <3>3, <3>4
  <2> QED BY <2>1, <2>2 DEF OneUserPerConnection
<1>8. WiresOK'
  <2>1. ASSUME NEW u \in Threads, pc'[u] = "receive"
        PROVE  wire'[held'[u]] = <<u>>
    <3>1. u # t /\ pc[u] = "receive" /\ held'[u] = held[u] /\ held[u] # c
      BY <1>2, <1>6, <2>1
    <3> QED BY <3>1 DEF WiresOK, TypeOK
  <2>2. ASSUME NEW d \in Conns, wire'[d] # <<>>
        PROVE  \E u \in Threads : pc'[u] = "receive" /\ held'[u] = d
    <3>1. d # c /\ wire[d] # <<>>
      BY <2>2 DEF TypeOK
    <3>2. PICK u \in Threads : pc[u] = "receive" /\ held[u] = d
      BY <3>1 DEF WiresOK
    <3> QED BY <1>2, <3>1, <3>2
  <2> QED BY <2>1, <2>2 DEF WiresOK
<1>9. CountsOK'
  <2>1. ASSUME NEW o \in DOMAIN pools, o # p PROVE OpenOf(o)' = OpenOf(o)
    <3>1. UsersOf(o)' = UsersOf(o) /\ t \notin UsersOf(o)
      BY <1>2, <2>1 DEF UsersOf
    <3>2. {held'[u] : u \in UsersOf(o)'} = {held[u] : u \in UsersOf(o)}
      BY <3>1, <1>2 DEF UsersOf
    <3> QED BY <2>1, <3>2, <1>3 DEF OpenOf
  <2>2. UsersOf(p)' = UsersOf(p) \ {t} /\ t \in UsersOf(p)
    BY <1>0, <1>2 DEF UsersOf
  <2>3. {held'[u] : u \in UsersOf(p)'} = {held[u] : u \in UsersOf(p)} \ {c}
    BY <2>2, <1>2, <1>6 DEF UsersOf
  <2>4. c \in OpenOf(p)
    BY <2>2 DEF OpenOf
  <2>5. IsFiniteSet(OpenOf(p)) /\ Cardinality(OpenOf(p)) \in Nat
    BY OpenIsFinite
  <2>6. Cardinality(OpenOf(p)) <= pools[p].total
    BY DEF CountsOK
  <2>7. CASE m = pools[p].total
    <3>1. OpenOf(p)' \subseteq OpenOf(p)
      BY <1>0, <1>3, <2>3, <2>4 DEF OpenOf
    <3>2. Cardinality(OpenOf(p)') <= Cardinality(OpenOf(p)) /\ Cardinality(OpenOf(p)') \in Nat
      BY <2>5, <3>1, FS_Subset, FS_CardinalityType
    <3>3. Cardinality(OpenOf(p)') <= pools'[p].total
      BY <1>0, <1>1, <2>5, <2>6, <2>7, <3>2
    <3> QED BY <1>1, <2>1, <3>3 DEF CountsOK
  <2>8. CASE Range(q) = Idle(p) /\ m = pools[p].total - 1
    <3>1. OpenOf(p)' = OpenOf(p) \ {c}
      BY <1>3, <1>6, <2>3, <2>8 DEF OpenOf
    <3>2. Cardinality(OpenOf(p) \ {c}) = Cardinality(OpenOf(p)) - 1
      BY <2>4, <2>5, FS_RemoveElement
    <3>3. Cardinality(OpenOf(p)') <= pools'[p].total
      BY <1>0, <1>1, <2>5, <2>6, <2>8, <3>1, <3>2
    <3> QED BY <1>1, <2>1, <3>3 DEF CountsOK
  <2> QED BY <2>7, <2>8
<1>10. GrowthOK'
  <2>1. ASSUME NEW o \in DOMAIN pools PROVE pools'[o].total <= pools[o].total
    <3>1. pools[o].total \in Nat
      BY PoolFacts DEF Records
    <3>2. CASE o = p
      BY <1>0, <1>1, <3>2
    <3>3. CASE o # p
      BY <1>1, <3>1, <3>3
    <3> QED BY <3>2, <3>3
  <2>2. \A u \in Threads : pc'[u] \in Dialing => pc[u] \in Dialing /\ cur'[u] = cur[u]
    BY <1>2 DEF Dialing
  <2> QED BY <1>1, <1>4, <2>1, <2>2, NoGrowth
<1> QED BY <1>4, <1>5, <1>7, <1>8, <1>9, <1>10

\* What put makes of the channel.
LEMMA PutStep ==
  ASSUME PoolInv, NEW t \in Threads, pc[t] \in {"send", "receive"}, put(t), Leave(t),
         wire' = [wire EXCEPT ![held[t]] = <<>>], UNCHANGED <<pool, readers, announced>>
  PROVE  PoolInv'
<1> USE DEF PoolInv
<1>p. PICK p \in DOMAIN pools : p = cur[t]
  BY CurIsPool DEF WithPool
<1>c. PICK c \in Conns : c = held[t]
  BY DEF ControlOK, ThreadOK, TypeOK
<1>0. /\ pools[p] \in Records /\ pools[p].conns \in Seq(Conns) /\ pools[p].total \in Nat
      /\ IsInjective(pools[p].conns) /\ c \notin Range(pools[p].conns)
  <2>1. pools \in Seq(Records)
    BY DEF TypeOK, Records
  <2> QED BY <2>1, <1>c, PoolSequence DEF OneUserPerConnection, Idle
<1>q. PICK q : q = IF Len(pools[p].conns) < MaxCap THEN Append(pools[p].conns, c) ELSE pools[p].conns
  OBVIOUS
<1>m. PICK m \in Nat : m = pools[p].total
  BY <1>0
<1>1. q \in Seq(Conns) /\ IsInjective(q) /\ Range(q) \subseteq Idle(p) \cup {c}
  BY <1>0, <1>q, AppendedChannel DEF Idle
<1>2. pools' = [pools EXCEPT ![p] = [conns |-> q, total |-> m]]
  <2>1. pools' = [pools EXCEPT ![p] = [pools[p] EXCEPT !.conns = q]]
    BY <1>p, <1>c, <1>q DEF put
  <2> QED BY <1>0, <1>m, <2>1, ChangedRecord
<1> QED BY <1>p, <1>c, <1>m, <1>1, <1>2, ReleaseStep

\* A connection that failed is closed and counted off; it was counted.
LEMMA DiscardStep ==
  ASSUME PoolInv, NEW t \in Threads, pc[t] \in {"send", "receive"}, Discard(t), Leave(t),
         UNCHANGED <<pool, readers, announced>>
  PROVE  PoolInv'
<1> USE DEF PoolInv
<1>p. PICK p \in DOMAIN pools : p = cur[t]
  BY CurIsPool DEF WithPool
<1>c. PICK c \in Conns : c = held[t]
  BY DEF ControlOK, ThreadOK, TypeOK
<1>0. /\ pools[p] \in Records /\ pools[p].conns \in Seq(Conns) /\ pools[p].total \in Nat
      /\ IsInjective(pools[p].conns)
  <2>1. pools \in Seq(Records)
    BY DEF TypeOK, Records
  <2> QED BY <2>1, PoolSequence DEF OneUserPerConnection
<1>1. pools[p].total - 1 \in Nat
  <2>1. t \in UsersOf(p)
    BY <1>p, <1>c, PoolAssumption DEF UsersOf
  <2>2. OpenOf(p) # {}
    BY <2>1 DEF OpenOf
  <2>3. Cardinality(OpenOf(p)) \in Nat /\ Cardinality(OpenOf(p)) # 0
    BY <2>2, OpenIsFinite, FS_EmptySet
  <2>4. Cardinality(OpenOf(p)) <= pools[p].total
    BY DEF CountsOK
  <2> QED BY <1>0, <2>3, <2>4
<1>m. PICK m \in Nat : m = pools[p].total - 1
  BY <1>1
<1>q. PICK q \in Seq(Conns) : q = pools[p].conns
  BY <1>0
<1>2. pools' = [pools EXCEPT ![p] = [conns |-> q, total |-> m]]
  <2>1. pools' = [pools EXCEPT ![p] = [pools[p] EXCEPT !.total = m]]
    BY <1>p, <1>m DEF Discard
  <2> QED BY <1>0, <1>q, <2>1, ChangedRecord
<1>3. IsInjective(q) /\ Range(q) = Idle(p) /\ wire' = [wire EXCEPT ![c] = <<>>]
  BY <1>0, <1>q, <1>c DEF Idle, Discard
<1> QED BY <1>p, <1>c, <1>m, <1>2, <1>3, ReleaseStep

\* A request goes out.
LEMMA SendStep ==
  ASSUME PoolInv, NEW t \in Threads, Send(t)
  PROVE  PoolInv'
<1> USE DEF PoolInv
<1>c. PICK c \in Conns : c = held[t]
  BY DEF Send, ControlOK, ThreadOK, TypeOK
<1>0. /\ ThreadOK(t) /\ (\A u \in Threads : u # None) /\ c # None /\ pc[t] = "send"
  BY <1>c, PoolAssumption DEF ControlOK, Send
<1>1. wire[c] = <<>>
  BY <1>c, <1>0 DEF WiresOK, OneUserPerConnection
<1>2. /\ pc' = [pc EXCEPT ![t] = "receive"] /\ wire' = [wire EXCEPT ![c] = <<t>>]
      /\ UNCHANGED <<node, cur, held, pool, pools, readers, announced>>
  BY <1>c, <1>1 DEF Send, Goto
<1>3. TypeOK'
  <2>1. pc' \in [Threads -> Places]
    BY <1>2 DEF TypeOK, Places
  <2>2. wire' \in [Conns -> Seq(Threads)]
    BY <1>2 DEF TypeOK
  <2> QED BY <1>2, <2>1, <2>2 DEF TypeOK
<1>4. ControlOK'
  BY <1>0, <1>2 DEF ControlOK, ThreadOK, TypeOK, InGet, WithPool
<1>5. \A p \in DOMAIN pools : Idle(p)' = Idle(p) /\ OpenOf(p)' = OpenOf(p)
  BY <1>2 DEF Idle, OpenOf, UsersOf
<1>6. OneUserPerConnection' /\ CountsOK'
  BY <1>2, <1>5 DEF OneUserPerConnection, CountsOK
<1>7. WiresOK'
  <2>1. \A u \in Threads : pc'[u] = IF u = t THEN "receive" ELSE pc[u]
    BY <1>2 DEF TypeOK
  <2>2. \A d \in Conns : wire'[d] = IF d = c THEN <<t>> ELSE wire[d]
    BY <1>2 DEF TypeOK
  <2>3. ASSUME NEW u \in Threads, pc'[u] = "receive" PROVE wire'[held'[u]] = <<u>>
    <3>1. CASE u = t
      BY <1>c, <1>2, <2>2, <3>1
    <3>2. CASE u # t
      <4>1. pc[u] = "receive" /\ held[u] # c /\ held[u] \in Conns
        BY <1>c, <1>0, <2>1, <2>3, <3>2 DEF OneUserPerConnection, ControlOK, ThreadOK, TypeOK
      <4> QED BY <1>2, <2>2, <4>1 DEF WiresOK
    <3> QED BY <3>1, <3>2
  <2>4. ASSUME NEW d \in Conns, wire'[d] # <<>>
        PROVE  \E u \in Threads : pc'[u] = "receive" /\ held'[u] = d
    BY <1>c, <1>2, <2>1, <2>2, <2>4 DEF WiresOK
  <2> QED BY <2>3, <2>4 DEF WiresOK
<1>8. GrowthOK'
  <2>1. \A u \in Threads : pc'[u] \in Dialing => pc[u] \in Dialing /\ cur'[u] = cur[u]
    BY <1>2 DEF Dialing, TypeOK
  <2>2. \A p \in DOMAIN pools' : p \in DOMAIN pools /\ pools'[p].total <= pools[p].total
    BY <1>2, PoolFacts DEF Records
  <2> QED BY <1>3, <2>1, <2>2, NoGrowth
<1> QED BY <1>3, <1>4, <1>6, <1>7, <1>8

-----------------------------------------------------------------------------
(* The theorems *)

\* No pool, no connection, nobody inside WriteShard.
LEMMA PoolInvInit == Init => PoolInv
<1> SUFFICES ASSUME Init PROVE PoolInv
  OBVIOUS
<1> USE DEF Init
<1>1. pools = <<>> /\ Len(pools) = 0 /\ DOMAIN pools = {} /\ 0 \in 0 .. Len(pools)
  OBVIOUS
<1>2. TypeOK
  <2>1. pc \in [Threads -> Places]
    BY DEF Places
  <2>2. pools \in Seq([conns : Seq(Conns), total : Nat]) /\ wire \in [Conns -> Seq(Threads)]
    OBVIOUS
  <2> QED BY <1>1, <2>1, <2>2 DEF TypeOK, None
<1>3. ControlOK
  BY PoolAssumption DEF ControlOK, ThreadOK, InGet, WithPool
<1>4. OneUserPerConnection /\ WiresOK
  BY <1>1 DEF OneUserPerConnection, WiresOK
<1>5. CountsOK /\ GrowthOK
  BY <1>1 DEF CountsOK, GrowthOK
<1> QED BY <1>2, <1>3, <1>4, <1>5 DEF PoolInv

LEMMA PoolInvStep == PoolInv /\ [Next]_vars => PoolInv'
<1> SUFFICES ASSUME PoolInv, [Next]_vars PROVE PoolInv'
  OBVIOUS
<1>1. CASE UNCHANGED vars
  <2>1. /\ \A p \in DOMAIN pools : Idle(p)' = Idle(p)
        /\ \A p \in DOMAIN pools : OpenOf(p)' = OpenOf(p)
        /\ \A p \in DOMAIN pools : Dialers(p)' = Dialers(p)
    BY <1>1 DEF vars, OpenOf, UsersOf, Idle, Dialers
  <2>2. TypeOK' /\ ControlOK' /\ WiresOK'
    BY <1>1 DEF vars, PoolInv, TypeOK, ControlOK, ThreadOK, WiresOK
  <2>3. OneUserPerConnection'
    BY <1>1, <2>1 DEF vars, PoolInv, OneUserPerConnection
  <2>4. CountsOK' /\ GrowthOK'
    BY <1>1, <2>1 DEF vars, PoolInv, CountsOK, GrowthOK
  <2> QED BY <2>2, <2>3, <2>4 DEF PoolInv
<1>2. CASE Next
  <2>0. PICK t \in Threads : Steps(t) \/ \E n \in Nodes : Call(t, n)
    BY <1>2 DEF Next
  <2>1. CASE \/ \E n \in Nodes : Call(t, n)
             \/ GetPool(t) \/ FactorySize(t) \/ FactoryFails(t) \/ Announce(t) \/ SetPool(t)
             \/ WaitTimesOut(t)
    BY <2>1, QuietStep
  <2>2. CASE NewBoundedPool(t)
    BY <2>2, NewPoolStep
  <2>3. CASE ConnTakes(t)
    <3>1. PICK p \in DOMAIN pools : p = pool[node[t]]
      BY <2>3, ConnIsPool DEF ConnTakes, PoolInv
    <3>2. /\ pc[t] = "conn" /\ Take(t, p) /\ cur' = [cur EXCEPT ![t] = p]
          /\ UNCHANGED <<node, pool, wire, announced>>
      BY <2>3, <3>1 DEF ConnTakes
    <3> QED BY <3>2, TakeStep
  <2>4. CASE ConnMisses(t)
    BY <2>4, ConnMissesStep
  <2>5. CASE GetDials(t)
    BY <2>5, GetDialsStep
  <2>6. CASE WaitTakes(t)
    <3>1. PICK p \in DOMAIN pools : p = cur[t]
      BY <2>6, CurIsPool DEF WaitTakes, PoolInv, WithPool, InGet
    <3>2. /\ pc[t] = "getWait" /\ Take(t, p) /\ UNCHANGED <<node, pool, wire, announced>>
      BY <2>6, <3>1 DEF WaitTakes
    <3>3. cur' = [cur EXCEPT ![t] = p]
      BY <2>6, <3>1 DEF WaitTakes, PoolInv, TypeOK
    <3> QED BY <3>2, <3>3, TakeStep
  <2>7. CASE DropRequest(t)
    <3>0. held[t] \in Conns /\ held[t] # None /\ pc[t] = "send"
      BY <2>7 DEF DropRequest, PoolInv, ControlOK, ThreadOK, TypeOK
    <3>1. wire[held[t]] = <<>> /\ held[t] \in Conns
      BY <3>0 DEF PoolInv, WiresOK, OneUserPerConnection
    <3>2. wire' = [wire EXCEPT ![held[t]] = <<>>]
      BY <2>7, <3>1 DEF DropRequest, PoolInv, TypeOK
    <3>3. /\ pc[t] \in {"send", "receive"} /\ put(t) /\ Leave(t)
          /\ UNCHANGED <<pool, readers, announced>>
      BY <2>7 DEF DropRequest
    <3> QED BY <3>2, <3>3, PutStep
  <2>8. CASE Send(t)
    BY <2>8, SendStep
  <2>9. CASE SendFails(t) \/ ReceiveFails(t)
    <3>1. /\ pc[t] \in {"send", "receive"} /\ Discard(t) /\ Leave(t)
          /\ UNCHANGED <<pool, readers, announced>>
      BY <2>9 DEF SendFails, ReceiveFails
    <3> QED BY <3>1, DiscardStep
  <2>10. CASE Receive(t)
    <3>1. wire[held[t]] = <<t>> /\ Tail(<<t>>) = <<>>
      BY <2>10 DEF Receive, PoolInv, WiresOK
    <3>2. wire' = [wire EXCEPT ![held[t]] = <<>>]
      BY <2>10, <3>1 DEF Receive
    <3>3. /\ pc[t] \in {"send", "receive"} /\ put(t) /\ Leave(t)
          /\ UNCHANGED <<pool, readers, announced>>
      BY <2>10 DEF Receive
    <3> QED BY <3>2, <3>3, PutStep
  <2> QED BY <2>0, <2>1, <2>2, <2>3, <2>4, <2>5, <2>6, <2>7, <2>8, <2>9, <2>10 DEF Steps
<1> QED BY <1>1, <1>2

\* Whatever the goroutines do, the places they are at, the connections, the answers
\* under way and the counts of the pools fit together.
THEOREM PoolInvariant == Spec => []PoolInv
<1> QED BY PoolInvInit, PoolInvStep, PTL DEF Spec

\* The state of the pools stays well typed; no total is ever counted below zero.
THEOREM PoolTypeCorrect == Spec => []TypeOK
<1>1. PoolInv => TypeOK
  BY DEF PoolInv
<1> QED BY <1>1, PoolInvariant, PTL

\* Get, put and Close never give one connection to two goroutines, however many
\* goroutines, nodes and replaced pools there are.
THEOREM OneGoroutineUsesIt == Spec => []OneUserPerConnection
<1>1. PoolInv => OneUserPerConnection
  BY DEF PoolInv
<1> QED BY <1>1, PoolInvariant, PTL

\* The answer that WriteShard reads is the one to its own request.
THEOREM AnswersAreOnesOwn == Spec => []AnswersMatchRequests
<1>1. ASSUME PoolInv PROVE AnswersMatchRequests
  <2>1. ASSUME NEW p \in DOMAIN pools, NEW c \in Idle(p) PROVE wire[c] = <<>>
    <3>1. c \in Conns
      BY <1>1, PoolFacts DEF PoolInv
    <3>2. \A t \in Threads : held[t] # c
      BY <1>1 DEF PoolInv, OneUserPerConnection
    <3> QED BY <1>1, <3>1, <3>2 DEF PoolInv, WiresOK
  <2> QED BY <1>1, <2>1 DEF AnswersMatchRequests, PoolInv, WiresOK
<1> QED BY <1>1, PoolInvariant, PTL

\* Testing total before the dial and counting after it lets a pool exceed its limit
\* by fewer connections than there are goroutines, and total is never below what is open.
THEOREM LimitHoldsUpToTheRace == Spec => []LimitExceededOnlyByRace
<1>1. ASSUME PoolInv PROVE LimitExceededOnlyByRace
  <2> SUFFICES ASSUME NEW p \in DOMAIN pools
               PROVE  /\ Cardinality(OpenOf(p)) <= pools[p].total
                      /\ pools[p].total < MaxCap + Cardinality(Threads)
    BY DEF LimitExceededOnlyByRace
  <2>1. pools[p].total \in Nat
    BY <1>1, PoolFacts DEF Records, PoolInv
  <2>2. pools[p].total + Cardinality(Dialers(p)) < MaxCap + Cardinality(Threads)
    BY <1>1 DEF PoolInv, GrowthOK
  <2>3. pools[p].total < MaxCap + Cardinality(Threads)
    BY <2>1, <2>2, DialersAreFinite, PoolAssumption
  <2> QED BY <1>1, <2>3 DEF PoolInv, CountsOK
<1> QED BY <1>1, PoolInvariant, PTL

\* When no goroutine inside WriteShard can move, one of them asks for the read lock
\* that it holds already, behind a setPool that waits for it: no other deadlock exists.
THEOREM OnlyDeadlockIsRecursive == Spec => []OnlyRecursiveReadLockBlocks
<1>1. ASSUME PoolInv PROVE OnlyRecursiveReadLockBlocks
  <2> DEFINE busy == {t \in Threads : pc[t] # "idle"}
  <2> SUFFICES ASSUME busy # {}, \A t \in busy : Stuck(t)
               PROVE  /\ \E t \in busy : pc[t] = "getSize" /\ t \in readers
                      /\ \E t \in busy : pc[t] = "setPool" /\ announced = t
    BY DEF OnlyRecursiveReadLockBlocks
  <2>1. /\ \A t \in Threads : ThreadOK(t)
        /\ \A t \in Threads : t # None
        /\ readers \subseteq Threads /\ announced \in Threads \cup {None}
    BY <1>1, PoolAssumption DEF PoolInv, ControlOK, TypeOK
  <2>2. announced # None
    <3> SUFFICES ASSUME announced = None PROVE FALSE
      OBVIOUS
    <3>1. PICK t \in busy : Stuck(t)
      OBVIOUS
    <3>2. pc[t] = "setPool"
      BY <3>1 DEF Stuck, CanRLock
    <3> QED BY <2>1, <3>2 DEF ThreadOK
  <2>3. PICK w \in Threads : w = announced
    BY <2>1, <2>2
  <2>4. pc[w] = "setPool" /\ w \in busy
    BY <2>1, <2>3 DEF ThreadOK
  <2>5. readers # {}
    BY <2>3, <2>4 DEF Stuck, CanLock
  <2>6. PICK r \in readers : r \in Threads
    BY <2>1, <2>5
  <2>7. pc[r] \in InGet /\ r \in busy
    BY <2>1, <2>6 DEF ThreadOK, InGet
  <2>8. pc[r] = "getSize"
    BY <2>7 DEF Stuck, InGet
  <2> QED BY <2>3, <2>4, <2>6, <2>7, <2>8
<1> QED BY <1>1, PoolInvariant, PTL
=============================================================================
