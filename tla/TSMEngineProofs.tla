-------------------------- MODULE TSMEngineProofs --------------------------
(* Proofs about the storage engine: its types, that compactions change no value, that a
   restart finds what answered operations have left, and that reads are current. *)
EXTENDS TSMEngine, SequenceTheorems, WellFoundedInduction, TLAPS

-----------------------------------------------------------------------------
(* The inductive invariant.  TypeOK is not inductive by itself: that a removed segment
   leaves an open log needs the snapshot to have closed fewer segments than there are,
   and that the files are the active ones needs to know what a compaction has renamed and
   removed so far. *)

LogOK ==
  /\ segs \in Seq(Seq(Entries))
  /\ {open, written, gap} \subseteq BOOLEAN
  /\ open => segs # << >> /\ synced \in 0 .. Len(Last(segs))

CacheOK ==
  /\ live \in [Keys -> Values] /\ snap \in [Keys -> Values]
  /\ writes \in [Keys -> Values]

Operations ==
  [kind : {"none", "write", "delete"}, stage : {"none", "files", "scan", "cache", "log", "sync"},
   todo : SUBSET Names, found : BOOLEAN, raced : BOOLEAN, alone : BOOLEAN]

\* Operations in progress mark files that can have a name.
OpsOK ==
  /\ op \in [Keys -> Operations]
  /\ \A k \in Keys : op[k].stage = "files" => op[k].kind = "delete"

\* The snapshot in progress: a closed segment is followed by the current one, and the
\* file that is to be renamed is of a new generation.
SnapshotOK ==
  /\ sw \in [stage : {"idle", "write", "replace", "clear", "remove"}, closed : Nat, name : Nat \X Nat]
  /\ sw.stage = "idle" => sw.closed = 0
  /\ sw.stage = "remove" => sw.closed > 0
  /\ sw.stage # "idle" => open /\ sw.closed < Len(segs)
  /\ sw.stage = "replace" => /\ sw.name = <<gen, 1>> /\ sw.name \in Names
                             /\ \A n \in DOMAIN tsm : n[1] < gen

FilesOK ==
  /\ DOMAIN tsm \subseteq Names /\ DOMAIN tomb \subseteq Names
  /\ tsm = [n \in DOMAIN tsm |-> tsm[n]]
  /\ \A n \in DOMAIN tsm : tsm[n] \in [Keys -> Values] /\ n[1] <= gen
  /\ gen \in Nat

\* n is the newest of the names S.
IsNewest(n, S) == n \in S /\ \A m \in S \ {n} : After(n, m)

\* The file that the compaction in progress adds.
Added == IF comp.new = NoName THEN {} ELSE {comp.new}

CompStates == [stage : {"idle", "write", "remove", "tombstone"}, group : SUBSET Names,
               new : Names \cup {NoName}, data : [Keys -> Values]]

\* The compaction in progress: which files there are, and that those of its group are
\* neighbours with the new file just after them.
CompOK ==
  /\ comp \in CompStates
  /\ comp.group \subseteq active
  /\ comp.stage = "idle" => comp.group = {} /\ active = DOMAIN tsm
  /\ comp.stage = "write" => active = DOMAIN tsm /\ comp.new \notin active
  /\ comp.stage = "remove" => DOMAIN tsm = active \cup Added
  /\ comp.stage = "tombstone" => DOMAIN tsm = (active \cup Added) \ {Oldest(comp.group)}
  /\ comp.stage # "idle" =>
       /\ active \subseteq Names
       /\ comp.group # {} /\ comp.new \notin comp.group
       /\ \A k \in Keys : op[k].kind # "delete"
       /\ \A n \in active \ (comp.group \cup Added) : \/ \A m \in comp.group : n[1] < m[1]
                                                     \/ \A m \in comp.group : n[1] > m[1]
       /\ comp.new = NoName => comp.data = Empty
       /\ comp.new # NoName =>
            \E t \in comp.group : IsNewest(t, comp.group) /\ comp.new = <<t[1], t[2] + 1>>

\* What the group and the new file say: the new file has what the group has, and the
\* files of the group that are left have nothing it does not have.
MergeOK ==
  comp.stage # "idle" =>
    /\ \A k \in Keys : comp.data[k] = 0 =>
         \A n \in comp.group \cap DOMAIN tsm : InFile(n, k) = 0
    /\ comp.stage = "write" => \A k \in Keys : comp.data[k] = InFiles(comp.group, k)
    /\ comp.stage # "write" /\ comp.new # NoName => tsm[comp.new] = comp.data

EngineInv == LogOK /\ CacheOK /\ OpsOK /\ SnapshotOK /\ FilesOK /\ CompOK /\ MergeOK

-----------------------------------------------------------------------------
(* The newest of a set of names *)

\* A set of numbers with a bound has a greatest element.
LEMMA GreatestNumber ==
  ASSUME NEW S, S \subseteq Nat, S # {}, NEW b \in Nat, \A x \in S : x <= b
  PROVE  \E m \in S : \A x \in S : x <= m
<1> DEFINE Less == {ss \in Nat \X Nat : ss[1] < ss[2]}
<1>1. IsWellFoundedOn(Less, Nat)
  BY NatLessThanWellFounded, Zenon DEF OpToRel
<1>2. \A x, y \in Nat : <<y, x>> \notin Less => x <= y
  OBVIOUS
<1> HIDE DEF Less
<1>t. PICK T : T = {b - x : x \in S}
  OBVIOUS
<1>3. T \subseteq Nat /\ T # {}
  <2>1. \A x \in S : x \in Nat /\ x <= b
    OBVIOUS
  <2>2. \A x \in S : b - x \in Nat
    BY <2>1
  <2> QED BY <1>t, <2>2
<1>4. PICK y \in T : \A z \in T : ~(<<z, y>> \in Less)
  BY <1>1, <1>3, WFMin
<1>5. PICK m \in S : y = b - m
  BY <1>t
<1>6. ASSUME NEW x \in S PROVE x <= m
  <2>1. b - x \in T
    BY <1>t
  <2>2. y <= b - x
    BY <1>2, <1>3, <1>4, <2>1
  <2>3. x \in Nat /\ m \in Nat
    OBVIOUS
  <2> QED BY <1>5, <2>2, <2>3
<1> QED BY <1>6

\* Pairs are ordered by their first, then by their second component.
LEMMA AfterOrder ==
  /\ \A m, n \in Nat \X Nat : m = n \/ After(m, n) \/ After(n, m)
  /\ \A m, n \in Nat \X Nat : After(m, n) => ~After(n, m) /\ m # n
  /\ \A l, m, n \in Nat \X Nat : After(l, m) /\ After(m, n) => After(l, n)
<1>1. ASSUME NEW m \in Nat \X Nat, NEW n \in Nat \X Nat
      PROVE  m = n \/ After(m, n) \/ After(n, m)
  <2>1. m = <<m[1], m[2]>> /\ n = <<n[1], n[2]>> /\ {m[1], m[2], n[1], n[2]} \subseteq Nat
    OBVIOUS
  <2> QED BY <2>1 DEF After
<1>2. ASSUME NEW m \in Nat \X Nat, NEW n \in Nat \X Nat, After(m, n)
      PROVE  ~After(n, m) /\ m # n
  <2>1. {m[1], m[2], n[1], n[2]} \subseteq Nat
    OBVIOUS
  <2> QED BY <1>2, <2>1 DEF After
<1>3. ASSUME NEW l \in Nat \X Nat, NEW m \in Nat \X Nat, NEW n \in Nat \X Nat,
             After(l, m), After(m, n)
      PROVE  After(l, n)
  <2>1. {l[1], l[2], m[1], m[2], n[1], n[2]} \subseteq Nat
    OBVIOUS
  <2> QED BY <1>3, <2>1 DEF After
<1> QED BY <1>1, <1>2, <1>3

\* A bounded set of pairs has a newest one.
LEMMA NewestExists ==
  ASSUME NEW S, S \subseteq Nat \X Nat, S # {}, NEW b \in Nat, \A p \in S : p[1] <= b,
         \A i \in Nat : \E c \in Nat : \A p \in S : p[1] = i => p[2] <= c
  PROVE  \E n \in S : IsNewest(n, S)
<1>0. \A p \in S : p[1] \in Nat /\ p[2] \in Nat
  OBVIOUS
<1>1. PICK i \in {p[1] : p \in S} : \A x \in {p[1] : p \in S} : x <= i
  <2>1. {p[1] : p \in S} \subseteq Nat /\ {p[1] : p \in S} # {}
    BY <1>0
  <2>2. \A x \in {p[1] : p \in S} : x <= b
    OBVIOUS
  <2> QED BY <2>1, <2>2, GreatestNumber
<1>t. PICK T : T = {p[2] : p \in {q \in S : q[1] = i}}
  OBVIOUS
<1>2. T \subseteq Nat /\ T # {} /\ i \in Nat
  BY <1>0, <1>1, <1>t
<1>3. PICK c \in Nat : \A p \in S : p[1] = i => p[2] <= c
  BY <1>2
<1>4. PICK j \in T : \A x \in T : x <= j
  <2>1. \A x \in T : x <= c
    BY <1>t, <1>3
  <2> QED BY <1>2, <2>1, GreatestNumber
<1>5. PICK n \in S : n[1] = i /\ n[2] = j
  BY <1>t, <1>4
<1>6. ASSUME NEW m \in S, m # n PROVE After(n, m)
  <2>1. m[1] <= i
    BY <1>1
  <2>2. m[1] = i => m[2] <= j
    BY <1>t, <1>4
  <2>3. m \in Nat \X Nat /\ n \in Nat \X Nat
    OBVIOUS
  <2>4. m = <<m[1], m[2]>> /\ n = <<n[1], n[2]>> /\ {m[1], m[2], n[1], n[2]} \subseteq Nat
    BY <2>3
  <2> QED BY <1>5, <1>6, <2>1, <2>2, <2>4 DEF After
<1> QED BY <1>5, <1>6 DEF IsNewest

\* Newest picks the newest.
LEMMA NewestIs ==
  ASSUME NEW S, S \subseteq Nat \X Nat, NEW n, IsNewest(n, S)
  PROVE  Newest(S) = n
<1>1. ASSUME NEW m \in S, \A l \in S \ {m} : After(m, l) PROVE m = n
  <2>1. n \in S /\ n \in Nat \X Nat /\ m \in Nat \X Nat
    BY DEF IsNewest
  <2> SUFFICES ASSUME m # n PROVE FALSE
    OBVIOUS
  <2>2. After(m, n) /\ After(n, m)
    BY <1>1, <2>1 DEF IsNewest
  <2> QED BY <2>1, <2>2, AfterOrder
<1>2. n \in S /\ \A l \in S \ {n} : After(n, l)
  BY DEF IsNewest
<1> QED BY <1>1, <1>2 DEF Newest

\* Names are pairs of numbers, and a set of names has a newest one.
LEMMA NamesOK ==
  /\ Names \subseteq Nat \X Nat
  /\ \A S \in SUBSET Names : S # {} => IsNewest(Newest(S), S)
<1>1. MaxGen + 1 \in Nat /\ MaxSeq \in Nat
  BY BoundsAssumption
<1>2. \A n \in Names : /\ n \in Nat \X Nat /\ n[1] <= MaxGen + 1 /\ n[2] <= MaxSeq
  BY <1>1 DEF Names
<1>3. ASSUME NEW S \in SUBSET Names, S # {} PROVE IsNewest(Newest(S), S)
  <2>1. S \subseteq Nat \X Nat /\ \A p \in S : p[1] <= MaxGen + 1
    BY <1>2
  <2>2. \A i \in Nat : \E c \in Nat : \A p \in S : p[1] = i => p[2] <= c
    BY <1>1, <1>2
  <2>3. PICK n \in S : IsNewest(n, S)
    BY <1>1, <1>3, <2>1, <2>2, NewestExists
  <2> QED BY <2>1, <2>3, NewestIs
<1> QED BY <1>2, <1>3

\* A set of names has an oldest one.
LEMMA OldestOK ==
  ASSUME NEW S, S \subseteq Names, S # {}
  PROVE  Oldest(S) \in S /\ \A m \in S \ {Oldest(S)} : After(m, Oldest(S))
<1> DEFINE Less == {ss \in Nat \X Nat : ss[1] < ss[2]}
<1>1. IsWellFoundedOn(Less, Nat)
  BY NatLessThanWellFounded, Zenon DEF OpToRel
<1>2. \A x, y \in Nat : <<y, x>> \notin Less => x <= y
  OBVIOUS
<1> HIDE DEF Less
<1>3. ASSUME NEW T, T \subseteq Nat, T # {} PROVE \E x \in T : \A y \in T : x <= y
  <2>1. PICK x \in T : \A y \in T : ~(<<y, x>> \in Less)
    BY <1>1, <1>3, WFMin
  <2> QED BY <1>2, <1>3, <2>1
<1>4. \A p \in S : p \in Nat \X Nat /\ p[1] \in Nat /\ p[2] \in Nat /\ p = <<p[1], p[2]>>
  BY NamesOK
<1>5. PICK i \in {p[1] : p \in S} : \A x \in {p[1] : p \in S} : i <= x
  <2>1. {p[1] : p \in S} \subseteq Nat /\ {p[1] : p \in S} # {}
    BY <1>4
  <2> QED BY <1>3, <2>1
<1>6. PICK j \in {p[2] : p \in {q \in S : q[1] = i}} :
        \A x \in {p[2] : p \in {q \in S : q[1] = i}} : j <= x
  <2>1. {p[2] : p \in {q \in S : q[1] = i}} \subseteq Nat /\ {p[2] : p \in {q \in S : q[1] = i}} # {}
    BY <1>4, <1>5
  <2> QED BY <1>3, <2>1
<1>7. PICK n \in S : n[1] = i /\ n[2] = j
  BY <1>6
<1>8. ASSUME NEW m \in S \ {n} PROVE After(m, n)
  <2>1. i <= m[1] /\ (m[1] = i => j <= m[2])
    BY <1>5, <1>6
  <2>2. {m[1], m[2], n[1], n[2]} \subseteq Nat /\ m = <<m[1], m[2]>> /\ n = <<n[1], n[2]>>
    BY <1>4
  <2> QED BY <1>7, <1>8, <2>1, <2>2 DEF After
<1> QED BY <1>7, <1>8 DEF Oldest

-----------------------------------------------------------------------------
(* What files and segments hold *)

USE DEF Values

\* No value is a value, too.
LEMMA ZeroIsValue == 0 \in Values /\ Empty \in [Keys -> Values] /\ Values \subseteq Nat
  BY BoundsAssumption DEF Empty

\* What files S say that hold the values f: the newest one that has a value wins.
Best(S, f) ==
  LET having == {n \in S : f[n] # 0}
  IN  IF having = {} THEN 0 ELSE f[Newest(having)]

\* f[n] is what S says: the files after n have nothing.
Wins(n, S, f) == n \in S /\ f[n] # 0 /\ \A m \in S : m = n \/ f[m] = 0 \/ After(n, m)

\* The winner is what the files say; without one they say nothing.
LEMMA BestIs ==
  ASSUME NEW S, S \subseteq Names, NEW f
  PROVE  /\ (\A m \in S : f[m] = 0) => Best(S, f) = 0
         /\ \A n : Wins(n, S, f) => Best(S, f) = f[n]
         /\ (\E m \in S : f[m] # 0) => \E n : Wins(n, S, f)
<1>h. PICK H : H = {n \in S : f[n] # 0}
  OBVIOUS
<1>1. Best(S, f) = IF H = {} THEN 0 ELSE f[Newest(H)]
  BY <1>h DEF Best
<1>2. H \subseteq Names /\ H \subseteq Nat \X Nat
  BY <1>h, NamesOK
<1>3. ASSUME NEW n, Wins(n, S, f) PROVE Best(S, f) = f[n]
  <2>1. n \in H /\ IsNewest(n, H)
    BY <1>h, <1>3 DEF IsNewest, Wins
  <2>2. Newest(H) = n
    BY <1>2, <2>1, NewestIs
  <2> QED BY <1>1, <2>1, <2>2
<1>4. ASSUME NEW l \in S, f[l] # 0 PROVE \E n : Wins(n, S, f)
  <2>1. H # {}
    BY <1>h, <1>4
  <2>2. IsNewest(Newest(H), H)
    BY <1>2, <2>1, NamesOK
  <2> QED BY <1>h, <2>2 DEF IsNewest, Wins
<1>5. (\A m \in S : f[m] = 0) => Best(S, f) = 0
  BY <1>h, <1>1
<1> QED BY <1>3, <1>4, <1>5

\* InFiles says so of the files of the engine, before a step and after it.
LEMMA InFilesBest ==
  ASSUME NEW S, S \subseteq Names, NEW k, NEW f
  PROVE  /\ (\A n \in S : f[n] = InFile(n, k)) => InFiles(S, k) = Best(S, f)
         /\ (\A n \in S : f[n] = InFile(n, k)') => InFiles(S, k)' = Best(S, f)
<1>1. ASSUME \A n \in S : f[n] = InFile(n, k) PROVE InFiles(S, k) = Best(S, f)
  <2>h. PICK H : H = {n \in S : f[n] # 0}
    OBVIOUS
  <2>1. H = {n \in S : InFile(n, k) # 0}
    BY <1>1, <2>h
  <2>2. InFiles(S, k) = IF H = {} THEN 0 ELSE InFile(Newest(H), k)
    BY <2>1 DEF InFiles
  <2>3. Best(S, f) = IF H = {} THEN 0 ELSE f[Newest(H)]
    BY <2>h DEF Best
  <2>4. H # {} => Newest(H) \in S
    BY <2>h, NamesOK DEF IsNewest
  <2> QED BY <1>1, <2>2, <2>3, <2>4
<1>2. ASSUME \A n \in S : f[n] = InFile(n, k)' PROVE InFiles(S, k)' = Best(S, f)
  <2>h. PICK H : H = {n \in S : f[n] # 0}
    OBVIOUS
  <2>1. H = {n \in S : InFile(n, k)' # 0}
    BY <1>2, <2>h
  <2>2. InFiles(S, k)' = IF H = {} THEN 0 ELSE InFile(Newest(H), k)'
    BY <2>1 DEF InFiles
  <2>3. Best(S, f) = IF H = {} THEN 0 ELSE f[Newest(H)]
    BY <2>h DEF Best
  <2>4. H # {} => Newest(H) \in S
    BY <2>h, NamesOK DEF IsNewest
  <2> QED BY <1>2, <2>2, <2>3, <2>4
<1> QED BY <1>1, <1>2

\* Files that do not change say what they said.
LEMMA InFilesSame ==
  ASSUME NEW S, S \subseteq Names, NEW k, \A n \in S : InFile(n, k)' = InFile(n, k)
  PROVE  InFiles(S, k)' = InFiles(S, k)
<1>f. PICK f : f = [n \in S |-> InFile(n, k)]
  OBVIOUS
<1> QED BY <1>f, InFilesBest

\* What files say is a value.
LEMMA InFilesType ==
  ASSUME FilesOK, NEW S, S \subseteq DOMAIN tsm, NEW k \in Keys
  PROVE  InFiles(S, k) \in Values
<1>1. \A n \in S : InFile(n, k) \in Values
  BY ZeroIsValue DEF FilesOK, InFile
<1>2. S \subseteq Names
  BY DEF FilesOK
<1>f. PICK f : f = [n \in S |-> InFile(n, k)]
  OBVIOUS
<1>3. InFiles(S, k) = Best(S, f) /\ \A n \in S : f[n] \in Values
  BY <1>1, <1>2, <1>f, InFilesBest
<1>4. CASE \A m \in S : f[m] = 0
  BY <1>2, <1>3, <1>4, BestIs, ZeroIsValue
<1>5. CASE \E m \in S : f[m] # 0
  <2>1. PICK n : Wins(n, S, f)
    BY <1>2, <1>5, BestIs
  <2>2. Best(S, f) = f[n]
    BY <1>2, <2>1, BestIs
  <2> QED BY <1>3, <2>1, <2>2 DEF Wins
<1> QED BY <1>4, <1>5

\* The readable part of a segment.
LEMMA ReadableOK ==
  ASSUME NEW s \in Seq(Entries)
  PROVE  Readable(s) \in 0 .. Len(s)
<1>0. Len(s) \in Nat
  OBVIOUS
<1>1. CASE \E j \in 1 .. Len(s) : s[j] = Hole
  <2> DEFINE Less == {ss \in Nat \X Nat : ss[1] < ss[2]}
  <2>1. IsWellFoundedOn(Less, Nat)
    BY NatLessThanWellFounded, Zenon DEF OpToRel
  <2>2. \A x, y \in Nat : <<y, x>> \notin Less => x <= y
    OBVIOUS
  <2> HIDE DEF Less
  <2>t. PICK T : T = {j \in 1 .. Len(s) : s[j] = Hole}
    OBVIOUS
  <2>3. T \subseteq Nat /\ T # {}
    BY <1>1, <2>t
  <2>4. PICK j \in T : \A y \in T : ~(<<y, j>> \in Less)
    BY <2>1, <2>3, WFMin
  <2>5. \A y \in T : j <= y
    BY <2>2, <2>3, <2>4
  <2>6. ASSUME NEW i \in 1 .. j - 1 PROVE s[i] # Hole
    <3>1. j \in 1 .. Len(s) /\ i \in 1 .. Len(s) /\ ~(j <= i)
      BY <1>0, <2>t
    <3> QED BY <2>t, <2>5, <3>1
  <2>7. j \in 1 .. Len(s) /\ s[j] = Hole /\ \A i \in 1 .. j - 1 : s[i] # Hole
    BY <2>t, <2>6
  <2>c. PICK c : c = CHOOSE i \in 1 .. Len(s) : s[i] = Hole /\ \A l \in 1 .. i - 1 : s[l] # Hole
    OBVIOUS
  <2>8. c \in 1 .. Len(s)
    BY <2>7, <2>c
  <2>9. Readable(s) = c - 1
    BY <1>1, <2>c DEF Readable
  <2> QED BY <1>0, <2>8, <2>9
<1>2. CASE ~ \E j \in 1 .. Len(s) : s[j] = Hole
  <2>1. Readable(s) = Len(s)
    BY <1>2 DEF Readable
  <2> QED BY <1>0, <2>1
<1> QED BY <1>1, <1>2

\* What CacheLoader.Load finds is a value.
LEMMA LoadedType ==
  ASSUME NEW ss \in Seq(Seq(Entries)), NEW c \in Nat, NEW k
  PROVE  Loaded(ss, c, k) \in Values
<1> DEFINE length(i) == IF i = Len(ss) /\ c < Readable(ss[i]) THEN c ELSE Readable(ss[i])
           at == {p \in UNION {{i} \X (1 .. length(i)) : i \in 1 .. Len(ss)} : ss[p[1]][p[2]].key = k}
           p == CHOOSE p \in at : \A q \in at \ {p} : After(p, q)
<1>0. Len(ss) \in Nat /\ \A i \in 1 .. Len(ss) : ss[i] \in Seq(Entries) /\ Len(ss[i]) \in Nat
  BY ElementOfSeq
<1>1. ASSUME NEW i \in 1 .. Len(ss) PROVE length(i) \in 0 .. Len(ss[i])
  <2>1. Readable(ss[i]) \in 0 .. Len(ss[i])
    BY <1>0, ReadableOK
  <2>2. Len(ss[i]) \in Nat
    BY <1>0
  <2> QED BY <2>1, <2>2
<1> HIDE DEF length
<1>2. ASSUME NEW q \in at
      PROVE  q[1] \in 1 .. Len(ss) /\ q[2] \in 1 .. Len(ss[q[1]]) /\ q \in Nat \X Nat
  <2>1. PICK i \in 1 .. Len(ss) : q \in {i} \X (1 .. length(i))
    OBVIOUS
  <2>2. q = <<i, q[2]>> /\ q[1] = i /\ q[2] \in 1 .. length(i)
    BY <2>1
  <2>3. length(i) \in 0 .. Len(ss[i]) /\ Len(ss[i]) \in Nat
    BY <1>0, <1>1
  <2>4. q[2] \in 1 .. Len(ss[i])
    BY <2>2, <2>3
  <2>5. i \in Nat /\ q[2] \in Nat
    BY <1>0, <2>4
  <2> QED BY <2>2, <2>4, <2>5
<1>3. Loaded(ss, c, k) = IF at = {} THEN 0 ELSE ss[p[1]][p[2]].val
  BY DEF Loaded, length
<1> HIDE DEF at
<1>4. CASE at = {}
  BY <1>3, <1>4, ZeroIsValue
<1>5. CASE at # {}
  <2>1. at \subseteq Nat \X Nat /\ \A q \in at : q[1] <= Len(ss)
    BY <1>0, <1>2
  <2>2. ASSUME NEW i \in Nat PROVE \E b \in Nat : \A q \in at : q[1] = i => q[2] <= b
    <3>1. CASE i \in 1 .. Len(ss)
      <4>1. \A q \in at : q[1] = i => q[2] <= Len(ss[i])
        BY <1>0, <1>2, <3>1
      <4> QED BY <1>0, <3>1, <4>1
    <3>2. CASE i \notin 1 .. Len(ss)
      BY <1>2, <3>2
    <3> QED BY <3>1, <3>2
  <2>3. PICK n \in at : IsNewest(n, at)
    BY <1>0, <1>5, <2>1, <2>2, NewestExists
  <2>4. p \in at
    BY <2>3 DEF IsNewest
  <2> HIDE DEF p
  <2>5. ss[p[1]][p[2]] \in Entries
    BY <1>0, <1>2, <2>4, ElementOfSeq
  <2>6. ss[p[1]][p[2]].val \in Values
    BY <2>5, ZeroIsValue DEF Entries, Hole
  <2> QED BY <1>3, <1>5, <2>6
<1> QED BY <1>4, <1>5

-----------------------------------------------------------------------------
(* The steps of the clients *)

\* Steps that leave the compaction and its files alone and begin no delete.
LEMMA CompFrame ==
  ASSUME CompOK, MergeOK, comp' = comp, active' = active, tsm' = tsm, tomb' = tomb,
         \A k \in Keys : op'[k].kind = "delete" => op[k].kind = "delete"
  PROVE  CompOK' /\ MergeOK'
<1>1. CompOK'
  BY DEF CompOK, Added
<1>2. MergeOK'
  BY DEF MergeOK, InFiles, InFile, Hidden
<1> QED BY <1>1, <1>2

\* No snapshot in progress.
LEMMA IdleOK ==
  Idle \in [stage : {"idle", "write", "replace", "clear", "remove"}, closed : Nat, name : Nat \X Nat]
  BY DEF Idle, NoName

\* Steps that leave the files, the snapshot and the compaction alone and begin no delete.
LEMMA FrameOK ==
  ASSUME EngineInv, UNCHANGED <<files, sw, comp>>, LogOK', open => open', Len(segs) <= Len(segs'),
         \A k \in Keys : op'[k].kind = "delete" => op[k].kind = "delete"
  PROVE  SnapshotOK' /\ FilesOK' /\ CompOK' /\ MergeOK'
<1>1. sw' = sw /\ comp' = comp /\ tsm' = tsm /\ tomb' = tomb /\ active' = active /\ gen' = gen
  BY DEF files
<1>2. SnapshotOK'
  <2>1. Len(segs) \in Nat /\ Len(segs') \in Nat
    BY DEF EngineInv, LogOK
  <2> QED BY <1>1, <2>1 DEF EngineInv, SnapshotOK
<1>3. FilesOK'
  BY <1>1 DEF EngineInv, FilesOK
<1>4. CompOK' /\ MergeOK'
  BY <1>1, CompFrame DEF EngineInv
<1> QED BY <1>2, <1>3, <1>4

\* No operation in progress.
LEMMA NoOpOK == NoOp \in Operations /\ NoOp.kind = "none" /\ NoOp.stage = "none"
  BY DEF Operations, NoOp

\* Ending operations, as Sync, rollSegment and CloseSegment do.
LEMMA EndOK ==
  ASSUME OpsOK, NEW S, op' = [k \in Keys |-> IF k \in S THEN NoOp ELSE op[k]]
  PROVE  OpsOK' /\ \A k \in Keys : op'[k].kind = "delete" => op[k].kind = "delete"
  BY NoOpOK DEF OpsOK

\* An operation that goes on to its next stage.
LEMMA StageOK ==
  ASSUME OpsOK, NEW k \in Keys, NEW st \in {"scan", "cache", "log", "sync"},
         \/ op' = [op EXCEPT ![k].stage = st, ![k].found = TRUE]
         \/ op' = [op EXCEPT ![k].stage = st]
  PROVE  OpsOK' /\ \A j \in Keys : op'[j].kind = "delete" => op[j].kind = "delete"
<1>1. op' \in [Keys -> Operations]
  BY DEF OpsOK, Operations
<1>2. op'[k].stage = st /\ op'[k].kind = op[k].kind /\ \A j \in Keys \ {k} : op'[j] = op[j]
  BY DEF OpsOK, Operations
<1> QED BY <1>1, <1>2 DEF OpsOK

\* An entry is added to the last segment, or starts a new one.
LEMMA EntryOK ==
  ASSUME LogOK, NEW e \in Entries, open' \in BOOLEAN, written' \in BOOLEAN, gap' \in BOOLEAN,
         \/ /\ open /\ synced' = synced
            /\ segs' = [segs EXCEPT ![Len(segs)] = @ \o Written(e)]
         \/ synced' = 0 /\ segs' = Append(segs, <<e>>)
  PROVE  LogOK' /\ Len(segs) <= Len(segs')
<1>1. segs \in Seq(Seq(Entries)) /\ Len(segs) \in Nat
  BY DEF LogOK
<1>2. CASE synced' = 0 /\ segs' = Append(segs, <<e>>)
  <2>1. <<e>> \in Seq(Entries)
    OBVIOUS
  <2>2. segs' \in Seq(Seq(Entries)) /\ Len(segs') = Len(segs) + 1 /\ segs'[Len(segs) + 1] = <<e>>
    BY <1>1, <1>2, <2>1, AppendProperties
  <2>3. segs' # << >> /\ Len(Last(segs')) = 1
    BY <1>1, <2>2 DEF Last
  <2> QED BY <1>1, <1>2, <2>2, <2>3 DEF LogOK
<1>3. CASE /\ open /\ synced' = synced
           /\ segs' = [segs EXCEPT ![Len(segs)] = @ \o Written(e)]
  <2>1. segs # << >> /\ Len(segs) \in 1 .. Len(segs) /\ synced \in 0 .. Len(Last(segs))
    BY <1>1, <1>3 DEF LogOK
  <2>2. Last(segs) \in Seq(Entries) /\ segs[Len(segs)] = Last(segs)
    BY <1>1, <2>1, ElementOfSeq DEF Last
  <2>3. Written(e) \in Seq(Entries)
    <3>1. Hole \in Entries
      BY DEF Entries
    <3> QED BY <3>1 DEF Written
  <2>l. PICK l : l = Last(segs) \o Written(e)
    OBVIOUS
  <2>4. l \in Seq(Entries) /\ Len(l) = Len(Last(segs)) + Len(Written(e))
    BY <2>2, <2>3, <2>l, ConcatProperties
  <2>5. segs' = [segs EXCEPT ![Len(segs)] = l]
    BY <1>3, <2>2, <2>l
  <2>6. segs' \in Seq(Seq(Entries)) /\ Len(segs') = Len(segs) /\ segs'[Len(segs)] = l
    BY <1>1, <2>1, <2>4, <2>5, ExceptSeq
  <2>7. segs' # << >> /\ Last(segs') = l
    BY <2>1, <2>6 DEF Last
  <2>8. Len(Last(segs)) \in Nat /\ Len(Written(e)) \in Nat
    BY <2>2, <2>3
  <2>9. synced' \in 0 .. Len(Last(segs'))
    BY <1>3, <2>1, <2>4, <2>7, <2>8
  <2> QED BY <1>1, <2>6, <2>7, <2>9 DEF LogOK
<1> QED BY <1>2, <1>3

\* An entry may end the operations that wait for an older segment, and begins no other.
LEMMA LogKeeps == ASSUME NEW k \in Keys, EngineInv, Log(k) PROVE EngineInv'
<1>e. PICK e : e = [key |-> k, val |-> IF op[k].kind = "write" THEN writes[k] ELSE 0]
  OBVIOUS
<1>1. e \in Entries
  BY <1>e, ZeroIsValue DEF EngineInv, CacheOK, Entries
<1>2. LogEntry(k, e) \/ LogEntryInNewSegment(k, e)
  BY <1>e DEF Log
<1>3. UNCHANGED <<cache, files, sw, comp, writes>>
  BY DEF Log
<1>4. /\ open' = TRUE /\ written' = TRUE /\ gap' = FALSE
      /\ \/ /\ open /\ synced' = synced
            /\ segs' = [segs EXCEPT ![Len(segs)] = @ \o Written(e)]
         \/ synced' = 0 /\ segs' = Append(segs, <<e>>)
  <2>1. open \in BOOLEAN
    BY DEF EngineInv, LogOK
  <2> QED BY <1>2, <2>1 DEF LogEntry, LogEntryInNewSegment
<1>5. LogOK' /\ Len(segs) <= Len(segs')
  BY <1>1, <1>4, EntryOK DEF EngineInv
<1>6. OpsOK' /\ \A j \in Keys : op'[j].kind = "delete" => op[j].kind = "delete"
  <2>1. CASE LogEntry(k, e)
    BY <2>1, StageOK DEF LogEntry, EngineInv
  <2>2. CASE LogEntryInNewSegment(k, e)
    <3>1. op' = [j \in Keys |-> IF j = k THEN [op[k] EXCEPT !.stage = "sync", !.found = TRUE]
                                ELSE IF j \in Waiting THEN NoOp ELSE op[j]]
      BY <2>2 DEF LogEntryInNewSegment
    <3>2. op \in [Keys -> Operations]
      BY DEF EngineInv, OpsOK
    <3>3. op' \in [Keys -> Operations] /\ op'[k].stage = "sync" /\ op'[k].kind = op[k].kind
      BY <3>1, <3>2, NoOpOK DEF Operations
    <3>4. \A j \in Keys \ {k} : op'[j] = NoOp \/ op'[j] = op[j]
      BY <3>1
    <3> QED BY <3>3, <3>4, NoOpOK DEF EngineInv, OpsOK
  <2> QED BY <1>2, <2>1, <2>2
<1>7. CacheOK'
  BY <1>3 DEF EngineInv, CacheOK, cache
<1>8. SnapshotOK' /\ FilesOK' /\ CompOK' /\ MergeOK'
  BY <1>3, <1>4, <1>5, <1>6, FrameOK
<1> QED BY <1>5, <1>6, <1>7, <1>8 DEF EngineInv

\* The operations of the clients that do not touch the log or the files.
LEMMA SimpleKeeps ==
  ASSUME EngineInv, UNCHANGED <<wal, files, sw, comp>>, OpsOK', CacheOK',
         \A k \in Keys : op'[k].kind = "delete" => op[k].kind = "delete"
  PROVE  EngineInv'
<1>1. LogOK' /\ open' = open /\ segs' = segs
  BY DEF EngineInv, LogOK, wal
<1>2. Len(segs) <= Len(segs')
  BY <1>1 DEF EngineInv, LogOK
<1> QED BY <1>1, <1>2, FrameOK DEF EngineInv

\* A write of a key with fewer than MaxWrites writes has a value for it.
LEMMA WriteKeeps == ASSUME NEW k \in Keys, EngineInv, WriteBegins(k) PROVE EngineInv'
<1>1. CacheOK'
  <2>1. writes[k] + 1 \in Values
    BY BoundsAssumption DEF WriteBegins, EngineInv, CacheOK
  <2> QED BY <2>1 DEF WriteBegins, EngineInv, CacheOK
<1>2. OpsOK' /\ \A j \in Keys : op'[j].kind = "delete" => op[j].kind = "delete"
  <2>1. [NoOp EXCEPT !.kind = "write", !.stage = "log"] \in Operations
    BY NoOpOK DEF Operations
  <2>2. [NoOp EXCEPT !.kind = "write", !.stage = "log"].kind = "write"
    BY NoOpOK DEF Operations
  <2>3. [NoOp EXCEPT !.kind = "write", !.stage = "log"].stage = "log"
    BY NoOpOK DEF Operations
  <2>o. PICK o : o = [NoOp EXCEPT !.kind = "write", !.stage = "log"]
    OBVIOUS
  <2>4. op' = [op EXCEPT ![k] = o] /\ o \in Operations /\ o.kind = "write" /\ o.stage = "log"
    BY <2>1, <2>2, <2>3, <2>o DEF WriteBegins
  <2> QED BY <2>4 DEF EngineInv, OpsOK
<1>3. UNCHANGED <<wal, files, sw, comp>>
  BY DEF WriteBegins
<1> QED BY <1>1, <1>2, <1>3, SimpleKeeps

\* Cache.DeleteRange leaves the key without a value.
LEMMA DeleteFromCacheKeeps == ASSUME NEW k \in Keys, EngineInv, DeleteFromCache(k) PROVE EngineInv'
<1>1. CacheOK'
  BY ZeroIsValue DEF DeleteFromCache, EngineInv, CacheOK, history
<1>2. OpsOK' /\ \A j \in Keys : op'[j].kind = "delete" => op[j].kind = "delete"
  BY StageOK DEF DeleteFromCache, EngineInv
<1>3. UNCHANGED <<wal, files, sw, comp>>
  BY DEF DeleteFromCache
<1> QED BY <1>1, <1>2, <1>3, SimpleKeeps

\* A delete goes on to the cache or ends.
LEMMA DeleteScansKeeps == ASSUME NEW k \in Keys, EngineInv, DeleteScans(k) PROVE EngineInv'
<1>1. CacheOK'
  BY DEF DeleteScans, EngineInv, CacheOK, cache
<1>2. OpsOK' /\ \A j \in Keys : op'[j].kind = "delete" => op[j].kind = "delete"
  <2>1. CASE live[k] # 0
    BY <2>1, StageOK DEF DeleteScans, EngineInv
  <2>2. CASE live[k] = 0
    BY <2>2, EndOK DEF DeleteScans, Complete, EngineInv
  <2> QED BY <2>1, <2>2
<1>3. UNCHANGED <<wal, files, sw, comp>>
  BY DEF DeleteScans
<1> QED BY <1>1, <1>2, <1>3, SimpleKeeps

\* A failed operation ends, and leaves its traces.
LEMMA OpFailsKeeps == ASSUME NEW k \in Keys, EngineInv, OpFails(k) PROVE EngineInv'
<1>1. CacheOK'
  BY DEF OpFails, EngineInv, CacheOK, cache
<1>2. OpsOK' /\ \A j \in Keys : op'[j].kind = "delete" => op[j].kind = "delete"
  BY NoOpOK DEF OpFails, EngineInv, OpsOK
<1>3. UNCHANGED <<wal, files, sw, comp>>
  BY DEF OpFails
<1> QED BY <1>1, <1>2, <1>3, SimpleKeeps

\* The reader changes nothing but itself.
LEMMA ReadKeeps ==
  ASSUME EngineInv, (\E k \in Keys : ReadCache(k)) \/ ReadFiles PROVE EngineInv'
<1>1. UNCHANGED <<cache, wal, files, sw, comp, op, history>>
  BY DEF ReadCache, ReadFiles
<1>2. CacheOK'
  BY <1>1 DEF EngineInv, CacheOK, cache, history
<1>3. OpsOK' /\ op' = op
  BY <1>1 DEF EngineInv, OpsOK
<1> QED BY <1>1, <1>2, <1>3, SimpleKeeps

\* A delete begins when no compaction runs, so that it finds the files that are there.
LEMMA DeleteBeginsKeeps == ASSUME NEW k \in Keys, EngineInv, DeleteBegins(k) PROVE EngineInv'
<1>1. /\ UNCHANGED <<cache, wal, files, sw, comp, writes>>
      /\ comp.stage = "idle"
  BY DEF DeleteBegins
<1>2. LogOK' /\ CacheOK' /\ SnapshotOK' /\ FilesOK'
  BY <1>1 DEF EngineInv, LogOK, CacheOK, SnapshotOK, FilesOK, cache, wal, files
<1>3. OpsOK'
  <2>h. PICK holding : holding = {n \in active : InFile(n, k) # 0}
    OBVIOUS
  <2>1. holding \subseteq Names
    BY <1>1, <2>h DEF EngineInv, CompOK, FilesOK
  <2>r. PICK raced \in BOOLEAN : raced = (snap[k] # 0)
    OBVIOUS
  <2>a. PICK alone \in BOOLEAN : alone = (sw.stage = "idle" /\ snap = Empty)
    OBVIOUS
  <2>s. PICK st \in {"scan", "files"} : st = IF holding = {} THEN "scan" ELSE "files"
    OBVIOUS
  <2>o. PICK o : o = [NoOp EXCEPT !.kind = "delete", !.todo = holding, !.raced = raced,
                                  !.alone = alone, !.stage = st]
    OBVIOUS
  <2>2. op' = [op EXCEPT ![k] = o]
    BY <2>h, <2>r, <2>a, <2>s, <2>o DEF DeleteBegins
  <2>3. o \in Operations
    BY <2>1, <2>o, NoOpOK DEF Operations
  <2>4. o.kind = "delete"
    BY <2>o, NoOpOK DEF Operations
  <2> QED BY <2>2, <2>3, <2>4 DEF EngineInv, OpsOK
<1>4. CompOK' /\ MergeOK'
  BY <1>1 DEF EngineInv, CompOK, MergeOK, files
<1> QED BY <1>2, <1>3, <1>4 DEF EngineInv

\* A delete that marks files excludes a compaction, whose merged values stay right.
LEMMA DeleteFromFileKeeps == ASSUME NEW k \in Keys, EngineInv, DeleteFromFile(k) PROVE EngineInv'
<1>0. UNCHANGED <<cache, wal, tsm, active, gen, sw, comp, history>>
  BY DEF DeleteFromFile
<1>1. op[k].stage = "files" /\ op[k].kind = "delete" /\ comp.stage = "idle"
  BY DEF DeleteFromFile, EngineInv, OpsOK, CompOK
<1>2. PICK n \in op[k].todo :
        /\ tomb' = [m \in DOMAIN tomb \cup {n} |->
                     IF m = n THEN {k} \cup (IF n \in DOMAIN tomb THEN tomb[n] ELSE {}) ELSE tomb[m]]
        /\ op' = [op EXCEPT ![k].todo = @ \ {n}, ![k].stage = IF op[k].todo = {n} THEN "scan" ELSE @]
  BY DEF DeleteFromFile
<1>3. n \in Names
  BY DEF EngineInv, OpsOK, Operations
<1>4. LogOK' /\ CacheOK' /\ SnapshotOK'
  BY <1>0 DEF EngineInv, LogOK, CacheOK, SnapshotOK, cache, wal, history
<1>5. FilesOK'
  BY <1>0, <1>2, <1>3 DEF EngineInv, FilesOK
<1>6. OpsOK'
  <2>s. PICK st : st = IF op[k].todo = {n} THEN "scan" ELSE "files"
    OBVIOUS
  <2>o. op \in [Keys -> Operations] /\ op' = [op EXCEPT ![k].todo = @ \ {n}, ![k].stage = st]
    BY <1>1, <1>2, <2>s DEF EngineInv, OpsOK
  <2>1. op' \in [Keys -> Operations]
    <3>1. st \in {"scan", "files"}
      BY <2>s
    <3>o. PICK o : o = [op[k] EXCEPT !.todo = @ \ {n}, !.stage = st]
      OBVIOUS
    <3>2. op[k] \in Operations
      BY <2>o
    <3>3. o \in Operations
      BY <3>1, <3>2, <3>o DEF Operations
    <3>4. op' = [op EXCEPT ![k] = o]
      BY <2>o, <3>o
    <3> QED BY <2>o, <3>3, <3>4
  <2>2. op'[k].kind = "delete" /\ \A j \in Keys \ {k} : op'[j] = op[j]
    BY <1>1, <1>2 DEF EngineInv, OpsOK, Operations
  <2> QED BY <2>1, <2>2 DEF EngineInv, OpsOK
<1>7. CompOK' /\ MergeOK'
  BY <1>0, <1>1 DEF EngineInv, CompOK, MergeOK
<1> QED BY <1>4, <1>5, <1>6, <1>7 DEF EngineInv

\* After fsync the whole last segment is on disk.
LEMMA SyncKeeps == ASSUME EngineInv, Sync PROVE EngineInv'
<1>1. UNCHANGED <<cache, segs, open, written, gap, files, sw, comp, writes>>
  BY DEF Sync
<1>2. CacheOK'
  BY <1>1 DEF EngineInv, CacheOK, cache
<1>3. OpsOK' /\ \A j \in Keys : op'[j].kind = "delete" => op[j].kind = "delete"
  BY EndOK DEF Sync, Complete, EngineInv
<1>4. LogOK'
  <2>1. ASSUME open PROVE Len(Last(segs)) \in Nat
    BY <2>1, ElementOfSeq DEF EngineInv, LogOK, Last
  <2> QED BY <1>1, <2>1 DEF Sync, EngineInv, LogOK, Last
<1>5. Len(segs) <= Len(segs')
  BY <1>1 DEF EngineInv, LogOK
<1> QED BY <1>1, <1>2, <1>3, <1>4, <1>5, FrameOK DEF EngineInv

-----------------------------------------------------------------------------
(* The steps of WriteSnapshot *)

\* Closing the segment leaves the log as it must be, with an open segment.
LEMMA CloseOK ==
  ASSUME LogOK, CloseSegment
  PROVE  LogOK' /\ open' /\ Len(segs') \in Nat \ {0} /\ Len(segs) <= Len(segs')
<1>1. segs \in Seq(Seq(Entries)) /\ Len(segs) \in Nat
  BY DEF LogOK
<1>2. CASE SegmentCloses
  <2>1. segs' = Append(segs, << >>) /\ synced' = 0 /\ open' = TRUE /\ written' = FALSE /\ gap' = FALSE
    BY <1>2 DEF CloseSegment
  <2>2. << >> \in Seq(Entries)
    OBVIOUS
  <2>3. segs' \in Seq(Seq(Entries)) /\ Len(segs') = Len(segs) + 1 /\ segs'[Len(segs) + 1] = << >>
    BY <1>1, <2>1, <2>2, AppendProperties
  <2>4. segs' # << >> /\ Len(Last(segs')) = 0
    BY <1>1, <2>3 DEF Last
  <2>6. open' \in BOOLEAN /\ written' \in BOOLEAN /\ gap' \in BOOLEAN /\ synced' = 0
    BY <2>1
  <2>7. synced' \in 0 .. Len(Last(segs'))
    BY <2>4, <2>6
  <2>5. LogOK'
    BY <2>3, <2>4, <2>6, <2>7 DEF LogOK
  <2> QED BY <1>1, <2>1, <2>3, <2>5
<1>3. CASE ~SegmentCloses
  <2>1. open /\ segs' = segs /\ synced' = synced /\ open' = TRUE /\ written' = FALSE /\ gap' = gap
    BY <1>3 DEF CloseSegment, SegmentCloses
  <2>2. LogOK'
    BY <2>1 DEF LogOK
  <2>3. segs # << >>
    BY <2>1 DEF LogOK
  <2> QED BY <1>1, <2>1, <2>2, <2>3
<1> QED BY <1>2, <1>3

\* The segments that a snapshot will remove are all but the current one.
LEMMA SnapshotBeginsKeeps == ASSUME EngineInv, SnapshotBegins PROVE EngineInv'
<1>1. UNCHANGED <<files, comp, writes>>
  BY DEF SnapshotBegins
<1>2. LogOK' /\ open' /\ Len(segs') \in Nat \ {0}
  BY CloseOK DEF EngineInv, SnapshotBegins
<1>3. CacheOK'
  BY <1>1, ZeroIsValue DEF SnapshotBegins, EngineInv, CacheOK
<1>4. OpsOK' /\ \A k \in Keys : op'[k].kind = "delete" => op[k].kind = "delete"
  <2>1. PICK base, race :
          /\ base = [k \in Keys |-> IF k \in Answered THEN NoOp ELSE op[k]]
          /\ race = [k \in Keys |-> base[k].kind = "delete" /\ ~(snap # Empty) /\ k \in {j \in Keys : live[j] # 0}]
    OBVIOUS
  <2>2. op' = [k \in Keys |-> [base[k] EXCEPT !.alone = FALSE, !.raced = @ \/ race[k]]]
    BY <2>1, Zenon DEF SnapshotBegins
  <2>3. base \in [Keys -> Operations] /\ race \in [Keys -> BOOLEAN]
    BY <2>1, NoOpOK DEF EngineInv, OpsOK
  <2>4. \A k \in Keys : /\ base[k].kind = "delete" => op[k].kind = "delete"
                        /\ base[k].stage = "files" => base[k].kind = "delete"
    BY <2>1, NoOpOK DEF EngineInv, OpsOK
  <2>5. op' \in [Keys -> Operations]
    <3>1. ASSUME NEW o \in Operations, NEW b \in BOOLEAN
          PROVE  [o EXCEPT !.alone = FALSE, !.raced = @ \/ b] \in Operations
      BY DEF Operations
    <3> QED BY <2>2, <2>3, <3>1
  <2>6. \A k \in Keys : op'[k].kind = base[k].kind /\ op'[k].stage = base[k].stage
    BY <2>2, <2>3 DEF Operations
  <2> QED BY <2>4, <2>5, <2>6 DEF OpsOK
<1>5. SnapshotOK'
  <2>1. sw' = [Idle EXCEPT !.stage = "write", !.closed = Len(segs') - 1]
    BY DEF SnapshotBegins, ClosedSegments
  <2>2. sw' \in [stage : {"idle", "write", "replace", "clear", "remove"}, closed : Nat, name : Nat \X Nat]
    <3>1. Len(segs') - 1 \in Nat /\ Idle \in [stage : {"idle", "write", "replace", "clear", "remove"},
                                              closed : Nat, name : Nat \X Nat]
      BY <1>2, IdleOK
    <3> QED BY <2>1, <3>1
  <2>3. sw'.stage = "write" /\ sw'.closed = Len(segs') - 1
    BY <2>1 DEF Idle
  <2> QED BY <1>2, <2>2, <2>3 DEF SnapshotOK
<1>6. FilesOK'
  BY <1>1 DEF EngineInv, FilesOK, files
<1>7. CompOK' /\ MergeOK'
  BY <1>1, <1>4, CompFrame DEF EngineInv, files
<1> QED BY <1>2, <1>3, <1>4, <1>5, <1>6, <1>7 DEF EngineInv

\* Another closed segment is no concern of the snapshot in progress.
LEMMA WithoutEffectKeeps == ASSUME EngineInv, SnapshotWithoutEffect PROVE EngineInv'
<1>1. UNCHANGED <<cache, files, sw, comp, writes>>
  BY DEF SnapshotWithoutEffect
<1>2. LogOK' /\ open' /\ Len(segs) <= Len(segs')
  BY CloseOK DEF EngineInv, SnapshotWithoutEffect
<1>3. CacheOK'
  BY <1>1 DEF EngineInv, CacheOK, cache
<1>4. OpsOK' /\ \A k \in Keys : op'[k].kind = "delete" => op[k].kind = "delete"
  BY EndOK DEF SnapshotWithoutEffect, Complete, EngineInv
<1> QED BY <1>1, <1>2, <1>3, <1>4, FrameOK DEF EngineInv

\* The next generation is newer than every file.
LEMMA SnapshotWrittenKeeps == ASSUME EngineInv, SnapshotWritten PROVE EngineInv'
<1>1. UNCHANGED <<cache, wal, tsm, tomb, active, comp, op, history>>
  BY DEF SnapshotWritten
<1>2. LogOK' /\ CacheOK' /\ OpsOK'
  BY <1>1 DEF EngineInv, LogOK, CacheOK, OpsOK, cache, wal, history
<1>3. CompOK' /\ MergeOK'
  BY <1>1, CompFrame DEF EngineInv
<1>4. gen \in Nat /\ gen' = gen + 1 /\ \A n \in DOMAIN tsm : n[1] \in Nat /\ n[1] <= gen
  BY NamesOK DEF SnapshotWritten, EngineInv, FilesOK
<1>5. FilesOK'
  BY <1>1, <1>4 DEF EngineInv, FilesOK
<1>6. SnapshotOK'
  <2>1. sw' = [sw EXCEPT !.stage = "replace", !.name = <<gen + 1, 1>>] /\ sw.stage = "write"
    BY DEF SnapshotWritten
  <2>2. <<gen + 1, 1>> \in Names /\ <<gen + 1, 1>> \in Nat \X Nat
    BY <1>4, BoundsAssumption DEF SnapshotWritten, Names
  <2>3. sw' \in [stage : {"idle", "write", "replace", "clear", "remove"}, closed : Nat, name : Nat \X Nat]
    BY <2>1, <2>2 DEF EngineInv, SnapshotOK
  <2>4. sw'.stage = "replace" /\ sw'.closed = sw.closed /\ sw'.name = <<gen', 1>>
    BY <1>4, <2>1 DEF EngineInv, SnapshotOK
  <2>5. open' /\ sw'.closed < Len(segs')
    BY <1>1, <2>1, <2>4 DEF EngineInv, SnapshotOK, wal
  <2>6. \A n \in DOMAIN tsm' : n[1] < gen'
    BY <1>1, <1>4
  <2> QED BY <1>4, <2>2, <2>3, <2>4, <2>5, <2>6 DEF SnapshotOK
<1> QED BY <1>2, <1>3, <1>5, <1>6 DEF EngineInv

\* A failed snapshot leaves its generation unused.
LEMMA SnapshotFailsKeeps == ASSUME EngineInv, SnapshotFails PROVE EngineInv'
<1>1. UNCHANGED <<cache, wal, files, comp, op, history>>
  BY DEF SnapshotFails
<1>2. LogOK' /\ CacheOK' /\ OpsOK' /\ FilesOK'
  BY <1>1 DEF EngineInv, LogOK, CacheOK, OpsOK, FilesOK, cache, wal, history, files
<1>3. CompOK' /\ MergeOK'
  BY <1>1, CompFrame DEF EngineInv, files
<1>4. sw' = Idle /\ Idle.stage = "idle" /\ Idle.closed = 0
  BY DEF SnapshotFails, Idle
<1>5. SnapshotOK'
  BY <1>4, IdleOK DEF SnapshotOK
<1> QED BY <1>2, <1>3, <1>5 DEF EngineInv

\* The file of a snapshot is newer than the group of a compaction that is being written, and
\* is not its new file.
LEMMA SnapshotReplacesKeeps == ASSUME EngineInv, SnapshotReplaces PROVE EngineInv'
<1>1. UNCHANGED <<cache, wal, tomb, gen, comp, op, writes>>
  BY DEF SnapshotReplaces
<1>2. LogOK' /\ CacheOK' /\ OpsOK'
  BY <1>1 DEF EngineInv, LogOK, CacheOK, OpsOK, cache, wal
<1>n. PICK name : name = sw.name
  OBVIOUS
<1>3. /\ name \in Names /\ name = <<gen, 1>> /\ name[1] = gen /\ \A n \in DOMAIN tsm : n[1] < gen
      /\ sw.stage = "replace"
  BY <1>n DEF SnapshotReplaces, EngineInv, SnapshotOK
<1>4. name \notin DOMAIN tsm
  <2>1. gen \in Nat /\ \A n \in DOMAIN tsm : n[1] \in Nat
    BY NamesOK DEF EngineInv, FilesOK
  <2> QED BY <1>3, <2>1
<1>5. /\ tsm' = [n \in DOMAIN tsm \cup {name} |-> IF n = name THEN snap ELSE tsm[n]]
      /\ active' = active \cup {name}
      /\ DOMAIN tsm' = DOMAIN tsm \cup {name}
      /\ comp.stage \in {"idle", "write"} /\ active = DOMAIN tsm
  BY <1>n DEF SnapshotReplaces, FilesLocked, EngineInv, CompOK, CompStates
<1>6. FilesOK'
  <2>1. \A n \in DOMAIN tsm' : tsm'[n] \in [Keys -> Values] /\ n[1] <= gen'
    BY <1>1, <1>3, <1>5 DEF EngineInv, FilesOK, CacheOK
  <2> QED BY <1>1, <1>3, <1>5, <2>1 DEF EngineInv, FilesOK
<1>7. SnapshotOK'
  <2>1. sw' = [sw EXCEPT !.stage = "clear"]
    BY DEF SnapshotReplaces
  <2>2. sw' \in [stage : {"idle", "write", "replace", "clear", "remove"}, closed : Nat, name : Nat \X Nat]
    BY <2>1 DEF EngineInv, SnapshotOK
  <2>3. sw'.stage = "clear" /\ sw'.closed = sw.closed
    BY <2>1 DEF EngineInv, SnapshotOK
  <2> QED BY <1>1, <1>3, <2>2, <2>3 DEF EngineInv, SnapshotOK, wal
<1>8. CASE comp.stage = "idle"
  <2>1. CompOK' /\ MergeOK'
    BY <1>1, <1>5, <1>8 DEF EngineInv, CompOK, MergeOK
  <2> QED BY <1>2, <1>6, <1>7, <2>1 DEF EngineInv
<1>9. CASE comp.stage = "write"
  <2>1. \A m \in comp.group : m \in DOMAIN tsm /\ m # name /\ m[1] < gen
    BY <1>3, <1>4, <1>5 DEF EngineInv, CompOK
  <2>2. comp.new # name
    <3>1. CASE comp.new = NoName
      <4>1. NoName \notin Names
        BY BoundsAssumption DEF NoName, Names
      <4> QED BY <1>3, <3>1, <4>1
    <3>2. CASE comp.new # NoName
      <4>1. PICK t \in comp.group : comp.new = <<t[1], t[2] + 1>>
        BY <1>9, <3>2 DEF EngineInv, CompOK
      <4>2. comp.new[1] < gen /\ name[1] = gen /\ gen \in Nat
        BY <1>3, <2>1, <4>1 DEF EngineInv, FilesOK
      <4> QED BY <4>2
    <3> QED BY <3>1, <3>2
  <2>3. CompOK'
    <3>1. \A m \in comp.group : name[1] > m[1]
      <4>1. gen \in Nat /\ \A m \in comp.group : m[1] \in Nat
        BY NamesOK, <2>1 DEF EngineInv, FilesOK
      <4> QED BY <1>3, <2>1, <4>1
    <3>2. comp' = comp /\ op' = op /\ Added' = Added
      BY <1>1 DEF Added
    <3>3. /\ active' = DOMAIN tsm' /\ comp.new \notin active' /\ comp.group \subseteq active'
          /\ active' \subseteq Names
      BY <1>3, <1>5, <1>9, <2>2 DEF EngineInv, CompOK
    <3>4. \A n \in active' \ (comp.group \cup Added) : \/ \A m \in comp.group : n[1] < m[1]
                                                      \/ \A m \in comp.group : n[1] > m[1]
      BY <1>5, <1>9, <3>1 DEF EngineInv, CompOK
    <3> QED BY <1>9, <3>2, <3>3, <3>4 DEF EngineInv, CompOK
  <2>4. MergeOK'
    <3>1. ASSUME NEW k \in Keys, NEW n \in comp.group PROVE InFile(n, k)' = InFile(n, k)
      BY <1>1, <1>5, <2>1 DEF InFile, Hidden
    <3>g. PICK g : g = comp.group
      OBVIOUS
    <3>2. comp' = comp /\ g \subseteq Names /\ g = comp'.group
      BY <1>1, <3>g DEF EngineInv, CompOK
    <3>3. ASSUME NEW k \in Keys PROVE InFiles(g, k)' = InFiles(g, k)
      BY <3>1, <3>2, <3>g, InFilesSame
    <3>4. \A k \in Keys : comp.data[k] = InFiles(g, k)'
      BY <1>9, <3>3, <3>g DEF EngineInv, MergeOK
    <3>5. \A k \in Keys : comp.data[k] = InFiles(comp.group, k)'
      BY <1>1, <3>4, <3>2 DEF InFiles
    <3>6. \A k \in Keys : comp.data[k] = 0 =>
            \A n \in comp.group \cap DOMAIN tsm' : InFile(n, k)' = 0
      BY <1>9, <2>1, <3>1 DEF EngineInv, MergeOK
    <3> QED BY <1>9, <3>2, <3>5, <3>6 DEF MergeOK
  <2> QED BY <1>2, <1>6, <1>7, <2>3, <2>4 DEF EngineInv
<1> QED BY <1>5, <1>8, <1>9

\* Without closed segments the snapshot is done.
LEMMA SnapshotClearsKeeps == ASSUME EngineInv, SnapshotClears PROVE EngineInv'
<1>1. UNCHANGED <<live, wal, files, comp, op, history>> /\ snap' = Empty
  BY DEF SnapshotClears
<1>2. LogOK' /\ OpsOK' /\ FilesOK'
  BY <1>1 DEF EngineInv, LogOK, OpsOK, FilesOK, wal, files
<1>3. CacheOK'
  BY <1>1, ZeroIsValue DEF EngineInv, CacheOK, history
<1>4. CompOK' /\ MergeOK'
  BY <1>1, CompFrame DEF EngineInv, files
<1>5. SnapshotOK'
  <2>1. CASE sw.closed = 0
    <3>1. sw' = Idle /\ Idle.stage = "idle" /\ Idle.closed = 0
      BY <2>1 DEF SnapshotClears, Idle
    <3> QED BY <3>1, IdleOK DEF SnapshotOK
  <2>2. CASE sw.closed # 0
    <3>1. sw' = [sw EXCEPT !.stage = "remove"] /\ sw.stage = "clear"
      BY <2>2 DEF SnapshotClears
    <3>2. sw' \in [stage : {"idle", "write", "replace", "clear", "remove"}, closed : Nat, name : Nat \X Nat]
      BY <3>1 DEF EngineInv, SnapshotOK
    <3>3. sw'.stage = "remove" /\ sw'.closed = sw.closed /\ sw.closed \in Nat
      BY <3>1 DEF EngineInv, SnapshotOK
    <3> QED BY <1>1, <2>2, <3>1, <3>2, <3>3 DEF EngineInv, SnapshotOK, wal
  <2> QED BY <2>1, <2>2
<1> QED BY <1>2, <1>3, <1>4, <1>5 DEF EngineInv

\* The last segment, which is open, is not removed.
LEMMA SnapshotRemovesKeeps == ASSUME EngineInv, SnapshotRemovesSegment PROVE EngineInv'
<1>1. UNCHANGED <<cache, open, written, synced, gap, files, comp, op, history>> /\ segs' = Tail(segs)
  BY DEF SnapshotRemovesSegment
<1>2. CacheOK' /\ OpsOK' /\ FilesOK'
  BY <1>1 DEF EngineInv, CacheOK, OpsOK, FilesOK, cache, history, files
<1>3. CompOK' /\ MergeOK'
  BY <1>1, CompFrame DEF EngineInv, files
<1>4. /\ segs \in Seq(Seq(Entries)) /\ Len(segs) \in Nat /\ open /\ sw.stage = "remove"
      /\ sw.closed \in Nat /\ sw.closed > 0 /\ sw.closed < Len(segs)
  BY DEF SnapshotRemovesSegment, EngineInv, SnapshotOK, LogOK
<1>5. /\ segs' \in Seq(Seq(Entries)) /\ Len(segs') = Len(segs) - 1 /\ segs' # << >>
      /\ Last(segs') = Last(segs)
  <2>1. segs # << >>
    BY <1>4
  <2>2. /\ segs' \in Seq(Seq(Entries)) /\ Len(segs') = Len(segs) - 1
        /\ \A i \in 1 .. Len(segs') : segs'[i] = segs[i + 1]
    BY <1>1, <1>4, <2>1, HeadTailProperties
  <2>3. Len(segs') \in 1 .. Len(segs') /\ Len(segs') + 1 = Len(segs)
    BY <1>4, <2>2
  <2>4. segs'[Len(segs')] = segs[Len(segs)]
    BY <2>2, <2>3
  <2> QED BY <2>2, <2>3, <2>4 DEF Last
<1>6. LogOK'
  BY <1>1, <1>5 DEF EngineInv, LogOK
<1>7. SnapshotOK'
  <2>1. CASE sw.closed = 1
    <3>1. sw' = Idle /\ Idle.stage = "idle" /\ Idle.closed = 0
      BY <2>1 DEF SnapshotRemovesSegment, Idle
    <3> QED BY <3>1, IdleOK DEF SnapshotOK
  <2>2. CASE sw.closed # 1
    <3>1. sw' = [sw EXCEPT !.closed = @ - 1] /\ sw.closed - 1 \in Nat
      BY <1>4, <2>2 DEF SnapshotRemovesSegment
    <3>2. sw' \in [stage : {"idle", "write", "replace", "clear", "remove"}, closed : Nat, name : Nat \X Nat]
      BY <3>1 DEF EngineInv, SnapshotOK
    <3>3. sw'.stage = "remove" /\ sw'.closed = sw.closed - 1
      BY <1>4, <3>1 DEF EngineInv, SnapshotOK
    <3>4. sw'.closed > 0 /\ sw'.closed < Len(segs') /\ open'
      BY <1>1, <1>4, <1>5, <2>2, <3>3
    <3> QED BY <3>2, <3>3, <3>4 DEF SnapshotOK
  <2> QED BY <2>1, <2>2
<1> QED BY <1>2, <1>3, <1>6, <1>7 DEF EngineInv

-----------------------------------------------------------------------------
(* The steps of a compaction *)

\* What the files do to the rest while a compaction goes on.
LEMMA CompactFrame ==
  ASSUME EngineInv, UNCHANGED <<cache, wal, gen, sw, op, writes>>
  PROVE  /\ LogOK' /\ CacheOK' /\ OpsOK'
         /\ DOMAIN tsm' \subseteq DOMAIN tsm => SnapshotOK'
<1>1. LogOK' /\ CacheOK' /\ OpsOK'
  BY DEF EngineInv, LogOK, CacheOK, OpsOK, cache, wal
<1>2. ASSUME DOMAIN tsm' \subseteq DOMAIN tsm PROVE SnapshotOK'
  BY <1>2 DEF EngineInv, SnapshotOK, wal
<1> QED BY <1>1, <1>2

\* No file has the name that stands for none.
LEMMA NoNameOK == NoName \notin Names
  BY BoundsAssumption DEF NoName, Names

\* No compaction in progress.
LEMMA NoCompOK == NoComp \in CompStates /\ NoComp.stage = "idle" /\ NoComp.group = {}
  BY ZeroIsValue DEF NoComp, CompStates

\* The name of the new file is free: all files of its generation are in the group.
LEMMA CompactBeginsKeeps == ASSUME EngineInv, CompactBegins PROVE EngineInv'
<1>1. UNCHANGED <<cache, wal, files, sw, op, history>> /\ comp.stage = "idle"
  BY DEF CompactBegins
<1>2. tsm' = tsm /\ tomb' = tomb /\ active' = active /\ gen' = gen /\ writes' = writes
  BY <1>1 DEF files, history
<1>3. LogOK' /\ CacheOK' /\ OpsOK' /\ SnapshotOK'
  BY <1>1, <1>2, CompactFrame
<1>4. FilesOK'
  BY <1>2 DEF EngineInv, FilesOK
<1>5. active = DOMAIN tsm /\ active \subseteq Names
  BY <1>1 DEF EngineInv, CompOK, FilesOK
<1>6. PICK g \in Groups :
        LET data == [k \in Keys |-> InFiles(g, k)]
            last == Newest(g)
        IN  /\ last[2] < MaxSeq
            /\ comp' = [stage |-> "write", group |-> g, data |-> data,
                        new |-> IF data = Empty THEN NoName ELSE <<last[1], last[2] + 1>>]
  BY DEF CompactBegins
<1>d. PICK data : data = [k \in Keys |-> InFiles(g, k)]
  OBVIOUS
<1>t. PICK t : t = Newest(g)
  OBVIOUS
<1>n. PICK new : new = IF data = Empty THEN NoName ELSE <<t[1], t[2] + 1>>
  OBVIOUS
<1>7. t[2] < MaxSeq /\ comp' = [stage |-> "write", group |-> g, data |-> data, new |-> new]
  BY <1>6, <1>d, <1>t, <1>n
<1>8. /\ g \subseteq active /\ g # {}
      /\ \A n \in active \ g : \/ \A m \in g : n[1] < m[1]
                              \/ \A m \in g : n[1] > m[1]
  BY DEF Groups
<1>9. IsNewest(t, g) /\ t \in g /\ t \in Names
  BY <1>5, <1>8, <1>t, NamesOK DEF IsNewest
<1>10. t[1] \in 1 .. MaxGen + 1 /\ t[2] \in 1 .. MaxSeq
  BY <1>9 DEF Names
<1>11. <<t[1], t[2] + 1>> \in Names
  <2>1. t[2] + 1 \in 1 .. MaxSeq
    BY <1>7, <1>10, BoundsAssumption
  <2> QED BY <1>10, <2>1 DEF Names
<1>12. <<t[1], t[2] + 1>> \notin active
  <2> SUFFICES ASSUME <<t[1], t[2] + 1>> \in active PROVE FALSE
    OBVIOUS
  <2>n. PICK n : n = <<t[1], t[2] + 1>>
    OBVIOUS
  <2>1. n[1] = t[1] /\ n[2] = t[2] + 1 /\ t[1] \in Nat /\ t[2] \in Nat
    BY <1>10, <2>n, BoundsAssumption
  <2>2. n \in g
    BY <1>8, <1>9, <2>n, <2>1
  <2>3. n # t /\ ~After(t, n)
    BY <2>1 DEF After
  <2> QED BY <1>9, <2>2, <2>3 DEF IsNewest
<1>13. data \in [Keys -> Values]
  <2>1. \A k \in Keys : InFiles(g, k) \in Values
    BY <1>5, <1>8, InFilesType DEF EngineInv
  <2> QED BY <1>d, <2>1
<1>14. /\ new \in Names \cup {NoName} /\ new \notin active
       /\ new = NoName => data = Empty
       /\ new # NoName => new = <<t[1], t[2] + 1>>
  BY <1>5, <1>n, <1>11, <1>12, NoNameOK
<1>15. /\ comp'.stage = "write" /\ comp'.group = g /\ comp'.data = data /\ comp'.new = new
       /\ comp' \in CompStates
  <2>1. g \in SUBSET Names
    BY <1>5, <1>8
  <2> QED BY <1>7, <1>13, <1>14, <2>1 DEF CompStates
<1>16. CompOK'
  <2>1. \A k \in Keys : op'[k].kind # "delete"
    BY <1>1 DEF CompactBegins
  <2>2. new # NoName => \E l \in g : IsNewest(l, g) /\ new = <<l[1], l[2] + 1>>
    BY <1>9, <1>14
  <2> HIDE DEF CompStates
  <2>3. /\ comp'.group \subseteq active' /\ active' = DOMAIN tsm' /\ comp'.new \notin active'
        /\ active' \subseteq Names /\ comp'.group # {} /\ comp'.new \notin comp'.group
        /\ \A n \in active' \ (comp'.group \cup Added') : \/ \A m \in comp'.group : n[1] < m[1]
                                                         \/ \A m \in comp'.group : n[1] > m[1]
    BY <1>2, <1>5, <1>8, <1>14, <1>15
  <2> QED BY <1>14, <1>15, <2>1, <2>2, <2>3 DEF CompOK, CompStates
<1>17. MergeOK'
  <2>1. ASSUME NEW k \in Keys PROVE InFiles(g, k)' = InFiles(g, k)
    BY <1>2 DEF InFiles, InFile, Hidden
  <2>2. ASSUME NEW k \in Keys, data[k] = 0, NEW n \in g PROVE InFile(n, k) = 0
    <3>f. PICK f : f = [l \in g |-> InFile(l, k)]
      OBVIOUS
    <3>1. g \subseteq Names /\ Best(g, f) = 0
      BY <1>5, <1>8, <1>d, <2>2, <3>f, InFilesBest
    <3>2. SUFFICES ASSUME f[n] # 0 PROVE FALSE
      BY <3>f
    <3>3. PICK l : Wins(l, g, f)
      BY <3>1, <3>2, BestIs
    <3>4. Best(g, f) = f[l]
      BY <3>1, <3>3, BestIs
    <3> QED BY <3>1, <3>3, <3>4 DEF Wins
  <2>3. \A k \in Keys : data[k] = InFiles(g, k)'
    BY <1>d, <2>1
  <2>4. \A k \in Keys : data[k] = 0 => \A n \in g : InFile(n, k)' = 0
    BY <1>2, <2>2 DEF InFile, Hidden
  <2>5. \A k \in Keys : data[k] = InFiles(comp.group, k)'
    BY <1>15, <2>3 DEF InFiles
  <2> QED BY <1>15, <2>4, <2>5 DEF MergeOK
<1> QED BY <1>3, <1>4, <1>16, <1>17 DEF EngineInv

\* An interrupted compaction has changed no file.
LEMMA CompactAbortsKeeps == ASSUME EngineInv, CompactAborts PROVE EngineInv'
<1>1. UNCHANGED <<cache, wal, files, sw, op, history>> /\ comp' = NoComp /\ comp.stage = "write"
  BY DEF CompactAborts
<1>2. tsm' = tsm /\ tomb' = tomb /\ active' = active /\ gen' = gen /\ writes' = writes
  BY <1>1 DEF files, history
<1>3. LogOK' /\ CacheOK' /\ OpsOK' /\ SnapshotOK'
  BY <1>1, <1>2, CompactFrame
<1>4. FilesOK'
  BY <1>2 DEF EngineInv, FilesOK
<1>5. CompOK' /\ MergeOK'
  BY <1>1, <1>2, NoCompOK DEF EngineInv, CompOK, MergeOK, CompStates
<1> QED BY <1>3, <1>4, <1>5 DEF EngineInv

\* The new file of a compaction is of a generation that the group has.
LEMMA NewFileOK ==
  ASSUME FilesOK, CompOK, comp.stage = "write", comp.new # NoName
  PROVE  /\ comp.new \in Names /\ comp.new \notin DOMAIN tsm
         /\ \E t \in DOMAIN tsm : comp.new[1] = t[1]
<1>1. PICK t \in comp.group : comp.new = <<t[1], t[2] + 1>>
  BY DEF CompOK
<1>2. t \in DOMAIN tsm /\ comp.new[1] = t[1]
  BY <1>1 DEF CompOK
<1> QED BY <1>2 DEF CompOK, CompStates

\* The new file joins the files of the group.
LEMMA CompactRenamesKeeps == ASSUME EngineInv, CompactRenames PROVE EngineInv'
<1>1. /\ UNCHANGED <<cache, wal, tomb, active, gen, sw, op, writes>>
      /\ comp.stage = "write" /\ comp' = [comp EXCEPT !.stage = "remove"]
  BY DEF CompactRenames
<1>2. LogOK' /\ CacheOK' /\ OpsOK'
  BY <1>1, CompactFrame
<1>3. /\ comp'.stage = "remove" /\ comp'.group = comp.group /\ comp'.new = comp.new
      /\ comp'.data = comp.data /\ comp' \in CompStates
  BY <1>1 DEF EngineInv, CompOK, CompStates
<1>4. active = DOMAIN tsm
  BY <1>1 DEF EngineInv, CompOK
<1>5. DOMAIN tsm' = DOMAIN tsm \cup Added /\ \A n \in DOMAIN tsm : n \notin Added => tsm'[n] = tsm[n]
  BY DEF CompactRenames, Added
<1>6. FilesOK' /\ SnapshotOK'
  <2>1. CASE comp.new = NoName
    <3>1. tsm' = tsm
      BY <2>1 DEF CompactRenames
    <3> QED BY <1>1, <3>1, CompactFrame DEF EngineInv, FilesOK
  <2>2. CASE comp.new # NoName
    <3>n. PICK new : new = comp.new
      OBVIOUS
    <3>1. tsm' = [n \in DOMAIN tsm \cup {new} |-> IF n = new THEN comp.data ELSE tsm[n]]
      BY <2>2, <3>n DEF CompactRenames
    <3>2. PICK t \in DOMAIN tsm : new[1] = t[1] /\ new \in Names
      BY <1>1, <2>2, <3>n, NewFileOK DEF EngineInv
    <3>3. comp.data \in [Keys -> Values]
      BY DEF EngineInv, CompOK, CompStates
    <3>4. \A n \in DOMAIN tsm' : tsm'[n] \in [Keys -> Values] /\ n[1] <= gen'
      BY <1>1, <3>1, <3>2, <3>3 DEF EngineInv, FilesOK
    <3>5. FilesOK'
      BY <1>1, <3>1, <3>2, <3>4 DEF EngineInv, FilesOK
    <3>6. sw.stage = "replace" => \A n \in DOMAIN tsm' : n[1] < gen
      BY <3>1, <3>2 DEF EngineInv, SnapshotOK
    <3> QED BY <1>1, <3>5, <3>6 DEF EngineInv, SnapshotOK, wal
  <2> QED BY <2>1, <2>2
<1>7. CompOK'
  <2>1. Added' = Added
    BY <1>3 DEF Added
  <2>2. comp'.group \subseteq active' /\ DOMAIN tsm' = active' \cup Added'
    BY <1>1, <1>3, <1>4, <1>5, <2>1 DEF EngineInv, CompOK
  <2> QED BY <1>1, <1>3, <2>1, <2>2 DEF EngineInv, CompOK
<1>8. MergeOK'
  <2>1. comp.group \subseteq DOMAIN tsm /\ \A n \in comp.group : n \notin Added
    BY <1>1, <1>4 DEF EngineInv, CompOK, Added
  <2>2. ASSUME NEW k \in Keys, NEW n \in comp.group PROVE InFile(n, k)' = InFile(n, k)
    BY <1>1, <1>5, <2>1 DEF InFile, Hidden
  <2>3. comp.new # NoName => tsm'[comp.new] = comp.data
    BY DEF CompactRenames
  <2>4. \A k \in Keys : comp.data[k] = 0 => \A n \in comp.group : InFile(n, k)' = 0
    BY <1>1, <2>1, <2>2 DEF EngineInv, MergeOK
  <2> QED BY <1>3, <2>3, <2>4 DEF MergeOK
<1> QED BY <1>2, <1>6, <1>7, <1>8 DEF EngineInv

\* The oldest file of the group goes; the new one is not of the group.
LEMMA CompactRemovesFileKeeps == ASSUME EngineInv, CompactRemovesFile PROVE EngineInv'
<1>o. PICK o : o = Oldest(comp.group)
  OBVIOUS
<1>1. /\ UNCHANGED <<cache, wal, tomb, active, gen, sw, op, writes>>
      /\ comp.stage = "remove" /\ comp' = [comp EXCEPT !.stage = "tombstone"]
      /\ tsm' = [m \in DOMAIN tsm \ {o} |-> tsm[m]]
  BY <1>o DEF CompactRemovesFile, Without, history
<1>2. DOMAIN tsm' = DOMAIN tsm \ {o} /\ \A m \in DOMAIN tsm' : tsm'[m] = tsm[m]
  BY <1>1
<1>3. LogOK' /\ CacheOK' /\ OpsOK' /\ SnapshotOK'
  BY <1>1, <1>2, CompactFrame
<1>4. FilesOK'
  BY <1>1, <1>2 DEF EngineInv, FilesOK
<1>5. /\ comp'.stage = "tombstone" /\ comp'.group = comp.group /\ comp'.new = comp.new
      /\ comp'.data = comp.data /\ comp' \in CompStates
  BY <1>1 DEF EngineInv, CompOK, CompStates
<1>6. o \in comp.group
  BY <1>1, <1>o, OldestOK DEF EngineInv, CompOK, CompStates
<1>7. CompOK'
  <2>1. Added' = Added
    BY <1>5 DEF Added
  <2>2. DOMAIN tsm' = (active' \cup Added') \ {Oldest(comp'.group)}
    BY <1>1, <1>2, <1>5, <1>o, <2>1 DEF EngineInv, CompOK
  <2> QED BY <1>1, <1>5, <2>1, <2>2 DEF EngineInv, CompOK
<1>8. MergeOK'
  <2>1. ASSUME NEW k \in Keys, NEW n \in DOMAIN tsm' PROVE InFile(n, k)' = InFile(n, k)
    BY <1>1, <1>2 DEF InFile, Hidden
  <2>2. comp.new # NoName => tsm'[comp.new] = comp.data
    <3>1. comp.new # o
      BY <1>1, <1>6 DEF EngineInv, CompOK
    <3>2. comp.new # NoName => comp.new \in DOMAIN tsm'
      BY <1>1, <1>2, <3>1 DEF EngineInv, CompOK, Added
    <3> QED BY <1>1, <1>2, <3>2 DEF EngineInv, MergeOK
  <2>3. \A k \in Keys : comp.data[k] = 0 => \A n \in comp.group \cap DOMAIN tsm' : InFile(n, k)' = 0
    BY <1>1, <1>2, <2>1 DEF EngineInv, MergeOK
  <2> QED BY <1>5, <2>2, <2>3 DEF MergeOK
<1> QED BY <1>3, <1>4, <1>7, <1>8 DEF EngineInv

\* The newest file of the group is the last to go.
LEMMA CompactRemovesTombstoneKeeps == ASSUME EngineInv, CompactRemovesTombstone PROVE EngineInv'
<1>o. PICK o : o = Oldest(comp.group)
  OBVIOUS
<1>l. PICK left : left = comp.group \ {o}
  OBVIOUS
<1>1. /\ UNCHANGED <<cache, wal, tsm, gen, sw, op, writes>>
      /\ comp.stage = "tombstone" /\ active' = (active \ {o}) \cup Added
      /\ tomb' = [m \in DOMAIN tomb \ {o} |-> tomb[m]]
      /\ comp' = IF left = {} THEN NoComp ELSE [comp EXCEPT !.stage = "remove", !.group = left]
  BY <1>o, <1>l DEF CompactRemovesTombstone, Without, history, Added
<1>2. LogOK' /\ CacheOK' /\ OpsOK' /\ SnapshotOK'
  BY <1>1, CompactFrame
<1>3. FilesOK'
  BY <1>1 DEF EngineInv, FilesOK
<1>4. o \in comp.group /\ \A m \in comp.group \ {o} : After(m, o)
  BY <1>1, <1>o, OldestOK DEF EngineInv, CompOK, CompStates
<1>5. o \notin Added /\ DOMAIN tsm = (active \cup Added) \ {o}
  BY <1>1, <1>4, <1>o DEF EngineInv, CompOK, Added
<1>6. CASE left = {}
  <2>1. comp' = NoComp /\ active' = DOMAIN tsm'
    BY <1>1, <1>5, <1>6
  <2>2. CompOK' /\ MergeOK'
    BY <2>1, NoCompOK DEF CompOK, MergeOK
  <2> QED BY <1>2, <1>3, <2>2 DEF EngineInv
<1>7. CASE left # {}
  <2>1. /\ comp'.stage = "remove" /\ comp'.group = left /\ comp'.new = comp.new
        /\ comp'.data = comp.data /\ comp' \in CompStates
    <3>1. left \in SUBSET Names /\ comp' = [comp EXCEPT !.stage = "remove", !.group = left]
      BY <1>1, <1>7, <1>l DEF EngineInv, CompOK, CompStates
    <3> QED BY <3>1 DEF EngineInv, CompOK, CompStates
  <2>2. Added' = Added
    BY <2>1 DEF Added
  <2>3. /\ left \subseteq active' /\ DOMAIN tsm' = active' \cup Added' /\ active' \subseteq Names
        /\ comp.new \notin left
    BY <1>1, <1>3, <1>5, <1>l, <2>2 DEF EngineInv, CompOK, FilesOK
  <2>4. \A n \in active' \ (left \cup Added) : \/ \A m \in left : n[1] < m[1]
                                              \/ \A m \in left : n[1] > m[1]
    BY <1>1, <1>l DEF EngineInv, CompOK
  <2>5. ASSUME comp.new # NoName
        PROVE  \E t \in left : IsNewest(t, left) /\ comp.new = <<t[1], t[2] + 1>>
    <3>1. PICK t \in comp.group : IsNewest(t, comp.group) /\ comp.new = <<t[1], t[2] + 1>>
      BY <1>1, <2>5 DEF EngineInv, CompOK
    <3>2. PICK m \in left : TRUE
      BY <1>7
    <3>3. m \in Nat \X Nat /\ o \in Nat \X Nat
      BY <1>4, <1>l, NamesOK DEF EngineInv, CompOK, CompStates
    <3>4. After(m, o) /\ ~After(o, m) /\ m # o
      BY <1>4, <1>l, <3>3, AfterOrder
    <3>5. t # o
      BY <1>l, <3>1, <3>4 DEF IsNewest
    <3> QED BY <1>l, <3>1, <3>5 DEF IsNewest
  <2>6. CompOK'
    BY <1>1, <1>7, <2>1, <2>2, <2>3, <2>4, <2>5 DEF EngineInv, CompOK
  <2>7. MergeOK'
    <3>1. ASSUME NEW k \in Keys, NEW n \in left PROVE InFile(n, k)' = InFile(n, k)
      BY <1>1, <1>l DEF InFile, Hidden
    <3>2. \A k \in Keys : comp.data[k] = 0 => \A n \in left \cap DOMAIN tsm' : InFile(n, k)' = 0
      BY <1>1, <1>l, <3>1 DEF EngineInv, MergeOK
    <3> QED BY <1>1, <2>1, <3>2 DEF EngineInv, MergeOK
  <2> QED BY <1>2, <1>3, <2>6, <2>7 DEF EngineInv
<1> QED BY <1>6, <1>7

-----------------------------------------------------------------------------
(* Restart *)

\* Open cuts every segment off where it cannot be read.
CutOff(ss) == [i \in 1 .. Len(ss) |-> SubSeq(ss[i], 1, Readable(ss[i]))]

\* What is left is a sequence of segments.
LEMMA CutOffOK ==
  ASSUME NEW ss \in Seq(Seq(Entries))
  PROVE  CutOff(ss) \in Seq(Seq(Entries)) /\ Len(CutOff(ss)) = Len(ss)
<1>0. Len(ss) \in Nat
  OBVIOUS
<1>1. ASSUME NEW i \in 1 .. Len(ss) PROVE SubSeq(ss[i], 1, Readable(ss[i])) \in Seq(Entries)
  <2>s. PICK x : x = ss[i]
    OBVIOUS
  <2>1. x \in Seq(Entries) /\ Len(x) \in Nat
    BY <2>s, ElementOfSeq
  <2>2. Readable(x) \in 0 .. Len(x)
    BY <2>1, ReadableOK
  <2>3. \A j \in 1 .. Readable(x) : x[j] \in Entries
    BY <2>1, <2>2, ElementOfSeq
  <2>4. SubSeq(x, 1, Readable(x)) \in Seq(Entries)
    BY <2>1, <2>2, <2>3, SubSeqProperties
  <2> QED BY <2>s, <2>4
<1>2. [i \in 1 .. Len(ss) |-> SubSeq(ss[i], 1, Readable(ss[i]))] \in Seq(Seq(Entries))
  BY <1>0, <1>1, IsASeq
<1>f. PICK f : f = [i \in 1 .. Len(ss) |-> SubSeq(ss[i], 1, Readable(ss[i]))]
  OBVIOUS
<1>3. DOMAIN f = 1 .. Len(ss) /\ f \in Seq(Seq(Entries))
  BY <1>2, <1>f
<1>4. Len(f) = Len(ss)
  BY <1>0, <1>3, LenProperties
<1> QED BY <1>2, <1>4, <1>f DEF CutOff

\* Open uses all files that there are, and counts on from the newest generation.
LEMMA RestartKeeps == ASSUME EngineInv, Restart PROVE EngineInv'
<1>1. /\ written' = FALSE /\ snap' = Empty /\ active' = DOMAIN tsm /\ sw' = Idle /\ comp' = NoComp
      /\ gen' = IF tsm = << >> THEN 0 ELSE Newest(DOMAIN tsm)[1] + 1
      /\ op' = [k \in Keys |-> NoOp] /\ tsm' = tsm /\ tomb' = tomb /\ writes' = writes
  BY DEF Restart
<1>2. OpsOK'
  BY <1>1, NoOpOK DEF OpsOK
<1>3. CompOK' /\ MergeOK'
  BY <1>1, NoCompOK DEF CompOK, MergeOK
<1>4. SnapshotOK'
  <2>1. Idle.stage = "idle" /\ Idle.closed = 0
    BY DEF Idle
  <2> QED BY <1>1, <2>1, IdleOK DEF SnapshotOK
<1>5. FilesOK'
  <2>1. CASE DOMAIN tsm = {}
    <3>1. tsm = << >>
      BY <2>1 DEF EngineInv, FilesOK
    <3> QED BY <1>1, <2>1, <3>1 DEF EngineInv, FilesOK
  <2>2. CASE DOMAIN tsm # {}
    <3>1. tsm # << >>
      BY <2>2
    <3>2. DOMAIN tsm \subseteq Names /\ DOMAIN tsm \subseteq Nat \X Nat
      BY NamesOK DEF EngineInv, FilesOK
    <3>t. PICK t : t = Newest(DOMAIN tsm)
      OBVIOUS
    <3>3. t \in DOMAIN tsm /\ \A m \in DOMAIN tsm \ {t} : After(t, m)
      BY <2>2, <3>2, <3>t, NamesOK DEF IsNewest
    <3>4. \A m \in DOMAIN tsm : m[1] \in Nat
      BY <3>2
    <3>5. \A m \in DOMAIN tsm : m[1] <= t[1] + 1
      BY <3>3, <3>4 DEF After
    <3>6. gen' = t[1] + 1 /\ t[1] \in Nat
      BY <1>1, <3>1, <3>3, <3>4, <3>t
    <3> QED BY <1>1, <3>5, <3>6 DEF EngineInv, FilesOK
  <2> QED BY <2>1, <2>2
<1>6. PICK c \in Cuts, torn \in BOOLEAN :
       LET n == Len(segs)
           cut == IF segs # << >> /\ open THEN [segs EXCEPT ![n] = SubSeq(@, 1, c)] ELSE segs
           empty == segs # << >> /\ cut[n] = << >> /\ ~torn
           kept == IF empty THEN SubSeq(cut, 1, n - 1) ELSE cut
       IN  /\ segs' = CutOff(kept)
           /\ open' = (segs # << >> /\ ~empty)
           /\ gap' = (open' /\ (torn \/ Readable(cut[n]) < Len(cut[n])))
           /\ synced' = IF segs' # << >> THEN Len(Last(segs')) ELSE 0
           /\ live' = [k \in Keys |-> Loaded(segs, c, k)]
  BY Zenon DEF Restart, CutOff
<1>7. segs \in Seq(Seq(Entries)) /\ Len(segs) \in Nat
  BY DEF EngineInv, LogOK
<1>8. c \in Nat /\ (segs # << >> => Len(segs) \in 1 .. Len(segs) /\ Last(segs) \in Seq(Entries)
                                    /\ Last(segs) = segs[Len(segs)] /\ c \in 0 .. Len(Last(segs)))
  <2>1. CASE segs = << >>
    BY <2>1 DEF Cuts
  <2>2. CASE segs # << >>
    <3>1. Len(segs) \in 1 .. Len(segs)
      BY <1>7, <2>2
    <3>2. Last(segs) \in Seq(Entries) /\ Last(segs) = segs[Len(segs)] /\ Len(Last(segs)) \in Nat
      BY <1>7, <3>1, ElementOfSeq DEF Last
    <3>3. c \in 0 .. Len(Last(segs))
      <4>1. c \in (IF open THEN synced ELSE Len(Last(segs))) .. Len(Last(segs))
        BY <2>2 DEF Cuts
      <4>2. open => synced \in 0 .. Len(Last(segs))
        BY DEF EngineInv, LogOK
      <4> QED BY <3>2, <4>1, <4>2
    <3> QED BY <3>1, <3>2, <3>3
  <2> QED BY <2>1, <2>2
<1>9. CacheOK'
  <2>1. live' = [k \in Keys |-> Loaded(segs, c, k)]
    BY <1>6
  <2>2. \A k \in Keys : Loaded(segs, c, k) \in Values
    BY <1>7, <1>8, LoadedType
  <2> QED BY <1>1, <2>1, <2>2, ZeroIsValue DEF EngineInv, CacheOK
<1>10. LogOK'
  <2>c. PICK cut : cut = IF segs # << >> /\ open THEN [segs EXCEPT ![Len(segs)] = SubSeq(@, 1, c)] ELSE segs
    OBVIOUS
  <2>e. PICK empty \in BOOLEAN : empty = (segs # << >> /\ cut[Len(segs)] = << >> /\ ~torn)
    OBVIOUS
  <2>k. PICK kept : kept = IF empty THEN SubSeq(cut, 1, Len(segs) - 1) ELSE cut
    OBVIOUS
  <2>1. /\ segs' = CutOff(kept)
        /\ open' = (segs # << >> /\ ~empty)
        /\ gap' \in BOOLEAN
        /\ synced' = IF segs' # << >> THEN Len(Last(segs')) ELSE 0
    <3>1. segs' = CutOff(kept)
      BY <1>6, <2>c, <2>e, <2>k, Zenon
    <3>2. open' = (segs # << >> /\ ~empty)
      BY <1>6, <2>c, <2>e, Zenon
    <3>3. gap' = (open' /\ (torn \/ Readable(cut[Len(segs)]) < Len(cut[Len(segs)])))
      BY <1>6, <2>c, Zenon
    <3>4. gap' \in BOOLEAN
      BY <3>3, Zenon
    <3>5. synced' = IF segs' # << >> THEN Len(Last(segs')) ELSE 0
      BY <1>6, Zenon
    <3> QED BY <3>1, <3>2, <3>4, <3>5
  <2>2. cut \in Seq(Seq(Entries)) /\ Len(cut) = Len(segs)
    <3>1. CASE segs # << >> /\ open
      <4>l. PICK l : l = SubSeq(Last(segs), 1, c)
        OBVIOUS
      <4>1. \A j \in 1 .. c : Last(segs)[j] \in Entries
        BY <1>8, <3>1, ElementOfSeq
      <4>2. l \in Seq(Entries)
        BY <1>8, <4>1, <4>l, SubSeqProperties
      <4>3. cut = [segs EXCEPT ![Len(segs)] = l]
        BY <1>8, <2>c, <3>1, <4>l
      <4> QED BY <1>7, <1>8, <3>1, <4>2, <4>3, ExceptSeq
    <3>2. CASE ~(segs # << >> /\ open)
      BY <1>7, <2>c, <3>2
    <3> QED BY <3>1, <3>2
  <2>3. kept \in Seq(Seq(Entries)) /\ (~empty => Len(kept) = Len(segs))
    <3>1. CASE empty
      <4>1. \A j \in 1 .. Len(segs) - 1 : cut[j] \in Seq(Entries)
        BY <1>7, <2>2, ElementOfSeq
      <4>2. SubSeq(cut, 1, Len(segs) - 1) \in Seq(Seq(Entries))
        BY <1>7, <4>1, SubSeqProperties
      <4> QED BY <2>k, <3>1, <4>2
    <3>2. CASE ~empty
      BY <2>2, <2>k, <3>2
    <3> QED BY <3>1, <3>2
  <2>4. segs' \in Seq(Seq(Entries)) /\ Len(segs') = Len(kept)
    BY <2>1, <2>3, CutOffOK
  <2>5. ASSUME open' PROVE segs' # << >> /\ synced' \in 0 .. Len(Last(segs'))
    <3>1. segs # << >> /\ ~empty
      BY <2>1, <2>5
    <3>2. Len(segs') = Len(segs) /\ Len(segs) \in Nat \ {0}
      BY <1>7, <2>3, <2>4, <3>1
    <3>3. segs' # << >> /\ Len(segs') \in 1 .. Len(segs')
      BY <3>2
    <3>4. Last(segs') \in Seq(Entries)
      BY <2>4, <3>3, ElementOfSeq DEF Last
    <3>5. Len(Last(segs')) \in Nat /\ synced' = Len(Last(segs'))
      BY <2>1, <3>3, <3>4
    <3> QED BY <3>3, <3>5
  <2>6. open' \in BOOLEAN /\ written' \in BOOLEAN
    BY <1>1, <2>1
  <2> QED BY <2>1, <2>4, <2>5, <2>6 DEF LogOK
<1> QED BY <1>2, <1>3, <1>4, <1>5, <1>9, <1>10 DEF EngineInv

-----------------------------------------------------------------------------
(* The types *)

\* A new shard; tombstone files may be left from an earlier one.
LEMMA InitOK == ASSUME Init PROVE EngineInv
<1>1. LogOK /\ CacheOK
  <2>1. open = FALSE /\ written = FALSE /\ gap = FALSE /\ segs = << >>
    BY DEF Init
  <2>2. open \in BOOLEAN /\ written \in BOOLEAN /\ gap \in BOOLEAN /\ ~open
    BY <2>1
  <2>3. << >> \in Seq(Seq(Entries))
    OBVIOUS
  <2>4. LogOK
    BY <2>1, <2>2, <2>3 DEF LogOK
  <2> QED BY <2>4, ZeroIsValue DEF Init, CacheOK, Empty
<1>2. OpsOK
  BY NoOpOK DEF Init, OpsOK
<1>3. SnapshotOK
  <2>1. Idle.stage = "idle" /\ Idle.closed = 0
    BY DEF Idle
  <2> QED BY <2>1, IdleOK DEF Init, SnapshotOK
<1>4. FilesOK
  <2>1. Leftover \subseteq Names
    BY LeftoverAssumption, BoundsAssumption DEF Names
  <2>2. DOMAIN tomb \subseteq Leftover
    BY DEF Init
  <2> QED BY <2>1, <2>2 DEF Init, FilesOK
<1>5. CompOK /\ MergeOK
  BY NoCompOK DEF Init, CompOK, MergeOK
<1> QED BY <1>1, <1>2, <1>3, <1>4, <1>5 DEF EngineInv

\* One lemma for each action.
LEMMA NextKeeps == ASSUME EngineInv, [Next]_vars PROVE EngineInv'
<1>1. ASSUME NEW k \in Keys, Client(k) PROVE EngineInv'
  BY <1>1, WriteKeeps, DeleteBeginsKeeps, DeleteFromFileKeeps, DeleteScansKeeps,
     DeleteFromCacheKeeps, LogKeeps, OpFailsKeeps, ReadKeeps DEF Client
<1>2. CASE Sync \/ ReadFiles
  BY <1>2, SyncKeeps, ReadKeeps
<1>3. CASE Snapshot
  BY <1>3, SnapshotBeginsKeeps, WithoutEffectKeeps, SnapshotWrittenKeeps, SnapshotFailsKeeps,
     SnapshotReplacesKeeps, SnapshotClearsKeeps, SnapshotRemovesKeeps DEF Snapshot
<1>4. CASE Compaction
  BY <1>4, CompactBeginsKeeps, CompactAbortsKeeps, CompactRenamesKeeps, CompactRemovesFileKeeps,
     CompactRemovesTombstoneKeeps DEF Compaction
<1>5. CASE Restart
  BY <1>5, RestartKeeps
<1>6. CASE UNCHANGED vars
  <2>1. UNCHANGED <<cache, wal, files, sw, comp, op, history>>
    BY <1>6 DEF vars
  <2>2. OpsOK' /\ CacheOK' /\ op' = op
    BY <2>1 DEF EngineInv, OpsOK, CacheOK, cache, history
  <2> QED BY <2>1, <2>2, SimpleKeeps
<1> QED BY <1>1, <1>2, <1>3, <1>4, <1>5, <1>6 DEF Next

\* The inductive invariant holds: among others, the name a snapshot or a compaction writes to
\* is free, and the files of a compaction stay neighbours until the last is removed.
THEOREM EngineInvariant == Spec => []EngineInv
  BY InitOK, NextKeeps, PTL DEF Spec

\* The parts of the invariant that TypeOK is about.
LEMMA TypesFollow == ASSUME EngineInv PROVE TypeOK
<1>1. {live, snap} \subseteq [Keys -> Values]
  BY DEF EngineInv, CacheOK
<1>2. /\ segs \in Seq(Seq(Entries)) /\ {open, written, gap} \subseteq BOOLEAN
      /\ open => segs # << >> /\ synced \in 0 .. Len(Last(segs))
  BY DEF EngineInv, LogOK
<1>3. sw.closed \in 0 .. Len(segs)
  <2>1. Len(segs) \in Nat /\ sw.closed \in Nat
    BY <1>2 DEF EngineInv, SnapshotOK
  <2>2. sw.closed = 0 \/ sw.closed < Len(segs)
    BY DEF EngineInv, SnapshotOK
  <2> QED BY <2>1, <2>2
<1>4. DOMAIN tsm \cup DOMAIN tomb \subseteq Names
  BY DEF EngineInv, FilesOK
<1>5. comp.group \subseteq active
  BY DEF EngineInv, CompOK
<1>6. active \subseteq DOMAIN tsm \cup comp.group
  <2>1. comp.stage \in {"idle", "write", "remove", "tombstone"}
    BY DEF EngineInv, CompOK, CompStates
  <2>2. CASE comp.stage = "tombstone"
    <3>1. Oldest(comp.group) \in comp.group
      BY <2>2, OldestOK DEF EngineInv, CompOK, CompStates
    <3> QED BY <2>2, <3>1 DEF EngineInv, CompOK
  <2>3. CASE comp.stage # "tombstone"
    BY <2>1, <2>3 DEF EngineInv, CompOK
  <2> QED BY <2>2, <2>3
<1>7. \A k \in Keys : op[k].stage \in {"none", "files", "scan", "cache", "log", "sync"}
  BY DEF EngineInv, OpsOK, Operations
<1> QED BY <1>1, <1>2, <1>3, <1>4, <1>5, <1>6, <1>7 DEF TypeOK

\* Every variable keeps its type, and what refers to the log and the files refers to what
\* is there: WriteSnapshot never removes the segment that is being written, and the file
\* store's list names no file that is gone but those that a compaction is removing.
THEOREM EngineTypes == Spec => []TypeOK
  BY EngineInvariant, TypesFollow, PTL

-----------------------------------------------------------------------------
(* Compaction keeps the values *)

\* What wins in files A that hold f has a winner with the same value in files B that hold g.
SameWinner(A, f, B, g) ==
  /\ (\A n \in A : f[n] = 0) => \A n \in B : g[n] = 0
  /\ \A v : Wins(v, A, f) => \E w : Wins(w, B, g) /\ g[w] = f[v]

\* Two sets of files with the same winner say the same.
LEMMA SameBest ==
  ASSUME NEW A, A \subseteq Names, NEW f, NEW B, B \subseteq Names, NEW g, SameWinner(A, f, B, g)
  PROVE  Best(A, f) = Best(B, g)
<1>1. CASE \A n \in A : f[n] = 0
  BY <1>1, BestIs DEF SameWinner
<1>2. CASE \E n \in A : f[n] # 0
  <2>1. PICK v : Wins(v, A, f)
    BY <1>2, BestIs
  <2>2. PICK w : Wins(w, B, g) /\ g[w] = f[v]
    BY <2>1 DEF SameWinner
  <2>3. Best(A, f) = f[v]
    BY <2>1, BestIs
  <2>4. Best(B, g) = g[w]
    BY <2>2, BestIs
  <2> QED BY <2>2, <2>3, <2>4
<1> QED BY <1>1, <1>2

\* The new file comes after the files of the group.
LEMMA NewIsAfter ==
  ASSUME CompOK, comp.stage # "idle", comp.new # NoName
  PROVE  /\ comp.new \in Nat \X Nat /\ comp.group \subseteq Nat \X Nat
         /\ \A m \in comp.group : After(comp.new, m)
<1>1. PICK t \in comp.group : IsNewest(t, comp.group) /\ comp.new = <<t[1], t[2] + 1>>
  BY DEF CompOK
<1>2. comp.new \in Nat \X Nat /\ comp.group \subseteq Nat \X Nat
  BY NamesOK DEF CompOK, CompStates
<1>3. comp.new[1] = t[1] /\ comp.new[2] = t[2] + 1 /\ t[1] \in Nat /\ t[2] \in Nat
  BY <1>1, <1>2
<1>4. After(comp.new, t)
  BY <1>3 DEF After
<1>5. \A m \in comp.group : m = t \/ After(t, m)
  BY <1>1 DEF IsNewest
<1> QED BY <1>2, <1>4, <1>5, AfterOrder

\* Renaming the new file.
LEMMA RenameKeepsValues ==
  ASSUME EngineInv, CompactRenames, NEW k \in Keys, ~Hidden(comp.new, k)
  PROVE  InFiles(DOMAIN tsm, k)' = InFiles(DOMAIN tsm, k)
<1>1. /\ tomb' = tomb /\ comp.stage = "write" /\ active = DOMAIN tsm
      /\ DOMAIN tsm \subseteq Names /\ CompOK /\ FilesOK
  BY DEF CompactRenames, EngineInv, CompOK, FilesOK
<1>2. CASE comp.new = NoName
  <2>1. tsm' = tsm
    BY <1>2 DEF CompactRenames
  <2> QED BY <1>1, <2>1 DEF InFiles, InFile, Hidden
<1>3. CASE comp.new # NoName
  <2>n. PICK new : new = comp.new
    OBVIOUS
  <2>D. PICK D : D = DOMAIN tsm
    OBVIOUS
  <2>G. PICK G : G = comp.group
    OBVIOUS
  <2>1. tsm' = [n \in D \cup {new} |-> IF n = new THEN comp.data ELSE tsm[n]]
    BY <1>3, <2>n, <2>D DEF CompactRenames
  <2>2. new \in Names /\ new \notin D /\ D \subseteq Names /\ G \subseteq D /\ new \in Nat \X Nat
        /\ D \subseteq Nat \X Nat
    BY <1>1, <1>3, <2>n, <2>D, <2>G, NewFileOK, NamesOK DEF CompOK
  <2>3. \A m \in G : After(new, m)
    BY <1>1, <1>3, <2>n, <2>G, NewIsAfter
  <2>4. PICK t \in G : new[1] = t[1]
    <3>1. PICK t \in G : new = <<t[1], t[2] + 1>>
      BY <1>1, <1>3, <2>n, <2>G DEF CompOK
    <3> QED BY <3>1
  <2>5. \A n \in D \ G : (\A m \in G : n[1] < m[1]) \/ (\A m \in G : n[1] > m[1])
    BY <1>1, <1>3, <2>2, <2>n, <2>D, <2>G DEF CompOK, Added
  <2>f. PICK f : f = [n \in D |-> InFile(n, k)]
    OBVIOUS
  <2>g. PICK g : g = [n \in D \cup {new} |-> InFile(n, k)']
    OBVIOUS
  <2>6. \A n \in D : g[n] = f[n]
    BY <1>1, <2>1, <2>2, <2>D, <2>f, <2>g DEF InFile, Hidden
  <2>7. g[new] = comp.data[k]
    <3>1. tsm'[new] = comp.data /\ ~(new \in DOMAIN tomb' /\ k \in tomb'[new])
      BY <1>1, <2>1, <2>n DEF Hidden
    <3> QED BY <2>g, <3>1 DEF InFile, Hidden
  <2>8. InFiles(DOMAIN tsm, k) = Best(D, f)
    BY <2>2, <2>D, <2>f, InFilesBest
  <2>9. InFiles(DOMAIN tsm, k)' = Best(D \cup {new}, g)
    <3>E. PICK E : E = D \cup {new}
      OBVIOUS
    <3>1. DOMAIN tsm' = E /\ E \subseteq Names
      BY <2>1, <2>2, <3>E
    <3>2. InFiles(E, k)' = Best(E, g)
      BY <2>g, <3>1, <3>E, InFilesBest
    <3> QED BY <3>1, <3>2, <3>E DEF InFiles
  <2>10. comp.data[k] = Best(G, f)
    <3>1. comp.data[k] = InFiles(G, k)
      BY <1>1, <2>G DEF EngineInv, MergeOK
    <3> QED BY <2>2, <2>f, <3>1, InFilesBest
  <2>11. (\A n \in D : f[n] = 0) => \A n \in D \cup {new} : g[n] = 0
    <3>1. (\A n \in D : f[n] = 0) => Best(G, f) = 0
      BY <2>2, BestIs
    <3> QED BY <2>6, <2>7, <2>10, <3>1
  <2>12. ASSUME NEW v, Wins(v, D, f)
         PROVE  \E w : Wins(w, D \cup {new}, g) /\ g[w] = f[v]
    <3>0. v \in D /\ f[v] # 0 /\ v # new /\ \A m \in D : m = v \/ f[m] = 0 \/ After(v, m)
      BY <2>2, <2>12 DEF Wins
    <3>1. CASE comp.data[k] = 0 \/ After(v, new)
      <4>1. Wins(v, D \cup {new}, g)
        BY <2>6, <2>7, <3>0, <3>1 DEF Wins
      <4> QED BY <2>6, <3>0, <4>1
    <3>2. CASE comp.data[k] # 0 /\ ~After(v, new)
      <4>1. \E m \in G : f[m] # 0
        BY <2>2, <2>10, <3>2, BestIs
      <4>2. PICK w : Wins(w, G, f)
        BY <2>2, <4>1, BestIs
      <4>3. comp.data[k] = f[w] /\ w \in G
        BY <2>2, <2>10, <4>2, BestIs DEF Wins
      <4>4. v = w \/ After(v, w)
        BY <2>2, <3>0, <4>2 DEF Wins
      <4>5. v \in G
        <5> SUFFICES ASSUME v \notin G PROVE FALSE
          OBVIOUS
        <5>1. After(v, w) /\ (v[1] < w[1] \/ \A m \in G : v[1] > m[1])
          BY <2>5, <3>0, <4>3, <4>4
        <5>2. v[1] \in Nat /\ w[1] \in Nat
          BY <2>2, <3>0, <4>3
        <5>3. v[1] > t[1]
          BY <5>1, <5>2 DEF After
        <5> QED BY <2>4, <3>2, <5>3 DEF After
      <4>6. v = w
        <5>1. w = v \/ After(w, v)
          BY <3>0, <4>2, <4>5 DEF Wins
        <5> QED BY <2>2, <3>0, <4>3, <4>4, <5>1, AfterOrder
      <4>7. \A m \in D : f[m] # 0 => After(new, m)
        <5>1. After(new, v)
          BY <2>3, <4>5
        <5>2. ASSUME NEW m \in D, f[m] # 0, m # v PROVE After(new, m)
          BY <2>2, <3>0, <5>1, <5>2, AfterOrder
        <5> QED BY <5>1, <5>2
      <4>8. Wins(new, D \cup {new}, g)
        BY <2>6, <2>7, <3>2, <4>7 DEF Wins
      <4> QED BY <2>7, <4>3, <4>6, <4>8
    <3> QED BY <3>1, <3>2
  <2>13. Best(D, f) = Best(D \cup {new}, g)
    <3>E. PICK E : E = D \cup {new}
      OBVIOUS
    <3>1. E \subseteq Names /\ ((\A n \in D : f[n] = 0) => \A n \in E : g[n] = 0)
      BY <2>2, <2>11, <3>E
    <3>2. \A v : Wins(v, D, f) => \E w : Wins(w, E, g) /\ g[w] = f[v]
      BY <2>12, <3>E, Zenon
    <3>3. Best(D, f) = Best(E, g)
      <4>1. SameWinner(D, f, E, g)
        BY <3>1, <3>2 DEF SameWinner
      <4> QED BY <2>2, <3>1, <4>1, SameBest
    <3> QED BY <3>3, <3>E
  <2> QED BY <2>8, <2>9, <2>13
<1> QED BY <1>2, <1>3

\* Removing a file of the group.
LEMMA RemoveKeepsValues ==
  ASSUME EngineInv, CompactRemovesFile, NEW k \in Keys, ~Hidden(comp.new, k)
  PROVE  InFiles(DOMAIN tsm, k)' = InFiles(DOMAIN tsm, k)
<1>o. PICK o : o = Oldest(comp.group)
  OBVIOUS
<1>D. PICK D : D = DOMAIN tsm
  OBVIOUS
<1>1. tomb' = tomb /\ comp.stage = "remove" /\ tsm' = [m \in D \ {o} |-> tsm[m]]
  BY <1>o, <1>D DEF CompactRemovesFile, Without
<1>2. D \subseteq Names /\ D \subseteq Nat \X Nat /\ D = active \cup Added
  BY <1>1, <1>D, NamesOK DEF EngineInv, FilesOK, CompOK
<1>3. o \in comp.group /\ o \in D
  BY <1>1, <1>2, <1>o, OldestOK DEF EngineInv, CompOK, CompStates
<1>E. PICK E : E = D \ {o}
  OBVIOUS
<1>f. PICK f : f = [n \in D |-> InFile(n, k)]
  OBVIOUS
<1>4. DOMAIN tsm' = E /\ E \subseteq Names /\ \A n \in E : InFile(n, k)' = f[n]
  BY <1>1, <1>2, <1>E, <1>f DEF InFile, Hidden
<1>5. InFiles(DOMAIN tsm, k) = Best(D, f)
  BY <1>2, <1>D, <1>f, InFilesBest
<1>6. InFiles(DOMAIN tsm, k)' = Best(E, f)
  <2>1. InFiles(E, k)' = Best(E, f)
    BY <1>4, InFilesBest
  <2> QED BY <1>4, <2>1 DEF InFiles
<1>7. ASSUME NEW v, Wins(v, D, f) PROVE v # o
  <2> SUFFICES ASSUME v = o PROVE FALSE
    OBVIOUS
  <2>1. f[o] # 0 /\ InFile(o, k) # 0 /\ \A m \in D : m = o \/ f[m] = 0 \/ After(o, m)
    BY <1>3, <1>7, <1>f DEF Wins
  <2>2. comp.data[k] # 0
    BY <1>1, <1>3, <1>D, <2>1 DEF EngineInv, MergeOK
  <2>3. comp.new # NoName
    BY <1>1, <2>2 DEF EngineInv, CompOK, Empty
  <2>4. comp.new \in D /\ InFile(comp.new, k) = comp.data[k]
    BY <1>1, <1>2, <2>3 DEF EngineInv, MergeOK, InFile, Added
  <2>5. comp.new \in Nat \X Nat /\ After(comp.new, o)
    BY <1>1, <1>3, <2>3, NewIsAfter DEF EngineInv
  <2>6. comp.new = o \/ After(o, comp.new)
    BY <1>f, <2>1, <2>2, <2>4
  <2> QED BY <1>2, <1>3, <2>5, <2>6, AfterOrder
<1>8. \A v : Wins(v, D, f) => Wins(v, E, f)
  BY <1>7, <1>E DEF Wins
<1>9. Best(D, f) = Best(E, f)
  <2>1. (\A n \in D : f[n] = 0) => \A n \in E : f[n] = 0
    BY <1>E
  <2>2. \A v : Wins(v, D, f) => \E w : Wins(w, E, f) /\ f[w] = f[v]
    BY <1>8, Zenon
  <2>3. SameWinner(D, f, E, f)
    BY <2>1, <2>2 DEF SameWinner
  <2> QED BY <1>2, <1>4, <2>3, SameBest
<1> QED BY <1>5, <1>6, <1>9

\* Removing the tombstones of a file that is gone.
LEMMA TombstoneKeepsValues ==
  ASSUME EngineInv, CompactRemovesTombstone, NEW k \in Keys
  PROVE  InFiles(DOMAIN tsm, k)' = InFiles(DOMAIN tsm, k)
<1>o. PICK o : o = Oldest(comp.group)
  OBVIOUS
<1>D. PICK D : D = DOMAIN tsm
  OBVIOUS
<1>1. tsm' = tsm /\ comp.stage = "tombstone" /\ tomb' = [m \in DOMAIN tomb \ {o} |-> tomb[m]]
  BY <1>o DEF CompactRemovesTombstone, Without
<1>2. D \subseteq Names /\ o \notin D
  BY <1>1, <1>o, <1>D DEF EngineInv, FilesOK, CompOK
<1>3. \A n \in D : InFile(n, k)' = InFile(n, k)
  BY <1>1, <1>2 DEF InFile, Hidden
<1>4. InFiles(D, k)' = InFiles(D, k)
  BY <1>2, <1>3, InFilesSame
<1> QED BY <1>1, <1>4, <1>D DEF InFiles

RestartsOK == restarts \in Nat

\* Only Restart counts.
LEMMA RestartsCount == Spec => []RestartsOK
<1>1. Init => RestartsOK
  BY DEF Init, RestartsOK
<1>2. ASSUME RestartsOK, [Next]_vars PROVE RestartsOK'
  <2>1. ASSUME NEW k \in Keys, Client(k) PROVE restarts' = restarts
    BY <2>1 DEF Client, WriteBegins, DeleteBegins, DeleteFromFile, DeleteScans, DeleteFromCache, Log,
                OpFails, ReadCache
  <2>2. ASSUME Sync \/ ReadFiles PROVE restarts' = restarts
    BY <2>2 DEF Sync, ReadFiles
  <2>3. ASSUME Snapshot PROVE restarts' = restarts
    BY <2>3 DEF Snapshot, SnapshotBegins, SnapshotWithoutEffect, SnapshotWritten, SnapshotFails,
                SnapshotReplaces, SnapshotClears, SnapshotRemovesSegment
  <2>4. ASSUME Compaction PROVE restarts' = restarts
    BY <2>4 DEF Compaction, CompactBegins, CompactAborts, CompactRenames, CompactRemovesFile,
                CompactRemovesTombstone
  <2>5. ASSUME UNCHANGED vars PROVE restarts' = restarts
    BY <2>5 DEF vars
  <2>6. ASSUME Restart PROVE restarts' \in Nat
    BY <1>2, <2>6 DEF Restart, RestartsOK
  <2> QED BY <1>2, <2>1, <2>2, <2>3, <2>4, <2>5, <2>6 DEF Next, RestartsOK
<1> QED BY <1>1, <1>2, PTL DEF Spec

\* Only the compaction's own steps change it, and a restart, which is excluded.
LEMMA StepKeepsValues ==
  ASSUME EngineInv, RestartsOK, [Next]_vars, comp' # comp, restarts' = restarts
  PROVE  \A k \in Keys : \/ Hidden(comp.new, k)
                         \/ InFiles(DOMAIN tsm, k)' = InFiles(DOMAIN tsm, k)
<1>1. CASE Compaction
  <2>1. CASE CompactBegins \/ CompactAborts
    <3>1. tsm' = tsm /\ tomb' = tomb
      BY <2>1 DEF CompactBegins, CompactAborts, files
    <3> QED BY <3>1 DEF InFiles, InFile, Hidden
  <2>2. CASE CompactRenames
    BY <2>2, RenameKeepsValues
  <2>3. CASE CompactRemovesFile
    BY <2>3, RemoveKeepsValues
  <2>4. CASE CompactRemovesTombstone
    BY <2>4, TombstoneKeepsValues
  <2> QED BY <1>1, <2>1, <2>2, <2>3, <2>4 DEF Compaction
<1>2. ASSUME NEW k \in Keys, Client(k) PROVE comp' = comp
  BY <1>2 DEF Client, WriteBegins, DeleteBegins, DeleteFromFile, DeleteScans, DeleteFromCache, Log,
              OpFails, ReadCache
<1>3. ASSUME Sync \/ ReadFiles PROVE comp' = comp
  BY <1>3 DEF Sync, ReadFiles
<1>4. ASSUME Snapshot PROVE comp' = comp
  BY <1>4 DEF Snapshot, SnapshotBegins, SnapshotWithoutEffect, SnapshotWritten, SnapshotFails,
              SnapshotReplaces, SnapshotClears, SnapshotRemovesSegment
<1>5. ASSUME UNCHANGED vars PROVE comp' = comp
  BY <1>5 DEF vars
<1>6. ASSUME Restart PROVE FALSE
  BY <1>6 DEF Restart, RestartsOK
<1> QED BY <1>1, <1>2, <1>3, <1>4, <1>5, <1>6 DEF Next

\* Every step of every compaction, of any number of files of any number of keys, leaves
\* what the TSM files say of a key as it was, so a restart that comes right after the
\* rename of the new file or the removal of some of the old ones finds the same points.
\* The exception is a key that a stale tombstone file hides in the new file.
THEOREM CompactionsKeepValues == Spec => CompactionKeepsValues
<1>1. ASSUME EngineInv, RestartsOK, [Next]_vars
      PROVE  [comp' # comp /\ restarts' = restarts =>
               \A k \in Keys : \/ Hidden(comp.new, k)
                               \/ InFiles(DOMAIN tsm, k)' = InFiles(DOMAIN tsm, k)]_vars
  BY <1>1, StepKeepsValues
<1> QED BY <1>1, EngineInvariant, RestartsCount, PTL DEF Spec, CompactionKeepsValues

-----------------------------------------------------------------------------
(* What a restart and a read find.  AnsweredIsRecovered speaks of one view of a key, what
   a restart would make of the log and the files now.  It is kept only together with
   the views that the steps to come will turn into that one: what the log says once the
   snapshot's segments are removed, what the cache says, and what it says once the
   snapshot is cleared.  These are the Views below.  They in turn need to know how far an
   operation has come (Progress) and that nothing is newer than the last write
   (VersionsOK). *)

\* v, or w in place of no value.
First(v, w) == IF v # 0 THEN v ELSE w

\* The log without its first m segments.
Drop(ss, m) == SubSeq(ss, m + 1, Len(ss))

\* The segments that the snapshot in progress does not stand for.
Kept == Drop(segs, sw.closed)

\* What the files may show of k.  While a compaction removes its old files, a stale
\* tombstone file may hide k in the new one, which uncovers anything.
FileValues(k) ==
  IF FilesLocked /\ Hidden(comp.new, k) THEN AnyVersion(k) ELSE {InFiles(DOMAIN tsm, k)}

\* What the files will show of k, for which they show f, once the snapshot in progress is
\* one of them.
NextFile(k, f) == IF sw.stage \in {"write", "replace"} THEN First(snap[k], f) ELSE f

\* A restart, with c entries in the last segment for any c of C, finds a value of A.
LogView(k, f, C, A) == \A c \in C : First(Loaded(segs, c, k), f) \in A

\* It finds one, too, after the snapshot has been written and its segments removed.
KeptView(k, f, C, A) ==
  sw.stage # "idle" => \A c \in C : First(Loaded(Kept, c, k), NextFile(k, f)) \in A

\* A read finds a value of A.
CacheView(k, f, A) == First(CacheValue(k), f) \in A

\* It finds one, too, after the snapshot that is now a file has left the cache.
ClearedView(k, f, A) == sw.stage = "clear" => First(live[k], f) \in A

\* The views of k.
Views(k, C, A) ==
  \A f \in FileValues(k) :
    LogView(k, f, C, A) /\ KeptView(k, f, C, A) /\ CacheView(k, f, A) /\ ClearedView(k, f, A)

ViewsOK == \A k \in Keys : Views(k, Cuts, Acceptable(k))

\* The entries of k in the log have values of V.
LogVersions(ss, k, V) ==
  \A i \in 1 .. Len(ss) : \A j \in 1 .. Len(ss[i]) : ss[i][j].key = k => ss[i][j].val \in V

\* Nothing that is held of a key is newer than its last write.
VersionsOK ==
  \A k \in Keys :
    /\ live[k] \in AnyVersion(k) /\ snap[k] \in AnyVersion(k)
    /\ LogVersions(segs, k, AnyVersion(k))
    /\ \A n \in DOMAIN tsm : tsm[n][k] \in AnyVersion(k)
    /\ comp.data[k] \in AnyVersion(k)

\* The value that the operation on k logs.
LoggedValue(k) == IF op[k].kind = "write" THEN writes[k] ELSE 0

\* The last entry of k in segment s has value v.
IsLogged(s, k, v) ==
  \E j \in 1 .. Len(s) : s[j].key = k /\ s[j].val = v /\ \A i \in 1 .. Len(s) : i > j => s[i].key # k

\* The delete of k has marked every file that shows k, but for those it has still to do.
Unmarked(k) ==
  \A n \in DOMAIN tsm : InFile(n, k) # 0 => op[k].stage = "files" /\ n \in op[k].todo

\* How far the operation on k has come: what it waits for is in the current segment, a
\* write is in the cache, and a delete has emptied it and, unless a snapshot holds k,
\* marked the files.
Progress(k) ==
  /\ op[k].kind = "none" => op[k].stage = "none"
  /\ op[k].found <=> op[k].stage = "sync"
  /\ op[k].stage = "sync" => open /\ written /\ IsLogged(Last(segs), k, LoggedValue(k))
  /\ op[k].kind = "write" => /\ live[k] = writes[k] /\ writes[k] # 0
                             /\ op[k].stage \in {"log", "sync"}
  /\ op[k].kind = "delete" => /\ op[k].stage \in {"log", "sync"} => live[k] = 0
                              /\ op[k].raced \/ (snap[k] = 0 /\ Unmarked(k))

ProgressOK == \A k \in Keys : Progress(k)

\* The read in progress has a value that its key could have since it began, or will find
\* only such values: those that are now in the cache, since a snapshot may become a file
\* before the read looks at the files, and those that the files may show.
ReaderOK ==
  rd.stage = "files" =>
    /\ rd.key \in Keys
    /\ Acceptable(rd.key) \subseteq acc
    /\ rd.val # 0 => rd.val \in acc
    /\ rd.val = 0 => {live[rd.key], snap[rd.key]} \ {0} \subseteq acc /\ FileValues(rd.key) \subseteq acc

RecoveryInv ==
  EngineInv /\ DOMAIN allowed = Keys /\ ProgressOK /\ VersionsOK /\ ViewsOK /\ ReaderOK

-----------------------------------------------------------------------------
(* What is loaded from a log *)

\* The number of entries of segment i that are loaded.
Reach(ss, c, i) == IF i = Len(ss) /\ c < Readable(ss[i]) THEN c ELSE Readable(ss[i])

\* Entry j of segment i is loaded and is one of k.
EntryAt(ss, c, k, i, j) == i \in 1 .. Len(ss) /\ j \in 1 .. Reach(ss, c, i) /\ ss[i][j].key = k

\* It is the last one.
IsLast(ss, c, k, i, j) ==
  /\ EntryAt(ss, c, k, i, j)
  /\ \A a, b : EntryAt(ss, c, k, a, b) => a < i \/ (a = i /\ b <= j)

\* The readable part of a segment is what comes before its first hole.
LEMMA ReadableIs ==
  ASSUME NEW s \in Seq(Entries)
  PROVE  /\ \A i \in 1 .. Readable(s) : s[i] # Hole
         /\ Readable(s) = Len(s) \/ s[Readable(s) + 1] = Hole
         /\ \A n \in 0 .. Len(s) :
              (\A i \in 1 .. n : s[i] # Hole) /\ (n = Len(s) \/ s[n + 1] = Hole) => Readable(s) = n
<1>0. Len(s) \in Nat /\ Readable(s) \in 0 .. Len(s)
  BY ReadableOK
<1>1. CASE \E j \in 1 .. Len(s) : s[j] = Hole
  <2>1. PICK r : r = Readable(s) + 1
    OBVIOUS
  <2>2. \E j \in 1 .. Len(s) : s[j] = Hole /\ \A i \in 1 .. j - 1 : s[i] # Hole
    <3>t. PICK T : T = {Len(s) - j : j \in {j \in 1 .. Len(s) : s[j] = Hole}}
      OBVIOUS
    <3>1. T \subseteq Nat /\ T # {} /\ \A x \in T : x <= Len(s)
      BY <1>0, <1>1, <3>t
    <3>2. PICK m \in T : \A x \in T : x <= m
      BY <1>0, <3>1, GreatestNumber
    <3>3. PICK j \in 1 .. Len(s) : m = Len(s) - j /\ s[j] = Hole
      BY <3>t, <3>2
    <3>4. ASSUME NEW i \in 1 .. j - 1 PROVE s[i] # Hole
      <4>1. i \in 1 .. Len(s) /\ ~(Len(s) - i <= Len(s) - j)
        BY <1>0
      <4> QED BY <3>t, <3>2, <3>3, <4>1
    <3> QED BY <3>3, <3>4
  <2>3. r \in 1 .. Len(s) /\ s[r] = Hole /\ \A i \in 1 .. r - 1 : s[i] # Hole
    <3>c. PICK c : c = CHOOSE j \in 1 .. Len(s) : s[j] = Hole /\ \A i \in 1 .. j - 1 : s[i] # Hole
      OBVIOUS
    <3>1. c \in 1 .. Len(s) /\ s[c] = Hole /\ \A i \in 1 .. c - 1 : s[i] # Hole
      BY <2>2, <3>c
    <3>2. Readable(s) = c - 1
      BY <1>1, <3>c DEF Readable
    <3>3. r = c
      BY <1>0, <2>1, <3>1, <3>2
    <3> QED BY <3>1, <3>3
  <2>4. Readable(s) = r - 1
    BY <1>0, <2>1
  <2>5. ASSUME NEW n \in 0 .. Len(s), \A i \in 1 .. n : s[i] # Hole, n = Len(s) \/ s[n + 1] = Hole
        PROVE  Readable(s) = n
    <3>1. ~(n >= r)
      BY <1>0, <2>3, <2>5
    <3>2. n # Len(s)
      BY <1>0, <2>3, <3>1
    <3>3. ~(n + 1 < r)
      BY <1>0, <2>3, <2>5, <3>2
    <3> QED BY <1>0, <2>3, <2>4, <3>1, <3>3
  <2> QED BY <1>0, <2>1, <2>3, <2>4, <2>5
<1>2. CASE ~ \E j \in 1 .. Len(s) : s[j] = Hole
  <2>1. Readable(s) = Len(s)
    BY <1>2 DEF Readable
  <2>2. ASSUME NEW n \in 0 .. Len(s), n # Len(s) PROVE s[n + 1] # Hole
    BY <1>0, <1>2, <2>2
  <2> QED BY <1>2, <2>1, <2>2
<1> QED BY <1>1, <1>2

\* Loaded is the value of the last entry that is loaded.
LEMMA LoadedIs ==
  ASSUME NEW ss \in Seq(Seq(Entries)), NEW c \in Nat, NEW k
  PROVE  /\ \A i, j : IsLast(ss, c, k, i, j) => Loaded(ss, c, k) = ss[i][j].val
         /\ (\A i, j : ~EntryAt(ss, c, k, i, j)) => Loaded(ss, c, k) = 0
         /\ (\E i, j : EntryAt(ss, c, k, i, j)) => \E i, j : IsLast(ss, c, k, i, j)
<1> DEFINE length(i) == IF i = Len(ss) /\ c < Readable(ss[i]) THEN c ELSE Readable(ss[i])
           at == {p \in UNION {{i} \X (1 .. length(i)) : i \in 1 .. Len(ss)} : ss[p[1]][p[2]].key = k}
           p == CHOOSE p \in at : \A q \in at \ {p} : After(p, q)
<1>0. Len(ss) \in Nat /\ \A i \in 1 .. Len(ss) : ss[i] \in Seq(Entries) /\ Len(ss[i]) \in Nat
  BY ElementOfSeq
<1>1. ASSUME NEW i \in 1 .. Len(ss) PROVE length(i) \in 0 .. Len(ss[i]) /\ length(i) = Reach(ss, c, i)
  <2>1. Readable(ss[i]) \in 0 .. Len(ss[i]) /\ Len(ss[i]) \in Nat
    BY <1>0, ReadableOK
  <2> QED BY <2>1 DEF Reach
<1>2. Loaded(ss, c, k) = IF at = {} THEN 0 ELSE ss[p[1]][p[2]].val
  BY DEF Loaded, length
<1>3. \A i, j : EntryAt(ss, c, k, i, j) <=> <<i, j>> \in at
  BY <1>1 DEF EntryAt
<1>4. ASSUME NEW q \in at
      PROVE  /\ q = <<q[1], q[2]>> /\ q \in Nat \X Nat /\ q[1] <= Len(ss) /\ q[1] \in 1 .. Len(ss)
             /\ q[2] <= Len(ss[q[1]])
  <2>1. PICK i \in 1 .. Len(ss) : q \in {i} \X (1 .. length(i))
    OBVIOUS
  <2>2. q = <<i, q[2]>> /\ q[1] = i /\ q[2] \in 1 .. length(i)
    BY <2>1
  <2>3. length(i) \in 0 .. Len(ss[i]) /\ Len(ss[i]) \in Nat /\ i \in Nat
    BY <1>0, <1>1
  <2> HIDE DEF length
  <2> QED BY <1>0, <2>2, <2>3
<1> HIDE DEF at
<1>5. ASSUME NEW i, NEW j, IsLast(ss, c, k, i, j) PROVE IsNewest(<<i, j>>, at)
  <2>1. <<i, j>> \in at /\ \A a, b : <<a, b>> \in at => a < i \/ (a = i /\ b <= j)
    BY <1>3, <1>5 DEF IsLast
  <2>2. ASSUME NEW q \in at, q # <<i, j>> PROVE After(<<i, j>>, q)
    <3>1. q = <<q[1], q[2]>> /\ q[1] \in Nat /\ q[2] \in Nat
      BY <1>4
    <3>2. <<i, j>> \in Nat \X Nat
      BY <1>4, <2>1
    <3>3. i \in Nat /\ j \in Nat
      BY <3>2
    <3>4. q[1] < i \/ (q[1] = i /\ q[2] <= j)
      BY <2>1, <3>1, Zenon
    <3>5. q[1] # i \/ q[2] # j
      BY <2>2, <3>1, Zenon
    <3> QED BY <3>1, <3>3, <3>4, <3>5 DEF After
  <2> QED BY <2>1, <2>2 DEF IsNewest
<1>6. ASSUME NEW i, NEW j, IsNewest(<<i, j>>, at) PROVE IsLast(ss, c, k, i, j)
  <2>1. <<i, j>> \in at /\ <<i, j>> \in Nat \X Nat
    BY <1>4, <1>6 DEF IsNewest
  <2>2. ASSUME NEW a, NEW b, EntryAt(ss, c, k, a, b) PROVE a < i \/ (a = i /\ b <= j)
    <3>1. <<a, b>> \in at /\ <<a, b>> \in Nat \X Nat
      BY <1>3, <1>4, <2>2
    <3>2. CASE <<a, b>> = <<i, j>>
      BY <2>1, <3>2
    <3>3. CASE <<a, b>> # <<i, j>>
      <4>1. After(<<i, j>>, <<a, b>>)
        BY <1>6, <3>1, <3>3 DEF IsNewest
      <4> QED BY <2>1, <3>1, <4>1 DEF After
    <3> QED BY <3>2, <3>3
  <2> QED BY <1>3, <2>1, <2>2 DEF IsLast
<1>7. ASSUME NEW i, NEW j, IsLast(ss, c, k, i, j) PROVE Loaded(ss, c, k) = ss[i][j].val
  <2>1. IsNewest(<<i, j>>, at) /\ at \subseteq Nat \X Nat
    BY <1>4, <1>5, <1>7
  <2>2. Newest(at) = <<i, j>>
    BY <2>1, NewestIs
  <2>3. p = Newest(at)
    BY DEF Newest
  <2>4. at # {} /\ p = <<i, j>>
    BY <2>1, <2>2, <2>3 DEF IsNewest
  <2> HIDE DEF p
  <2> QED BY <1>2, <2>4
<1>8. ASSUME \A i, j : ~EntryAt(ss, c, k, i, j) PROVE Loaded(ss, c, k) = 0
  <2>1. at = {}
    BY <1>3, <1>4, <1>8
  <2> QED BY <1>2, <2>1
<1>9. ASSUME NEW a, NEW b, EntryAt(ss, c, k, a, b) PROVE \E i, j : IsLast(ss, c, k, i, j)
  <2>1. at # {} /\ at \subseteq Nat \X Nat /\ \A q \in at : q[1] <= Len(ss)
    BY <1>3, <1>4, <1>9
  <2>2. ASSUME NEW i \in Nat PROVE \E b1 \in Nat : \A q \in at : q[1] = i => q[2] <= b1
    <3>1. CASE i \in 1 .. Len(ss)
      <4>1. \A q \in at : q[1] = i => q[2] <= Len(ss[i])
        BY <1>4
      <4> QED BY <1>0, <3>1, <4>1
    <3>2. CASE i \notin 1 .. Len(ss)
      BY <1>4, <3>2
    <3> QED BY <3>1, <3>2
  <2>3. PICK n \in at : IsNewest(n, at)
    BY <1>0, <2>1, <2>2, NewestExists
  <2>4. n = <<n[1], n[2]>>
    BY <1>4
  <2>5. IsLast(ss, c, k, n[1], n[2])
    BY <1>6, <2>3, <2>4
  <2> QED BY <2>5
<1> QED BY <1>7, <1>8, <1>9

\* The value of the last entry is what is loaded.
LEMMA LoadedLast ==
  ASSUME NEW ss \in Seq(Seq(Entries)), NEW c \in Nat, NEW k, NEW i, NEW j, IsLast(ss, c, k, i, j)
  PROVE  Loaded(ss, c, k) = ss[i][j].val
  BY LoadedIs

-----------------------------------------------------------------------------
(* A log that grows *)

\* The log tt loads the entries of k that ss loads, and of others only those of E.
Gains(ss, d, tt, c, k, E) ==
  /\ \A i, j : EntryAt(ss, d, k, i, j) => EntryAt(tt, c, k, i, j) /\ tt[i][j] = ss[i][j]
  /\ \A i, j : EntryAt(tt, c, k, i, j) => EntryAt(ss, d, k, i, j) \/ tt[i][j] \in E

\* Such a log has the value it had, or that of an entry of E.
LEMMA LoadedGrows ==
  ASSUME NEW ss \in Seq(Seq(Entries)), NEW tt \in Seq(Seq(Entries)), NEW c \in Nat, NEW d \in Nat,
         NEW k, NEW E, Gains(ss, d, tt, c, k, E)
  PROVE  \/ Loaded(tt, c, k) = Loaded(ss, d, k)
         \/ \E e \in E : e.key = k /\ Loaded(tt, c, k) = e.val
<1>1. CASE \A i, j : ~EntryAt(tt, c, k, i, j)
  <2>1. \A i, j : ~EntryAt(ss, d, k, i, j)
    BY <1>1 DEF Gains
  <2> QED BY <1>1, <2>1, LoadedIs
<1>2. CASE \E i, j : EntryAt(tt, c, k, i, j)
  <2>1. PICK i, j : IsLast(tt, c, k, i, j)
    BY <1>2, LoadedIs
  <2>2. EntryAt(tt, c, k, i, j) /\ Loaded(tt, c, k) = tt[i][j].val /\ tt[i][j].key = k
    <3>1. EntryAt(tt, c, k, i, j)
      BY <2>1 DEF IsLast
    <3>2. Loaded(tt, c, k) = tt[i][j].val
      BY <2>1, LoadedLast
    <3> QED BY <3>1, <3>2 DEF EntryAt
  <2>3. CASE EntryAt(ss, d, k, i, j)
    <3>1. IsLast(ss, d, k, i, j)
      BY <2>1, <2>3 DEF IsLast, Gains
    <3>2. Loaded(ss, d, k) = ss[i][j].val
      BY <3>1, LoadedLast
    <3> QED BY <2>2, <2>3, <3>2 DEF Gains
  <2>4. CASE tt[i][j] \in E
    BY <2>2, <2>4
  <2> QED BY <2>2, <2>3, <2>4 DEF Gains
<1> QED BY <1>1, <1>2

\* The last segment gets the entries x.
Extends(ss, tt, x) ==
  /\ Len(ss) > 0 /\ Len(tt) = Len(ss) /\ \A i \in 1 .. Len(ss) - 1 : tt[i] = ss[i]
  /\ tt[Len(ss)] = ss[Len(ss)] \o x

\* A new segment has the entries x.
Appends(ss, tt, x) ==
  Len(tt) = Len(ss) + 1 /\ (\A i \in 1 .. Len(ss) : tt[i] = ss[i]) /\ tt[Len(ss) + 1] = x

\* Segments and what can be read of them.
LEMMA SegmentsOK ==
  ASSUME NEW ss \in Seq(Seq(Entries))
  PROVE  /\ Len(ss) \in Nat
         /\ \A i \in 1 .. Len(ss) : /\ ss[i] \in Seq(Entries) /\ Len(ss[i]) \in Nat
                                    /\ Readable(ss[i]) \in 0 .. Len(ss[i])
  BY ElementOfSeq, ReadableOK

\* The readable part of a segment that gets the entry e, perhaps after a hole.
LEMMA ReadableExtended ==
  ASSUME NEW s \in Seq(Entries), NEW e \in Entries, NEW x, x \in {<<e>>, <<Hole, e>>}
  PROVE  /\ s \o x \in Seq(Entries) /\ Len(s \o x) \in {Len(s) + 1, Len(s) + 2}
         /\ \A i \in 1 .. Len(s) : (s \o x)[i] = s[i]
         /\ \/ Readable(s \o x) = Readable(s)
            \/ /\ Readable(s \o x) = Len(s) + 1 /\ Readable(s) = Len(s)
               /\ Len(s \o x) = Len(s) + 1 /\ (s \o x)[Len(s) + 1] = e
<1>0. Len(s) \in Nat /\ Readable(s) \in 0 .. Len(s) /\ Hole \in Entries
  BY ReadableOK DEF Entries
<1>1. /\ x \in Seq(Entries) /\ Len(x) \in 1 .. 2 /\ x[1] \in {e, Hole}
      /\ (Len(x) = 1 => x[1] = e) /\ (Len(x) = 2 => x[1] = Hole)
  <2>1. CASE x = <<e>>
    BY <1>0, <2>1
  <2>2. CASE x = <<Hole, e>>
    BY <1>0, <2>2
  <2> QED BY <2>1, <2>2
<1>t. PICK t : t = s \o x
  OBVIOUS
<1>2. /\ t \in Seq(Entries) /\ Len(t) = Len(s) + Len(x) /\ t[Len(s) + 1] = x[1]
      /\ \A i \in 1 .. Len(s) : t[i] = s[i]
  BY <1>0, <1>1, <1>t
<1>3. CASE Readable(s) # Len(s)
  <2>1. s[Readable(s) + 1] = Hole /\ Readable(s) + 1 \in 1 .. Len(s)
    BY <1>0, <1>3, ReadableIs
  <2>2. \A i \in 1 .. Readable(s) : t[i] # Hole
    <3>1. \A i \in 1 .. Readable(s) : s[i] # Hole
      BY ReadableIs
    <3>2. \A i \in 1 .. Readable(s) : i \in 1 .. Len(s)
      BY <1>0
    <3> QED BY <1>2, <3>1, <3>2
  <2>3. Readable(s) \in 0 .. Len(t) /\ t[Readable(s) + 1] = Hole
    BY <1>0, <1>1, <1>2, <2>1
  <2>4. Readable(t) = Readable(s)
    BY <1>2, <2>2, <2>3, ReadableIs
  <2> QED BY <1>0, <1>1, <1>2, <1>t, <2>4
<1>4. CASE Readable(s) = Len(s)
  <2>1. \A i \in 1 .. Len(s) : t[i] # Hole
    BY <1>2, <1>4, ReadableIs
  <2>2. CASE x[1] = Hole
    <3>1. Len(s) \in 0 .. Len(t) /\ t[Len(s) + 1] = Hole
      BY <1>0, <1>1, <1>2, <2>2
    <3>2. Readable(t) = Len(s)
      BY <1>2, <2>1, <3>1, ReadableIs
    <3> QED BY <1>0, <1>1, <1>2, <1>4, <1>t, <3>2
  <2>3. CASE x[1] # Hole
    <3>1. Len(x) = 1 /\ x[1] = e
      BY <1>1, <2>3
    <3>2. Len(t) = Len(s) + 1 /\ Len(t) \in 0 .. Len(t) /\ \A i \in 1 .. Len(t) : t[i] # Hole
      BY <1>0, <1>2, <2>1, <2>3, <3>1
    <3>3. Readable(t) = Len(t)
      BY <1>2, <3>2, ReadableIs
    <3> QED BY <1>0, <1>1, <1>2, <1>4, <1>t, <3>1, <3>2, <3>3
  <2> QED BY <2>2, <2>3
<1> QED BY <1>3, <1>4

\* Writing to the current segment: a restart finds what it found before or the entry.
LEMMA ExtendedLog ==
  ASSUME NEW ss \in Seq(Seq(Entries)), NEW tt \in Seq(Seq(Entries)), NEW e \in Entries,
         NEW x, x \in {<<e>>, <<Hole, e>>}, Extends(ss, tt, x),
         NEW c \in Nat, NEW d \in Nat, NEW k,
         d = IF c <= Len(Last(ss)) THEN c ELSE Len(Last(ss))
  PROVE  Loaded(tt, c, k) = Loaded(ss, d, k) \/ (e.key = k /\ Loaded(tt, c, k) = e.val)
<1>n. PICK n, s, t : n = Len(ss) /\ s = ss[n] /\ t = tt[n]
  OBVIOUS
<1>1. /\ n \in Nat \ {0} /\ Len(tt) = n /\ Last(ss) = s
      /\ s \in Seq(Entries) /\ Len(s) \in Nat /\ Readable(s) \in 0 .. Len(s)
      /\ \A i \in 1 .. n : i # n => tt[i] = ss[i]
      /\ t = s \o x
  BY <1>n, SegmentsOK DEF Extends, Last
<1>2. /\ \A i \in 1 .. Len(s) : t[i] = s[i]
      /\ \/ Readable(t) = Readable(s)
         \/ Readable(t) = Len(s) + 1 /\ Readable(s) = Len(s) /\ t[Len(s) + 1] = e
  BY <1>1, ReadableExtended
<1>3. \A i \in 1 .. n : i # n => Reach(tt, c, i) = Reach(ss, d, i)
  BY <1>n, <1>1 DEF Reach
<1>4. /\ Reach(tt, c, n) = IF c < Readable(t) THEN c ELSE Readable(t)
      /\ Reach(ss, d, n) = IF d < Readable(s) THEN d ELSE Readable(s)
  BY <1>n, <1>1 DEF Reach
<1>5. \/ Reach(tt, c, n) = Reach(ss, d, n) /\ Reach(ss, d, n) \in 0 .. Len(s)
      \/ Reach(tt, c, n) = Len(s) + 1 /\ Reach(ss, d, n) = Len(s) /\ t[Len(s) + 1] = e
  <2>1. d = IF c <= Len(s) THEN c ELSE Len(s)
    BY <1>1
  <2>2. CASE Readable(t) = Readable(s)
    BY <1>1, <1>4, <2>1, <2>2
  <2>3. CASE Readable(t) = Len(s) + 1 /\ Readable(s) = Len(s) /\ t[Len(s) + 1] = e
    <3>1. CASE c <= Len(s)
      BY <1>1, <1>4, <2>1, <2>3, <3>1
    <3>2. CASE ~(c <= Len(s))
      BY <1>1, <1>4, <2>1, <2>3, <3>2
    <3> QED BY <3>1, <3>2
  <2> QED BY <1>2, <2>2, <2>3
<1>6. ASSUME NEW i, NEW j, EntryAt(ss, d, k, i, j)
      PROVE  EntryAt(tt, c, k, i, j) /\ tt[i][j] = ss[i][j]
  <2>1. i \in 1 .. n /\ j \in 1 .. Reach(ss, d, i) /\ ss[i][j].key = k
    BY <1>n, <1>6 DEF EntryAt
  <2>2. CASE i # n
    BY <1>1, <1>3, <2>1, <2>2 DEF EntryAt
  <2>3. CASE i = n
    <3>1. j \in 1 .. Reach(tt, c, n) /\ j \in 1 .. Len(s)
      BY <1>1, <1>5, <2>1, <2>3
    <3> QED BY <1>n, <1>1, <1>2, <2>1, <2>3, <3>1 DEF EntryAt
  <2> QED BY <2>2, <2>3
<1>7. ASSUME NEW i, NEW j, EntryAt(tt, c, k, i, j)
      PROVE  EntryAt(ss, d, k, i, j) \/ tt[i][j] \in {e}
  <2>1. i \in 1 .. n /\ j \in 1 .. Reach(tt, c, i) /\ tt[i][j].key = k
    BY <1>1, <1>7 DEF EntryAt
  <2>2. CASE i # n
    BY <1>n, <1>1, <1>3, <2>1, <2>2 DEF EntryAt
  <2>3. CASE i = n
    <3>1. CASE j \in 1 .. Reach(ss, d, n)
      <4>1. j \in 1 .. Len(s)
        BY <1>1, <1>5, <3>1
      <4> QED BY <1>n, <1>2, <2>1, <2>3, <3>1, <4>1 DEF EntryAt
    <3>2. CASE j \notin 1 .. Reach(ss, d, n)
      <4>1. j = Len(s) + 1 /\ t[Len(s) + 1] = e
        <5>1. j \in 1 .. Reach(tt, c, n) /\ Reach(tt, c, n) # Reach(ss, d, n)
          BY <2>1, <2>3, <3>2
        <5>2. Reach(tt, c, n) = Len(s) + 1 /\ Reach(ss, d, n) = Len(s) /\ t[Len(s) + 1] = e
          BY <1>5, <5>1
        <5> QED BY <1>1, <3>2, <5>1, <5>2
      <4> QED BY <1>n, <2>3, <4>1
    <3> QED BY <3>1, <3>2
  <2> QED BY <2>2, <2>3
<1>8. \/ Loaded(tt, c, k) = Loaded(ss, d, k)
      \/ \E y \in {e} : y.key = k /\ Loaded(tt, c, k) = y.val
  <2>1. PICK E : E = {e}
    OBVIOUS
  <2>2. Gains(ss, d, tt, c, k, E)
    BY <1>6, <1>7, <2>1 DEF Gains
  <2>4. \/ Loaded(tt, c, k) = Loaded(ss, d, k)
        \/ \E y \in E : y.key = k /\ Loaded(tt, c, k) = y.val
    BY <2>2, LoadedGrows
  <2> QED BY <2>1, <2>4
<1> QED BY <1>8

\* A new segment: the one before it is closed and loaded as far as it can be read.
LEMMA AppendedLog ==
  ASSUME NEW ss \in Seq(Seq(Entries)), NEW tt \in Seq(Seq(Entries)), NEW x \in Seq(Entries),
         Appends(ss, tt, x), NEW c \in Nat, NEW d \in Nat, NEW k,
         ss # << >> => d = Len(Last(ss))
  PROVE  \/ Loaded(tt, c, k) = Loaded(ss, d, k)
         \/ \E j \in 1 .. Len(x) : x[j].key = k /\ Loaded(tt, c, k) = x[j].val
<1>n. PICK n : n = Len(ss)
  OBVIOUS
<1>1. /\ n \in Nat /\ Len(tt) = n + 1 /\ tt[n + 1] = x /\ (\A i \in 1 .. n : tt[i] = ss[i])
      /\ Len(x) \in Nat /\ Readable(x) \in 0 .. Len(x)
  BY <1>n, SegmentsOK, ReadableOK DEF Appends
<1>2. \A i \in 1 .. n : Reach(tt, c, i) = Reach(ss, d, i)
  <2>1. ASSUME NEW i \in 1 .. n PROVE Reach(tt, c, i) = Reach(ss, d, i)
    <3>1. Reach(tt, c, i) = Readable(ss[i])
      BY <1>1 DEF Reach
    <3>2. CASE i # n
      BY <1>n, <3>1, <3>2 DEF Reach
    <3>3. CASE i = n
      <4>1. ss # << >> /\ d = Len(ss[n]) /\ Readable(ss[n]) \in 0 .. Len(ss[n]) /\ Len(ss[n]) \in Nat
        <5>1. ss # << >> /\ n \in 1 .. Len(ss)
          BY <1>n, <1>1, <3>3
        <5>2. d = Len(ss[n])
          BY <1>n, <5>1 DEF Last
        <5> QED BY <5>1, <5>2, SegmentsOK
      <4> QED BY <1>n, <3>1, <3>3, <4>1 DEF Reach
    <3> QED BY <3>2, <3>3
  <2> QED BY <2>1
<1>3. Reach(tt, c, n + 1) \in 0 .. Len(x)
  BY <1>1 DEF Reach
<1>4. ASSUME NEW i, NEW j, EntryAt(ss, d, k, i, j)
      PROVE  EntryAt(tt, c, k, i, j) /\ tt[i][j] = ss[i][j]
  BY <1>n, <1>1, <1>2, <1>4 DEF EntryAt
<1>5. ASSUME NEW i, NEW j, EntryAt(tt, c, k, i, j)
      PROVE  EntryAt(ss, d, k, i, j) \/ tt[i][j] \in {x[l] : l \in 1 .. Len(x)}
  <2>1. i \in 1 .. n + 1 /\ j \in 1 .. Reach(tt, c, i) /\ tt[i][j].key = k
    BY <1>1, <1>5 DEF EntryAt
  <2>2. CASE i \in 1 .. n
    BY <1>n, <1>1, <1>2, <2>1, <2>2 DEF EntryAt
  <2>3. CASE i = n + 1
    <3>1. j \in 1 .. Len(x)
      BY <1>1, <1>3, <2>1, <2>3
    <3> QED BY <1>1, <2>3, <3>1
  <2> QED BY <1>1, <2>1, <2>2, <2>3
<1>6. \/ Loaded(tt, c, k) = Loaded(ss, d, k)
      \/ \E e \in {x[l] : l \in 1 .. Len(x)} : e.key = k /\ Loaded(tt, c, k) = e.val
  <2>1. PICK E : E = {x[l] : l \in 1 .. Len(x)}
    OBVIOUS
  <2>2. Gains(ss, d, tt, c, k, E)
    BY <1>4, <1>5, <2>1 DEF Gains
  <2>4. \/ Loaded(tt, c, k) = Loaded(ss, d, k)
        \/ \E y \in E : y.key = k /\ Loaded(tt, c, k) = y.val
    BY <2>2, LoadedGrows
  <2> QED BY <2>1, <2>4
<1> QED BY <1>6

-----------------------------------------------------------------------------
(* A log that loses its first segments *)

\* It has the segments after them.
LEMMA DropOK ==
  ASSUME NEW ss \in Seq(Seq(Entries)), NEW m \in Nat, m < Len(ss)
  PROVE  /\ Drop(ss, m) \in Seq(Seq(Entries)) /\ Len(Drop(ss, m)) = Len(ss) - m
         /\ \A i \in 1 .. Len(ss) - m : Drop(ss, m)[i] = ss[i + m]
         /\ Last(Drop(ss, m)) = Last(ss)
<1>0. Len(ss) \in Nat /\ \A i \in 1 .. Len(ss) : ss[i] \in Seq(Entries)
  BY ElementOfSeq
<1>1. \A i \in (m + 1) .. Len(ss) : ss[i] \in Seq(Entries)
  BY <1>0
<1>2. /\ Drop(ss, m) \in Seq(Seq(Entries))
      /\ Len(Drop(ss, m)) = (IF m + 1 <= Len(ss) THEN Len(ss) - (m + 1) + 1 ELSE 0)
      /\ \A i \in 1 .. Len(ss) - (m + 1) + 1 : Drop(ss, m)[i] = ss[m + 1 + i - 1]
  BY <1>0, <1>1, SubSeqProperties DEF Drop
<1>3. Len(Drop(ss, m)) = Len(ss) - m
  BY <1>0, <1>2
<1>4. ASSUME NEW i \in 1 .. Len(ss) - m PROVE Drop(ss, m)[i] = ss[i + m]
  <2>1. i \in 1 .. Len(ss) - (m + 1) + 1 /\ m + 1 + i - 1 = i + m
    BY <1>0
  <2> QED BY <1>2, <2>1
<1>5. Last(Drop(ss, m)) = Last(ss)
  <2>1. Len(ss) - m \in 1 .. Len(ss) - m /\ Len(ss) - m + m = Len(ss)
    BY <1>0
  <2>2. Drop(ss, m)[Len(ss) - m] = ss[Len(ss)]
    BY <1>4, <2>1
  <2> QED BY <1>3, <2>2 DEF Last
<1> QED BY <1>2, <1>3, <1>4, <1>5

\* The entries that are loaded without the first m segments.
LEMMA DropEntries ==
  ASSUME NEW ss \in Seq(Seq(Entries)), NEW m \in Nat, m < Len(ss), NEW c \in Nat, NEW k, NEW i, NEW j
  PROVE  /\ EntryAt(Drop(ss, m), c, k, i, j) => EntryAt(ss, c, k, i + m, j) /\ i \in 1 .. Len(ss) - m
         /\ i \in Nat /\ i > m /\ EntryAt(ss, c, k, i, j) => EntryAt(Drop(ss, m), c, k, i - m, j)
<1>d. PICK dd : dd = Drop(ss, m)
  OBVIOUS
<1>0. /\ Len(ss) \in Nat /\ Len(dd) = Len(ss) - m
      /\ \A a \in 1 .. Len(ss) - m : dd[a] = ss[a + m]
  <2>1. Len(ss) \in Nat
    OBVIOUS
  <2>2. /\ Len(Drop(ss, m)) = Len(ss) - m
        /\ \A a \in 1 .. Len(ss) - m : Drop(ss, m)[a] = ss[a + m]
    BY DropOK
  <2> QED BY <1>d, <2>1, <2>2
<1>1. ASSUME NEW a \in 1 .. Len(ss) - m PROVE Reach(dd, c, a) = Reach(ss, c, a + m)
  <2>1. dd[a] = ss[a + m] /\ (a = Len(dd) <=> a + m = Len(ss))
    BY <1>0
  <2> QED BY <2>1 DEF Reach
<1>2. ASSUME EntryAt(dd, c, k, i, j) PROVE EntryAt(ss, c, k, i + m, j) /\ i \in 1 .. Len(ss) - m
  <2>1. i \in 1 .. Len(ss) - m /\ j \in 1 .. Reach(dd, c, i) /\ dd[i][j].key = k
    BY <1>0, <1>2 DEF EntryAt
  <2>2. i + m \in 1 .. Len(ss)
    BY <1>0, <2>1
  <2> QED BY <1>0, <1>1, <2>1, <2>2 DEF EntryAt
<1>3. ASSUME i \in Nat, i > m, EntryAt(ss, c, k, i, j) PROVE EntryAt(dd, c, k, i - m, j)
  <2>1. i \in 1 .. Len(ss) /\ j \in 1 .. Reach(ss, c, i) /\ ss[i][j].key = k
    BY <1>3 DEF EntryAt
  <2>2. i - m \in 1 .. Len(ss) - m /\ i - m + m = i
    BY <1>0, <1>3, <2>1
  <2>3. Reach(dd, c, i - m) = Reach(ss, c, i) /\ dd[i - m] = ss[i]
    BY <1>0, <1>1, <2>2
  <2> QED BY <1>0, <2>1, <2>2, <2>3 DEF EntryAt
<1> QED BY <1>d, <1>2, <1>3

\* Of a key, a log without its first m segments has what it had or no entry, and then
\* it has none without its first l segments either.
LEMMA DroppedLog ==
  ASSUME NEW ss \in Seq(Seq(Entries)), NEW m \in Nat, NEW l \in Nat, m <= l, l < Len(ss),
         NEW c \in Nat, NEW k
  PROVE  \/ Loaded(Drop(ss, m), c, k) = Loaded(ss, c, k)
         \/ Loaded(Drop(ss, m), c, k) = 0 /\ Loaded(Drop(ss, l), c, k) = 0
<1>0. /\ Len(ss) \in Nat /\ m < Len(ss)
      /\ Drop(ss, m) \in Seq(Seq(Entries)) /\ Drop(ss, l) \in Seq(Seq(Entries))
  BY DropOK
<1>1. CASE \A i, j : ~EntryAt(Drop(ss, m), c, k, i, j)
  <2>1. ASSUME NEW i, NEW j PROVE ~EntryAt(Drop(ss, l), c, k, i, j)
    <3> SUFFICES ASSUME EntryAt(Drop(ss, l), c, k, i, j) PROVE FALSE
      OBVIOUS
    <3>1. EntryAt(ss, c, k, i + l, j) /\ i \in 1 .. Len(ss) - l
      BY DropEntries
    <3>2. i + l \in Nat /\ i + l > m
      BY <1>0, <3>1
    <3> QED BY <1>0, <1>1, <3>1, <3>2, DropEntries
  <2> QED BY <1>0, <1>1, <2>1, LoadedIs
<1>2. CASE \E i, j : EntryAt(Drop(ss, m), c, k, i, j)
  <2>1. PICK i, j : IsLast(Drop(ss, m), c, k, i, j)
    BY <1>0, <1>2, LoadedIs
  <2>2. EntryAt(ss, c, k, i + m, j) /\ i \in 1 .. Len(ss) - m
    BY <1>0, <2>1, DropEntries DEF IsLast
  <2>3. ASSUME NEW a, NEW b, EntryAt(ss, c, k, a, b) PROVE a < i + m \/ (a = i + m /\ b <= j)
    <3>1. a \in 1 .. Len(ss)
      BY <2>3 DEF EntryAt
    <3>2. CASE a <= m
      BY <1>0, <2>2, <3>1, <3>2
    <3>3. CASE a > m
      <4>1. EntryAt(Drop(ss, m), c, k, a - m, b)
        <5>1. a \in Nat
          BY <1>0, <3>1
        <5> QED BY <1>0, <2>3, <3>3, <5>1, DropEntries, Zenon
      <4>2. a - m < i \/ (a - m = i /\ b <= j)
        BY <2>1, <4>1 DEF IsLast
      <4> QED BY <1>0, <2>2, <3>1, <4>2
    <3> QED BY <1>0, <3>1, <3>2, <3>3
  <2>4. IsLast(ss, c, k, i + m, j)
    BY <2>2, <2>3 DEF IsLast
  <2>5. Loaded(ss, c, k) = ss[i + m][j].val /\ Loaded(Drop(ss, m), c, k) = Drop(ss, m)[i][j].val
    BY <1>0, <2>1, <2>4, LoadedLast
  <2>6. Drop(ss, m)[i] = ss[i + m]
    BY <1>0, <2>2, DropOK
  <2> QED BY <2>5, <2>6
<1> QED BY <1>1, <1>2

\* The last entry of a segment without a hole, which is the last one of the log.
LEMMA LastEntryLoaded ==
  ASSUME NEW ss \in Seq(Seq(Entries)), ss # << >>, NEW j \in 1 .. Len(Last(ss)), NEW k,
         \A i \in 1 .. Len(Last(ss)) : Last(ss)[i] # Hole,
         Last(ss)[j].key = k, \A i \in 1 .. Len(Last(ss)) : i > j => Last(ss)[i].key # k
  PROVE  Loaded(ss, Len(Last(ss)), k) = Last(ss)[j].val
<1>n. PICK n, s : n = Len(ss) /\ s = ss[n]
  OBVIOUS
<1>1. n \in Nat \ {0} /\ n \in 1 .. Len(ss) /\ s = Last(ss) /\ s \in Seq(Entries) /\ Len(s) \in Nat
  BY <1>n, SegmentsOK DEF Last
<1>2. Readable(s) = Len(s)
  BY <1>1 DEF Readable
<1>3. Reach(ss, Len(s), n) = Len(s)
  BY <1>n, <1>1, <1>2 DEF Reach
<1>4. EntryAt(ss, Len(s), k, n, j)
  BY <1>n, <1>1, <1>3 DEF EntryAt
<1>5. ASSUME NEW a, NEW b, EntryAt(ss, Len(s), k, a, b) PROVE a < n \/ (a = n /\ b <= j)
  <2>1. a \in 1 .. n /\ b \in 1 .. Reach(ss, Len(s), a) /\ ss[a][b].key = k
    BY <1>n, <1>5 DEF EntryAt
  <2>2. CASE a = n
    <3>1. b \in 1 .. Len(s) /\ s[b].key = k
      BY <1>n, <1>3, <2>1, <2>2
    <3>2. ~(b > j)
      BY <1>1, <3>1
    <3> QED BY <1>1, <2>2, <3>1, <3>2
  <2> QED BY <1>1, <2>1, <2>2
<1>6. IsLast(ss, Len(s), k, n, j)
  BY <1>4, <1>5 DEF IsLast
<1>7. Loaded(ss, Len(s), k) = ss[n][j].val
  BY <1>1, <1>6, LoadedLast
<1> QED BY <1>n, <1>1, <1>7

\* Open leaves in the log what it loads.
LEMMA ReloadedLog ==
  ASSUME NEW ss \in Seq(Seq(Entries)), NEW tt \in Seq(Seq(Entries)), NEW c \in Nat, NEW d \in Nat, NEW k,
         Len(tt) <= Len(ss), tt # << >> => d = Len(Last(tt)),
         \A i \in 1 .. Len(tt) : Len(tt[i]) = Reach(ss, c, i),
         \A i \in 1 .. Len(tt) : \A j \in 1 .. Reach(ss, c, i) : tt[i][j] = ss[i][j],
         \A i \in 1 .. Len(ss) : i > Len(tt) => Reach(ss, c, i) = 0
  PROVE  Loaded(tt, d, k) = Loaded(ss, c, k)
<1>0. Len(ss) \in Nat /\ Len(tt) \in Nat
  OBVIOUS
<1>1. ASSUME NEW i \in 1 .. Len(tt) PROVE Reach(tt, d, i) = Reach(ss, c, i)
  <2>1. i \in 1 .. Len(ss)
    BY <1>0
  <2>2. /\ Len(tt[i]) \in Nat /\ tt[i] \in Seq(Entries) /\ ss[i] \in Seq(Entries)
        /\ Readable(ss[i]) \in Nat
    BY <2>1, SegmentsOK
  <2>3. Reach(ss, c, i) <= Readable(ss[i]) /\ Reach(ss, c, i) \in Nat
    BY <2>2 DEF Reach
  <2>4. ASSUME NEW j \in 1 .. Len(tt[i]) PROVE tt[i][j] # Hole
    <3>1. j \in 1 .. Reach(ss, c, i) /\ j \in 1 .. Readable(ss[i])
      BY <2>2, <2>3
    <3>2. ss[i][j] # Hole
      BY <2>2, <3>1, ReadableIs
    <3> QED BY <3>1, <3>2
  <2>5. Readable(tt[i]) = Len(tt[i])
    BY <2>4 DEF Readable
  <2>6. i = Len(tt) => tt # << >> /\ d = Len(tt[i])
    BY <1>0 DEF Last
  <2>7. ~(i = Len(tt) /\ d < Readable(tt[i]))
    BY <2>2, <2>5, <2>6
  <2> QED BY <2>5, <2>7 DEF Reach
<1>2. Gains(ss, c, tt, d, k, {})
  <2>1. ASSUME NEW i, NEW j, EntryAt(ss, c, k, i, j) PROVE EntryAt(tt, d, k, i, j) /\ tt[i][j] = ss[i][j]
    <3>1. i \in 1 .. Len(ss) /\ j \in 1 .. Reach(ss, c, i) /\ ss[i][j].key = k
      BY <2>1 DEF EntryAt
    <3>2. Reach(ss, c, i) # 0
      BY <3>1
    <3>3. i \in 1 .. Len(tt)
      BY <1>0, <3>1, <3>2
    <3> QED BY <1>1, <3>1, <3>3 DEF EntryAt
  <2>2. ASSUME NEW i, NEW j, EntryAt(tt, d, k, i, j) PROVE EntryAt(ss, c, k, i, j)
    <3>1. i \in 1 .. Len(tt) /\ j \in 1 .. Reach(tt, d, i) /\ tt[i][j].key = k
      BY <2>2 DEF EntryAt
    <3>2. i \in 1 .. Len(ss)
      BY <1>0, <3>1
    <3> QED BY <1>1, <3>1, <3>2 DEF EntryAt
  <2> QED BY <2>1, <2>2 DEF Gains
<1> QED BY <1>2, LoadedGrows

\* What grows at its end grows so without its first segments.
LEMMA DropGrows ==
  ASSUME NEW ss \in Seq(Seq(Entries)), NEW tt \in Seq(Seq(Entries)), NEW m \in Nat, m < Len(ss), NEW x
  PROVE  /\ Extends(ss, tt, x) => Extends(Drop(ss, m), Drop(tt, m), x)
         /\ Appends(ss, tt, x) => Appends(Drop(ss, m), Drop(tt, m), x)
<1>1. /\ Len(ss) \in Nat /\ Len(tt) \in Nat /\ Len(Drop(ss, m)) = Len(ss) - m
      /\ \A i \in 1 .. Len(ss) - m : Drop(ss, m)[i] = ss[i + m]
  BY DropOK
<1>2. ASSUME Extends(ss, tt, x) PROVE Extends(Drop(ss, m), Drop(tt, m), x)
  <2>1. /\ Len(tt) = Len(ss) /\ Len(Drop(tt, m)) = Len(ss) - m
        /\ \A i \in 1 .. Len(ss) - m : Drop(tt, m)[i] = tt[i + m]
    <3>1. Len(tt) = Len(ss) /\ m < Len(tt)
      BY <1>2 DEF Extends
    <3> QED BY <3>1, DropOK
  <2>2. /\ Len(ss) - m > 0 /\ Len(ss) - m \in 1 .. Len(ss) - m /\ Len(ss) - m + m = Len(ss)
        /\ \A i \in 1 .. Len(ss) - m - 1 : i \in 1 .. Len(ss) - m /\ i + m \in 1 .. Len(ss) - 1
    BY <1>1
  <2>3. \A i \in 1 .. Len(ss) - m - 1 : Drop(tt, m)[i] = Drop(ss, m)[i]
    BY <1>1, <1>2, <2>1, <2>2 DEF Extends
  <2>4. Drop(tt, m)[Len(ss) - m] = Drop(ss, m)[Len(ss) - m] \o x
    BY <1>1, <1>2, <2>1, <2>2 DEF Extends
  <2> QED BY <1>1, <2>1, <2>2, <2>3, <2>4 DEF Extends
<1>3. ASSUME Appends(ss, tt, x) PROVE Appends(Drop(ss, m), Drop(tt, m), x)
  <2>1. /\ Len(tt) = Len(ss) + 1 /\ Len(Drop(tt, m)) = Len(ss) + 1 - m
        /\ \A i \in 1 .. Len(ss) + 1 - m : Drop(tt, m)[i] = tt[i + m]
    <3>1. Len(tt) = Len(ss) + 1 /\ m < Len(tt)
      BY <1>1, <1>3 DEF Appends
    <3> QED BY <3>1, DropOK
  <2>2. /\ Len(ss) + 1 - m = Len(ss) - m + 1 /\ Len(ss) - m + 1 \in 1 .. Len(ss) + 1 - m
        /\ Len(ss) - m + 1 + m = Len(ss) + 1
        /\ \A i \in 1 .. Len(ss) - m : i \in 1 .. Len(ss) + 1 - m /\ i + m \in 1 .. Len(ss)
    BY <1>1
  <2>3. \A i \in 1 .. Len(ss) - m : Drop(tt, m)[i] = Drop(ss, m)[i]
    BY <1>1, <1>3, <2>1, <2>2 DEF Appends
  <2>4. Drop(tt, m)[Len(ss) - m + 1] = x
    <3>1. tt[Len(ss) + 1] = x
      BY <1>3 DEF Appends
    <3>2. PICK a : a = Len(ss) - m + 1
      OBVIOUS
    <3>3. a \in 1 .. Len(ss) + 1 - m /\ a + m = Len(ss) + 1
      BY <2>2, <3>2
    <3>4. Drop(tt, m)[a] = tt[a + m]
      BY <2>1, <3>3
    <3> QED BY <3>1, <3>2, <3>3, <3>4
  <2> QED BY <1>1, <2>1, <2>2, <2>3, <2>4 DEF Appends
<1> QED BY <1>2, <1>3

-----------------------------------------------------------------------------
(* Cuts, versions and views *)

\* The cuts are lengths of the last segment, its whole length among them.
LEMMA CutsOK ==
  LogOK => /\ Cuts \subseteq Nat
           /\ segs = << >> => Cuts = {0}
           /\ segs # << >> => Len(Last(segs)) \in Cuts /\ \A c \in Cuts : c <= Len(Last(segs))
<1> SUFFICES ASSUME LogOK
    PROVE  /\ Cuts \subseteq Nat
           /\ segs = << >> => Cuts = {0}
           /\ segs # << >> => Len(Last(segs)) \in Cuts /\ \A c \in Cuts : c <= Len(Last(segs))
  OBVIOUS
<1>1. CASE segs = << >>
  BY <1>1 DEF Cuts
<1>2. CASE segs # << >>
  <2>1. segs \in Seq(Seq(Entries)) /\ Len(segs) \in 1 .. Len(segs)
    BY <1>2 DEF LogOK
  <2>2. Len(Last(segs)) \in Nat
    BY <2>1, SegmentsOK DEF Last
  <2>3. Cuts = (IF open THEN synced ELSE Len(Last(segs))) .. Len(Last(segs))
    BY <1>2 DEF Cuts
  <2>4. open => synced \in 0 .. Len(Last(segs))
    BY DEF LogOK
  <2> QED BY <1>2, <2>2, <2>3, <2>4
<1> QED BY <1>1, <1>2

\* The same after a step.
LEMMA CutsOKNext ==
  LogOK' => (/\ Cuts \subseteq Nat
             /\ segs = << >> => Cuts = {0}
             /\ segs # << >> => Len(Last(segs)) \in Cuts /\ \A c \in Cuts : c <= Len(Last(segs)))'
  BY CutsOK, PTL

\* What all the files say, say some: a value of one of them, or none.
LEMMA InFilesWithin ==
  ASSUME NEW S, S \subseteq Names, NEW k, NEW V, 0 \in V, \A n \in S : InFile(n, k) \in V
  PROVE  InFiles(S, k) \in V
<1>f. PICK f : f = [n \in S |-> InFile(n, k)]
  OBVIOUS
<1>1. InFiles(S, k) = Best(S, f) /\ \A n \in S : f[n] \in V
  BY <1>f, InFilesBest
<1>2. CASE \A m \in S : f[m] = 0
  BY <1>1, <1>2, BestIs
<1>3. CASE \E m \in S : f[m] # 0
  <2>1. PICK n : Wins(n, S, f)
    BY <1>3, BestIs
  <2> QED BY <1>1, <2>1, BestIs DEF Wins
<1> QED BY <1>2, <1>3

\* Versions are numbers, and no version is one of them.
LEMMA VersionZero ==
  EngineInv => \A k \in Keys : 0 \in AnyVersion(k) /\ writes[k] \in AnyVersion(k) /\ writes[k] \in Nat
  BY ZeroIsValue DEF EngineInv, CacheOK, AnyVersion

\* The files say a version.
LEMMA FilesVersion ==
  EngineInv /\ VersionsOK => \A k \in Keys : InFiles(DOMAIN tsm, k) \in AnyVersion(k)
<1> SUFFICES ASSUME EngineInv, VersionsOK, NEW k \in Keys PROVE InFiles(DOMAIN tsm, k) \in AnyVersion(k)
  OBVIOUS
<1>1. \A n \in DOMAIN tsm : InFile(n, k) \in AnyVersion(k)
  BY VersionZero DEF VersionsOK, InFile
<1> QED BY <1>1, VersionZero, InFilesWithin DEF EngineInv, FilesOK

\* So do the values that they may show.
LEMMA FileValuesOK ==
  EngineInv /\ VersionsOK =>
    \A k \in Keys : FileValues(k) \subseteq AnyVersion(k) /\ InFiles(DOMAIN tsm, k) \in FileValues(k)
  BY FilesVersion DEF FileValues

\* What is loaded is a version.
LEMMA LoadedWithin ==
  ASSUME NEW ss \in Seq(Seq(Entries)), NEW c \in Nat, NEW k, NEW V, 0 \in V,
         LogVersions(ss, k, V)
  PROVE  Loaded(ss, c, k) \in V
<1>1. CASE \A i, j : ~EntryAt(ss, c, k, i, j)
  BY <1>1, LoadedIs
<1>2. CASE \E i, j : EntryAt(ss, c, k, i, j)
  <2>1. PICK i, j : IsLast(ss, c, k, i, j)
    BY <1>2, LoadedIs
  <2>2. i \in 1 .. Len(ss) /\ j \in 1 .. Reach(ss, c, i) /\ ss[i][j].key = k
    BY <2>1 DEF IsLast, EntryAt
  <2>3. Len(ss[i]) \in Nat /\ Readable(ss[i]) \in 0 .. Len(ss[i])
    BY <2>2, SegmentsOK
  <2>4. j \in 1 .. Len(ss[i])
    BY <2>2, <2>3 DEF Reach
  <2>5. Loaded(ss, c, k) = ss[i][j].val
    BY <2>1, LoadedLast
  <2> QED BY <2>2, <2>4, <2>5 DEF LogVersions
<1> QED BY <1>1, <1>2

\* The segments that stay.
LEMMA KeptOK ==
  EngineInv => /\ segs \in Seq(Seq(Entries)) /\ sw.closed \in Nat
               /\ sw.stage # "idle" => /\ sw.closed < Len(segs) /\ segs # << >>
                                       /\ Kept \in Seq(Seq(Entries)) /\ Last(Kept) = Last(segs)
                                       /\ Len(Kept) = Len(segs) - sw.closed /\ Kept # << >>
<1> SUFFICES ASSUME EngineInv
    PROVE  /\ segs \in Seq(Seq(Entries)) /\ sw.closed \in Nat
           /\ sw.stage # "idle" => /\ sw.closed < Len(segs) /\ segs # << >>
                                   /\ Kept \in Seq(Seq(Entries)) /\ Last(Kept) = Last(segs)
                                   /\ Len(Kept) = Len(segs) - sw.closed /\ Kept # << >>
  OBVIOUS
<1>1. segs \in Seq(Seq(Entries)) /\ sw.closed \in Nat
  BY DEF EngineInv, LogOK, SnapshotOK
<1>2. ASSUME sw.stage # "idle"
      PROVE  /\ sw.closed < Len(segs) /\ segs # << >>
             /\ Kept \in Seq(Seq(Entries)) /\ Last(Kept) = Last(segs)
             /\ Len(Kept) = Len(segs) - sw.closed /\ Kept # << >>
  <2>1. sw.closed < Len(segs)
    BY <1>2 DEF EngineInv, SnapshotOK
  <2>2. Kept \in Seq(Seq(Entries)) /\ Last(Kept) = Last(segs) /\ Len(Kept) = Len(segs) - sw.closed
    BY <1>1, <2>1, DropOK DEF Kept
  <2>3. Len(segs) # 0 /\ Len(Kept) # 0
    BY <1>1, <2>1, <2>2
  <2> QED BY <2>1, <2>2, <2>3
<1> QED BY <1>1, <1>2

\* What a restart loads is a version, with the segments of the snapshot and without.
LEMMA LoadedVersion ==
  EngineInv /\ VersionsOK =>
    \A k \in Keys : \A c \in Cuts :
      /\ Loaded(segs, c, k) \in AnyVersion(k)
      /\ sw.stage # "idle" => Loaded(Kept, c, k) \in AnyVersion(k)
<1> SUFFICES ASSUME EngineInv, VersionsOK, NEW k \in Keys, NEW c \in Cuts
    PROVE  /\ Loaded(segs, c, k) \in AnyVersion(k)
           /\ sw.stage # "idle" => Loaded(Kept, c, k) \in AnyVersion(k)
  OBVIOUS
<1>1. segs \in Seq(Seq(Entries)) /\ c \in Nat /\ 0 \in AnyVersion(k)
  BY CutsOK, VersionZero DEF EngineInv, LogOK
<1>2. Loaded(segs, c, k) \in AnyVersion(k)
  BY <1>1, LoadedWithin DEF VersionsOK
<1>3. ASSUME sw.stage # "idle" PROVE Loaded(Kept, c, k) \in AnyVersion(k)
  <2>1. sw.closed \in Nat /\ sw.closed < Len(segs)
    BY <1>3, KeptOK
  <2>2. Loaded(Kept, c, k) = Loaded(segs, c, k) \/ Loaded(Kept, c, k) = 0
    BY <1>1, <2>1, DroppedLog DEF Kept
  <2> QED BY <1>1, <1>2, <2>2
<1> QED BY <1>2, <1>3

\* A key that may have any version is seen right.
LEMMA VersionViews ==
  ASSUME EngineInv, VersionsOK, NEW k \in Keys, NEW A, AnyVersion(k) \subseteq A
  PROVE  Views(k, Cuts, A)
<1> SUFFICES ASSUME NEW f \in FileValues(k)
    PROVE  LogView(k, f, Cuts, A) /\ KeptView(k, f, Cuts, A) /\ CacheView(k, f, A) /\ ClearedView(k, f, A)
  BY DEF Views
<1>1. f \in AnyVersion(k) /\ live[k] \in AnyVersion(k) /\ snap[k] \in AnyVersion(k)
  BY FileValuesOK DEF VersionsOK
<1>2. CacheView(k, f, A) /\ ClearedView(k, f, A)
  BY <1>1 DEF CacheView, ClearedView, CacheValue, First
<1>3. LogView(k, f, Cuts, A) /\ KeptView(k, f, Cuts, A)
  BY <1>1, LoadedVersion DEF LogView, KeptView, NextFile, First
<1> QED BY <1>2, <1>3

\* In particular for what is acceptable.
LEMMA FreeViews ==
  EngineInv /\ VersionsOK =>
    \A k \in Keys : AnyVersion(k) \subseteq Acceptable(k) => Views(k, Cuts, Acceptable(k))
  BY VersionViews

\* The same after a step.
LEMMA FreeViewsNext ==
  EngineInv' /\ VersionsOK' =>
    (\A k \in Keys : AnyVersion(k) \subseteq Acceptable(k) => Views(k, Cuts, Acceptable(k)))'
  BY FreeViews, PTL

\* Steps that leave of a key what they found, or add what is acceptable.
LEMMA FrameViews ==
  ASSUME NEW k \in Keys, NEW C, NEW A, Views(k, C, A), FileValues(k) # {},
         A \subseteq Acceptable(k)',
         FileValues(k)' \subseteq FileValues(k) \cup Acceptable(k)',
         live'[k] = live[k] \/ (live'[k] # 0 /\ live'[k] \in Acceptable(k)'),
         snap'[k] = snap[k], sw'.stage = sw.stage,
         \A c \in Cuts' : \E d \in C :
           /\ \/ Loaded(segs', c, k) = Loaded(segs, d, k)
              \/ Loaded(segs', c, k) # 0 /\ Loaded(segs', c, k) \in Acceptable(k)'
           /\ sw.stage # "idle" =>
                \/ Loaded(Kept', c, k) = Loaded(Kept, d, k)
                \/ Loaded(Kept', c, k) # 0 /\ Loaded(Kept', c, k) \in Acceptable(k)'
  PROVE  Views(k, Cuts, Acceptable(k))'
<1>b. PICK B : B = Acceptable(k)'
  OBVIOUS
<1>g. PICK g \in FileValues(k) : TRUE
  OBVIOUS
<1> SUFFICES ASSUME NEW f \in FileValues(k)'
    PROVE  /\ \A c \in Cuts' : First(Loaded(segs', c, k), f) \in B
           /\ sw.stage # "idle" => \A c \in Cuts' : First(Loaded(Kept', c, k), NextFile(k, f)') \in B
           /\ First(CacheValue(k)', f) \in B
           /\ sw.stage = "clear" => First(live'[k], f) \in B
  BY <1>b DEF Views, LogView, KeptView, CacheView, ClearedView, First
<1>1. f \in FileValues(k) \/ f \in B
  BY <1>b
<1>2. ASSUME NEW h \in FileValues(k)
      PROVE  /\ \A d \in C : First(Loaded(segs, d, k), h) \in A
             /\ sw.stage # "idle" => \A d \in C : First(Loaded(Kept, d, k), NextFile(k, h)) \in A
             /\ First(CacheValue(k), h) \in A
             /\ sw.stage = "clear" => First(live[k], h) \in A
  BY DEF Views, LogView, KeptView, CacheView, ClearedView
<1>3. ASSUME NEW c \in Cuts' PROVE First(Loaded(segs', c, k), f) \in B
  <2>1. PICK d \in C : \/ Loaded(segs', c, k) = Loaded(segs, d, k)
                       \/ Loaded(segs', c, k) # 0 /\ Loaded(segs', c, k) \in B
    BY <1>b
  <2> QED BY <1>b, <1>g, <1>1, <1>2, <2>1 DEF First
<1>4. ASSUME sw.stage # "idle", NEW c \in Cuts' PROVE First(Loaded(Kept', c, k), NextFile(k, f)') \in B
  <2>1. PICK d \in C : \/ Loaded(Kept', c, k) = Loaded(Kept, d, k)
                       \/ Loaded(Kept', c, k) # 0 /\ Loaded(Kept', c, k) \in B
    BY <1>b, <1>4
  <2>2. NextFile(k, f)' = IF sw.stage \in {"write", "replace"} THEN First(snap[k], f) ELSE f
    BY DEF NextFile, First
  <2> QED BY <1>b, <1>g, <1>1, <1>2, <1>4, <2>1, <2>2 DEF First, NextFile
<1>5. First(CacheValue(k)', f) \in B
  <2>1. CacheValue(k)' = IF live'[k] # 0 THEN live'[k] ELSE snap[k]
    BY DEF CacheValue
  <2> QED BY <1>b, <1>g, <1>1, <1>2, <2>1 DEF First, CacheValue
<1>6. ASSUME sw.stage = "clear" PROVE First(live'[k], f) \in B
  BY <1>b, <1>g, <1>1, <1>2, <1>6 DEF First
<1> QED BY <1>3, <1>4, <1>5, <1>6

-----------------------------------------------------------------------------
(* Operations in progress *)

\* An operation that no step touches.
LEMMA ProgressFrame ==
  ASSUME NEW k \in Keys, Progress(k), op'[k] = op[k], live'[k] = live[k], snap'[k] = snap[k],
         writes'[k] = writes[k],
         op[k].kind = "delete" /\ ~op[k].raced =>
           \A n \in DOMAIN tsm' : InFile(n, k)' # 0 => n \in DOMAIN tsm /\ InFile(n, k) # 0,
         op[k].stage = "sync" => open' /\ written' /\ IsLogged(Last(segs'), k, LoggedValue(k))
  PROVE  Progress(k)'
<1>1. LoggedValue(k)' = LoggedValue(k)
  BY DEF LoggedValue
<1>2. op[k].kind = "delete" /\ ~op[k].raced => snap[k] = 0 /\ Unmarked(k)'
  BY DEF Progress, Unmarked
<1>3. op'[k].stage = "sync" => open' /\ written' /\ IsLogged(Last(segs)', k, LoggedValue(k)')
  BY <1>1 DEF Last
<1> QED BY <1>2, <1>3 DEF Progress

\* No operation.
LEMMA NoProgress == ASSUME NEW k \in Keys, op'[k] = NoOp PROVE Progress(k)'
  BY DEF NoOp, Progress

\* Steps that change neither the log nor the cache nor the files.
LEMMA ProgressSame ==
  ASSUME NEW k \in Keys, Progress(k), op'[k] = op[k] \/ op'[k] = NoOp, UNCHANGED <<cache, tsm, tomb, writes>>,
         op[k].stage = "sync" => open' /\ written' /\ Last(segs') = Last(segs)
  PROVE  Progress(k)'
<1>1. CASE op'[k] = NoOp
  BY <1>1, NoProgress
<1>2. CASE op'[k] = op[k]
  <2>1. \A n : InFile(n, k)' = InFile(n, k)
    BY DEF InFile, Hidden
  <2>2. op[k].stage = "sync" => open' /\ written' /\ IsLogged(Last(segs'), k, LoggedValue(k))
    BY DEF Progress
  <2> QED BY <1>2, <2>1, <2>2, ProgressFrame DEF cache
<1> QED BY <1>1, <1>2

\* The last segment after an entry of k.
LEMMA LoggedNext ==
  ASSUME NEW s \in Seq(Entries), NEW e \in Entries, NEW x \in Seq(Entries), Len(x) \in Nat \ {0},
         \A i \in 1 .. Len(x) : x[i] = e \/ x[i] = Hole, x[Len(x)] = e, NEW k, NEW v
  PROVE  /\ e.key = k /\ e.val = v => IsLogged(s \o x, k, v)
         /\ IsLogged(s, k, v) /\ e.key # k /\ (\A i \in 1 .. Len(x) : x[i].key # k) => IsLogged(s \o x, k, v)
<1>t. PICK t : t = s \o x
  OBVIOUS
<1>1. /\ Len(s) \in Nat /\ Len(t) = Len(s) + Len(x)
      /\ \A i \in 1 .. Len(s) : t[i] = s[i]
      /\ \A i \in 1 .. Len(t) : i > Len(s) => t[i] = x[i - Len(s)]
  BY <1>t
<1>2. ASSUME e.key = k, e.val = v PROVE IsLogged(t, k, v)
  <2>1. Len(t) \in 1 .. Len(t) /\ t[Len(t)] = e
    BY <1>1
  <2> QED BY <1>1, <1>2, <2>1 DEF IsLogged
<1>3. ASSUME IsLogged(s, k, v), \A i \in 1 .. Len(x) : x[i].key # k PROVE IsLogged(t, k, v)
  <2>1. PICK j \in 1 .. Len(s) : s[j].key = k /\ s[j].val = v /\ \A i \in 1 .. Len(s) : i > j => s[i].key # k
    BY <1>3 DEF IsLogged
  <2>2. ASSUME NEW i \in 1 .. Len(t), i > j PROVE t[i].key # k
    <3>1. CASE i <= Len(s)
      BY <1>1, <2>1, <2>2, <3>1
    <3>2. CASE i > Len(s)
      <4>1. i - Len(s) \in 1 .. Len(x)
        BY <1>1, <3>2
      <4> QED BY <1>1, <1>3, <3>2, <4>1
    <3> QED BY <1>1, <3>1, <3>2
  <2>3. j \in 1 .. Len(t) /\ t[j] = s[j]
    BY <1>1, <2>1
  <2> QED BY <2>1, <2>2, <2>3 DEF IsLogged
<1> QED BY <1>t, <1>2, <1>3

-----------------------------------------------------------------------------
(* What an entry or a new segment adds to what is loaded *)

\* What the segments load after a step in which sw does not change: at some earlier cut
\* they had it, or it is the value v of key k.
LoadsFrom(j, C, k, v) ==
  \A c \in Cuts' : \E d \in C :
    /\ Loaded(segs', c, j) = Loaded(segs, d, j) \/ (j = k /\ Loaded(segs', c, j) = v)
    /\ sw.stage # "idle" =>
         Loaded(Kept', c, j) = Loaded(Kept, d, j) \/ (j = k /\ Loaded(Kept', c, j) = v)

\* The number of entries of the last segment.
Whole == IF segs = << >> THEN 0 ELSE Len(Last(segs))

\* A restart may find the whole of it.
LEMMA WholeOK == ASSUME EngineInv PROVE Whole \in Cuts /\ Whole \in Nat
  BY CutsOK DEF EngineInv, Whole

\* A new segment.
LEMMA AppendLoads ==
  ASSUME EngineInv, sw' = sw, LogOK', NEW x \in Seq(Entries), Appends(segs, segs', x), NEW k, NEW v,
         \A i \in 1 .. Len(x) : x[i].key = k /\ x[i].val = v, NEW j
  PROVE  LoadsFrom(j, {Whole}, k, v)
<1> SUFFICES ASSUME NEW c \in Cuts'
    PROVE  /\ Loaded(segs', c, j) = Loaded(segs, Whole, j) \/ (j = k /\ Loaded(segs', c, j) = v)
           /\ sw.stage # "idle" =>
                Loaded(Kept', c, j) = Loaded(Kept, Whole, j) \/ (j = k /\ Loaded(Kept', c, j) = v)
  BY DEF LoadsFrom
<1>1. segs \in Seq(Seq(Entries)) /\ segs' \in Seq(Seq(Entries)) /\ c \in Nat /\ Whole \in Nat
  BY CutsOKNext, WholeOK DEF EngineInv, LogOK
<1>2. segs # << >> => Whole = Len(Last(segs))
  BY DEF Whole
<1>3. Loaded(segs', c, j) = Loaded(segs, Whole, j) \/ (j = k /\ Loaded(segs', c, j) = v)
  <2>1. \/ Loaded(segs', c, j) = Loaded(segs, Whole, j)
        \/ \E i \in 1 .. Len(x) : x[i].key = j /\ Loaded(segs', c, j) = x[i].val
    BY <1>1, <1>2, AppendedLog
  <2> QED BY <2>1
<1>4. ASSUME sw.stage # "idle"
      PROVE  Loaded(Kept', c, j) = Loaded(Kept, Whole, j) \/ (j = k /\ Loaded(Kept', c, j) = v)
  <2>1. /\ sw.closed \in Nat /\ sw.closed < Len(segs) /\ Kept \in Seq(Seq(Entries)) /\ Kept # << >>
        /\ Last(Kept) = Last(segs) /\ segs # << >>
    BY <1>4, KeptOK
  <2>2. Kept' = Drop(segs', sw.closed) /\ Kept = Drop(segs, sw.closed)
    BY DEF Kept, Drop
  <2>3. Appends(Kept, Kept', x)
    BY <1>1, <2>1, <2>2, DropGrows
  <2>4. Kept' \in Seq(Seq(Entries))
    <3>1. sw.closed < Len(segs')
      BY <1>1, <2>1 DEF Appends
    <3> QED BY <1>1, <2>1, <2>2, <3>1, DropOK
  <2>5. \/ Loaded(Kept', c, j) = Loaded(Kept, Whole, j)
        \/ \E i \in 1 .. Len(x) : x[i].key = j /\ Loaded(Kept', c, j) = x[i].val
    BY <1>1, <1>2, <2>1, <2>3, <2>4, AppendedLog
  <2> QED BY <2>5
<1> QED BY <1>3, <1>4

\* An entry in the current segment.
LEMMA ExtendLoads ==
  ASSUME EngineInv, sw' = sw, LogOK', open, open', synced' = synced, NEW e \in Entries,
         NEW x, x \in {<<e>>, <<Hole, e>>}, Extends(segs, segs', x), NEW j
  PROVE  LoadsFrom(j, Cuts, e.key, e.val)
<1>0. segs # << >>
  BY DEF EngineInv, LogOK
<1>1. /\ segs \in Seq(Seq(Entries)) /\ segs' \in Seq(Seq(Entries))
      /\ Len(Last(segs)) \in Cuts /\ Cuts \subseteq Nat /\ Len(Last(segs)) \in Nat
  BY <1>0, CutsOK DEF EngineInv, LogOK
<1> SUFFICES ASSUME NEW c \in Cuts'
    PROVE  \E d \in Cuts :
             /\ Loaded(segs', c, j) = Loaded(segs, d, j) \/ (j = e.key /\ Loaded(segs', c, j) = e.val)
             /\ sw.stage # "idle" =>
                  Loaded(Kept', c, j) = Loaded(Kept, d, j) \/ (j = e.key /\ Loaded(Kept', c, j) = e.val)
  BY DEF LoadsFrom
<1>d. PICK d : d = IF c <= Len(Last(segs)) THEN c ELSE Len(Last(segs))
  OBVIOUS
<1>2. c \in Nat /\ c >= synced /\ synced \in Nat
  <2>1. segs' # << >>
    BY DEF LogOK
  <2>2. c \in synced .. Len(Last(segs'))
    BY <2>1 DEF Cuts, Last
  <2>3. synced \in 0 .. Len(Last(segs)) /\ c \in Nat
    BY CutsOKNext DEF EngineInv, LogOK
  <2> QED BY <2>2, <2>3
<1>3. d \in Cuts /\ d \in Nat
  <2>1. Cuts = synced .. Len(Last(segs))
    BY <1>0 DEF Cuts
  <2>2. synced \in 0 .. Len(Last(segs))
    BY DEF EngineInv, LogOK
  <2> QED BY <1>1, <1>2, <1>d, <2>1, <2>2
<1>4. Loaded(segs', c, j) = Loaded(segs, d, j) \/ (j = e.key /\ Loaded(segs', c, j) = e.val)
  BY <1>1, <1>2, <1>3, <1>d, ExtendedLog
<1>5. ASSUME sw.stage # "idle"
      PROVE  Loaded(Kept', c, j) = Loaded(Kept, d, j) \/ (j = e.key /\ Loaded(Kept', c, j) = e.val)
  <2>1. /\ sw.closed \in Nat /\ sw.closed < Len(segs) /\ Kept \in Seq(Seq(Entries))
        /\ Last(Kept) = Last(segs)
    BY <1>5, KeptOK
  <2>2. Kept' = Drop(segs', sw.closed) /\ Kept = Drop(segs, sw.closed)
    BY DEF Kept, Drop
  <2>3. Extends(Kept, Kept', x)
    BY <1>1, <2>1, <2>2, DropGrows
  <2>4. Kept' \in Seq(Seq(Entries))
    <3>1. sw.closed < Len(segs')
      BY <1>1, <2>1 DEF Extends
    <3> QED BY <1>1, <2>1, <2>2, <3>1, DropOK
  <2> QED BY <1>1, <1>2, <1>3, <1>d, <2>1, <2>3, <2>4, ExtendedLog
<1> QED BY <1>3, <1>4, <1>5

\* The entry that an operation logs.
Entry(k) == [key |-> k, val |-> LoggedValue(k)]

\* It is an entry of the key.
LEMMA EntryIs ==
  ASSUME EngineInv, NEW k \in Keys
  PROVE  Entry(k) \in Entries /\ Entry(k).key = k /\ Entry(k).val = LoggedValue(k)
  BY ZeroIsValue DEF EngineInv, CacheOK, Entry, LoggedValue, Entries

\* An entry is logged in the current segment, or in a new one.
LEMMA LogShape ==
  ASSUME EngineInv, NEW k \in Keys, Log(k)
  PROVE  /\ open' /\ written' /\ sw' = sw
         /\ \/ /\ open /\ LogEntry(k, Entry(k)) /\ synced' = synced
               /\ \E x \in {<<Entry(k)>>, <<Hole, Entry(k)>>} :
                    Extends(segs, segs', x) /\ Last(segs') = Last(segs) \o x
            \/ /\ LogEntry(k, Entry(k)) \/ (open /\ LogEntryInNewSegment(k, Entry(k)))
               /\ open => LogEntryInNewSegment(k, Entry(k))
               /\ Appends(segs, segs', <<Entry(k)>>) /\ Last(segs') = <<Entry(k)>>
<1>e. PICK e : e = Entry(k)
  OBVIOUS
<1>1. LogEntry(k, e) \/ LogEntryInNewSegment(k, e)
  BY <1>e DEF Log, Entry, LoggedValue
<1>2. segs \in Seq(Seq(Entries)) /\ Len(segs) \in Nat /\ e \in Entries /\ (open => segs # << >>)
  BY <1>e, EntryIs DEF EngineInv, LogOK
<1>3. sw' = sw
  BY DEF Log
<1>4. ASSUME segs' = Append(segs, <<e>>)
      PROVE  Appends(segs, segs', <<e>>) /\ Last(segs') = <<e>>
  <2>1. <<e>> \in Seq(Entries)
    BY <1>2
  <2>2. /\ Len(segs') = Len(segs) + 1 /\ segs'[Len(segs) + 1] = <<e>>
        /\ \A i \in 1 .. Len(segs) : segs'[i] = segs[i]
    BY <1>2, <1>4, <2>1
  <2> QED BY <2>2 DEF Appends, Last
<1>5. CASE LogEntry(k, e) /\ open
  <2>1. PICK x : x = Written(e)
    OBVIOUS
  <2>2. x \in {<<e>>, <<Hole, e>>}
    BY <2>1 DEF Written
  <2>3. segs' = [segs EXCEPT ![Len(segs)] = @ \o x] /\ synced' = synced /\ open' /\ written'
    BY <1>5, <2>1 DEF LogEntry
  <2>4. Len(segs) \in 1 .. Len(segs)
    BY <1>2, <1>5
  <2>5. Len(segs') = Len(segs)
    BY <1>2, <2>3
  <2>6. Extends(segs, segs', x)
    <3>1. DOMAIN segs = 1 .. Len(segs)
      BY <1>2
    <3>2. \A i \in 1 .. Len(segs) - 1 : i \in 1 .. Len(segs) /\ i # Len(segs)
      BY <1>2
    <3>3. \A i \in 1 .. Len(segs) - 1 : segs'[i] = segs[i]
      BY <2>3, <3>1, <3>2
    <3>4. segs'[Len(segs)] = segs[Len(segs)] \o x
      BY <2>3, <2>4, <3>1
    <3>5. Len(segs) > 0
      BY <2>4
    <3> QED BY <2>5, <3>3, <3>4, <3>5 DEF Extends
  <2>7. Last(segs') = Last(segs) \o x
    BY <1>2, <2>3, <2>4, <2>5 DEF Last
  <2> QED BY <1>e, <1>3, <1>5, <2>2, <2>3, <2>6, <2>7
<1>6. CASE LogEntry(k, e) /\ ~open
  <2>1. segs' = Append(segs, <<e>>) /\ open' /\ written'
    BY <1>6 DEF LogEntry
  <2> QED BY <1>e, <1>3, <1>4, <1>6, <2>1
<1>7. CASE LogEntryInNewSegment(k, e)
  <2>1. segs' = Append(segs, <<e>>) /\ open /\ open' /\ written'
    BY <1>7 DEF LogEntryInNewSegment
  <2> QED BY <1>e, <1>3, <1>4, <1>7, <2>1
<1> QED BY <1>1, <1>5, <1>6, <1>7

-----------------------------------------------------------------------------
(* Nothing is newer than the last write *)

\* Closing the current segment: a new, empty one.
LEMMA CloseShape ==
  ASSUME EngineInv, CloseSegment
  PROVE  /\ open'
         /\ SegmentCloses => Appends(segs, segs', << >>) /\ Last(segs') = << >>
         /\ ~SegmentCloses => segs' = segs /\ open /\ ~written /\ Cuts' = Cuts
<1>1. segs \in Seq(Seq(Entries)) /\ Len(segs) \in Nat /\ << >> \in Seq(Entries)
  BY DEF EngineInv, LogOK
<1>2. ASSUME SegmentCloses PROVE Appends(segs, segs', << >>) /\ Last(segs') = << >>
  <2>1. segs' = Append(segs, << >>)
    BY <1>2 DEF CloseSegment
  <2>2. /\ Len(segs') = Len(segs) + 1 /\ segs'[Len(segs) + 1] = << >>
        /\ \A i \in 1 .. Len(segs) : segs'[i] = segs[i]
    BY <1>1, <2>1
  <2> QED BY <2>2 DEF Appends, Last
<1>3. ASSUME ~SegmentCloses PROVE segs' = segs /\ open /\ ~written /\ Cuts' = Cuts
  BY <1>3 DEF CloseSegment, SegmentCloses, Cuts, Last
<1> QED BY <1>2, <1>3 DEF CloseSegment

\* The versions of a log that has grown.
LEMMA LogVersionsGrow ==
  ASSUME NEW ss \in Seq(Seq(Entries)), NEW tt \in Seq(Seq(Entries)), NEW k, NEW V, NEW x \in Seq(Entries),
         LogVersions(ss, k, V), \A i \in 1 .. Len(x) : x[i].key = k => x[i].val \in V,
         Appends(ss, tt, x) \/ Extends(ss, tt, x)
  PROVE  LogVersions(tt, k, V)
<1>0. Len(ss) \in Nat /\ \A i \in 1 .. Len(ss) : ss[i] \in Seq(Entries)
  BY SegmentsOK
<1> SUFFICES ASSUME NEW i \in 1 .. Len(tt), NEW j \in 1 .. Len(tt[i]), tt[i][j].key = k
    PROVE  tt[i][j].val \in V
  BY DEF LogVersions
<1>1. CASE Appends(ss, tt, x)
  <2>1. CASE i \in 1 .. Len(ss)
    BY <1>1, <2>1 DEF Appends, LogVersions
  <2>2. CASE i \notin 1 .. Len(ss)
    <3>1. i = Len(ss) + 1
      BY <1>0, <1>1, <2>2 DEF Appends
    <3> QED BY <1>1, <3>1 DEF Appends
  <2> QED BY <2>1, <2>2
<1>2. CASE Extends(ss, tt, x)
  <2>1. CASE i \in 1 .. Len(ss) - 1
    <3>1. tt[i] = ss[i] /\ i \in 1 .. Len(ss)
      BY <1>0, <1>2, <2>1 DEF Extends
    <3> QED BY <3>1 DEF LogVersions
  <2>2. CASE i \notin 1 .. Len(ss) - 1
    <3>1. i = Len(ss) /\ i \in 1 .. Len(ss)
      BY <1>0, <1>2, <2>2 DEF Extends
    <3>s. PICK s : s = ss[i]
      OBVIOUS
    <3>2. tt[i] = s \o x /\ s \in Seq(Entries) /\ Len(s) \in Nat /\ Len(x) \in Nat
      BY <1>0, <1>2, <3>1, <3>s DEF Extends
    <3>3. CASE j \in 1 .. Len(s)
      <4>1. tt[i][j] = ss[i][j]
        BY <3>2, <3>3, <3>s
      <4> QED BY <3>1, <3>3, <3>s, <4>1 DEF LogVersions
    <3>4. CASE j \notin 1 .. Len(s)
      <4>1. Len(tt[i]) = Len(s) + Len(x)
        BY <3>2
      <4>2. j \in 1 .. Len(s) + Len(x)
        BY <4>1
      <4>3. j - Len(s) \in 1 .. Len(x)
        BY <3>2, <3>4, <4>2
      <4>4. tt[i][j] = x[j - Len(s)]
        BY <3>2, <3>4, <4>2
      <4> QED BY <4>3, <4>4
    <3> QED BY <3>3, <3>4
  <2> QED BY <2>1, <2>2
<1> QED BY <1>1, <1>2

\* A part of a segment that starts at its beginning.
LEMMA PrefixOK ==
  ASSUME NEW s \in Seq(Entries), NEW n \in 0 .. Len(s)
  PROVE  /\ SubSeq(s, 1, n) \in Seq(Entries) /\ Len(SubSeq(s, 1, n)) = n
         /\ \A j \in 1 .. n : SubSeq(s, 1, n)[j] = s[j]
<1>1. Len(s) \in Nat /\ \A j \in 1 .. n : s[j] \in Entries
  BY ElementOfSeq
<1> QED BY <1>1, SubSeqProperties

\* What Open leaves of the log: of each segment what is loaded.
LEMMA RestartShape ==
  ASSUME EngineInv, Restart, LogOK'
  PROVE  /\ \A i \in 1 .. Len(segs') : \A j \in 1 .. Len(segs'[i]) :
              i \in 1 .. Len(segs) /\ j \in 1 .. Len(segs[i]) /\ segs'[i][j] = segs[i][j]
         /\ \E c \in Cuts : /\ live' = [k \in Keys |-> Loaded(segs, c, k)]
                            /\ allowed' = [k \in Keys |-> {Recovered(k, c)}]
                            /\ \A d \in Cuts' : \A k \in Keys : Loaded(segs', d, k) = Loaded(segs, c, k)
<1>1. PICK c \in Cuts, torn \in BOOLEAN :
       LET n == Len(segs)
           cut == IF segs # << >> /\ open THEN [segs EXCEPT ![n] = SubSeq(@, 1, c)] ELSE segs
           empty == segs # << >> /\ cut[n] = << >> /\ ~torn
           kept == IF empty THEN SubSeq(cut, 1, n - 1) ELSE cut
       IN  /\ segs' = CutOff(kept)
           /\ synced' = IF segs' # << >> THEN Len(Last(segs')) ELSE 0
           /\ live' = [k \in Keys |-> Loaded(segs, c, k)]
           /\ allowed' = [k \in Keys |-> {Recovered(k, c)}]
  BY Zenon DEF Restart, CutOff
<1>c. PICK cut : cut = IF segs # << >> /\ open THEN [segs EXCEPT ![Len(segs)] = SubSeq(@, 1, c)] ELSE segs
  OBVIOUS
<1>e. PICK empty \in BOOLEAN : empty = (segs # << >> /\ cut[Len(segs)] = << >> /\ ~torn)
  OBVIOUS
<1>k. PICK kept : kept = IF empty THEN SubSeq(cut, 1, Len(segs) - 1) ELSE cut
  OBVIOUS
<1>2. /\ segs' = CutOff(kept)
      /\ synced' = IF segs' # << >> THEN Len(Last(segs')) ELSE 0
      /\ live' = [k \in Keys |-> Loaded(segs, c, k)]
      /\ allowed' = [k \in Keys |-> {Recovered(k, c)}]
  BY <1>1, <1>c, <1>e, <1>k, Zenon
<1>3. segs \in Seq(Seq(Entries)) /\ Len(segs) \in Nat /\ c \in Nat /\ segs' \in Seq(Seq(Entries))
  BY CutsOK DEF EngineInv, LogOK
<1>4. /\ cut \in Seq(Seq(Entries)) /\ Len(cut) = Len(segs)
      /\ \A i \in 1 .. Len(segs) : /\ Readable(cut[i]) = Reach(segs, c, i)
                                   /\ \A j \in 1 .. Reach(segs, c, i) : cut[i][j] = segs[i][j]
  <2>1. CASE segs # << >> /\ open
    <3>s. PICK s, l, n : n = Len(segs) /\ s = segs[n] /\ l = SubSeq(s, 1, c)
      OBVIOUS
    <3>1. n \in 1 .. Len(segs) /\ s = Last(segs) /\ s \in Seq(Entries) /\ Len(s) \in Nat /\ c \in 0 .. Len(s)
      <4>1. n \in 1 .. Len(segs) /\ s = Last(segs) /\ c <= Len(Last(segs))
        BY <1>3, <2>1, <3>s, CutsOK DEF Last, EngineInv
      <4>2. s \in Seq(Entries) /\ Len(s) \in Nat
        BY <1>3, <3>s, <4>1, SegmentsOK
      <4> QED BY <1>3, <4>1, <4>2
    <3>2. l \in Seq(Entries) /\ Len(l) = c /\ \A j \in 1 .. c : l[j] = s[j]
      BY <3>1, <3>s, PrefixOK
    <3>3. cut = [segs EXCEPT ![n] = l]
      BY <1>c, <2>1, <3>s
    <3>4. cut \in Seq(Seq(Entries)) /\ Len(cut) = Len(segs)
      BY <1>3, <3>1, <3>2, <3>3, ExceptSeq
    <3>d. DOMAIN segs = 1 .. Len(segs)
      BY <1>3
    <3>5. cut[n] = l /\ \A i \in 1 .. Len(segs) : i # n => cut[i] = segs[i]
      BY <3>1, <3>3, <3>d
    <3>6. ASSUME NEW i \in 1 .. Len(segs), i # n
          PROVE  Readable(cut[i]) = Reach(segs, c, i)
      BY <3>5, <3>6, <3>s DEF Reach
    <3>7. Readable(s) \in 0 .. Len(s)
      BY <3>1, ReadableOK
    <3>8. Readable(l) = IF c < Readable(s) THEN c ELSE Readable(s)
      <4>1. CASE c < Readable(s)
        <5>1. \A j \in 1 .. c : l[j] # Hole
          BY <3>1, <3>2, <3>7, <4>1, ReadableIs
        <5> QED BY <3>2, <4>1, <5>1 DEF Readable
      <4>2. CASE ~(c < Readable(s))
        <5>1. \A j \in 1 .. Readable(s) : s[j] # Hole /\ j \in 1 .. c
          BY <3>1, <3>7, <4>2, ReadableIs
        <5>2. \A j \in 1 .. Readable(s) : l[j] # Hole
          BY <3>2, <5>1
        <5>3. Readable(s) = Len(l) \/ l[Readable(s) + 1] = Hole
          <6>1. CASE Readable(s) = c
            BY <3>2, <6>1
          <6>2. CASE Readable(s) # c
            <7>1. Readable(s) + 1 \in 1 .. c /\ Readable(s) # Len(s)
              BY <3>1, <3>7, <4>2, <6>2
            <7>2. s[Readable(s) + 1] = Hole
              BY <3>1, <7>1, ReadableIs
            <7> QED BY <3>2, <7>1, <7>2
          <6> QED BY <6>1, <6>2
        <5>4. Readable(s) \in 0 .. Len(l)
          BY <3>1, <3>2, <3>7, <4>2
        <5> QED BY <3>2, <4>2, <5>2, <5>3, <5>4, ReadableIs
      <4> QED BY <4>1, <4>2
    <3>9. Reach(segs, c, n) = Readable(l) /\ \A j \in 1 .. Reach(segs, c, n) : l[j] = s[j]
      <4>1. Reach(segs, c, n) = Readable(l)
        BY <3>8, <3>s DEF Reach
      <4>2. \A j \in 1 .. Readable(l) : j \in 1 .. c
        BY <3>1, <3>7, <3>8
      <4> QED BY <3>2, <4>1, <4>2
    <3> QED BY <3>4, <3>5, <3>6, <3>9, <3>s
  <2>2. CASE ~(segs # << >> /\ open)
    <3>1. cut = segs
      BY <1>c, <2>2
    <3>2. ASSUME NEW i \in 1 .. Len(segs) PROVE Readable(segs[i]) = Reach(segs, c, i)
      <4>1. segs # << >> /\ ~open
        BY <1>3, <2>2
      <4>2. c \in Len(Last(segs)) .. Len(Last(segs)) /\ Len(Last(segs)) \in Nat
        BY <1>3, <4>1, CutsOK DEF Cuts, EngineInv
      <4>3. i = Len(segs) => c = Len(segs[i]) /\ Readable(segs[i]) \in 0 .. Len(segs[i]) /\ Len(segs[i]) \in Nat
        BY <1>3, <4>2, SegmentsOK DEF Last
      <4> QED BY <4>3 DEF Reach
    <3> QED BY <1>3, <3>1, <3>2
  <2> QED BY <2>1, <2>2
<1>5. /\ kept \in Seq(Seq(Entries)) /\ Len(kept) <= Len(segs)
      /\ \A i \in 1 .. Len(kept) : kept[i] = cut[i]
      /\ \A i \in 1 .. Len(segs) : i > Len(kept) => Reach(segs, c, i) = 0
  <2>1. CASE empty
    <3>1. Len(segs) \in 1 .. Len(segs) /\ cut[Len(segs)] = << >>
      <4>1. segs # << >> /\ cut[Len(segs)] = << >>
        BY <1>e, <2>1, Zenon
      <4> QED BY <1>3, <4>1
    <3>2. \A i \in 1 .. Len(segs) - 1 : cut[i] \in Seq(Entries)
      BY <1>3, <1>4, ElementOfSeq
    <3>3. /\ kept \in Seq(Seq(Entries)) /\ Len(kept) = Len(segs) - 1
          /\ \A i \in 1 .. Len(segs) - 1 : kept[i] = cut[i]
      BY <1>3, <1>4, <1>k, <2>1, <3>1, <3>2, SubSeqProperties
    <3>4. Readable(<< >>) = 0
      BY DEF Readable
    <3>5. Reach(segs, c, Len(segs)) = 0
      BY <1>4, <3>1, <3>4
    <3>6. \A i \in 1 .. Len(segs) : i > Len(kept) => i = Len(segs)
      BY <1>3, <3>3
    <3>7. Len(kept) <= Len(segs)
      BY <1>3, <3>3
    <3>8. \A i \in 1 .. Len(kept) : kept[i] = cut[i]
      BY <3>3
    <3> QED BY <3>3, <3>5, <3>6, <3>7, <3>8
  <2>2. CASE ~empty
    BY <1>3, <1>4, <1>k, <2>2
  <2> QED BY <2>1, <2>2
<1>6. /\ Len(segs') = Len(kept)
      /\ \A i \in 1 .. Len(kept) : segs'[i] = SubSeq(kept[i], 1, Readable(kept[i]))
  BY <1>2, <1>5, CutOffOK DEF CutOff
<1>7. ASSUME NEW i \in 1 .. Len(segs')
      PROVE  /\ i \in 1 .. Len(segs) /\ Len(segs'[i]) = Reach(segs, c, i)
             /\ \A j \in 1 .. Reach(segs, c, i) : segs'[i][j] = segs[i][j] /\ j \in 1 .. Len(segs[i])
  <2>1. i \in 1 .. Len(kept) /\ i \in 1 .. Len(segs)
    BY <1>3, <1>5, <1>6
  <2>2. kept[i] = cut[i] /\ cut[i] \in Seq(Entries) /\ Readable(cut[i]) \in 0 .. Len(cut[i])
    BY <1>4, <1>5, <2>1, SegmentsOK
  <2>3. /\ Len(segs'[i]) = Readable(cut[i])
        /\ \A j \in 1 .. Readable(cut[i]) : segs'[i][j] = cut[i][j]
    BY <1>6, <2>1, <2>2, PrefixOK
  <2>4. Readable(segs[i]) \in 0 .. Len(segs[i]) /\ Len(segs[i]) \in Nat
    BY <1>3, <2>1, SegmentsOK
  <2>5. \A j \in 1 .. Reach(segs, c, i) : j \in 1 .. Len(segs[i])
    BY <1>3, <2>4 DEF Reach
  <2> QED BY <1>4, <2>1, <2>3, <2>5
<1>8. ASSUME NEW d \in Cuts', NEW k \in Keys PROVE Loaded(segs', d, k) = Loaded(segs, c, k)
  <2>1. d \in Nat /\ (segs' # << >> => d = Len(Last(segs')))
    <3>1. segs' # << >> => d \in Len(Last(segs')) .. Len(Last(segs'))
      BY <1>2 DEF Cuts, Last
    <3>2. d \in Nat /\ (segs' # << >> => Len(Last(segs)') \in Nat)
      BY CutsOKNext
    <3>3. Last(segs)' = Last(segs')
      BY DEF Last
    <3> QED BY <3>1, <3>2, <3>3
  <2> QED BY <1>3, <1>5, <1>6, <1>7, <2>1, ReloadedLog
<1>9. \A i \in 1 .. Len(segs') : \A j \in 1 .. Len(segs'[i]) :
        i \in 1 .. Len(segs) /\ j \in 1 .. Len(segs[i]) /\ segs'[i][j] = segs[i][j]
  BY <1>7
<1> QED BY <1>2, <1>8, <1>9

\* Nothing is newer than the last write.
LEMMA VersionsKept ==
  ASSUME EngineInv, VersionsOK, [Next]_vars, EngineInv' PROVE VersionsOK'
<1>0. \A k \in Keys : 0 \in AnyVersion(k) /\ writes[k] \in AnyVersion(k) /\ Empty[k] = 0
  BY VersionZero DEF Empty
<1>s. ASSUME writes' = writes PROVE \A k \in Keys : AnyVersion(k)' = AnyVersion(k)
  BY <1>s DEF AnyVersion
<1>e. ASSUME UNCHANGED <<cache, segs, tsm, comp, writes>> PROVE VersionsOK'
  BY <1>e DEF VersionsOK, AnyVersion, cache
<1>1. ASSUME NEW k \in Keys, WriteBegins(k) PROVE VersionsOK'
  <2>1. /\ writes' = [writes EXCEPT ![k] = @ + 1] /\ live' = [live EXCEPT ![k] = writes[k] + 1]
        /\ UNCHANGED <<snap, segs, tsm, comp>>
    BY <1>1 DEF WriteBegins, wal, files
  <2>2. writes \in [Keys -> Nat] /\ live \in [Keys -> Values]
    BY ZeroIsValue DEF EngineInv, CacheOK
  <2>3. \A j \in Keys : AnyVersion(j) \subseteq AnyVersion(j)' /\ live'[j] \in AnyVersion(j)'
    <3>1. ASSUME NEW j \in Keys PROVE writes'[j] \in Nat /\ writes[j] \in Nat /\ writes[j] <= writes'[j]
      BY <2>1, <2>2
    <3>2. \A j \in Keys : AnyVersion(j) \subseteq AnyVersion(j)'
      BY <3>1 DEF AnyVersion
    <3>3. \A j \in Keys : j # k => live'[j] \in AnyVersion(j)'
      BY <2>1, <2>2, <3>2 DEF VersionsOK
    <3>4. live'[k] = writes'[k]
      BY <2>1, <2>2
    <3>5. writes'[k] \in AnyVersion(k)'
      BY <3>1 DEF AnyVersion
    <3> QED BY <3>2, <3>3, <3>4, <3>5
  <2> QED BY <2>1, <2>3 DEF VersionsOK, LogVersions
<1>2. ASSUME NEW k \in Keys,
             \/ DeleteBegins(k) \/ DeleteFromFile(k) \/ DeleteScans(k) \/ OpFails(k) \/ ReadCache(k)
      PROVE  VersionsOK'
  BY <1>2, <1>e DEF DeleteBegins, DeleteFromFile, DeleteScans, OpFails, ReadCache, wal, files, history
<1>3. ASSUME Sync \/ ReadFiles \/ SnapshotWritten \/ SnapshotFails \/ UNCHANGED vars PROVE VersionsOK'
  BY <1>3, <1>e DEF Sync, ReadFiles, SnapshotWritten, SnapshotFails, wal, files, history, vars
<1>4. ASSUME NEW k \in Keys, DeleteFromCache(k) PROVE VersionsOK'
  <2>1. live' = [live EXCEPT ![k] = 0] /\ UNCHANGED <<snap, segs, tsm, comp, writes>>
    BY <1>4 DEF DeleteFromCache, wal, files, history
  <2>2. \A j \in Keys : live'[j] \in AnyVersion(j)
    BY <1>0, <2>1 DEF VersionsOK, EngineInv, CacheOK
  <2> QED BY <1>s, <2>1, <2>2 DEF VersionsOK
<1>5. ASSUME NEW k \in Keys, Log(k) PROVE VersionsOK'
  <2>1. UNCHANGED <<cache, tsm, comp, writes>>
    BY <1>5 DEF Log, files
  <2>2. segs \in Seq(Seq(Entries)) /\ segs' \in Seq(Seq(Entries))
    BY DEF EngineInv, LogOK
  <2>3. ASSUME NEW j \in Keys PROVE LogVersions(segs', j, AnyVersion(j))
    <3>1. LogVersions(segs, j, AnyVersion(j)) /\ 0 \in AnyVersion(j) /\ LoggedValue(k) \in AnyVersion(k)
      BY <1>0 DEF VersionsOK, LoggedValue
    <3>2. PICK x \in {<<Entry(k)>>, <<Hole, Entry(k)>>} : Appends(segs, segs', x) \/ Extends(segs, segs', x)
      BY <1>5, LogShape
    <3>3. /\ Entry(k) \in Entries /\ Entry(k).key = k /\ Entry(k).val = LoggedValue(k)
          /\ Hole \in Entries /\ Hole.val = 0
      BY EntryIs DEF Entries, Hole
    <3>4. x \in Seq(Entries) /\ \A i \in 1 .. Len(x) : x[i] = Entry(k) \/ x[i] = Hole
      <4>1. CASE x = <<Entry(k)>>
        BY <3>3, <4>1
      <4>2. CASE x = <<Hole, Entry(k)>>
        BY <3>3, <4>2
      <4> QED BY <4>1, <4>2
    <3>5. \A i \in 1 .. Len(x) : x[i].key = j => x[i].val \in AnyVersion(j)
      BY <3>1, <3>3, <3>4
    <3> QED BY <2>2, <3>1, <3>2, <3>4, <3>5, LogVersionsGrow
  <2> QED BY <1>s, <2>1, <2>3 DEF VersionsOK, cache
<1>6. ASSUME SnapshotBegins \/ SnapshotWithoutEffect PROVE VersionsOK'
  <2>1. /\ CloseSegment /\ UNCHANGED <<tsm, comp, writes>>
        /\ \A k \in Keys : live'[k] \in {live[k], 0} /\ snap'[k] \in {live[k], snap[k]}
    <3>1. CASE SnapshotBegins
      BY <1>0, <3>1 DEF SnapshotBegins, files
    <3>2. CASE SnapshotWithoutEffect
      BY <3>2 DEF SnapshotWithoutEffect, files, cache
    <3> QED BY <1>6, <3>1, <3>2
  <2>2. segs \in Seq(Seq(Entries)) /\ segs' \in Seq(Seq(Entries)) /\ << >> \in Seq(Entries)
    BY DEF EngineInv, LogOK
  <2>3. ASSUME NEW k \in Keys PROVE LogVersions(segs', k, AnyVersion(k))
    <3>1. segs' = segs \/ Appends(segs, segs', << >>)
      BY <2>1, CloseShape
    <3>2. LogVersions(segs, k, AnyVersion(k))
      BY DEF VersionsOK
    <3>3. CASE Appends(segs, segs', << >>)
      <4>1. PICK x \in Seq(Entries) : x = << >>
        BY <2>2
      <4>2. Appends(segs, segs', x) /\ \A i \in 1 .. Len(x) : x[i].key = k => x[i].val \in AnyVersion(k)
        BY <3>3, <4>1
      <4> QED BY <2>2, <3>2, <4>2, LogVersionsGrow
    <3> QED BY <3>1, <3>2, <3>3
  <2>4. \A k \in Keys : live'[k] \in AnyVersion(k) /\ snap'[k] \in AnyVersion(k)
    BY <1>0, <2>1 DEF VersionsOK
  <2> QED BY <1>s, <2>1, <2>3, <2>4 DEF VersionsOK
<1>7. ASSUME SnapshotReplaces PROVE VersionsOK'
  <2>1. /\ UNCHANGED <<cache, segs, comp, writes>>
        /\ tsm' = [n \in DOMAIN tsm \cup {sw.name} |-> IF n = sw.name THEN snap ELSE tsm[n]]
    BY <1>7 DEF SnapshotReplaces, wal
  <2>2. \A k \in Keys : \A n \in DOMAIN tsm' : tsm'[n][k] \in AnyVersion(k)
    BY <2>1 DEF VersionsOK
  <2> QED BY <1>s, <2>1, <2>2 DEF VersionsOK, cache
<1>8. ASSUME SnapshotClears PROVE VersionsOK'
  <2>1. UNCHANGED <<live, segs, tsm, comp, writes>> /\ snap' = Empty
    BY <1>8 DEF SnapshotClears, wal, files, history
  <2> QED BY <1>0, <1>s, <2>1 DEF VersionsOK
<1>9. ASSUME SnapshotRemovesSegment PROVE VersionsOK'
  <2>1. UNCHANGED <<cache, tsm, comp, writes>> /\ segs' = Tail(segs)
    BY <1>9 DEF SnapshotRemovesSegment, files, history
  <2>2. segs \in Seq(Seq(Entries)) /\ Len(segs) \in Nat \ {0}
    BY <1>9 DEF EngineInv, LogOK, SnapshotOK, SnapshotRemovesSegment
  <2>3. Len(segs') = Len(segs) - 1 /\ \A i \in 1 .. Len(segs') : segs'[i] = segs[i + 1] /\ i + 1 \in 1 .. Len(segs)
    BY <2>1, <2>2
  <2>4. \A k \in Keys : LogVersions(segs', k, AnyVersion(k))
    BY <2>3 DEF VersionsOK, LogVersions
  <2> QED BY <1>s, <2>1, <2>4 DEF VersionsOK, cache
<1>10. ASSUME CompactBegins PROVE VersionsOK'
  <2>1. UNCHANGED <<cache, segs, tsm, writes>>
    BY <1>10 DEF CompactBegins, wal, files, history
  <2>2. PICK g \in Groups : comp'.data = [k \in Keys |-> InFiles(g, k)]
    BY <1>10 DEF CompactBegins
  <2>3. g \subseteq DOMAIN tsm /\ g \subseteq Names
    BY <1>10 DEF Groups, CompactBegins, EngineInv, CompOK, FilesOK
  <2>4. \A k \in Keys : InFiles(g, k) \in AnyVersion(k)
    <3>1. ASSUME NEW k \in Keys PROVE InFiles(g, k) \in AnyVersion(k)
      <4>1. \A n \in g : InFile(n, k) \in AnyVersion(k)
        BY <1>0, <2>3 DEF VersionsOK, InFile
      <4> QED BY <1>0, <2>3, <4>1, InFilesWithin
    <3> QED BY <3>1
  <2> QED BY <1>s, <2>1, <2>2, <2>4 DEF VersionsOK, cache
<1>11. ASSUME CompactAborts \/ CompactRemovesTombstone \/ CompactRemovesFile PROVE VersionsOK'
  <2>1. /\ UNCHANGED <<cache, segs, writes>> /\ DOMAIN tsm' \subseteq DOMAIN tsm
        /\ \A n \in DOMAIN tsm' : tsm'[n] = tsm[n]
    BY <1>11 DEF CompactAborts, CompactRemovesTombstone, CompactRemovesFile, Without, wal, files, history
  <2>2. comp'.data = comp.data \/ comp'.data = Empty
    <3>1. comp \in CompStates
      BY DEF EngineInv, CompOK
    <3>2. CASE CompactAborts
      BY <3>2 DEF CompactAborts, NoComp
    <3>3. CASE CompactRemovesTombstone
      <4>1. PICK left : comp' = IF left = {} THEN NoComp ELSE [comp EXCEPT !.stage = "remove", !.group = left]
        BY <3>3 DEF CompactRemovesTombstone
      <4>2. NoComp.data = Empty
        BY DEF NoComp
      <4> QED BY <3>1, <4>1, <4>2 DEF CompStates
    <3>4. CASE CompactRemovesFile
      BY <3>1, <3>4 DEF CompactRemovesFile, CompStates
    <3> QED BY <1>11, <3>2, <3>3, <3>4
  <2> QED BY <1>0, <1>s, <2>1, <2>2 DEF VersionsOK, cache
<1>12. ASSUME CompactRenames PROVE VersionsOK'
  <2>1. /\ UNCHANGED <<cache, segs, writes>>
        /\ tsm' = IF comp.new = NoName THEN tsm
                  ELSE [n \in DOMAIN tsm \cup {comp.new} |-> IF n = comp.new THEN comp.data ELSE tsm[n]]
        /\ comp' = [comp EXCEPT !.stage = "remove"]
    BY <1>12 DEF CompactRenames, wal
  <2>2. comp'.data = comp.data
    BY <2>1 DEF EngineInv, CompOK, CompStates
  <2>3. \A k \in Keys : \A n \in DOMAIN tsm' : tsm'[n][k] \in AnyVersion(k)
    BY <2>1 DEF VersionsOK
  <2> QED BY <1>s, <2>1, <2>2, <2>3 DEF VersionsOK, cache
<1>13. ASSUME Restart PROVE VersionsOK'
  <2>1. snap' = Empty /\ comp' = NoComp /\ UNCHANGED <<tsm, writes>>
    BY <1>13 DEF Restart
  <2>2. PICK c \in Cuts : live' = [k \in Keys |-> Loaded(segs, c, k)]
    BY <1>13 DEF Restart
  <2>3. \A k \in Keys : live'[k] \in AnyVersion(k)
    BY <2>2, LoadedVersion
  <2>4. \A k \in Keys : LogVersions(segs', k, AnyVersion(k))
    <3>1. \A i \in 1 .. Len(segs') : \A j \in 1 .. Len(segs'[i]) :
            i \in 1 .. Len(segs) /\ j \in 1 .. Len(segs[i]) /\ segs'[i][j] = segs[i][j]
      BY <1>13, RestartShape DEF EngineInv
    <3> QED BY <3>1 DEF VersionsOK, LogVersions
  <2>5. comp'.data = Empty
    BY <2>1 DEF NoComp
  <2> QED BY <1>0, <1>s, <2>1, <2>3, <2>4, <2>5 DEF VersionsOK
<1> QED BY <1>1, <1>2, <1>3, <1>4, <1>5, <1>6, <1>7, <1>8, <1>9, <1>10, <1>11, <1>12, <1>13
    DEF Next, Client, Snapshot, Compaction

-----------------------------------------------------------------------------
(* The progress of operations: the steps of the clients *)

\* The operation k after an entry: it waits for the entry; those that waited before wait
\* on or have been answered.
LEMMA LogProgress ==
  ASSUME EngineInv, ProgressOK, NEW k \in Keys, Log(k) PROVE ProgressOK'
<1>1. UNCHANGED <<cache, tsm, tomb, writes>> /\ open' /\ written' /\ op[k].stage = "log"
  BY LogShape DEF Log, files
<1>2. op \in [Keys -> Operations]
  BY DEF EngineInv, OpsOK
<1>e. PICK e : e = Entry(k)
  OBVIOUS
<1>3. /\ op'[k] = [op[k] EXCEPT !.stage = "sync", !.found = TRUE]
      /\ \A j \in Keys : j # k => op'[j] = op[j] \/ op'[j] = NoOp
  <2>1. LogEntry(k, e) \/ LogEntryInNewSegment(k, e)
    BY <1>e DEF Log, Entry, LoggedValue
  <2>2. CASE LogEntry(k, e)
    <3>1. op' = [op EXCEPT ![k].stage = "sync", ![k].found = TRUE]
      BY <2>2 DEF LogEntry
    <3> QED BY <1>2, <3>1
  <2>3. CASE LogEntryInNewSegment(k, e)
    BY <2>3 DEF LogEntryInNewSegment
  <2> QED BY <2>1, <2>2, <2>3
<1>4. e \in Entries /\ e.key = k /\ e.val = LoggedValue(k) /\ Hole \in Entries /\ Hole.key = "hole"
  BY <1>e, EntryIs DEF Entries, Hole
<1>5. LoggedValue(k)' = LoggedValue(k) /\ op'[k].kind = op[k].kind /\ op'[k].stage = "sync"
      /\ op'[k].found = TRUE /\ op'[k].raced = op[k].raced
  BY <1>1, <1>2, <1>3 DEF LoggedValue, Operations
<1>6. /\ IsLogged(Last(segs'), k, LoggedValue(k))
      /\ \A j \in Keys : j # k /\ op'[j] = op[j] /\ op[j].stage = "sync" =>
           IsLogged(Last(segs'), j, LoggedValue(j))
  <2>1. CASE \E x \in {<<e>>, <<Hole, e>>} : Extends(segs, segs', x) /\ Last(segs') = Last(segs) \o x
    <3>1. PICK x \in {<<e>>, <<Hole, e>>} : Extends(segs, segs', x) /\ Last(segs') = Last(segs) \o x
      BY <2>1
    <3>2. /\ x \in Seq(Entries) /\ Len(x) \in Nat \ {0} /\ x[Len(x)] = e
          /\ \A i \in 1 .. Len(x) : x[i] = e \/ x[i] = Hole
      <4>1. CASE x = <<e>>
        BY <1>4, <4>1
      <4>2. CASE x = <<Hole, e>>
        BY <1>4, <4>2
      <4> QED BY <4>1, <4>2
    <3>s. PICK s : s = Last(segs)
      OBVIOUS
    <3>3. s \in Seq(Entries)
      <4>1. segs \in Seq(Seq(Entries)) /\ Len(segs) \in 1 .. Len(segs)
        BY <3>1 DEF EngineInv, LogOK, Extends
      <4> QED BY <3>s, <4>1, SegmentsOK DEF Last
    <3>4. IsLogged(s \o x, k, LoggedValue(k))
      BY <1>4, <3>2, <3>3, LoggedNext
    <3>5. ASSUME NEW j \in Keys, j # k, op[j].stage = "sync" PROVE IsLogged(s \o x, j, LoggedValue(j))
      <4>1. IsLogged(s, j, LoggedValue(j))
        BY <3>5, <3>s DEF ProgressOK, Progress
      <4>2. e.key # j /\ \A i \in 1 .. Len(x) : x[i].key # j
        BY <1>4, <3>2, <3>5, KeysAssumption
      <4> QED BY <1>4, <3>2, <3>3, <4>1, <4>2, LoggedNext
    <3> QED BY <3>1, <3>4, <3>5, <3>s
  <2>2. CASE /\ LogEntry(k, e) \/ (open /\ LogEntryInNewSegment(k, e))
             /\ open => LogEntryInNewSegment(k, e)
             /\ Last(segs') = <<e>>
    <3>1. IsLogged(<<e>>, k, LoggedValue(k))
      BY <1>4 DEF IsLogged
    <3>2. ASSUME NEW j \in Keys, j # k, op'[j] = op[j], op[j].stage = "sync" PROVE FALSE
      <4>1. open /\ LogEntryInNewSegment(k, e)
        BY <2>2, <3>2 DEF ProgressOK, Progress
      <4>2. op'[j] = NoOp
        BY <3>2, <4>1 DEF LogEntryInNewSegment, Waiting
      <4> QED BY <3>2, <4>2 DEF NoOp
    <3> QED BY <2>2, <3>1, <3>2
  <2> QED BY <1>e, <2>1, <2>2, LogShape
<1>7. Progress(k)'
  <2>1. Progress(k) /\ op[k].kind # "none"
    BY <1>1 DEF ProgressOK, Progress
  <2>2. op[k].kind = "write" => live'[k] = writes'[k] /\ writes'[k] # 0
    BY <1>1, <2>1 DEF Progress, cache
  <2>3. op[k].kind = "delete" => live'[k] = 0 /\ (op[k].raced \/ (snap'[k] = 0 /\ Unmarked(k)'))
    BY <1>1, <2>1 DEF Progress, cache, Unmarked, InFile, Hidden
  <2>4. IsLogged(Last(segs)', k, LoggedValue(k)')
    BY <1>5, <1>6 DEF Last
  <2> QED BY <1>1, <1>5, <2>1, <2>2, <2>3, <2>4 DEF Progress
<1>8. ASSUME NEW j \in Keys, j # k PROVE Progress(j)'
  <2>1. CASE op'[j] = NoOp
    BY <2>1, NoProgress
  <2>2. CASE op'[j] = op[j]
    <3>1. \A n : InFile(n, j)' = InFile(n, j)
      BY <1>1 DEF InFile, Hidden
    <3>2. Progress(j)
      BY DEF ProgressOK
    <3> QED BY <1>1, <1>6, <1>8, <2>2, <3>1, <3>2, ProgressFrame DEF cache
  <2> QED BY <1>3, <1>8, <2>1, <2>2
<1> QED BY <1>7, <1>8 DEF ProgressOK

\* Operations go on as their stages say.
LEMMA ClientProgress ==
  ASSUME EngineInv, ProgressOK, NEW k \in Keys, Client(k) PROVE ProgressOK'
<1>0. op \in [Keys -> Operations] /\ Progress(k)
  BY DEF EngineInv, OpsOK, ProgressOK
<1>s. ASSUME UNCHANGED <<tsm, tomb>> PROVE \A j, n : InFile(n, j)' = InFile(n, j)
  BY <1>s DEF InFile, Hidden
<1>o. ASSUME Progress(k)',
             \A j \in Keys : j # k => op'[j] = op[j] /\ live'[j] = live[j] /\ writes'[j] = writes[j],
             UNCHANGED <<snap, wal, tsm>>,
             \A j \in Keys : j # k => \A n \in DOMAIN tsm : InFile(n, j)' = InFile(n, j)
      PROVE  ProgressOK'
  <2>1. ASSUME NEW j \in Keys, j # k PROVE Progress(j)'
    <3>1. Progress(j) /\ (op[j].stage = "sync" => open' /\ written' /\ IsLogged(Last(segs'), j, LoggedValue(j)))
      BY <1>o DEF ProgressOK, Progress, wal
    <3> QED BY <1>o, <2>1, <3>1, ProgressFrame
  <2> QED BY <1>o, <2>1 DEF ProgressOK
<1>1. CASE WriteBegins(k)
  <2>1. /\ writes' = [writes EXCEPT ![k] = @ + 1] /\ live' = [live EXCEPT ![k] = writes[k] + 1]
        /\ op' = [op EXCEPT ![k] = [NoOp EXCEPT !.kind = "write", !.stage = "log"]]
        /\ UNCHANGED <<snap, wal, tsm, tomb>>
    BY <1>1 DEF WriteBegins, files
  <2>2. writes \in [Keys -> Nat] /\ live \in [Keys -> Values]
    BY ZeroIsValue DEF EngineInv, CacheOK
  <2>3. op'[k].kind = "write" /\ op'[k].stage = "log" /\ op'[k].found = FALSE
    BY <1>0, <2>1 DEF NoOp
  <2>4. live'[k] = writes'[k] /\ writes'[k] # 0
    BY <2>1, <2>2
  <2>5. Progress(k)'
    BY <2>3, <2>4 DEF Progress
  <2> QED BY <1>0, <1>o, <1>s, <2>1, <2>2, <2>5
<1>2. CASE DeleteBegins(k)
  <2>h. PICK holding : holding = {n \in active : InFile(n, k) # 0}
    OBVIOUS
  <2>1. /\ op' = [op EXCEPT ![k] = [NoOp EXCEPT !.kind = "delete", !.todo = holding, !.raced = snap[k] # 0,
                                              !.alone = sw.stage = "idle" /\ snap = Empty,
                                              !.stage = IF holding = {} THEN "scan" ELSE "files"]]
        /\ UNCHANGED <<cache, wal, tsm, tomb, writes>> /\ comp.stage = "idle"
    BY <1>2, <2>h DEF DeleteBegins, files
  <2>2. /\ op'[k].kind = "delete" /\ op'[k].todo = holding /\ op'[k].raced = (snap[k] # 0)
        /\ op'[k].stage = (IF holding = {} THEN "scan" ELSE "files") /\ op'[k].found = FALSE
    BY <1>0, <2>1 DEF NoOp
  <2>3. active = DOMAIN tsm
    BY <2>1 DEF EngineInv, CompOK
  <2>4. Unmarked(k)'
    BY <1>s, <2>1, <2>2, <2>3, <2>h DEF Unmarked
  <2>5. op'[k].raced \/ (snap'[k] = 0 /\ Unmarked(k)')
    BY <2>1, <2>2, <2>4 DEF cache
  <2>6. op'[k].stage \notin {"log", "sync", "none"}
    BY <2>2
  <2>7. Progress(k)'
    BY <2>2, <2>5, <2>6 DEF Progress
  <2> QED BY <1>0, <1>o, <1>s, <2>1, <2>7 DEF cache
<1>3. CASE DeleteFromFile(k)
  <2>1. PICK n \in op[k].todo :
          /\ tomb' = [m \in DOMAIN tomb \cup {n} |->
                        IF m = n THEN {k} \cup (IF n \in DOMAIN tomb THEN tomb[n] ELSE {}) ELSE tomb[m]]
          /\ op' = [op EXCEPT ![k].todo = @ \ {n}, ![k].stage = IF op[k].todo = {n} THEN "scan" ELSE @]
    BY <1>3 DEF DeleteFromFile
  <2>2. UNCHANGED <<cache, wal, tsm, writes>> /\ op[k].stage = "files"
    BY <1>3 DEF DeleteFromFile, history
  <2>3. \A m, j : Hidden(m, j)' <=> Hidden(m, j) \/ (m = n /\ j = k)
    BY <2>1 DEF Hidden
  <2>4. /\ \A m, j : j # k => InFile(m, j)' = InFile(m, j)
        /\ InFile(n, k)' = 0 /\ \A m : m # n => InFile(m, k)' = InFile(m, k)
    BY <2>2, <2>3 DEF InFile
  <2>5. /\ op'[k].kind = op[k].kind /\ op'[k].todo = op[k].todo \ {n} /\ op'[k].raced = op[k].raced
        /\ op'[k].found = op[k].found /\ op'[k].stage = IF op[k].todo = {n} THEN "scan" ELSE "files"
    BY <1>0, <2>1, <2>2 DEF Operations
  <2>6. op[k].kind = "delete" /\ ~op[k].found
    BY <1>0, <2>2 DEF Progress, EngineInv, OpsOK
  <2>7. ASSUME ~op[k].raced PROVE Unmarked(k)'
    <3>1. Unmarked(k)
      BY <1>0, <2>6, <2>7 DEF Progress
    <3>2. ASSUME NEW m \in DOMAIN tsm, InFile(m, k)' # 0 PROVE op'[k].stage = "files" /\ m \in op'[k].todo
      <4>1. m # n /\ InFile(m, k) # 0
        BY <2>4, <3>2
      <4>2. m \in op[k].todo
        BY <3>1, <4>1 DEF Unmarked
      <4> QED BY <2>5, <4>1, <4>2
    <3> QED BY <2>2, <3>2 DEF Unmarked
  <2>8. Progress(k)'
    BY <1>0, <2>2, <2>5, <2>6, <2>7 DEF Progress, cache
  <2> QED BY <1>0, <1>o, <2>1, <2>2, <2>4, <2>8 DEF cache
<1>4. CASE DeleteScans(k)
  <2>1. UNCHANGED <<cache, wal, tsm, tomb, writes>> /\ op[k].stage = "scan"
    BY <1>4 DEF DeleteScans, files
  <2>2. CASE live[k] # 0
    <3>1. op' = [op EXCEPT ![k].stage = "cache"]
      BY <1>4, <2>2 DEF DeleteScans
    <3>2. /\ op'[k].kind = op[k].kind /\ op'[k].raced = op[k].raced /\ op'[k].found = op[k].found
          /\ op'[k].stage = "cache"
      BY <1>0, <3>1 DEF Operations
    <3>3. op[k].kind = "delete" /\ (~op[k].raced => Unmarked(k)') /\ ~op[k].found
      BY <1>0, <1>s, <2>1 DEF Progress, Unmarked, Operations
    <3>4. Progress(k)'
      BY <1>0, <2>1, <3>2, <3>3 DEF Progress, cache
    <3> QED BY <1>0, <1>o, <1>s, <2>1, <3>1, <3>4 DEF cache
  <2>3. CASE live[k] = 0
    <3>1. op' = [j \in Keys |-> IF j \in {k} THEN NoOp ELSE op[j]]
      BY <1>4, <2>3 DEF DeleteScans, Complete
    <3>2. Progress(k)'
      BY <3>1, NoProgress
    <3> QED BY <1>0, <1>o, <1>s, <2>1, <3>1, <3>2 DEF cache
  <2> QED BY <2>2, <2>3
<1>5. CASE DeleteFromCache(k)
  <2>1. /\ UNCHANGED <<snap, wal, tsm, tomb, writes>> /\ op[k].stage = "cache"
        /\ live' = [live EXCEPT ![k] = 0] /\ op' = [op EXCEPT ![k].stage = "log"]
    BY <1>5 DEF DeleteFromCache, files, history
  <2>2. /\ op'[k].kind = op[k].kind /\ op'[k].raced = op[k].raced /\ op'[k].found = op[k].found
        /\ op'[k].stage = "log" /\ live'[k] = 0 /\ \A j \in Keys : j # k => live'[j] = live[j]
    BY <1>0, <2>1 DEF Operations, EngineInv, CacheOK
  <2>3. op[k].kind = "delete" /\ (~op[k].raced => Unmarked(k)') /\ ~op[k].found
    BY <1>0, <1>s, <2>1 DEF Progress, Unmarked, Operations
  <2>4. Progress(k)'
    BY <1>0, <2>1, <2>2, <2>3 DEF Progress
  <2> QED BY <1>0, <1>o, <1>s, <2>1, <2>2, <2>4
<1>6. CASE OpFails(k)
  <2>1. UNCHANGED <<cache, wal, tsm, tomb, writes>> /\ op' = [op EXCEPT ![k] = NoOp]
    BY <1>6 DEF OpFails, files
  <2>2. Progress(k)'
    BY <1>0, <2>1, NoProgress
  <2> QED BY <1>0, <1>o, <1>s, <2>1, <2>2 DEF cache
<1>7. CASE ReadCache(k)
  <2>1. UNCHANGED <<cache, wal, tsm, tomb, writes, op>>
    BY <1>7 DEF ReadCache, files, history
  <2>2. ASSUME NEW j \in Keys PROVE Progress(j)'
    BY <2>1, ProgressSame DEF ProgressOK, Progress, wal, Last
  <2> QED BY <2>2 DEF ProgressOK
<1> QED BY <1>1, <1>2, <1>3, <1>4, <1>5, <1>6, <1>7, LogProgress DEF Client

-----------------------------------------------------------------------------
(* The progress of operations: the other steps *)

\* What a snapshot that begins does to an operation.
LEMMA SnapshotOps ==
  ASSUME EngineInv, ProgressOK, SnapshotBegins, NEW k \in Keys
  PROVE  /\ op[k].kind # "write"
         /\ op[k].stage = "sync" <=> k \in Answered
         /\ k \in Answered => op'[k].kind = "none" /\ op'[k].stage = "none" /\ ~op'[k].found
         /\ k \notin Answered => /\ op'[k].kind = op[k].kind /\ op'[k].stage = op[k].stage
                                 /\ op'[k].found = op[k].found /\ op'[k].todo = op[k].todo
                                 /\ op[k].raced => op'[k].raced
                                 /\ op[k].kind = "delete" /\ snap = Empty /\ live[k] # 0 => op'[k].raced
<1>0. op \in [Keys -> Operations] /\ Progress(k) /\ op[k].kind # "write"
  BY DEF EngineInv, OpsOK, ProgressOK, SnapshotBegins, EngineIdle
<1>1. op[k].stage = "sync" <=> k \in Answered
  BY <1>0 DEF Progress, Answered, SegmentCloses, Waiting
<1>o. PICK o : o = IF k \in Answered THEN NoOp ELSE op[k]
  OBVIOUS
<1>2. o \in Operations
  BY <1>0, <1>o, NoOpOK
<1>3. op'[k] = [o EXCEPT !.alone = FALSE,
                         !.raced = @ \/ (o.kind = "delete" /\ ~(snap # Empty) /\ k \in {j \in Keys : live[j] # 0})]
  BY <1>o DEF SnapshotBegins
<1>4. /\ op'[k].kind = o.kind /\ op'[k].stage = o.stage /\ op'[k].found = o.found /\ op'[k].todo = o.todo
  BY <1>2, <1>3 DEF Operations
<1>5. op'[k].raced = (o.raced \/ (o.kind = "delete" /\ ~(snap # Empty) /\ k \in {j \in Keys : live[j] # 0}))
  BY <1>2, <1>3 DEF Operations
<1>6. k \in Answered => op'[k].kind = "none" /\ op'[k].stage = "none" /\ ~op'[k].found
  BY <1>o, <1>4 DEF NoOp
<1>7. ASSUME k \notin Answered
      PROVE  /\ op[k].raced => op'[k].raced
             /\ op[k].kind = "delete" /\ snap = Empty /\ live[k] # 0 => op'[k].raced
  BY <1>o, <1>5, <1>7
<1> QED BY <1>0, <1>1, <1>4, <1>6, <1>7, <1>o

\* A delete that the snapshot overtakes is marked as raced.
LEMMA SnapshotBeginsProgress ==
  ASSUME EngineInv, ProgressOK, SnapshotBegins, NEW k \in Keys PROVE Progress(k)'
<1>1. Progress(k) /\ op[k].kind # "write" /\ op \in [Keys -> Operations]
  BY SnapshotOps DEF ProgressOK, EngineInv, OpsOK
<1>2. CASE k \in Answered
  <2>1. op'[k].kind = "none" /\ op'[k].stage = "none" /\ ~op'[k].found
    BY <1>2, SnapshotOps
  <2> QED BY <2>1 DEF Progress
<1>3. CASE k \notin Answered
  <2>1. /\ op'[k].kind = op[k].kind /\ op'[k].stage = op[k].stage
        /\ op'[k].found = op[k].found /\ op'[k].todo = op[k].todo
        /\ op[k].raced => op'[k].raced
        /\ op[k].kind = "delete" /\ snap = Empty /\ live[k] # 0 => op'[k].raced
        /\ op[k].stage # "sync"
    BY <1>3, SnapshotOps
  <2>2. /\ UNCHANGED <<tsm, tomb, writes>>
        /\ snap # Empty => snap' = snap /\ live' = live
        /\ snap = Empty => snap' = live /\ live' = Empty
    BY DEF SnapshotBegins, files
  <2>3. Unmarked(k) => Unmarked(k)'
    BY <2>1, <2>2 DEF Unmarked, InFile, Hidden
  <2>4. live[k] = 0 => live'[k] = 0
    BY <2>2 DEF Empty
  <2>5. ASSUME op[k].kind = "delete" PROVE op'[k].raced \/ (snap'[k] = 0 /\ Unmarked(k)')
    <3>1. CASE op[k].raced
      BY <2>1, <3>1
    <3>2. CASE ~op[k].raced
      <4>1. snap[k] = 0 /\ Unmarked(k)
        BY <1>1, <2>5, <3>2 DEF Progress
      <4>2. snap'[k] # 0 => op'[k].raced
        BY <2>1, <2>2, <2>5, <4>1
      <4> QED BY <2>3, <4>1, <4>2
    <3> QED BY <3>1, <3>2
  <2>6. op[k].found <=> FALSE
    BY <1>1, <2>1 DEF Progress
  <2> QED BY <1>1, <2>1, <2>4, <2>5, <2>6 DEF Progress
<1> QED BY <1>2, <1>3

\* Operations are what their stages say.
LEMMA ProgressKept ==
  ASSUME EngineInv, ProgressOK, [Next]_vars, EngineInv' PROVE ProgressOK'
<1>0. op \in [Keys -> Operations]
  BY DEF EngineInv, OpsOK
<1>p. \A k \in Keys : Progress(k)
  BY DEF ProgressOK
<1>1. ASSUME Sync PROVE ProgressOK'
  <2>1. /\ UNCHANGED <<cache, tsm, tomb, writes, segs, open, written>>
        /\ \A k \in Keys : op'[k] = op[k] \/ op'[k] = NoOp
    BY <1>1 DEF Sync, Complete, files
  <2>2. ASSUME NEW k \in Keys PROVE Progress(k)'
    BY <1>p, <2>1, ProgressSame DEF Progress
  <2> QED BY <2>2 DEF ProgressOK
<1>2. ASSUME ReadFiles \/ SnapshotWritten \/ SnapshotFails \/ CompactBegins \/ CompactAborts \/ UNCHANGED vars
      PROVE  ProgressOK'
  <2>1. UNCHANGED <<cache, tsm, tomb, writes, segs, open, written, op>>
    BY <1>2 DEF ReadFiles, SnapshotWritten, SnapshotFails, CompactBegins, CompactAborts, vars, files, wal, history
  <2>2. ASSUME NEW k \in Keys PROVE Progress(k)'
    BY <1>p, <2>1, ProgressSame DEF Progress
  <2> QED BY <2>2 DEF ProgressOK
<1>3. ASSUME SnapshotWithoutEffect PROVE ProgressOK'
  <2>1. /\ UNCHANGED <<cache, tsm, tomb, writes>> /\ SegmentCloses
        /\ op' = [k \in Keys |-> IF k \in Waiting THEN NoOp ELSE op[k]]
    BY <1>3 DEF SnapshotWithoutEffect, Complete, files, Answered
  <2>2. ASSUME NEW k \in Keys PROVE Progress(k)'
    <3>1. CASE op[k].stage = "sync"
      BY <2>1, <3>1, NoProgress DEF Waiting
    <3>2. CASE op[k].stage # "sync"
      BY <1>p, <2>1, <3>2, ProgressSame
    <3> QED BY <3>1, <3>2
  <2> QED BY <2>2 DEF ProgressOK
<1>4. ASSUME SnapshotReplaces PROVE ProgressOK'
  <2>1. /\ UNCHANGED <<cache, tomb, writes, segs, open, written, op>> /\ sw.stage = "replace"
        /\ tsm' = [n \in DOMAIN tsm \cup {sw.name} |-> IF n = sw.name THEN snap ELSE tsm[n]]
    BY <1>4 DEF SnapshotReplaces, wal
  <2>2. ASSUME NEW k \in Keys PROVE Progress(k)'
    <3>1. ASSUME op[k].kind = "delete", ~op[k].raced, NEW n \in DOMAIN tsm', InFile(n, k)' # 0
          PROVE  n \in DOMAIN tsm /\ InFile(n, k) # 0
      <4>1. Hidden(n, k)' <=> Hidden(n, k)
        BY <2>1 DEF Hidden
      <4>2. snap[k] = 0
        BY <1>p, <3>1 DEF Progress
      <4>3. n # sw.name
        BY <2>1, <3>1, <4>2 DEF InFile
      <4> QED BY <2>1, <3>1, <4>1, <4>3 DEF InFile
    <3>2. op[k].stage = "sync" => open' /\ written' /\ IsLogged(Last(segs'), k, LoggedValue(k))
      BY <1>p, <2>1 DEF Progress
    <3> QED BY <1>p, <2>1, <3>1, <3>2, ProgressFrame DEF cache
  <2> QED BY <2>2 DEF ProgressOK
<1>5. ASSUME SnapshotClears PROVE ProgressOK'
  <2>1. UNCHANGED <<live, tsm, tomb, writes, segs, open, written, op>> /\ snap' = Empty
    BY <1>5 DEF SnapshotClears, wal, files, history
  <2>2. ASSUME NEW k \in Keys PROVE Progress(k)'
    <3>1. snap'[k] = 0
      BY <2>1 DEF Empty
    <3>2. Unmarked(k)' <=> Unmarked(k)
      BY <2>1 DEF Unmarked, InFile, Hidden
    <3>3. LoggedValue(k)' = LoggedValue(k) /\ Last(segs)' = Last(segs)
      BY <2>1 DEF LoggedValue, Last
    <3> QED BY <1>p, <2>1, <3>1, <3>2, <3>3 DEF Progress
  <2> QED BY <2>2 DEF ProgressOK
<1>6. ASSUME SnapshotRemovesSegment PROVE ProgressOK'
  <2>1. UNCHANGED <<cache, tsm, tomb, writes, open, written, op>> /\ segs' = Tail(segs)
    BY <1>6 DEF SnapshotRemovesSegment, files, history
  <2>2. segs \in Seq(Seq(Entries)) /\ Len(segs) \in Nat /\ Len(segs) > 1
    BY <1>6 DEF EngineInv, LogOK, SnapshotOK, SnapshotRemovesSegment
  <2>3. Last(segs') = Last(segs)
    BY <2>1, <2>2 DEF Last
  <2>4. ASSUME NEW k \in Keys PROVE Progress(k)'
    BY <1>p, <2>1, <2>3, ProgressSame DEF Progress
  <2> QED BY <2>4 DEF ProgressOK
<1>7. ASSUME CompactRenames \/ CompactRemovesFile \/ CompactRemovesTombstone PROVE ProgressOK'
  <2>1. UNCHANGED <<cache, writes, segs, open, written, op>> /\ comp.stage # "idle"
    BY <1>7 DEF CompactRenames, CompactRemovesFile, CompactRemovesTombstone, wal, files, history
  <2>2. ASSUME NEW k \in Keys PROVE Progress(k)'
    <3>1. op[k].kind # "delete"
      BY <2>1 DEF EngineInv, CompOK
    <3>2. op[k].stage = "sync" => open' /\ written' /\ IsLogged(Last(segs'), k, LoggedValue(k))
      BY <1>p, <2>1 DEF Progress
    <3> QED BY <1>p, <2>1, <3>1, <3>2, ProgressFrame DEF cache
  <2> QED BY <2>2 DEF ProgressOK
<1>8. ASSUME Restart PROVE ProgressOK'
  <2>1. ASSUME NEW k \in Keys PROVE Progress(k)'
    BY <1>8, NoProgress DEF Restart
  <2> QED BY <2>1 DEF ProgressOK
<1>9. ASSUME SnapshotBegins PROVE ProgressOK'
  BY <1>9, SnapshotBeginsProgress DEF ProgressOK
<1> QED BY <1>1, <1>2, <1>3, <1>4, <1>5, <1>6, <1>7, <1>8, <1>9, ClientProgress DEF Next, Snapshot, Compaction

-----------------------------------------------------------------------------
(* What an operation that ends leaves behind *)

\* What a delete that no snapshot overlapped leaves behind its scan.
LEMMA DeletedViews ==
  ASSUME EngineInv, ProgressOK, NEW k \in Keys, op[k].kind = "delete", op[k].stage # "files", ~op[k].raced
  PROVE  snap[k] = 0 /\ FileValues(k) = {0}
<1>1. snap[k] = 0 /\ Unmarked(k)
  BY DEF ProgressOK, Progress
<1>2. ~FilesLocked
  BY DEF EngineInv, CompOK, FilesLocked
<1>3. \A n \in DOMAIN tsm : InFile(n, k) \in {0}
  BY <1>1 DEF Unmarked
<1>4. InFiles(DOMAIN tsm, k) \in {0}
  BY <1>3, InFilesWithin DEF EngineInv, FilesOK
<1> QED BY <1>1, <1>2, <1>4 DEF FileValues

\* What is logged for an operation that waits is loaded from the whole log.
LEMMA WaitingLoaded ==
  ASSUME EngineInv, ProgressOK, NEW k \in Keys, op[k].stage = "sync",
         \A i \in 1 .. Len(Last(segs)) : Last(segs)[i] # Hole
  PROVE  /\ Loaded(segs, Whole, k) = LoggedValue(k)
         /\ sw.stage # "idle" => Loaded(Kept, Whole, k) = LoggedValue(k)
<1>1. /\ segs \in Seq(Seq(Entries)) /\ segs # << >> /\ Whole = Len(Last(segs))
      /\ IsLogged(Last(segs), k, LoggedValue(k))
  BY DEF EngineInv, LogOK, ProgressOK, Progress, Whole
<1>2. PICK j \in 1 .. Len(Last(segs)) :
        /\ Last(segs)[j].key = k /\ Last(segs)[j].val = LoggedValue(k)
        /\ \A i \in 1 .. Len(Last(segs)) : i > j => Last(segs)[i].key # k
  BY <1>1 DEF IsLogged
<1>3. Loaded(segs, Whole, k) = LoggedValue(k)
  BY <1>1, <1>2, LastEntryLoaded
<1>4. ASSUME sw.stage # "idle" PROVE Loaded(Kept, Whole, k) = LoggedValue(k)
  <2>1. Kept \in Seq(Seq(Entries)) /\ Last(Kept) = Last(segs) /\ Kept # << >>
    BY <1>4, KeptOK
  <2>2. /\ j \in 1 .. Len(Last(Kept)) /\ \A i \in 1 .. Len(Last(Kept)) : Last(Kept)[i] # Hole
        /\ Last(Kept)[j].key = k /\ \A i \in 1 .. Len(Last(Kept)) : i > j => Last(Kept)[i].key # k
    BY <1>2, <2>1
  <2>3. Loaded(Kept, Len(Last(Kept)), k) = Last(Kept)[j].val
    BY <2>1, <2>2, LastEntryLoaded
  <2> QED BY <1>1, <1>2, <2>1, <2>3
<1> QED BY <1>3, <1>4

\* What an operation that ends leaves is its outcome.
LEMMA OutcomeViews ==
  ASSUME EngineInv, ProgressOK, VersionsOK, NEW k \in Keys
  PROVE  /\ op[k].stage = "sync" => Views(k, {Whole}, Outcome(k))
         /\ op[k].stage = "scan" /\ live[k] = 0 => Views(k, Cuts, Outcome(k))
<1>0. Progress(k) /\ op[k] \in Operations
  BY DEF ProgressOK, EngineInv, OpsOK
<1>a. ASSUME AnyVersion(k) \subseteq Outcome(k)
      PROVE  Views(k, Cuts, Outcome(k)) /\ Views(k, {Whole}, Outcome(k))
  <2>1. Views(k, Cuts, Outcome(k)) /\ Whole \in Cuts
    BY <1>a, VersionViews, WholeOK
  <2> QED BY <2>1 DEF Views, LogView, KeptView
<1>1. ASSUME op[k].stage = "sync", ~(AnyVersion(k) \subseteq Outcome(k)) PROVE Views(k, {Whole}, Outcome(k))
  <2>1. op[k].found /\ op[k].kind \in {"write", "delete"}
    BY <1>0, <1>1 DEF Progress, Operations
  <2>2. \A i \in 1 .. Len(Last(segs)) : Last(segs)[i] # Hole
    BY <1>1, <2>1 DEF Outcome
  <2>3. /\ Loaded(segs, Whole, k) = LoggedValue(k)
        /\ sw.stage # "idle" => Loaded(Kept, Whole, k) = LoggedValue(k)
    BY <1>1, <2>2, WaitingLoaded
  <2>4. CASE op[k].kind = "write"
    <3>1. Outcome(k) = {writes[k]} /\ LoggedValue(k) = writes[k] /\ live[k] = writes[k] /\ writes[k] # 0
      BY <1>0, <2>2, <2>4 DEF Outcome, LoggedValue, Progress
    <3> QED BY <2>3, <3>1 DEF Views, LogView, KeptView, CacheView, ClearedView, First, CacheValue
  <2>5. CASE op[k].kind = "delete"
    <3>1. ~op[k].raced
      BY <1>1, <2>2, <2>5 DEF Outcome
    <3>2. Outcome(k) = {0} /\ LoggedValue(k) = 0 /\ live[k] = 0
      BY <1>0, <1>1, <2>1, <2>2, <2>5, <3>1 DEF Outcome, LoggedValue, Progress
    <3>3. snap[k] = 0 /\ FileValues(k) = {0}
      BY <1>1, <2>5, <3>1, DeletedViews
    <3> QED BY <2>3, <3>2, <3>3 DEF Views, LogView, KeptView, CacheView, ClearedView, First, CacheValue, NextFile
  <2> QED BY <2>1, <2>4, <2>5
<1>2. ASSUME op[k].stage = "scan", live[k] = 0, ~(AnyVersion(k) \subseteq Outcome(k)) PROVE Views(k, Cuts, Outcome(k))
  <2>1. op[k].kind = "delete" /\ ~op[k].found
    BY <1>0, <1>2 DEF Progress, Operations
  <2>2. ~op[k].raced /\ ~LogHolds(k) /\ Outcome(k) = {0}
    BY <1>2, <2>1 DEF Outcome
  <2>3. snap[k] = 0 /\ FileValues(k) = {0}
    BY <1>2, <2>1, <2>2, DeletedViews
  <2>4. \A c \in Cuts : Loaded(segs, c, k) = 0
    BY <2>2 DEF LogHolds
  <2>5. ASSUME sw.stage # "idle", NEW c \in Cuts PROVE Loaded(Kept, c, k) = 0
    <3>1. segs \in Seq(Seq(Entries)) /\ sw.closed \in Nat /\ sw.closed < Len(segs) /\ c \in Nat
      BY <2>5, KeptOK, CutsOK DEF EngineInv
    <3>2. Loaded(Kept, c, k) = Loaded(segs, c, k) \/ Loaded(Kept, c, k) = 0
      BY <3>1, DroppedLog DEF Kept
    <3> QED BY <2>4, <3>2
  <2> QED BY <1>2, <2>2, <2>3, <2>4, <2>5
      DEF Views, LogView, KeptView, CacheView, ClearedView, First, CacheValue, NextFile
<1> QED BY <1>a, <1>1, <1>2

-----------------------------------------------------------------------------
(* The views: the steps of the clients *)

\* Steps that leave of a key what they found.
LEMMA StillViews ==
  ASSUME EngineInv, VersionsOK, NEW k \in Keys, NEW C, NEW A, Views(k, C, A), A \subseteq Acceptable(k)',
         Cuts' \subseteq C, UNCHANGED <<segs, sw, snap>>, live'[k] = live[k], FileValues(k)' \subseteq FileValues(k)
  PROVE  Views(k, Cuts, Acceptable(k))'
<1>1. FileValues(k) # {}
  BY FileValuesOK
<1>2. Kept' = Kept
  BY DEF Kept, Drop
<1>3. \A c \in Cuts' : \E d \in C :
           /\ \/ Loaded(segs', c, k) = Loaded(segs, d, k)
              \/ Loaded(segs', c, k) # 0 /\ Loaded(segs', c, k) \in Acceptable(k)'
           /\ sw.stage # "idle" =>
                \/ Loaded(Kept', c, k) = Loaded(Kept, d, k)
                \/ Loaded(Kept', c, k) # 0 /\ Loaded(Kept', c, k) \in Acceptable(k)'
  BY <1>2
<1> QED BY <1>1, <1>3, FrameViews

\* The files and the compaction are as before.
LEMMA SameFileValues ==
  ASSUME NEW k \in Keys, UNCHANGED <<tsm, tomb, comp>>, writes'[k] = writes[k]
  PROVE  FileValues(k)' = FileValues(k)
<1>1. \A n : Hidden(n, k)' <=> Hidden(n, k)
  BY DEF Hidden
<1>2. \A n : InFile(n, k)' = InFile(n, k)
  BY <1>1 DEF InFile
<1>3. InFiles(DOMAIN tsm, k)' = InFiles(DOMAIN tsm, k)
  BY <1>2 DEF InFiles
<1> QED BY <1>1, <1>3 DEF FileValues, FilesLocked, AnyVersion

\* The operation of the key, too.
LEMMA IdleViews ==
  ASSUME EngineInv, VersionsOK, ViewsOK, NEW k \in Keys, UNCHANGED <<wal, sw, snap, tsm, tomb, comp>>,
         live'[k] = live[k], writes'[k] = writes[k], op'[k] = op[k], allowed'[k] = allowed[k]
  PROVE  Views(k, Cuts, Acceptable(k))'
<1>1. Acceptable(k)' = Acceptable(k)
  BY DEF Acceptable, AnyVersion
<1>2. Cuts' = Cuts /\ segs' = segs
  BY DEF Cuts, wal, Last
<1>3. Views(k, Cuts, Acceptable(k)) /\ FileValues(k)' = FileValues(k)
  BY SameFileValues DEF ViewsOK
<1> QED BY <1>1, <1>2, <1>3, StillViews

\* What is acceptable for a key whose client deletes it.
LEMMA DeleteFree ==
  ASSUME EngineInv', VersionsOK', NEW k \in Keys, op'[k].kind = "delete"
  PROVE  Views(k, Cuts, Acceptable(k))'
<1>1. (AnyVersion(k) \subseteq Acceptable(k))'
  BY DEF Acceptable
<1> QED BY <1>1, FreeViewsNext

\* A write adds its version to what the files may show.
LEMMA WriteFileValues ==
  ASSUME EngineInv, NEW k \in Keys, WriteBegins(k)
  PROVE  FileValues(k)' \subseteq FileValues(k) \cup {writes'[k]}
<1>1. writes' = [writes EXCEPT ![k] = @ + 1] /\ UNCHANGED <<tsm, tomb, comp>>
  BY DEF WriteBegins, files
<1>2. writes \in [Keys -> Nat]
  BY ZeroIsValue DEF EngineInv, CacheOK
<1>3. writes'[k] = writes[k] + 1 /\ writes[k] \in Nat
  BY <1>1, <1>2
<1>4. AnyVersion(k)' \subseteq AnyVersion(k) \cup {writes'[k]}
  BY <1>3 DEF AnyVersion
<1>5. \A n : Hidden(n, k)' <=> Hidden(n, k)
  BY <1>1 DEF Hidden
<1>6. \A n : InFile(n, k)' = InFile(n, k)
  BY <1>1, <1>5 DEF InFile
<1>7. InFiles(DOMAIN tsm, k)' = InFiles(DOMAIN tsm, k)
  BY <1>1, <1>6 DEF InFiles
<1> QED BY <1>1, <1>4, <1>5, <1>7 DEF FileValues, FilesLocked

\* Marking a file does nothing to the other keys.
LEMMA MarkedFileValues ==
  ASSUME NEW k \in Keys, DeleteFromFile(k), NEW j \in Keys, j # k
  PROVE  FileValues(j)' = FileValues(j)
<1>1. PICK n \in op[k].todo :
        tomb' = [m \in DOMAIN tomb \cup {n} |->
                   IF m = n THEN {k} \cup (IF n \in DOMAIN tomb THEN tomb[n] ELSE {}) ELSE tomb[m]]
  BY DEF DeleteFromFile
<1>2. UNCHANGED <<tsm, comp, writes>>
  BY DEF DeleteFromFile, history
<1>3. \A m : Hidden(m, j)' <=> Hidden(m, j)
  BY <1>1 DEF Hidden
<1>4. \A m : InFile(m, j)' = InFile(m, j)
  BY <1>2, <1>3 DEF InFile
<1>5. InFiles(DOMAIN tsm, j)' = InFiles(DOMAIN tsm, j)
  BY <1>2, <1>4 DEF InFiles
<1> QED BY <1>2, <1>3, <1>5 DEF FileValues, FilesLocked, AnyVersion

\* The steps of a client, but for the log.
LEMMA ClientViews ==
  ASSUME EngineInv, ProgressOK, VersionsOK, ViewsOK, DOMAIN allowed = Keys, EngineInv', VersionsOK',
         NEW k \in Keys, Client(k), ~Log(k)
  PROVE  ViewsOK'
<1>0. /\ op \in [Keys -> Operations] /\ live \in [Keys -> Values] /\ writes \in [Keys -> Nat]
      /\ Progress(k) /\ Views(k, Cuts, Acceptable(k))
  BY ZeroIsValue DEF EngineInv, OpsOK, CacheOK, ProgressOK, ViewsOK
<1>o. ASSUME Views(k, Cuts, Acceptable(k))', UNCHANGED <<wal, sw, snap, tsm, tomb, comp>>,
             \A j \in Keys : j # k => /\ live'[j] = live[j] /\ writes'[j] = writes[j] /\ op'[j] = op[j]
                                      /\ allowed'[j] = allowed[j]
      PROVE  ViewsOK'
  BY <1>o, IdleViews DEF ViewsOK
<1>1. CASE WriteBegins(k)
  <2>w. PICK w : w = writes[k] + 1
    OBVIOUS
  <2>1. /\ writes' = [writes EXCEPT ![k] = @ + 1] /\ live' = [live EXCEPT ![k] = writes[k] + 1]
        /\ op' = [op EXCEPT ![k] = [NoOp EXCEPT !.kind = "write", !.stage = "log"]] /\ op[k].kind = "none"
        /\ UNCHANGED <<snap, wal, tsm, tomb, sw, comp, allowed>>
    BY <1>1 DEF WriteBegins, files
  <2>2. op'[k].kind = "write" /\ writes'[k] = w /\ live'[k] = w /\ w # 0 /\ w \in Nat
    BY <1>0, <2>1, <2>w DEF NoOp
  <2>3. Acceptable(k) = allowed[k] /\ Acceptable(k)' = allowed[k] \cup {w}
    BY <2>1, <2>2 DEF Acceptable
  <2>5. FileValues(k)' \subseteq FileValues(k) \cup {w}
    BY <1>1, <2>2, WriteFileValues
  <2>6. Cuts' = Cuts /\ segs' = segs /\ Kept' = Kept /\ sw' = sw /\ snap' = snap
    BY <2>1 DEF Cuts, wal, Last, Kept, Drop
  <2>7. FileValues(k) # {}
    BY FileValuesOK
  <2>8. \A c \in Cuts' : \E d \in Cuts :
           /\ Loaded(segs', c, k) = Loaded(segs, d, k)
           /\ sw.stage # "idle" => Loaded(Kept', c, k) = Loaded(Kept, d, k)
    BY <2>6
  <2>9. Views(k, Cuts, Acceptable(k))'
    BY <1>0, <2>2, <2>3, <2>5, <2>6, <2>7, <2>8, FrameViews
  <2> QED BY <1>0, <1>o, <2>1, <2>9
<1>2. CASE DeleteBegins(k)
  <2>1. op'[k].kind = "delete" /\ \A j \in Keys : j # k => op'[j] = op[j]
    BY <1>0, <1>2 DEF DeleteBegins, NoOp
  <2>2. UNCHANGED <<cache, wal, tsm, tomb, sw, comp, writes, allowed>>
    BY <1>2 DEF DeleteBegins, files
  <2>3. Views(k, Cuts, Acceptable(k))'
    BY <2>1, DeleteFree
  <2> QED BY <1>o, <2>1, <2>2, <2>3 DEF cache
<1>3. CASE DeleteFromFile(k)
  <2>1. PICK n \in op[k].todo :
          /\ tomb' = [m \in DOMAIN tomb \cup {n} |->
                        IF m = n THEN {k} \cup (IF n \in DOMAIN tomb THEN tomb[n] ELSE {}) ELSE tomb[m]]
          /\ op' = [op EXCEPT ![k].todo = @ \ {n}, ![k].stage = IF op[k].todo = {n} THEN "scan" ELSE @]
    BY <1>3 DEF DeleteFromFile
  <2>2. UNCHANGED <<cache, wal, tsm, sw, comp, writes, allowed>> /\ op[k].stage = "files"
    BY <1>3 DEF DeleteFromFile, history
  <2>3. op[k].kind = "delete" /\ op'[k].kind = op[k].kind
    <3>1. op[k].kind = "delete"
      BY <2>2 DEF EngineInv, OpsOK
    <3>2. op'[k].kind = op[k].kind
      BY <1>0, <2>1 DEF Operations
    <3> QED BY <3>1, <3>2
  <2>4. Views(k, Cuts, Acceptable(k))'
    BY <2>3, DeleteFree
  <2>5. ASSUME NEW j \in Keys, j # k PROVE Views(j, Cuts, Acceptable(j))'
    <3>4. FileValues(j)' = FileValues(j)
      BY <1>3, <2>5, MarkedFileValues
    <3>5. op'[j] = op[j]
      BY <1>0, <2>1, <2>5
    <3>6. Acceptable(j)' = Acceptable(j) /\ Cuts' = Cuts /\ segs' = segs
      BY <2>2, <3>5 DEF Acceptable, AnyVersion, Cuts, wal, Last
    <3> QED BY <2>2, <3>4, <3>6, StillViews DEF cache, ViewsOK
  <2> QED BY <2>4, <2>5 DEF ViewsOK
<1>4. CASE DeleteScans(k)
  <2>1. UNCHANGED <<cache, wal, tsm, tomb, writes, sw, comp>> /\ op[k].stage = "scan"
    BY <1>4 DEF DeleteScans, files
  <2>2. CASE live[k] # 0
    <3>1. op' = [op EXCEPT ![k].stage = "cache"] /\ allowed' = allowed
      BY <1>4, <2>2 DEF DeleteScans
    <3>2. op'[k].kind = op[k].kind /\ op[k].kind = "delete"
      BY <1>0, <2>1, <3>1 DEF Operations, Progress
    <3>3. Views(k, Cuts, Acceptable(k))'
      BY <3>2, DeleteFree
    <3> QED BY <1>0, <1>o, <2>1, <3>1, <3>3 DEF cache
  <2>3. CASE live[k] = 0
    <3>1. /\ op' = [j \in Keys |-> IF j \in {k} THEN NoOp ELSE op[j]]
          /\ allowed' = [j \in Keys |-> IF j \in {k} THEN Outcome(j) ELSE allowed[j]]
      BY <1>4, <2>3 DEF DeleteScans, Complete
    <3>2. Acceptable(k)' = Outcome(k)
      BY <3>1 DEF Acceptable, NoOp
    <3>3. Views(k, Cuts, Outcome(k))
      BY <2>1, <2>3, OutcomeViews
    <3>4. FileValues(k)' = FileValues(k) /\ Cuts' = Cuts /\ segs' = segs
      BY <2>1, SameFileValues DEF Cuts, wal, Last
    <3>5. Views(k, Cuts, Acceptable(k))'
      BY <2>1, <3>2, <3>3, <3>4, StillViews DEF cache
    <3>6. \A j \in Keys : j # k => op'[j] = op[j] /\ allowed'[j] = allowed[j]
      BY <3>1
    <3> QED BY <1>o, <2>1, <3>5, <3>6 DEF cache
  <2> QED BY <2>2, <2>3
<1>5. CASE DeleteFromCache(k)
  <2>1. /\ UNCHANGED <<snap, wal, tsm, tomb, writes, allowed, sw, comp>> /\ op[k].stage = "cache"
        /\ live' = [live EXCEPT ![k] = 0] /\ op' = [op EXCEPT ![k].stage = "log"]
    BY <1>5 DEF DeleteFromCache, files, history
  <2>2. op'[k].kind = op[k].kind /\ op[k].kind = "delete"
    BY <1>0, <2>1 DEF Operations, Progress
  <2>3. Views(k, Cuts, Acceptable(k))'
    BY <2>2, DeleteFree
  <2> QED BY <1>0, <1>o, <2>1, <2>3
<1>6. CASE OpFails(k)
  <2>1. /\ UNCHANGED <<cache, wal, tsm, tomb, writes, sw, comp>> /\ op' = [op EXCEPT ![k] = NoOp]
        /\ allowed' = [allowed EXCEPT ![k] = Acceptable(k)]
    BY <1>6 DEF OpFails, files
  <2>2. op'[k] = NoOp /\ \A j \in Keys : j # k => op'[j] = op[j] /\ allowed'[j] = allowed[j]
    BY <1>0, <2>1
  <2>3. Acceptable(k) \subseteq Acceptable(k)'
    BY <2>1, <2>2 DEF Acceptable
  <2>4. FileValues(k)' = FileValues(k) /\ Cuts' = Cuts /\ segs' = segs
    BY <2>1, SameFileValues DEF Cuts, wal, Last
  <2>5. Views(k, Cuts, Acceptable(k))'
    BY <1>0, <2>1, <2>3, <2>4, StillViews DEF cache
  <2> QED BY <1>o, <2>1, <2>2, <2>5 DEF cache
<1>7. CASE ReadCache(k)
  BY <1>7, IdleViews DEF ReadCache, files, history, cache, ViewsOK
<1> QED BY <1>1, <1>2, <1>3, <1>4, <1>5, <1>6, <1>7 DEF Client

-----------------------------------------------------------------------------
(* The views: the log *)

\* What has become of the operations of the other keys when an entry of k is logged.
LEMMA LogOps ==
  ASSUME EngineInv, NEW k \in Keys, Log(k)
  PROVE  /\ op'[k].kind = op[k].kind /\ allowed'[k] = allowed[k]
         /\ \A j \in Keys : j # k =>
              \/ op'[j] = op[j] /\ allowed'[j] = allowed[j]
              \/ /\ op[j].stage = "sync" /\ LogEntryInNewSegment(k, Entry(k))
                 /\ op'[j] = NoOp /\ allowed'[j] = Outcome(j)
<1>0. op \in [Keys -> Operations] /\ op[k].stage = "log"
  BY DEF EngineInv, OpsOK, Log
<1>e. PICK e : e = Entry(k)
  OBVIOUS
<1>1. LogEntry(k, e) \/ LogEntryInNewSegment(k, e)
  BY <1>e DEF Log, Entry, LoggedValue
<1>2. CASE LogEntry(k, e)
  <2>1. op' = [op EXCEPT ![k].stage = "sync", ![k].found = TRUE] /\ allowed' = allowed
    BY <1>2 DEF LogEntry
  <2> QED BY <1>0, <2>1 DEF Operations
<1>3. CASE LogEntryInNewSegment(k, e)
  <2>1. /\ op' = [j \in Keys |-> IF j = k THEN [op[k] EXCEPT !.stage = "sync", !.found = TRUE]
                                 ELSE IF j \in Waiting THEN NoOp ELSE op[j]]
        /\ allowed' = [j \in Keys |-> IF j \in Waiting THEN Outcome(j) ELSE allowed[j]]
    BY <1>3 DEF LogEntryInNewSegment
  <2>2. k \notin Waiting /\ \A j \in Keys : j \in Waiting <=> op[j].stage = "sync"
    BY <1>0 DEF Waiting
  <2>3. op'[k].kind = op[k].kind /\ allowed'[k] = allowed[k]
    BY <1>0, <2>1, <2>2 DEF Operations
  <2> QED BY <1>3, <1>e, <2>1, <2>2, <2>3
<1> QED BY <1>1, <1>2, <1>3

\* What the whole log shows, some cut shows.
LEMMA WholeLoads ==
  ASSUME EngineInv, NEW j, NEW k, NEW v, LoadsFrom(j, {Whole}, k, v) PROVE LoadsFrom(j, Cuts, k, v)
  BY WholeOK DEF LoadsFrom

\* The views of a key after a step that adds to the log what LoadsFrom says.
LEMMA LoadedViews ==
  ASSUME EngineInv, VersionsOK, NEW j \in Keys, NEW C, NEW A, Views(j, C, A), A \subseteq Acceptable(j)',
         UNCHANGED <<cache, tsm, tomb, comp, writes, sw>>, NEW k, NEW v, LoadsFrom(j, C, k, v),
         j = k => v # 0 /\ v \in Acceptable(j)'
  PROVE  Views(j, Cuts, Acceptable(j))'
<1>1. FileValues(j) # {} /\ FileValues(j)' = FileValues(j)
  BY FileValuesOK, SameFileValues
<1>2. \A c \in Cuts' : \E d \in C :
           /\ \/ Loaded(segs', c, j) = Loaded(segs, d, j)
              \/ Loaded(segs', c, j) # 0 /\ Loaded(segs', c, j) \in Acceptable(j)'
           /\ sw.stage # "idle" =>
                \/ Loaded(Kept', c, j) = Loaded(Kept, d, j)
                \/ Loaded(Kept', c, j) # 0 /\ Loaded(Kept', c, j) \in Acceptable(j)'
  BY DEF LoadsFrom
<1> QED BY <1>1, <1>2, FrameViews DEF cache

\* An entry of a write is acceptable from when the write began; the deletes and writes that a
\* new segment answers have their outcome.
LEMMA LogViews ==
  ASSUME EngineInv, ProgressOK, VersionsOK, ViewsOK, EngineInv', VersionsOK', NEW k \in Keys, Log(k)
  PROVE  ViewsOK'
<1>0. op \in [Keys -> Operations] /\ op[k].stage = "log" /\ Progress(k)
  BY DEF EngineInv, OpsOK, Log, ProgressOK
<1>e. PICK e, v : e = Entry(k) /\ v = LoggedValue(k)
  OBVIOUS
<1>1. UNCHANGED <<cache, tsm, tomb, comp, writes, sw>>
  BY DEF Log, files
<1>2. e \in Entries /\ e.key = k /\ e.val = v
  BY <1>e, EntryIs
<1>3. LogOK' /\ sw' = sw
  BY <1>1 DEF EngineInv
<1>4. ASSUME NEW j \in Keys
      PROVE  /\ LoadsFrom(j, Cuts, k, v)
             /\ LogEntryInNewSegment(k, e) => LoadsFrom(j, {Whole}, k, v)
  <2>1. ASSUME Appends(segs, segs', <<e>>) PROVE LoadsFrom(j, {Whole}, k, v)
    <3>0. <<e>> \in Seq(Entries)
      BY <1>2
    <3>1. PICK x \in Seq(Entries) : x = <<e>>
      BY <3>0, Zenon
    <3>2. \A i \in 1 .. Len(x) : x[i].key = k /\ x[i].val = v
      BY <1>2, <3>1
    <3> QED BY <1>3, <2>1, <3>1, <3>2, AppendLoads
  <2>2. ASSUME open, open', synced' = synced, NEW x \in {<<e>>, <<Hole, e>>}, Extends(segs, segs', x)
        PROVE  LoadsFrom(j, Cuts, k, v)
    <3>1. LoadsFrom(j, Cuts, e.key, e.val)
      BY <1>2, <1>3, <2>2, ExtendLoads
    <3> QED BY <1>2, <3>1
  <2>3. LoadsFrom(j, Cuts, k, v)
    BY <1>e, <2>1, <2>2, LogShape, WholeLoads
  <2>4. ASSUME LogEntryInNewSegment(k, e) PROVE Appends(segs, segs', <<e>>)
    <3>1. segs' = Append(segs, <<e>>) /\ segs \in Seq(Seq(Entries)) /\ <<e>> \in Seq(Entries)
      BY <1>2, <2>4 DEF LogEntryInNewSegment, EngineInv, LogOK
    <3> QED BY <3>1 DEF Appends
  <2> QED BY <2>1, <2>3, <2>4
<1>5. Views(k, Cuts, Acceptable(k))'
  <2>1. op'[k].kind = op[k].kind /\ allowed'[k] = allowed[k]
    BY LogOps
  <2>2. CASE op[k].kind = "delete"
    BY <2>1, <2>2, DeleteFree
  <2>3. CASE op[k].kind = "write"
    <3>1. Acceptable(k)' = Acceptable(k) /\ writes[k] \in Acceptable(k)'
      BY <1>1, <2>1, <2>3 DEF Acceptable
    <3>2. v = writes[k] /\ v # 0
      BY <1>0, <1>e, <2>3 DEF LoggedValue, Progress
    <3>3. Views(k, Cuts, Acceptable(k)) /\ LoadsFrom(k, Cuts, k, v)
      BY <1>4 DEF ViewsOK
    <3> QED BY <1>1, <3>1, <3>2, <3>3, LoadedViews
  <2> QED BY <1>0, <2>2, <2>3 DEF Progress, Operations
<1>6. ASSUME NEW j \in Keys, j # k PROVE Views(j, Cuts, Acceptable(j))'
  <2>1. CASE op'[j] = op[j] /\ allowed'[j] = allowed[j]
    <3>1. Acceptable(j)' = Acceptable(j)
      BY <1>1, <2>1 DEF Acceptable, AnyVersion
    <3>2. Views(j, Cuts, Acceptable(j)) /\ LoadsFrom(j, Cuts, k, v)
      BY <1>4 DEF ViewsOK
    <3> QED BY <1>1, <1>6, <3>1, <3>2, LoadedViews
  <2>2. CASE /\ op[j].stage = "sync" /\ LogEntryInNewSegment(k, e)
             /\ op'[j] = NoOp /\ allowed'[j] = Outcome(j)
    <3>1. Acceptable(j)' = Outcome(j)
      BY <2>2 DEF Acceptable, NoOp
    <3>2. Views(j, {Whole}, Outcome(j)) /\ LoadsFrom(j, {Whole}, k, v)
      BY <1>4, <2>2, OutcomeViews
    <3> QED BY <1>1, <1>6, <3>1, <3>2, LoadedViews
  <2> QED BY <1>e, <1>6, <2>1, <2>2, LogOps
<1> QED BY <1>5, <1>6 DEF ViewsOK

\* The entries that were waited for are on disk.
LEMMA SyncViews ==
  ASSUME EngineInv, ProgressOK, VersionsOK, ViewsOK, Sync PROVE ViewsOK'
<1>1. /\ UNCHANGED <<cache, segs, open, tsm, tomb, comp, writes, sw>> /\ Waiting # {}
      /\ synced' = Len(Last(segs))
      /\ op' = [k \in Keys |-> IF k \in Waiting THEN NoOp ELSE op[k]]
      /\ allowed' = [k \in Keys |-> IF k \in Waiting THEN Outcome(k) ELSE allowed[k]]
  BY DEF Sync, Complete, files
<1>2. open /\ segs # << >>
  BY <1>1 DEF Waiting, ProgressOK, Progress, EngineInv, LogOK
<1>3. Cuts' = {Whole} /\ Whole \in Cuts
  <2>1. Cuts' = Len(Last(segs)) .. Len(Last(segs)) /\ Whole = Len(Last(segs))
    BY <1>1, <1>2 DEF Cuts, Last, Whole
  <2>2. Whole \in Cuts /\ Whole \in Nat
    BY WholeOK
  <2> QED BY <2>1, <2>2
<1>4. ASSUME NEW k \in Keys PROVE Views(k, Cuts, Acceptable(k))'
  <2>1. FileValues(k)' = FileValues(k)
    BY <1>1, SameFileValues
  <2>2. CASE k \in Waiting
    <3>1. Acceptable(k)' = Outcome(k)
      BY <1>1, <2>2 DEF Acceptable, NoOp
    <3>2. Views(k, {Whole}, Outcome(k))
      BY <2>2, OutcomeViews DEF Waiting
    <3> QED BY <1>1, <1>3, <2>1, <3>1, <3>2, StillViews DEF cache
  <2>3. CASE k \notin Waiting
    <3>1. Acceptable(k)' = Acceptable(k)
      BY <1>1, <2>3 DEF Acceptable, AnyVersion
    <3>2. Views(k, Cuts, Acceptable(k))
      BY DEF ViewsOK
    <3> QED BY <1>1, <1>3, <2>1, <3>1, <3>2, StillViews DEF cache
  <2> QED BY <2>2, <2>3
<1> QED BY <1>4 DEF ViewsOK

\* A segment is closed: an empty one follows it.
LEMMA WithoutEffectViews ==
  ASSUME EngineInv, ProgressOK, VersionsOK, ViewsOK, EngineInv', SnapshotWithoutEffect PROVE ViewsOK'
<1>1. /\ UNCHANGED <<cache, tsm, tomb, comp, writes, sw>> /\ CloseSegment /\ SegmentCloses
      /\ op' = [k \in Keys |-> IF k \in Waiting THEN NoOp ELSE op[k]]
      /\ allowed' = [k \in Keys |-> IF k \in Waiting THEN Outcome(k) ELSE allowed[k]]
  BY DEF SnapshotWithoutEffect, Complete, files, Answered
<1>2. ASSUME NEW k \in Keys PROVE k # "hole" /\ LoadsFrom(k, {Whole}, "hole", 0) /\ LoadsFrom(k, Cuts, "hole", 0)
  <2>1. Appends(segs, segs', << >>)
    BY <1>1, CloseShape
  <2>0. << >> \in Seq(Entries)
    OBVIOUS
  <2>2. PICK x \in Seq(Entries) : x = << >>
    BY <2>0, Zenon
  <2>3. \A i \in 1 .. Len(x) : x[i].key = "hole" /\ x[i].val = 0
    BY <2>2
  <2>4. LoadsFrom(k, {Whole}, "hole", 0)
    BY <1>1, <2>1, <2>2, <2>3, AppendLoads DEF EngineInv
  <2> QED BY <2>4, WholeLoads, KeysAssumption
<1>3. ASSUME NEW k \in Keys PROVE Views(k, Cuts, Acceptable(k))'
  <2>2. CASE k \in Waiting
    <3>1. Acceptable(k)' = Outcome(k)
      BY <1>1, <2>2 DEF Acceptable, NoOp
    <3>2. Views(k, {Whole}, Outcome(k))
      BY <2>2, OutcomeViews DEF Waiting
    <3> QED BY <1>1, <1>2, <3>1, <3>2, LoadedViews
  <2>3. CASE k \notin Waiting
    <3>1. Acceptable(k)' = Acceptable(k)
      BY <1>1, <2>3 DEF Acceptable, AnyVersion
    <3>2. Views(k, Cuts, Acceptable(k))
      BY DEF ViewsOK
    <3> QED BY <1>1, <1>2, <3>1, <3>2, LoadedViews
  <2> QED BY <2>2, <2>3
<1> QED BY <1>3 DEF ViewsOK

-----------------------------------------------------------------------------
(* The views: the snapshot *)

\* What a segment less loads: the same, or nothing.
LEMMA FewerLoaded ==
  ASSUME NEW ss \in Seq(Seq(Entries)), NEW m \in Nat, m < Len(ss), NEW c \in Nat, NEW k
  PROVE  Loaded(Drop(ss, m), c, k) \in {Loaded(ss, c, k), 0}
  BY DroppedLog

\* The live store becomes the snapshot, and only the segments after it are to stay.
LEMMA SnapshotBeginsViews ==
  ASSUME EngineInv, ProgressOK, VersionsOK, ViewsOK, EngineInv', VersionsOK', SnapshotBegins PROVE ViewsOK'
<1>1. /\ UNCHANGED <<tsm, tomb, comp, writes>> /\ CloseSegment /\ sw.stage = "idle"
      /\ sw' = [Idle EXCEPT !.stage = "write", !.closed = ClosedSegments]
      /\ snap # Empty => snap' = snap /\ live' = live
      /\ snap = Empty => snap' = live /\ live' = Empty
  BY DEF SnapshotBegins, files
<1>2. sw'.stage = "write"
  BY <1>1 DEF Idle
<1>3. /\ segs \in Seq(Seq(Entries)) /\ segs' \in Seq(Seq(Entries)) /\ LogOK'
      /\ sw'.closed \in Nat /\ sw'.closed < Len(segs') /\ Kept' = Drop(segs', sw'.closed)
  <2>1. sw'.closed \in Nat /\ sw'.closed < Len(segs')
    BY <1>2 DEF EngineInv, SnapshotOK
  <2>2. Kept' = Drop(segs', sw'.closed)
    BY DEF Kept, Drop
  <2> QED BY <2>1, <2>2 DEF EngineInv, LogOK
<1>4. ASSUME NEW k \in Keys PROVE Views(k, Cuts, Acceptable(k))'
  <2>1. allowed'[k] = (IF k \in Answered THEN Outcome(k) ELSE allowed[k])
                        \cup (IF snap # Empty /\ k \in {j \in Keys : live[j] # 0} THEN AnyVersion(k) ELSE {})
    BY DEF SnapshotBegins
  <2>2. CASE snap # Empty /\ live[k] # 0
    <3>1. (AnyVersion(k) \subseteq Acceptable(k))'
      BY <1>1, <2>1, <2>2 DEF Acceptable, AnyVersion
    <3> QED BY <3>1, FreeViewsNext
  <2>3. CASE ~(snap # Empty /\ live[k] # 0)
    <3>1. PICK C, A : /\ Views(k, C, A) /\ A \subseteq Acceptable(k)' /\ C # {}
                      /\ \A c \in Cuts' : c \in Nat /\ \E d \in C : Loaded(segs', c, k) = Loaded(segs, d, k)
      <4>n. \A c \in Cuts' : c \in Nat
        BY <1>3, CutsOKNext
      <4>1. ASSUME SegmentCloses, NEW c \in Cuts' PROVE Loaded(segs', c, k) = Loaded(segs, Whole, k)
        <5>1. Appends(segs, segs', << >>)
          BY <1>1, <4>1, CloseShape
        <5>0. << >> \in Seq(Entries)
          OBVIOUS
        <5>2. PICK x \in Seq(Entries) : x = << >>
          BY <5>0, Zenon
        <5>3. Whole \in Nat /\ (segs # << >> => Whole = Len(Last(segs)))
          BY WholeOK DEF Whole
        <5>4. \/ Loaded(segs', c, k) = Loaded(segs, Whole, k)
              \/ \E j \in 1 .. Len(x) : x[j].key = k /\ Loaded(segs', c, k) = x[j].val
          <6>1. Appends(segs, segs', x) /\ c \in Nat
            BY <4>n, <4>1, <5>1, <5>2
          <6> QED BY <1>3, <5>3, <6>1, AppendedLog
        <5> QED BY <5>2, <5>4
      <4>2. CASE k \in Answered
        <5>1. SegmentCloses /\ op[k].stage = "sync"
          BY <4>2 DEF Answered, Waiting
        <5>2. Views(k, {Whole}, Outcome(k)) /\ Outcome(k) \subseteq Acceptable(k)'
          BY <2>1, <4>2, <5>1, OutcomeViews DEF Acceptable
        <5> QED BY <4>1, <4>n, <5>1, <5>2
      <4>3. CASE k \notin Answered
        <5>1. op'[k].kind = op[k].kind /\ allowed[k] \subseteq allowed'[k]
          BY <2>1, <4>3, SnapshotOps
        <5>2. Acceptable(k) \subseteq Acceptable(k)'
          BY <1>1, <5>1 DEF Acceptable, AnyVersion
        <5>3. Views(k, Cuts, Acceptable(k)) /\ Whole \in Cuts
          BY WholeOK DEF ViewsOK
        <5>4. ~SegmentCloses => segs' = segs /\ Cuts' = Cuts
          BY <1>1, CloseShape
        <5> QED BY <4>1, <4>n, <5>2, <5>3, <5>4
      <4> QED BY <4>2, <4>3
    <3>2. FileValues(k)' = FileValues(k)
      BY <1>1, SameFileValues
    <3>3. CacheValue(k)' = CacheValue(k) /\ snap'[k] = CacheValue(k)
      BY <1>1, <2>3 DEF CacheValue, Empty
    <3>4. ASSUME NEW f \in FileValues(k)
          PROVE  /\ \A d \in C : First(Loaded(segs, d, k), f) \in A
                 /\ First(CacheValue(k), f) \in A
      BY <3>1 DEF Views, LogView, CacheView
    <3>5. ASSUME NEW f \in FileValues(k), NEW c \in Cuts'
          PROVE  First(Loaded(segs', c, k), f) \in A /\ First(Loaded(Kept', c, k), First(snap'[k], f)) \in A
      <4>1. First(Loaded(segs', c, k), f) \in A
        BY <3>1, <3>4
      <4>2. Loaded(Kept', c, k) \in {Loaded(segs', c, k), 0}
        BY <1>3, <3>1, FewerLoaded
      <4> QED BY <3>3, <3>4, <4>1, <4>2 DEF First
    <3>6. \A f : NextFile(k, f)' = First(snap'[k], f)
      BY <1>2 DEF NextFile, First
    <3>b. PICK B : B = Acceptable(k)' /\ A \subseteq B
      BY <3>1
    <3>7. ASSUME NEW f \in FileValues(k)'
          PROVE  (LogView(k, f, Cuts, Acceptable(k)) /\ KeptView(k, f, Cuts, Acceptable(k))
                  /\ CacheView(k, f, Acceptable(k)) /\ ClearedView(k, f, Acceptable(k)))'
      <4>1. \A c \in Cuts' : First(Loaded(segs', c, k), f) \in B /\ First(Loaded(Kept', c, k), NextFile(k, f)') \in B
        BY <3>2, <3>5, <3>6, <3>b
      <4>2. First(CacheValue(k)', f) \in B
        BY <3>2, <3>3, <3>4, <3>b
      <4> QED BY <1>2, <3>b, <4>1, <4>2 DEF LogView, KeptView, CacheView, ClearedView, First
    <3> QED BY <3>7 DEF Views
  <2> QED BY <2>2, <2>3
<1> QED BY <1>4 DEF ViewsOK

\* Steps of a snapshot that leave the cache, the log and the files alone.
LEMMA StageViews ==
  ASSUME EngineInv, VersionsOK, ViewsOK, SnapshotWritten \/ SnapshotFails PROVE ViewsOK'
<1>1. /\ UNCHANGED <<cache, wal, tsm, tomb, comp, writes, op, allowed>>
      /\ \/ sw'.stage = "idle"
         \/ sw.stage = "write" /\ sw'.stage = "replace" /\ sw'.closed = sw.closed
  <2>1. sw \in [stage : {"idle", "write", "replace", "clear", "remove"}, closed : Nat, name : Nat \X Nat]
    BY DEF EngineInv, SnapshotOK
  <2>2. CASE SnapshotWritten
    BY <2>1, <2>2 DEF SnapshotWritten, history
  <2>3. CASE SnapshotFails
    BY <2>3 DEF SnapshotFails, history, files, Idle
  <2> QED BY <2>2, <2>3
<1>2. ASSUME NEW k \in Keys PROVE Views(k, Cuts, Acceptable(k))'
  <2>1. Acceptable(k)' = Acceptable(k) /\ Cuts' = Cuts /\ segs' = segs /\ CacheValue(k)' = CacheValue(k)
        /\ live' = live /\ snap' = snap
    BY <1>1 DEF Acceptable, AnyVersion, Cuts, wal, Last, CacheValue, cache
  <2>2. FileValues(k)' = FileValues(k)
    BY <1>1, SameFileValues
  <2>3. sw'.stage # "idle" => Kept' = Kept /\ \A f : NextFile(k, f)' = NextFile(k, f)
    BY <1>1, <2>1 DEF Kept, Drop, NextFile, First
  <2>4. ASSUME NEW f \in FileValues(k)'
        PROVE  (LogView(k, f, Cuts, Acceptable(k)) /\ KeptView(k, f, Cuts, Acceptable(k))
                /\ CacheView(k, f, Acceptable(k)) /\ ClearedView(k, f, Acceptable(k)))'
    <3>1. /\ LogView(k, f, Cuts, Acceptable(k)) /\ KeptView(k, f, Cuts, Acceptable(k))
          /\ CacheView(k, f, Acceptable(k))
      BY <2>2 DEF ViewsOK, Views
    <3>2. LogView(k, f, Cuts, Acceptable(k))' /\ CacheView(k, f, Acceptable(k))'
      BY <2>1, <3>1 DEF LogView, CacheView, First
    <3>3. KeptView(k, f, Cuts, Acceptable(k))'
      BY <1>1, <2>1, <2>3, <3>1 DEF KeptView, First
    <3>4. ClearedView(k, f, Acceptable(k))'
      BY <1>1 DEF ClearedView
    <3> QED BY <3>2, <3>3, <3>4
  <2> QED BY <2>4 DEF Views
<1> QED BY <1>2 DEF ViewsOK

\* The snapshot leaves the cache.
LEMMA ClearsViews ==
  ASSUME EngineInv, VersionsOK, ViewsOK, SnapshotClears PROVE ViewsOK'
<1>1. /\ UNCHANGED <<live, wal, tsm, tomb, comp, writes, op, allowed>> /\ snap' = Empty /\ sw.stage = "clear"
      /\ \/ sw'.stage = "idle"
         \/ sw'.stage = "remove" /\ sw'.closed = sw.closed
  <2>1. sw \in [stage : {"idle", "write", "replace", "clear", "remove"}, closed : Nat, name : Nat \X Nat]
    BY DEF EngineInv, SnapshotOK
  <2>2. sw' = IF sw.closed = 0 THEN Idle ELSE [sw EXCEPT !.stage = "remove"]
    BY DEF SnapshotClears
  <2>3. sw'.stage = "idle" \/ (sw'.stage = "remove" /\ sw'.closed = sw.closed)
    BY <2>1, <2>2 DEF Idle
  <2> QED BY <2>3 DEF SnapshotClears, files, history
<1>2. ASSUME NEW k \in Keys PROVE Views(k, Cuts, Acceptable(k))'
  <2>1. Acceptable(k)' = Acceptable(k) /\ Cuts' = Cuts /\ segs' = segs /\ live' = live
    BY <1>1 DEF Acceptable, AnyVersion, Cuts, wal, Last
  <2>2. FileValues(k)' = FileValues(k)
    BY <1>1, SameFileValues
  <2>3. sw'.stage # "idle" => Kept' = Kept
    BY <1>1, <2>1 DEF Kept, Drop
  <2>4. \A f : NextFile(k, f)' = f /\ NextFile(k, f) = f
    BY <1>1 DEF NextFile
  <2>5. CacheValue(k)' = live[k]
    BY <1>1 DEF CacheValue, Empty
  <2>6. ASSUME NEW f \in FileValues(k)'
        PROVE  (LogView(k, f, Cuts, Acceptable(k)) /\ KeptView(k, f, Cuts, Acceptable(k))
                /\ CacheView(k, f, Acceptable(k)) /\ ClearedView(k, f, Acceptable(k)))'
    <3>1. /\ LogView(k, f, Cuts, Acceptable(k)) /\ KeptView(k, f, Cuts, Acceptable(k))
          /\ ClearedView(k, f, Acceptable(k))
      BY <2>2 DEF ViewsOK, Views
    <3>2. LogView(k, f, Cuts, Acceptable(k))'
      BY <2>1, <3>1 DEF LogView, First
    <3>3. KeptView(k, f, Cuts, Acceptable(k))'
      BY <1>1, <2>1, <2>3, <2>4, <3>1 DEF KeptView, First
    <3>4. ClearedView(k, f, Acceptable(k))'
      BY <1>1 DEF ClearedView
    <3>5. CacheView(k, f, Acceptable(k))'
      BY <1>1, <2>1, <2>5, <3>1 DEF CacheView, ClearedView, First
    <3> QED BY <3>2, <3>3, <3>4, <3>5
  <2> QED BY <2>6 DEF Views
<1> QED BY <1>2 DEF ViewsOK

-----------------------------------------------------------------------------
(* The views: the file of the snapshot and its segments *)

\* What the files say once the file of the snapshot is one of them.
LEMMA ReplacedFiles ==
  ASSUME EngineInv, SnapshotReplaces, NEW k \in Keys, ~Hidden(sw.name, k)
  PROVE  InFiles(DOMAIN tsm, k)' = First(snap[k], InFiles(DOMAIN tsm, k))
<1>n. PICK new : new = sw.name
  OBVIOUS
<1>D. PICK D : D = DOMAIN tsm
  OBVIOUS
<1>1. /\ tsm' = [n \in D \cup {new} |-> IF n = new THEN snap ELSE tsm[n]]
      /\ tomb' = tomb /\ sw.stage = "replace"
  BY <1>n, <1>D DEF SnapshotReplaces
<1>2. /\ new = <<gen, 1>> /\ new \in Names /\ D \subseteq Names /\ \A n \in D : n[1] < gen
      /\ gen \in Nat /\ D \subseteq Nat \X Nat
  BY <1>1, <1>n, <1>D, NamesOK DEF EngineInv, SnapshotOK, FilesOK
<1>3. \A n \in D : After(new, n) /\ n # new
  <2>1. ASSUME NEW n \in D PROVE After(new, n) /\ n # new
    <3>1. n[1] < gen /\ n[1] \in Nat /\ new[1] = gen
      BY <1>2
    <3> QED BY <1>2, <3>1 DEF After
  <2> QED BY <2>1
<1>E. PICK E : E = D \cup {new}
  OBVIOUS
<1>f. PICK f : f = [n \in D |-> InFile(n, k)]
  OBVIOUS
<1>g. PICK g : g = [n \in E |-> IF n = new THEN snap[k] ELSE f[n]]
  OBVIOUS
<1>4. DOMAIN tsm' = E /\ E \subseteq Names /\ \A n \in E : InFile(n, k)' = g[n]
  <2>1. \A n : Hidden(n, k)' <=> Hidden(n, k)
    BY <1>1 DEF Hidden
  <2>2. InFile(new, k)' = snap[k]
    BY <1>1, <1>n, <2>1 DEF InFile
  <2>3. \A n \in D : InFile(n, k)' = InFile(n, k)
    BY <1>1, <1>3, <2>1 DEF InFile
  <2> QED BY <1>1, <1>2, <1>3, <1>E, <1>f, <1>g, <2>2, <2>3
<1>5. InFiles(DOMAIN tsm, k) = Best(D, f)
  BY <1>2, <1>D, <1>f, InFilesBest
<1>6. InFiles(DOMAIN tsm, k)' = Best(E, g)
  <2>1. InFiles(E, k)' = Best(E, g)
    BY <1>4, InFilesBest
  <2> QED BY <1>4, <2>1 DEF InFiles
<1>7. CASE snap[k] # 0
  <2>1. Wins(new, E, g) /\ g[new] = snap[k]
    BY <1>3, <1>7, <1>E, <1>g DEF Wins
  <2> QED BY <1>4, <1>6, <1>7, <2>1, BestIs DEF First
<1>8. CASE snap[k] = 0
  <2>1. (\A n \in D : f[n] = 0) => \A n \in E : g[n] = 0
    BY <1>8, <1>E, <1>g
  <2>2. \A v : Wins(v, D, f) => Wins(v, E, g) /\ g[v] = f[v]
    BY <1>3, <1>8, <1>E, <1>g DEF Wins
  <2>3. SameWinner(D, f, E, g)
    BY <2>1, <2>2 DEF SameWinner
  <2>4. Best(D, f) = Best(E, g)
    BY <1>2, <1>4, <2>3, SameBest
  <2> QED BY <1>5, <1>6, <1>8, <2>4 DEF First
<1> QED BY <1>7, <1>8

\* So for the values that they may show.
LEMMA ReplacedFileValues ==
  ASSUME EngineInv, SnapshotReplaces, NEW k \in Keys, ~Hidden(sw.name, k)
  PROVE  /\ FileValues(k) = {InFiles(DOMAIN tsm, k)}
         /\ FileValues(k)' = {First(snap[k], InFiles(DOMAIN tsm, k))}
<1>1. comp' = comp /\ ~FilesLocked
  BY DEF SnapshotReplaces
<1> QED BY <1>1, ReplacedFiles DEF FileValues, FilesLocked

\* The file takes over from the snapshot.
LEMMA ReplacesViews ==
  ASSUME EngineInv, VersionsOK, ViewsOK, EngineInv', VersionsOK', SnapshotReplaces PROVE ViewsOK'
<1>1. /\ UNCHANGED <<cache, wal, tomb, comp, writes, op>> /\ sw.stage = "replace" /\ ~FilesLocked
      /\ allowed' = [k \in Keys |-> IF Hidden(sw.name, k) THEN AnyVersion(k) ELSE allowed[k]]
  BY DEF SnapshotReplaces
<1>2. sw'.stage = "clear" /\ sw'.closed = sw.closed
  BY DEF SnapshotReplaces, EngineInv, SnapshotOK
<1>3. ASSUME NEW k \in Keys PROVE Views(k, Cuts, Acceptable(k))'
  <2>1. CASE Hidden(sw.name, k)
    <3>1. (AnyVersion(k) \subseteq Acceptable(k))'
      BY <1>1, <2>1 DEF Acceptable, AnyVersion
    <3> QED BY <3>1, FreeViewsNext
  <2>2. CASE ~Hidden(sw.name, k)
    <3>a. PICK A : A = Acceptable(k)
      OBVIOUS
    <3>f. PICK f : f = InFiles(DOMAIN tsm, k)
      OBVIOUS
    <3>1. Acceptable(k)' = A /\ Cuts' = Cuts /\ segs' = segs /\ live' = live /\ snap' = snap /\ Kept' = Kept
      BY <1>1, <1>2, <2>2, <3>a DEF Acceptable, AnyVersion, Cuts, wal, cache, Last, Kept, Drop
    <3>2. FileValues(k) = {f} /\ FileValues(k)' = {First(snap[k], f)}
      BY <2>2, <3>f, ReplacedFileValues
    <3>3. /\ \A c \in Cuts : First(Loaded(segs, c, k), f) \in A
          /\ \A c \in Cuts : First(Loaded(Kept, c, k), First(snap[k], f)) \in A
          /\ First(CacheValue(k), f) \in A
      BY <1>1, <3>2, <3>a DEF ViewsOK, Views, LogView, KeptView, CacheView, NextFile
    <3>g. PICK g : g = First(snap[k], f)
      OBVIOUS
    <3>4. ASSUME NEW c \in Cuts PROVE First(Loaded(segs, c, k), g) \in A
      <4>1. segs \in Seq(Seq(Entries)) /\ sw.closed \in Nat /\ sw.closed < Len(segs) /\ c \in Nat
        BY <1>1, KeptOK, CutsOK DEF EngineInv
      <4>2. Loaded(Kept, c, k) \in {Loaded(segs, c, k), 0}
        BY <4>1, FewerLoaded DEF Kept
      <4> QED BY <3>3, <3>g, <4>2 DEF First
    <3>5. First(CacheValue(k), g) \in A /\ First(live[k], g) \in A
      BY <3>3, <3>g DEF First, CacheValue
    <3>6. NextFile(k, g)' = g
      BY <1>2 DEF NextFile
    <3>7. (LogView(k, g, Cuts, Acceptable(k)) /\ KeptView(k, g, Cuts, Acceptable(k))
           /\ CacheView(k, g, Acceptable(k)) /\ ClearedView(k, g, Acceptable(k)))'
      <4>1. /\ LogView(k, g, Cuts, Acceptable(k))' /\ CacheView(k, g, Acceptable(k))'
            /\ ClearedView(k, g, Acceptable(k))'
        BY <3>1, <3>4, <3>5 DEF LogView, CacheView, ClearedView, First, CacheValue
      <4>2. KeptView(k, g, Cuts, Acceptable(k))'
        BY <3>1, <3>3, <3>6, <3>g DEF KeptView, First
      <4> QED BY <4>1, <4>2
    <3> QED BY <3>2, <3>7, <3>g DEF Views
  <2> QED BY <2>1, <2>2
<1> QED BY <1>3 DEF ViewsOK

\* One segment less, then the others.
LEMMA DropTwice ==
  ASSUME NEW ss \in Seq(Seq(Entries)), NEW m \in Nat \ {0}, m < Len(ss)
  PROVE  Drop(Drop(ss, 1), m - 1) = Drop(ss, m)
<1>t. PICK tt : tt = Drop(ss, 1)
  OBVIOUS
<1>u. PICK uu, vv : uu = Drop(tt, m - 1) /\ vv = Drop(ss, m)
  OBVIOUS
<1>0. Len(ss) \in Nat /\ m - 1 \in Nat /\ 1 \in Nat /\ 1 < Len(ss) /\ m \in Nat
  OBVIOUS
<1>1. tt \in Seq(Seq(Entries)) /\ Len(tt) = Len(ss) - 1 /\ \A i \in 1 .. Len(ss) - 1 : tt[i] = ss[i + 1]
  BY <1>0, <1>t, DropOK
<1>2. m - 1 < Len(tt)
  BY <1>0, <1>1
<1>3. /\ uu \in Seq(Seq(Entries)) /\ Len(uu) = Len(tt) - (m - 1)
      /\ \A i \in 1 .. Len(tt) - (m - 1) : uu[i] = tt[i + (m - 1)]
  BY <1>0, <1>1, <1>2, <1>u, DropOK
<1>4. vv \in Seq(Seq(Entries)) /\ Len(vv) = Len(ss) - m /\ \A i \in 1 .. Len(ss) - m : vv[i] = ss[i + m]
  BY <1>0, <1>u, DropOK
<1>5. Len(uu) = Len(vv)
  BY <1>0, <1>1, <1>3, <1>4
<1>6. ASSUME NEW i \in 1 .. Len(uu) PROVE uu[i] = vv[i]
  <2>1. i \in 1 .. Len(ss) - m /\ i \in 1 .. Len(tt) - (m - 1)
    BY <1>3, <1>4, <1>5
  <2>2. i + (m - 1) \in 1 .. Len(ss) - 1 /\ i + (m - 1) + 1 = i + m
    BY <1>0, <2>1
  <2> QED BY <1>1, <1>3, <1>4, <2>1, <2>2
<1> QED BY <1>3, <1>4, <1>5, <1>6, <1>t, <1>u, SeqEqual

\* A segment that the file stands for goes.
LEMMA RemovesSegmentViews ==
  ASSUME EngineInv, VersionsOK, ViewsOK, SnapshotRemovesSegment PROVE ViewsOK'
<1>1. /\ UNCHANGED <<cache, open, synced, tsm, tomb, comp, writes, op, allowed>> /\ sw.stage = "remove"
      /\ segs' = Tail(segs)
      /\ \/ sw'.stage = "idle"
         \/ sw'.stage = "remove" /\ sw'.closed = sw.closed - 1
  <2>1. sw \in [stage : {"idle", "write", "replace", "clear", "remove"}, closed : Nat, name : Nat \X Nat]
    BY DEF EngineInv, SnapshotOK
  <2>2. sw' = IF sw.closed = 1 THEN Idle ELSE [sw EXCEPT !.closed = @ - 1]
    BY DEF SnapshotRemovesSegment
  <2>3. sw.stage = "remove"
    BY DEF SnapshotRemovesSegment
  <2>4. sw'.stage = "idle" \/ (sw'.stage = "remove" /\ sw'.closed = sw.closed - 1)
    BY <2>1, <2>2, <2>3 DEF Idle
  <2> QED BY <2>4 DEF SnapshotRemovesSegment, files, history
<1>2. /\ segs \in Seq(Seq(Entries)) /\ sw.closed \in Nat \ {0} /\ sw.closed < Len(segs) /\ Len(segs) \in Nat
  BY <1>1 DEF EngineInv, LogOK, SnapshotOK
<1>3. segs' = Drop(segs, 1)
  BY <1>1, <1>2, TailIsSubSeq DEF Drop
<1>4. Len(segs') = Len(segs) - 1 /\ Last(segs') = Last(segs) /\ segs # << >> /\ segs' # << >>
  <2>1. 1 \in Nat /\ 1 < Len(segs)
    BY <1>2
  <2>2. Len(segs') = Len(segs) - 1 /\ Last(segs') = Last(segs)
    BY <1>2, <1>3, <2>1, DropOK
  <2>3. Len(segs) \in Nat /\ Len(segs) > 1
    BY <1>2, <2>1
  <2>4. Len(segs') # 0 /\ Len(segs) # 0
    BY <2>2, <2>3
  <2> QED BY <2>2, <2>4
<1>5. Cuts' = Cuts
  BY <1>1, <1>4 DEF Cuts, Last
<1>6. sw'.stage # "idle" => Kept' = Kept
  <2>1. Drop(segs', sw.closed - 1) = Drop(segs, sw.closed)
    BY <1>2, <1>3, DropTwice
  <2> QED BY <1>1, <2>1 DEF Kept, Drop
<1>7. ASSUME NEW k \in Keys PROVE Views(k, Cuts, Acceptable(k))'
  <2>1. Acceptable(k)' = Acceptable(k) /\ live' = live /\ CacheValue(k)' = CacheValue(k)
    BY <1>1 DEF Acceptable, AnyVersion, cache, CacheValue
  <2>2. FileValues(k)' = FileValues(k)
    BY <1>1, SameFileValues
  <2>3. \A f : NextFile(k, f)' = f /\ NextFile(k, f) = f
    BY <1>1 DEF NextFile
  <2>4. ASSUME NEW f \in FileValues(k)'
        PROVE  (LogView(k, f, Cuts, Acceptable(k)) /\ KeptView(k, f, Cuts, Acceptable(k))
                /\ CacheView(k, f, Acceptable(k)) /\ ClearedView(k, f, Acceptable(k)))'
    <3>1. /\ LogView(k, f, Cuts, Acceptable(k)) /\ KeptView(k, f, Cuts, Acceptable(k))
          /\ CacheView(k, f, Acceptable(k))
      BY <2>2 DEF ViewsOK, Views
    <3>2. ASSUME NEW c \in Cuts PROVE First(Loaded(segs', c, k), f) \in Acceptable(k)
      <4>1. c \in Nat
        BY CutsOK DEF EngineInv
      <4>2. 1 \in Nat /\ sw.closed \in Nat /\ 1 <= sw.closed
        BY <1>2
      <4>3. \/ Loaded(segs', c, k) = Loaded(segs, c, k)
            \/ Loaded(segs', c, k) = 0 /\ Loaded(Kept, c, k) = 0
        BY <1>2, <1>3, <4>1, <4>2, DroppedLog DEF Kept
      <4>4. /\ First(Loaded(segs, c, k), f) \in Acceptable(k)
            /\ First(Loaded(Kept, c, k), f) \in Acceptable(k)
        BY <1>1, <2>3, <3>1 DEF LogView, KeptView
      <4> QED BY <4>3, <4>4 DEF First
    <3>3. LogView(k, f, Cuts, Acceptable(k))'
      BY <1>5, <2>1, <3>2 DEF LogView, First
    <3>4. KeptView(k, f, Cuts, Acceptable(k))'
      BY <1>1, <1>5, <1>6, <2>1, <2>3, <3>1 DEF KeptView, First
    <3>5. CacheView(k, f, Acceptable(k))' /\ ClearedView(k, f, Acceptable(k))'
      BY <1>1, <2>1, <3>1 DEF CacheView, ClearedView, First
    <3> QED BY <3>3, <3>4, <3>5
  <2> QED BY <2>4 DEF Views
<1> QED BY <1>7 DEF ViewsOK

-----------------------------------------------------------------------------
(* The views: compaction and restart *)

\* The values that the files may show while a compaction goes on.
LEMMA CompactFiles ==
  ASSUME EngineInv, VersionsOK, NEW k \in Keys,
         \/ CompactBegins \/ CompactAborts \/ CompactRemovesFile \/ CompactRemovesTombstone
         \/ CompactRenames /\ ~Hidden(comp.new, k)
  PROVE  FileValues(k)' \subseteq FileValues(k)
<1>0. comp \in CompStates /\ InFiles(DOMAIN tsm, k) \in FileValues(k)
  BY FileValuesOK DEF EngineInv, CompOK
<1>1. CASE CompactBegins \/ CompactAborts
  <2>1. /\ UNCHANGED <<tsm, tomb, writes>> /\ comp.stage \in {"idle", "write"} /\ comp'.stage \in {"idle", "write"}
    BY <1>1 DEF CompactBegins, CompactAborts, files, history, NoComp
  <2>2. \A n : InFile(n, k)' = InFile(n, k)
    BY <2>1 DEF InFile, Hidden
  <2>3. InFiles(DOMAIN tsm, k)' = InFiles(DOMAIN tsm, k)
    BY <2>1, <2>2 DEF InFiles
  <2> QED BY <1>0, <2>1, <2>3 DEF FileValues, FilesLocked
<1>2. CASE CompactRenames /\ ~Hidden(comp.new, k)
  <2>1. tomb' = tomb /\ comp' = [comp EXCEPT !.stage = "remove"]
    BY <1>2 DEF CompactRenames
  <2>2. comp'.new = comp.new
    BY <1>0, <2>1 DEF CompStates
  <2>3. ~Hidden(comp.new, k)'
    BY <1>2, <2>1, <2>2 DEF Hidden
  <2>4. InFiles(DOMAIN tsm, k)' = InFiles(DOMAIN tsm, k)
    BY <1>2, RenameKeepsValues
  <2> QED BY <1>0, <2>3, <2>4 DEF FileValues
<1>3. CASE CompactRemovesFile
  <2>1. tomb' = tomb /\ comp' = [comp EXCEPT !.stage = "tombstone"] /\ comp.stage = "remove" /\ writes' = writes
    BY <1>3 DEF CompactRemovesFile, history
  <2>2. comp'.new = comp.new /\ comp'.stage = "tombstone"
    BY <1>0, <2>1 DEF CompStates
  <2>3. (Hidden(comp.new, k)' <=> Hidden(comp.new, k)) /\ FilesLocked /\ FilesLocked'
    BY <2>1, <2>2 DEF Hidden, FilesLocked
  <2>4. ~Hidden(comp.new, k) => InFiles(DOMAIN tsm, k)' = InFiles(DOMAIN tsm, k)
    BY <1>3, RemoveKeepsValues
  <2> QED BY <2>1, <2>3, <2>4 DEF FileValues, AnyVersion
<1>4. CASE CompactRemovesTombstone
  <2>n. PICK n, left : n = Oldest(comp.group) /\ left = comp.group \ {n}
    OBVIOUS
  <2>1. /\ tomb' = Without(tomb, n) /\ comp.stage = "tombstone" /\ writes' = writes
        /\ comp' = IF left = {} THEN NoComp ELSE [comp EXCEPT !.stage = "remove", !.group = left]
    BY <1>4, <2>n DEF CompactRemovesTombstone, history
  <2>2. InFiles(DOMAIN tsm, k)' = InFiles(DOMAIN tsm, k)
    BY <1>4, TombstoneKeepsValues
  <2>3. CASE left = {}
    <3>1. ~FilesLocked'
      BY <2>1, <2>3 DEF NoComp, FilesLocked
    <3> QED BY <1>0, <2>2, <3>1 DEF FileValues
  <2>4. CASE left # {}
    <3>1. comp'.new = comp.new /\ comp'.stage = "remove"
      BY <1>0, <2>1, <2>4 DEF CompStates
    <3>2. comp.group \subseteq Names /\ comp.group # {} /\ comp.new \notin comp.group
      BY <1>0, <2>1 DEF EngineInv, CompOK, CompStates
    <3>3. comp.new # n
      BY <2>n, <3>2, OldestOK
    <3>4. Hidden(comp.new, k)' <=> Hidden(comp.new, k)
      BY <2>1, <3>1, <3>3 DEF Hidden, Without
    <3>5. FilesLocked /\ FilesLocked'
      BY <2>1, <3>1 DEF FilesLocked
    <3> QED BY <2>1, <2>2, <3>4, <3>5 DEF FileValues, AnyVersion
  <2> QED BY <2>3, <2>4
<1> QED BY <1>1, <1>2, <1>3, <1>4

\* A compaction changes no view but those of keys that it may uncover.
LEMMA CompactViews ==
  ASSUME EngineInv, VersionsOK, ViewsOK, EngineInv', VersionsOK', Compaction PROVE ViewsOK'
<1>1. UNCHANGED <<cache, wal, sw, op, writes>>
  BY DEF Compaction, CompactBegins, CompactAborts, CompactRemovesFile, CompactRemovesTombstone,
         CompactRenames, history
<1>2. /\ ~CompactRenames => allowed' = allowed
      /\ CompactRenames => allowed' = [k \in Keys |-> IF Hidden(comp.new, k) THEN AnyVersion(k) ELSE allowed[k]]
  BY DEF Compaction, CompactBegins, CompactAborts, CompactRemovesFile, CompactRemovesTombstone,
         CompactRenames, history
<1>3. ASSUME NEW k \in Keys PROVE Views(k, Cuts, Acceptable(k))'
  <2>1. CASE CompactRenames /\ Hidden(comp.new, k)
    <3>1. (AnyVersion(k) \subseteq Acceptable(k))'
      BY <1>1, <1>2, <2>1 DEF Acceptable, AnyVersion
    <3> QED BY <3>1, FreeViewsNext
  <2>2. CASE ~(CompactRenames /\ Hidden(comp.new, k))
    <3>1. FileValues(k)' \subseteq FileValues(k)
      BY <2>2, CompactFiles DEF Compaction
    <3>2. allowed'[k] = allowed[k]
      BY <1>2, <2>2
    <3>3. Acceptable(k)' = Acceptable(k) /\ Cuts' = Cuts /\ segs' = segs
      BY <1>1, <3>2 DEF Acceptable, AnyVersion, Cuts, wal, Last
    <3> QED BY <1>1, <3>1, <3>3, StillViews DEF ViewsOK, cache
  <2> QED BY <2>1, <2>2
<1> QED BY <1>3 DEF ViewsOK

\* Open starts from what it has recovered.
LEMMA RestartViews ==
  ASSUME EngineInv, EngineInv', Restart PROVE ViewsOK'
<1>1. PICK c \in Cuts :
        /\ live' = [k \in Keys |-> Loaded(segs, c, k)]
        /\ allowed' = [k \in Keys |-> {Recovered(k, c)}]
        /\ \A d \in Cuts' : \A k \in Keys : Loaded(segs', d, k) = Loaded(segs, c, k)
  BY RestartShape DEF EngineInv
<1>2. /\ snap' = Empty /\ sw' = Idle /\ comp' = NoComp /\ op' = [k \in Keys |-> NoOp]
      /\ UNCHANGED <<tsm, tomb>>
  BY DEF Restart
<1>3. ASSUME NEW k \in Keys PROVE Views(k, Cuts, Acceptable(k))'
  <2>f. PICK f : f = InFiles(DOMAIN tsm, k)
    OBVIOUS
  <2>1. InFiles(DOMAIN tsm, k)' = f
    BY <1>2, <2>f DEF InFiles, InFile, Hidden
  <2>2. FileValues(k)' = {f}
    BY <1>2, <2>1 DEF FileValues, FilesLocked, NoComp
  <2>v. PICK v : v = First(Loaded(segs, c, k), f)
    OBVIOUS
  <2>3. Acceptable(k)' = {v}
    BY <1>1, <1>2, <2>f, <2>v DEF Acceptable, NoOp, Recovered, First
  <2>4. sw'.stage = "idle" /\ snap'[k] = 0 /\ live'[k] = Loaded(segs, c, k)
    BY <1>1, <1>2 DEF Idle, Empty
  <2>5. CacheValue(k)' = Loaded(segs, c, k)
    BY <2>4 DEF CacheValue
  <2>6. (LogView(k, f, Cuts, Acceptable(k)) /\ CacheView(k, f, Acceptable(k)))'
    BY <1>1, <2>3, <2>5, <2>v DEF LogView, CacheView, First
  <2>7. (KeptView(k, f, Cuts, Acceptable(k)) /\ ClearedView(k, f, Acceptable(k)))'
    BY <2>4 DEF KeptView, ClearedView
  <2> QED BY <2>2, <2>6, <2>7 DEF Views
<1> QED BY <1>3 DEF ViewsOK

\* Whatever step is taken, all the views of a key stay acceptable.
LEMMA ViewsKept ==
  ASSUME EngineInv, DOMAIN allowed = Keys, ProgressOK, VersionsOK, ViewsOK, [Next]_vars, EngineInv', VersionsOK'
  PROVE  ViewsOK'
<1>1. ASSUME ReadFiles \/ UNCHANGED vars PROVE ViewsOK'
  BY <1>1, IdleViews DEF ReadFiles, vars, files, history, cache, ViewsOK
<1> QED BY <1>1, ClientViews, LogViews, SyncViews, SnapshotBeginsViews, WithoutEffectViews, StageViews,
           ReplacesViews, ClearsViews, RemovesSegmentViews, CompactViews, RestartViews DEF Next, Snapshot

\* Every key has its history.
LEMMA AllowedKept ==
  ASSUME DOMAIN allowed = Keys, [Next]_vars PROVE DOMAIN allowed' = Keys
<1>1. ASSUME NEW k \in Keys, Client(k) PROVE DOMAIN allowed' = Keys
  <2>1. CASE Log(k)
    BY <2>1 DEF Log, LogEntry, LogEntryInNewSegment
  <2>2. CASE ~Log(k)
    BY <1>1, <2>2 DEF Client, WriteBegins, DeleteBegins, DeleteFromFile, DeleteScans, DeleteFromCache, OpFails,
                      ReadCache, Complete, history
  <2> QED BY <2>1, <2>2
<1>2. ASSUME Snapshot PROVE DOMAIN allowed' = Keys
  BY <1>2 DEF Snapshot, SnapshotBegins, SnapshotWithoutEffect, SnapshotWritten, SnapshotFails, SnapshotReplaces,
              SnapshotClears, SnapshotRemovesSegment, Complete, history
<1>3. ASSUME Compaction PROVE DOMAIN allowed' = Keys
  BY <1>3 DEF Compaction, CompactBegins, CompactAborts, CompactRenames, CompactRemovesFile,
              CompactRemovesTombstone, history
<1>4. ASSUME Restart PROVE DOMAIN allowed' = Keys
  BY <1>4 DEF Restart
<1>5. ASSUME Sync \/ ReadFiles \/ UNCHANGED vars PROVE DOMAIN allowed' = Keys
  BY <1>5 DEF Sync, Complete, ReadFiles, vars, history
<1> QED BY <1>1, <1>2, <1>3, <1>4, <1>5 DEF Next

-----------------------------------------------------------------------------
(* The reader *)

\* What the files may show after a step.
LEMMA FileValuesOKNext ==
  EngineInv' /\ VersionsOK' =>
    (\A k \in Keys : FileValues(k) \subseteq AnyVersion(k) /\ InFiles(DOMAIN tsm, k) \in FileValues(k))'
  BY FileValuesOK, PTL

\* The values of a key in the cache and what the files may show of it.
Shown(k) == ({live[k], snap[k]} \ {0}) \cup FileValues(k)

\* The cache and the files show nothing of a key but what they showed or may show now.
LEMMA NothingNew ==
  ASSUME EngineInv, ProgressOK, VersionsOK, EngineInv', VersionsOK', [Next]_vars, ~Restart, NEW k \in Keys
  PROVE  Shown(k)' \subseteq Shown(k) \cup Acceptable(k)'
<1>f. ASSUME (AnyVersion(k) \subseteq Acceptable(k))' PROVE Shown(k)' \subseteq Shown(k) \cup Acceptable(k)'
  <2>1. (FileValues(k) \subseteq AnyVersion(k))'
    BY FileValuesOKNext
  <2>2. (live[k] \in AnyVersion(k) /\ snap[k] \in AnyVersion(k))'
    BY DEF VersionsOK
  <2> QED BY <1>f, <2>1, <2>2 DEF Shown
<1>d. ASSUME op'[k].kind = "delete" PROVE Shown(k)' \subseteq Shown(k) \cup Acceptable(k)'
  BY <1>d, <1>f DEF Acceptable
<1>s. ASSUME {live'[k], snap'[k]} \subseteq {live[k], snap[k], 0}, FileValues(k)' \subseteq FileValues(k)
      PROVE  Shown(k)' \subseteq Shown(k) \cup Acceptable(k)'
  BY <1>s DEF Shown
<1>u. ASSUME {live'[k], snap'[k]} \subseteq {live[k], snap[k], 0}, UNCHANGED <<tsm, tomb, comp>>,
             writes'[k] = writes[k]
      PROVE  Shown(k)' \subseteq Shown(k) \cup Acceptable(k)'
  BY <1>s, <1>u, SameFileValues
<1>0. /\ op \in [Keys -> Operations] /\ live \in [Keys -> Values] /\ writes \in [Keys -> Nat]
  BY ZeroIsValue DEF EngineInv, OpsOK, CacheOK
<1>1. ASSUME NEW j \in Keys, Client(j) PROVE Shown(k)' \subseteq Shown(k) \cup Acceptable(k)'
  <2>1. CASE WriteBegins(j)
    <3>1. /\ writes' = [writes EXCEPT ![j] = @ + 1] /\ live' = [live EXCEPT ![j] = writes[j] + 1]
          /\ op' = [op EXCEPT ![j] = [NoOp EXCEPT !.kind = "write", !.stage = "log"]]
          /\ UNCHANGED <<snap, tsm, tomb, comp>>
      BY <2>1 DEF WriteBegins, files
    <3>2. CASE j = k
      <4>1. live'[k] = writes'[k] /\ op'[k].kind = "write"
        BY <1>0, <3>1, <3>2 DEF NoOp
      <4>2. writes'[k] \in Acceptable(k)'
        BY <4>1 DEF Acceptable
      <4>3. FileValues(k)' \subseteq FileValues(k) \cup {writes'[k]}
        BY <2>1, <3>2, WriteFileValues
      <4> QED BY <3>1, <4>1, <4>2, <4>3 DEF Shown
    <3>3. CASE j # k
      BY <1>0, <1>u, <3>1, <3>3
    <3> QED BY <3>2, <3>3
  <2>2. CASE DeleteFromFile(j)
    <3>1. UNCHANGED cache /\ op[j].stage = "files"
      BY <2>2 DEF DeleteFromFile
    <3>2. PICK n : op' = [op EXCEPT ![j].todo = @ \ {n}, ![j].stage = IF op[j].todo = {n} THEN "scan" ELSE @]
      BY <2>2 DEF DeleteFromFile
    <3>3. CASE j = k
      <4>1. op[k].kind = "delete"
        BY <3>1, <3>3 DEF EngineInv, OpsOK
      <4>2. op'[k].kind = op[k].kind
        BY <1>0, <3>2, <3>3 DEF Operations
      <4> QED BY <1>d, <4>1, <4>2
    <3>4. CASE j # k
      BY <1>s, <2>2, <3>1, <3>4, MarkedFileValues DEF cache
    <3> QED BY <3>3, <3>4
  <2>3. CASE DeleteFromCache(j)
    <3>1. live' = [live EXCEPT ![j] = 0] /\ UNCHANGED <<snap, tsm, tomb, comp, writes>>
      BY <2>3 DEF DeleteFromCache, files, history
    <3> QED BY <1>0, <1>u, <3>1
  <2>4. CASE DeleteBegins(j) \/ DeleteScans(j) \/ Log(j) \/ OpFails(j) \/ ReadCache(j)
    <3>1. UNCHANGED <<cache, tsm, tomb, comp, writes>>
      BY <2>4 DEF DeleteBegins, DeleteScans, Log, OpFails, ReadCache, files, history
    <3> QED BY <1>u, <3>1 DEF cache
  <2> QED BY <1>1, <2>1, <2>2, <2>3, <2>4 DEF Client
<1>2. ASSUME Sync \/ ReadFiles \/ UNCHANGED vars PROVE Shown(k)' \subseteq Shown(k) \cup Acceptable(k)'
  <2>1. UNCHANGED <<cache, tsm, tomb, comp, writes>>
    BY <1>2 DEF Sync, ReadFiles, vars, files, history
  <2> QED BY <1>u, <2>1 DEF cache
<1>3. ASSUME Snapshot PROVE Shown(k)' \subseteq Shown(k) \cup Acceptable(k)'
  <2>1. CASE SnapshotReplaces
    <3>1. UNCHANGED <<cache, tomb, comp, writes, op>>
          /\ allowed' = [j \in Keys |-> IF Hidden(sw.name, j) THEN AnyVersion(j) ELSE allowed[j]]
      BY <2>1 DEF SnapshotReplaces
    <3>2. CASE Hidden(sw.name, k)
      BY <1>f, <3>1, <3>2 DEF Acceptable, AnyVersion
    <3>3. CASE ~Hidden(sw.name, k)
      <4>1. FileValues(k)' \subseteq Shown(k)
        BY <2>1, <3>3, ReplacedFileValues DEF First, Shown
      <4> QED BY <3>1, <4>1 DEF Shown, cache
    <3> QED BY <3>2, <3>3
  <2>2. CASE SnapshotBegins
    <3>1. /\ UNCHANGED <<tsm, tomb, comp, writes>>
          /\ snap # Empty => snap' = snap /\ live' = live
          /\ snap = Empty => snap' = live /\ live' = Empty
      BY <2>2 DEF SnapshotBegins, files
    <3>2. {live'[k], snap'[k]} \subseteq {live[k], snap[k], 0}
      BY <3>1 DEF Empty
    <3> QED BY <1>u, <3>1, <3>2
  <2>3. CASE SnapshotClears
    BY <1>u, <2>3 DEF SnapshotClears, files, history, Empty
  <2>4. CASE SnapshotWithoutEffect \/ SnapshotWritten \/ SnapshotFails \/ SnapshotRemovesSegment
    <3>1. UNCHANGED <<cache, tsm, tomb, comp, writes>>
      BY <2>4 DEF SnapshotWithoutEffect, SnapshotWritten, SnapshotFails, SnapshotRemovesSegment, files, history
    <3> QED BY <1>u, <3>1 DEF cache
  <2> QED BY <1>3, <2>1, <2>2, <2>3, <2>4 DEF Snapshot
<1>4. ASSUME Compaction PROVE Shown(k)' \subseteq Shown(k) \cup Acceptable(k)'
  <2>1. UNCHANGED <<cache, op, writes>>
    BY <1>4 DEF Compaction, CompactBegins, CompactAborts, CompactRemovesFile, CompactRemovesTombstone,
                CompactRenames, history
  <2>2. CASE CompactRenames /\ Hidden(comp.new, k)
    <3>1. allowed'[k] = AnyVersion(k)
      BY <2>2 DEF CompactRenames
    <3> QED BY <1>f, <2>1, <3>1 DEF Acceptable, AnyVersion
  <2>3. CASE ~(CompactRenames /\ Hidden(comp.new, k))
    <3>1. FileValues(k)' \subseteq FileValues(k)
      BY <1>4, <2>3, CompactFiles DEF Compaction
    <3> QED BY <1>s, <2>1, <3>1 DEF cache
  <2> QED BY <2>2, <2>3
<1> QED BY <1>1, <1>2, <1>3, <1>4 DEF Next

\* What a read in progress collects: what its key may have, whatever step is taken.
LEMMA Collected ==
  ASSUME EngineInv, ProgressOK, [Next]_vars, ~Restart, ~ReadFiles, rd.stage = "files", rd.key \in Keys,
         Acceptable(rd.key) \subseteq acc
  PROVE  rd' = rd /\ acc \subseteq acc' /\ Acceptable(rd.key)' \subseteq acc'
<1>k. PICK k \in Keys : k = rd.key
  OBVIOUS
<1>w. ASSUME rd' = rd, Watch PROVE rd' = rd /\ acc \subseteq acc' /\ Acceptable(rd.key)' \subseteq acc'
  BY <1>w DEF Watch
<1>s. ASSUME UNCHANGED <<reader, allowed, writes>>, op'[k].kind = op[k].kind
      PROVE  rd' = rd /\ acc \subseteq acc' /\ Acceptable(rd.key)' \subseteq acc'
  <2>1. Acceptable(k)' = Acceptable(k) /\ rd' = rd /\ acc' = acc
    BY <1>s DEF Acceptable, AnyVersion, reader
  <2>2. Acceptable(rd.key)' = Acceptable(k)'
    BY <1>k, <2>1 DEF Acceptable, AnyVersion
  <2> QED BY <1>k, <2>1, <2>2
<1>0. op \in [Keys -> Operations]
  BY DEF EngineInv, OpsOK
<1>1. ASSUME NEW j \in Keys, Client(j)
      PROVE  rd' = rd /\ acc \subseteq acc' /\ Acceptable(rd.key)' \subseteq acc'
  <2>1. CASE DeleteFromFile(j)
    <3>1. UNCHANGED <<reader, allowed, writes>>
      BY <2>1 DEF DeleteFromFile, history
    <3>2. PICK n : op' = [op EXCEPT ![j].todo = @ \ {n}, ![j].stage = IF op[j].todo = {n} THEN "scan" ELSE @]
      BY <2>1 DEF DeleteFromFile
    <3>3. op'[k].kind = op[k].kind
      BY <1>0, <3>2 DEF Operations
    <3> QED BY <1>s, <3>1, <3>3
  <2>2. CASE DeleteFromCache(j)
    <3>1. UNCHANGED <<reader, allowed, writes>> /\ op' = [op EXCEPT ![j].stage = "log"]
      BY <2>2 DEF DeleteFromCache, history
    <3>2. op'[k].kind = op[k].kind
      BY <1>0, <3>1 DEF Operations
    <3> QED BY <1>s, <3>1, <3>2
  <2>3. CASE WriteBegins(j) \/ DeleteBegins(j) \/ DeleteScans(j) \/ Log(j) \/ OpFails(j)
    BY <1>w, <2>3 DEF WriteBegins, DeleteBegins, DeleteScans, Log, OpFails
  <2>4. ~ReadCache(j)
    BY DEF ReadCache
  <2> QED BY <1>1, <2>1, <2>2, <2>3, <2>4 DEF Client
<1>2. ASSUME Sync \/ SnapshotBegins \/ SnapshotWithoutEffect \/ SnapshotReplaces \/ CompactRenames
      PROVE  rd' = rd /\ acc \subseteq acc' /\ Acceptable(rd.key)' \subseteq acc'
  BY <1>2, <1>w DEF Sync, SnapshotBegins, SnapshotWithoutEffect, SnapshotReplaces, CompactRenames
<1>3. ASSUME \/ SnapshotWritten \/ SnapshotFails \/ SnapshotClears \/ SnapshotRemovesSegment
             \/ CompactBegins \/ CompactAborts \/ CompactRemovesFile \/ CompactRemovesTombstone \/ UNCHANGED vars
      PROVE  rd' = rd /\ acc \subseteq acc' /\ Acceptable(rd.key)' \subseteq acc'
  <2>1. UNCHANGED <<reader, allowed, writes, op>>
    BY <1>3 DEF SnapshotWritten, SnapshotFails, SnapshotClears, SnapshotRemovesSegment, CompactBegins,
                CompactAborts, CompactRemovesFile, CompactRemovesTombstone, vars, history
  <2> QED BY <1>s, <2>1
<1> QED BY <1>1, <1>2, <1>3 DEF Next, Snapshot, Compaction

\* Whatever a read may return is a value that its key could have while the read lasted.
LEMMA ReaderKept ==
  ASSUME EngineInv, ProgressOK, VersionsOK, ViewsOK, ReaderOK, [Next]_vars, EngineInv', VersionsOK'
  PROVE  ReaderOK'
<1>1. CASE Restart \/ ReadFiles
  <2>1. rd'.stage = "idle"
    <3>1. PICK key : NoRead = [stage |-> "idle", key |-> key, val |-> 0]
      BY DEF NoRead
    <3>2. PICK v : rd' = NoRead \/ rd' = [NoRead EXCEPT !.val = v]
      BY <1>1 DEF Restart, ReadFiles
    <3> QED BY <3>1, <3>2
  <2> QED BY <2>1 DEF ReaderOK
<1>2. CASE ~Restart /\ ~ReadFiles /\ rd.stage = "files"
  <2>k. PICK k \in Keys : k = rd.key
    BY <1>2 DEF ReaderOK
  <2>1. rd' = rd /\ acc \subseteq acc' /\ Acceptable(rd.key)' \subseteq acc'
    BY <1>2, Collected DEF ReaderOK
  <2>2. Acceptable(rd.key)' = Acceptable(k)' /\ FileValues(rd.key)' = FileValues(k)' /\ rd'.key = k
    BY <2>1, <2>k DEF Acceptable, AnyVersion, FileValues, Hidden, InFiles, InFile
  <2>3. Shown(k)' \subseteq Shown(k) \cup Acceptable(k)'
    BY <1>2, NothingNew
  <2>4. ASSUME rd.val = 0 PROVE Shown(k)' \subseteq acc'
    <3>1. Shown(k) \subseteq acc
      BY <1>2, <2>4, <2>k DEF ReaderOK, Shown
    <3> QED BY <2>1, <2>2, <2>3, <3>1
  <2>5. rd.val # 0 => rd'.val \in acc'
    BY <1>2, <2>1 DEF ReaderOK
  <2>6. rd.val = 0 => {live'[k], snap'[k]} \ {0} \subseteq acc' /\ FileValues(k)' \subseteq acc'
    BY <2>4 DEF Shown
  <2> QED BY <2>1, <2>2, <2>5, <2>6 DEF ReaderOK
<1>3. CASE ~Restart /\ ~ReadFiles /\ rd.stage # "files"
  <2>1. CASE rd'.stage # "files"
    BY <2>1 DEF ReaderOK
  <2>2. CASE \E k \in Keys : ReadCache(k)
    <3>1. PICK k \in Keys : ReadCache(k)
      BY <2>2
    <3>2. /\ rd' = [stage |-> "files", key |-> k, val |-> CacheValue(k)] /\ acc' = Acceptable(k)
          /\ UNCHANGED <<cache, tsm, tomb, comp, op, writes, allowed>>
      BY <3>1 DEF ReadCache, files, history
    <3>3. rd'.stage = "files" /\ rd'.key = k /\ rd'.val = CacheValue(k)
      BY <3>2
    <3>4. FileValues(k)' = FileValues(k) /\ Acceptable(k)' = Acceptable(k)
      BY <3>2, SameFileValues DEF Acceptable, AnyVersion
    <3>5. Acceptable(rd.key)' = Acceptable(k)' /\ FileValues(rd.key)' = FileValues(k)'
      BY <3>3 DEF Acceptable, AnyVersion, FileValues, Hidden, InFiles, InFile
    <3>6. \A f \in FileValues(k) : First(CacheValue(k), f) \in Acceptable(k)
      BY DEF ViewsOK, Views, CacheView
    <3>7. FileValues(k) # {}
      BY FileValuesOK
    <3>8. CacheValue(k) # 0 => CacheValue(k) \in Acceptable(k)
      BY <3>6, <3>7 DEF First
    <3>9. CacheValue(k) = 0 => FileValues(k) \subseteq Acceptable(k) /\ live'[k] = 0 /\ snap'[k] = 0
      BY <3>2, <3>6 DEF First, CacheValue, cache
    <3> QED BY <3>2, <3>3, <3>4, <3>5, <3>8, <3>9 DEF ReaderOK
  <2>3. CASE ~(\E k \in Keys : ReadCache(k))
    <3>1. rd' = rd
      <4>1. ASSUME NEW k \in Keys, Client(k) PROVE rd' = rd
        BY <2>3, <4>1 DEF Client, WriteBegins, DeleteBegins, DeleteFromFile, DeleteScans, DeleteFromCache, Log,
                          OpFails, reader
      <4>2. ASSUME Sync \/ UNCHANGED vars PROVE rd' = rd
        BY <4>2 DEF Sync, vars, reader
      <4>3. ASSUME Snapshot PROVE rd' = rd
        BY <4>3 DEF Snapshot, SnapshotBegins, SnapshotWithoutEffect, SnapshotWritten, SnapshotFails,
                    SnapshotReplaces, SnapshotClears, SnapshotRemovesSegment, reader
      <4>4. ASSUME Compaction PROVE rd' = rd
        BY <4>4 DEF Compaction, CompactBegins, CompactAborts, CompactRenames, CompactRemovesFile,
                    CompactRemovesTombstone, reader
      <4> QED BY <1>3, <4>1, <4>2, <4>3, <4>4 DEF Next
    <3> QED BY <1>3, <3>1 DEF ReaderOK
  <2> QED BY <2>1, <2>2, <2>3
<1> QED BY <1>1, <1>2, <1>3

-----------------------------------------------------------------------------
(* Recovery and reads *)

\* It holds at the start.
LEMMA RecoveryInit == ASSUME Init PROVE RecoveryInv
<1>1. EngineInv
  BY InitOK
<1>2. /\ live = Empty /\ snap = Empty /\ segs = << >> /\ DOMAIN tsm = {} /\ comp = NoComp /\ sw = Idle
      /\ op = [k \in Keys |-> NoOp] /\ rd = NoRead /\ writes = [k \in Keys |-> 0] /\ allowed = [k \in Keys |-> {0}]
  BY DEF Init
<1>3. ProgressOK
  BY <1>2 DEF ProgressOK, Progress, NoOp
<1>4. VersionsOK
  <2>1. ASSUME NEW k \in Keys PROVE 0 \in AnyVersion(k) /\ Empty[k] = 0 /\ NoComp.data = Empty
    BY <1>2 DEF AnyVersion, Empty, NoComp
  <2>2. \A k \in Keys : LogVersions(segs, k, AnyVersion(k))
    BY <1>2 DEF LogVersions
  <2> QED BY <1>2, <2>1, <2>2 DEF VersionsOK
<1>5. ViewsOK
  <2>1. ASSUME NEW k \in Keys PROVE AnyVersion(k) \subseteq Acceptable(k)
    BY <1>2 DEF AnyVersion, Acceptable, NoOp
  <2> QED BY <1>1, <1>4, <2>1, FreeViews DEF ViewsOK
<1>6. ReaderOK
  BY <1>2 DEF ReaderOK, NoRead
<1>7. DOMAIN allowed = Keys
  BY <1>2
<1> QED BY <1>1, <1>3, <1>4, <1>5, <1>6, <1>7 DEF RecoveryInv

\* Every step keeps it.
LEMMA RecoveryNext == ASSUME RecoveryInv, [Next]_vars PROVE RecoveryInv'
<1>1. EngineInv'
  BY NextKeeps DEF RecoveryInv
<1>2. VersionsOK' /\ ProgressOK'
  BY <1>1, VersionsKept, ProgressKept DEF RecoveryInv
<1>3. ViewsOK' /\ ReaderOK' /\ DOMAIN allowed' = Keys
  BY <1>1, <1>2, ViewsKept, ReaderKept, AllowedKept DEF RecoveryInv
<1> QED BY <1>1, <1>2, <1>3 DEF RecoveryInv

\* All the views of all keys are acceptable, whatever the clients, the reader, the snapshot
\* and the compaction do in whatever order, with restarts between any two steps that lose
\* what was not fsynced.
THEOREM RecoveryInvariant == Spec => []RecoveryInv
  BY RecoveryInit, RecoveryNext, PTL DEF Spec

\* What a restart finds is the first of the views.
LEMMA ViewsRecover == ASSUME RecoveryInv PROVE AnsweredIsRecovered
<1> SUFFICES ASSUME NEW k \in Keys, NEW c \in Cuts PROVE Recovered(k, c) \in Acceptable(k)
  BY DEF AnsweredIsRecovered
<1>1. InFiles(DOMAIN tsm, k) \in FileValues(k)
  BY FileValuesOK DEF RecoveryInv
<1>2. First(Loaded(segs, c, k), InFiles(DOMAIN tsm, k)) \in Acceptable(k)
  BY <1>1 DEF RecoveryInv, ViewsOK, Views, LogView
<1> QED BY <1>2 DEF Recovered, First

\* A restart at any moment finds for every key what the operations that have ended allow:
\* an answered write survives the moves of its point from the cache and the log to a TSM
\* file and from file to file, and an answered delete stays deleted.  This is for any
\* number of keys, writes, deletes, snapshots, compactions and restarts.  The exceptions
\* are those that Outcome, SnapshotBegins, SnapshotReplaces and CompactRenames write down.
THEOREM AnsweredOperationsAreRecovered == Spec => []AnsweredIsRecovered
  BY RecoveryInvariant, ViewsRecover, PTL

\* A read returns what it has from the cache, or what the files show.
LEMMA ReadReturns ==
  ASSUME RecoveryInv, RestartsOK, [Next]_vars, rd.stage = "files", rd'.stage = "idle", restarts' = restarts
  PROVE  rd'.val \in acc
<1>1. ~Restart
  BY DEF Restart, RestartsOK
<1>2. ReadFiles
  <2>1. ReaderOK /\ EngineInv /\ ProgressOK
    BY DEF RecoveryInv
  <2> QED BY <1>1, <2>1, Collected DEF ReaderOK
<1>3. PICK key : NoRead = [stage |-> "idle", key |-> key, val |-> 0]
  BY DEF NoRead
<1>4. rd'.val = IF rd.val # 0 THEN rd.val ELSE InFiles(active, rd.key)
  BY <1>2, <1>3 DEF ReadFiles
<1>5. active = DOMAIN tsm
  BY <1>2 DEF ReadFiles, FilesLocked, RecoveryInv, EngineInv, CompOK, CompStates
<1>6. ReaderOK /\ rd.key \in Keys
  BY DEF RecoveryInv, ReaderOK
<1>7. InFiles(DOMAIN tsm, rd.key) \in FileValues(rd.key)
  BY <1>6, FileValuesOK DEF RecoveryInv
<1> QED BY <1>4, <1>5, <1>6, <1>7 DEF ReaderOK

\* A read that looks at the cache and, any number of steps later, at the files returns a
\* value that the key could have in between: no snapshot or compaction makes it miss one.
THEOREM ReadsReturnCurrentValues == Spec => ReadsAreCurrent
<1>1. ASSUME RecoveryInv, RestartsOK, [Next]_vars
      PROVE  [rd.stage = "files" /\ rd'.stage = "idle" /\ restarts' = restarts => rd'.val \in acc]_vars
  BY <1>1, ReadReturns
<1> QED BY <1>1, RecoveryInvariant, RestartsCount, PTL DEF Spec, ReadsAreCurrent

=============================================================================
