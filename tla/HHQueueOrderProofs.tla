------------------------- MODULE HHQueueOrderProofs -------------------------
(* The order of the hinted-handoff queue: hints are sent in the order of their
   acknowledgement, and none comes back once it has left the disk. *)
EXTENDS HHQueueProofs

-----------------------------------------------------------------------------
(* How steps change the directory *)

\* Every file is one there was, read on perhaps, or a new one.
Kept(d, e) ==
  \A i \in DOMAIN e :
    \/ i \in DOMAIN d /\ e[i].blocks = d[i].blocks /\ e[i].pos >= d[i].pos
    \/ e[i] = NewSegment

\* Block b was appended to the file id, which may be new.
GrownAt(d, e, b, id) ==
  /\ DOMAIN e = DOMAIN d \cup {id}
  /\ \A i \in DOMAIN d : i # id => e[i] = d[i]
  /\ e[id] = AppendBlock(IF id \in DOMAIN d THEN d[id] ELSE NewSegment, b)

\* What can be read from a directory that was kept could be read before.
LEMMA KeptIsRead ==
  ASSUME NEW d, NEW H, DirOK(d, H), NEW e, NEW J, DirOK(e, J), Kept(d, e)
  PROVE  UnreadIn(e, DOMAIN e) \subseteq UnreadIn(d, DOMAIN d)
<1> SUFFICES ASSUME NEW i \in DOMAIN e PROVE Unread(e[i]) \subseteq UnreadIn(d, DOMAIN d)
  BY DEF UnreadIn
<1>1. CASE e[i] = NewSegment
  BY <1>1, NewSegmentOK
<1>2. CASE i \in DOMAIN d /\ e[i].blocks = d[i].blocks /\ e[i].pos >= d[i].pos
  <2>1. /\ e[i].pos \in Nat /\ d[i].pos \in Nat /\ DOMAIN d[i].blocks \subseteq Nat
    BY <1>2 DEF DirOK, FileOK, SegmentOK
  <2>2. Unread(e[i]) \subseteq Unread(d[i])
    BY <1>2, <2>1 DEF Unread
  <2> QED BY <1>2, <2>2 DEF UnreadIn
<1> QED BY <1>1, <1>2 DEF Kept

\* An appended block adds its hint to what can be read, and nothing else.
LEMMA GrownIsRead ==
  ASSUME NEW d, NEW H, DirOK(d, H), NEW e, NEW b \in Block, b.len >= 1,
         NEW id, GrownAt(d, e, b, id)
  PROVE  UnreadIn(e, DOMAIN e) = UnreadIn(d, DOMAIN d) \cup {b.hint}
<1>1. /\ DOMAIN e = DOMAIN d \cup {id}
      /\ \A i \in DOMAIN d : i # id => e[i] = d[i]
      /\ e[id] = AppendBlock(IF id \in DOMAIN d THEN d[id] ELSE NewSegment, b)
  BY DEF GrownAt
<1>f. PICK f : f = IF id \in DOMAIN d THEN d[id] ELSE NewSegment
  OBVIOUS
<1>2. FileOK(f) /\ Unread(f) \subseteq UnreadIn(d, DOMAIN d)
  <2>1. CASE id \in DOMAIN d
    BY <1>f, <2>1 DEF DirOK, UnreadIn
  <2>2. CASE id \notin DOMAIN d
    BY <1>f, <2>2, NewSegmentOK
  <2> QED BY <2>1, <2>2
<1>3. Unread(e[id]) = Unread(f) \cup {b.hint}
  BY <1>1, <1>f, <1>2, AppendedFile
<1>4. \A i \in DOMAIN e : i # id => Unread(e[i]) \subseteq UnreadIn(d, DOMAIN d)
  BY <1>1 DEF UnreadIn
<1>5. UnreadIn(e, DOMAIN e) \subseteq UnreadIn(d, DOMAIN d) \cup {b.hint}
  BY <1>2, <1>3, <1>4 DEF UnreadIn
<1>6. \A i \in DOMAIN d : i \in DOMAIN e /\ Unread(d[i]) \subseteq Unread(e[i])
  BY <1>1, <1>3, <1>f
<1>7. UnreadIn(d, DOMAIN d) \cup {b.hint} \subseteq UnreadIn(e, DOMAIN e)
  BY <1>1, <1>3, <1>6 DEF UnreadIn
<1> QED BY <1>5, <1>7

-----------------------------------------------------------------------------
(* The steps *)

\* TrimmedFiles removes a file or none.
LEMMA TrimKeeps ==
  ASSUME NEW d, NEW segs
  PROVE  LET e == TrimmedFiles(d, segs)
         IN  DOMAIN e \subseteq DOMAIN d /\ \A i \in DOMAIN e : e[i] = d[i]
  BY DEF TrimmedFiles, RemoveFiles

\* The positions of the files are numbers.
LEMMA Positions ==
  ASSUME QueueInv, NEW i \in DOMAIN dir
  PROVE  dir[i].pos \in Nat /\ dir[i].pos >= dir[i].pos
<1>1. FileOK(dir[i])
  BY DEF QueueInv, DirOK
<1>2. dir[i].pos \in Nat
  BY <1>1 DEF FileOK, SegmentOK
<1> QED BY <1>2

\* The head after the footer has moved.
LEMMA AdvanceKeeps ==
  ASSUME QueueInv, pc = "advancing"
  PROVE  LET d == [dir EXCEPT ![head] = AdvancedHead]
         IN  /\ DOMAIN d = DOMAIN dir
             /\ \A i \in DOMAIN d : d[i].blocks = dir[i].blocks /\ d[i].pos >= dir[i].pos
<1>1. isOpen
  BY DEF QueueInv, Listed
<1>2. head \in DOMAIN dir /\ FileOK(dir[head])
  BY <1>1, HeadOK
<1>f. PICK f, cs : f = dir[head] /\ cs = currentSize[head]
  OBVIOUS
<1>3. cs \in Nat
  BY <1>1, <1>f, HeadOK DEF QueueInv, MemoryOK
<1>4. AdvanceSegment(f, cs).blocks = f.blocks /\ AdvanceSegment(f, cs).pos >= f.pos
  <2>1. f = [blocks |-> f.blocks, pos |-> f.pos, size |-> f.size, age |-> f.age] /\ f.pos \in Nat
    BY <1>2, <1>f DEF FileOK, SegmentOK
  <2>2. CASE AtEnd(f)
    BY <2>1, <2>2 DEF AdvanceSegment
  <2>3. CASE ~AtEnd(f)
    BY <1>3, <2>1, <2>3 DEF AdvanceSegment
  <2> QED BY <2>2, <2>3
<1>5. AdvancedHead = AdvanceSegment(f, cs)
  BY <1>f DEF AdvancedHead
<1>d. PICK d : d = [dir EXCEPT ![head] = AdvancedHead]
  OBVIOUS
<1>6. DOMAIN d = DOMAIN dir /\ d[head] = AdvancedHead /\ \A i \in DOMAIN dir : i # head => d[i] = dir[i]
  BY <1>2, <1>d DEF QueueInv, DirOK
<1>7. \A i \in DOMAIN dir : d[i].blocks = dir[i].blocks /\ d[i].pos >= dir[i].pos
  <2> SUFFICES ASSUME NEW i \in DOMAIN dir
               PROVE  d[i].blocks = dir[i].blocks /\ d[i].pos >= dir[i].pos
    OBVIOUS
  <2>1. CASE i = head
    BY <1>f, <1>4, <1>5, <1>6, <2>1
  <2>2. CASE i # head
    BY <1>6, <2>2, Positions
  <2> QED BY <2>1, <2>2
<1> QED BY <1>d, <1>6, <1>7

\* nextSegmentID is above every name.
LEMMA NextIsLast ==
  ASSUME NEW d, DOMAIN d \subseteq 1 .. MaxID
  PROVE  \A i \in DOMAIN d : i < nextSegmentID(d)
<1>1. CASE DOMAIN d = {}
  BY <1>1
<1>2. CASE DOMAIN d # {}
  <2>s. PICK S, T : S = DOMAIN d /\ T = {MaxID - x : x \in S}
    OBVIOUS
  <2>1. S \subseteq 1 .. MaxID /\ MaxID \in Nat
    BY <2>s, BoundAssumption
  <2>2. T \subseteq Nat /\ T # {}
    BY <1>2, <2>s, <2>1
  <2>3. PICK x \in T : \A y \in T : ~ (<<y, x>> \in OpToRel(<, Nat))
    BY <2>2, NatLessThanWellFounded, WFMin
  <2>4. \A y \in T : x <= y
    <3> SUFFICES ASSUME NEW y \in T PROVE x <= y
      OBVIOUS
    <3>1. x \in Nat /\ y \in Nat
      BY <2>2
    <3>2. <<y, x>>[1] = y /\ <<y, x>>[2] = x /\ <<y, x>> \in Nat \X Nat
      BY <3>1
    <3>3. ~(y < x)
      BY <2>3, <3>2, Zenon DEF OpToRel
    <3> QED BY <3>1, <3>3
  <2>5. PICK m \in S : x = MaxID - m
    BY <2>s
  <2>6. \A y \in S : m >= y
    <3> SUFFICES ASSUME NEW y \in S PROVE m >= y
      OBVIOUS
    <3>1. x <= MaxID - y
      BY <2>s, <2>4
    <3>2. m \in Nat /\ y \in Nat /\ MaxID \in Nat
      BY <2>1
    <3> QED BY <2>5, <3>1, <3>2
  <2>7. Max(S) \in S /\ \A y \in S : Max(S) >= y
    BY <2>6 DEF Max
  <2>8. nextSegmentID(d) = Max(S) + 1
    BY <1>2, <2>s DEF nextSegmentID
  <2>m. PICK top : top = Max(S)
    OBVIOUS
  <2>9. top \in S /\ \A y \in S : top >= y
    BY <2>7, <2>m
  <2>10. top \in Nat /\ \A y \in S : y \in Nat
    BY <2>1, <2>9
  <2> QED BY <2>s, <2>8, <2>9, <2>10, <2>m
<1> QED BY <1>1, <1>2

-----------------------------------------------------------------------------
(* What the steps do to the directory *)

\* Files that are as they were, or new, make a directory that was kept.
LEMMA SameFilesKept ==
  ASSUME QueueInv, NEW e, \A i \in DOMAIN e : (i \in DOMAIN dir /\ e[i] = dir[i]) \/ e[i] = NewSegment
  PROVE  Kept(dir, e)
<1> SUFFICES ASSUME NEW i \in DOMAIN e, i \in DOMAIN dir, e[i] = dir[i]
             PROVE  e[i].blocks = dir[i].blocks /\ e[i].pos >= dir[i].pos
  BY DEF Kept
<1> QED BY Positions

\* queue.Open keeps the files, but for the one it trims or adds.
LEMMA OpenKeeps == QueueInv /\ Open => Kept(dir, dir')
<1> SUFFICES ASSUME QueueInv, Open PROVE Kept(dir, dir')
  OBVIOUS
<1>d. PICK d : d = IF DOMAIN dir = {} THEN [i \in {1} |-> NewSegment] ELSE dir
  OBVIOUS
<1>1. \A i \in DOMAIN d : (i \in DOMAIN dir /\ d[i] = dir[i]) \/ d[i] = NewSegment
  BY <1>d
<1>2. PICK s : dir' = TrimmedFiles(d, s) \/ dir' = d
  BY <1>d DEF Open
<1>3. DOMAIN dir' \subseteq DOMAIN d /\ \A i \in DOMAIN dir' : dir'[i] = d[i]
  BY <1>2, TrimKeeps
<1> QED BY <1>1, <1>3, SameFilesKept

\* A file added and files removed.
LEMMA AddRemoveKeeps ==
  ASSUME QueueInv, NEW ids, NEW id
  PROVE  /\ Kept(dir, RemoveFiles(dir, ids))
         /\ Kept(dir, AddFile(dir, id, NewSegment))
         /\ Kept(dir, AddFile(RemoveFiles(dir, ids), id, NewSegment))
<1>r. PICK r : r = RemoveFiles(dir, ids)
  OBVIOUS
<1>1. \A i \in DOMAIN r : i \in DOMAIN dir /\ r[i] = dir[i]
  BY <1>r DEF RemoveFiles
<1>2. ASSUME NEW c, \A i \in DOMAIN c : i \in DOMAIN dir /\ c[i] = dir[i]
      PROVE  Kept(dir, AddFile(c, id, NewSegment))
  <2>e. PICK e : e = AddFile(c, id, NewSegment)
    OBVIOUS
  <2>1. DOMAIN e = DOMAIN c \cup {id} /\ e[id] = NewSegment
        /\ \A i \in DOMAIN c : i # id => e[i] = c[i]
    BY <2>e DEF AddFile
  <2>2. \A i \in DOMAIN e : (i \in DOMAIN dir /\ e[i] = dir[i]) \/ e[i] = NewSegment
    BY <1>2, <2>1
  <2> QED BY <2>e, <2>2, SameFilesKept
<1>3. Kept(dir, r)
  BY <1>1, SameFilesKept
<1> QED BY <1>r, <1>1, <1>2, <1>3

\* queue.Advance, completed or cut short, keeps the files it does not trim.
LEMMA AdvanceIsKept ==
  ASSUME QueueInv, Advance \/ CrashInAdvance
  PROVE  Kept(dir, dir')
<1>1. pc = "advancing"
  BY DEF Advance, CrashInAdvance
<1>d. PICK d : d = [dir EXCEPT ![head] = AdvancedHead]
  OBVIOUS
<1>2. dir' = TrimmedFiles(d, segments) \/ dir' = d
  BY <1>d DEF Advance, CrashInAdvance, StopWith
<1>3. DOMAIN dir' \subseteq DOMAIN d /\ \A i \in DOMAIN dir' : dir'[i] = d[i]
  BY <1>2, TrimKeeps
<1>4. /\ DOMAIN d = DOMAIN dir
      /\ \A i \in DOMAIN d : d[i].blocks = dir[i].blocks /\ d[i].pos >= dir[i].pos
  BY <1>1, <1>d, AdvanceKeeps
<1> QED BY <1>3, <1>4 DEF Kept

\* Time changes no block and no position.
LEMMA TickIsKept == QueueInv /\ Tick => Kept(dir, dir')
<1> SUFFICES ASSUME QueueInv, Tick PROVE Kept(dir, dir')
  OBVIOUS
<1>1. DOMAIN dir' = DOMAIN dir
  BY DEF Tick
<1> SUFFICES ASSUME NEW i \in DOMAIN dir
             PROVE  dir'[i].blocks = dir[i].blocks /\ dir'[i].pos >= dir[i].pos
  BY <1>1 DEF Kept
<1>2. PICK a : dir'[i] = [dir[i] EXCEPT !.age = a]
  BY DEF Tick
<1>3. dir[i] = [blocks |-> dir[i].blocks, pos |-> dir[i].pos, size |-> dir[i].size, age |-> dir[i].age]
  BY DEF QueueInv, DirOK, FileOK, SegmentOK
<1>4. dir'[i].blocks = dir[i].blocks /\ dir'[i].pos = dir[i].pos
  BY <1>2, <1>3
<1> QED BY <1>4, Positions

\* PurgeOlderThan removes files, and adds an empty one when it removes the last.
LEMMA PurgeIsKept ==
  ASSUME QueueInv, PurgeOlderThan \/ CrashInPurge
  PROVE  Kept(dir, dir')
<1>1. PICK ids, id : \/ dir' = RemoveFiles(dir, ids)
                     \/ dir' = AddFile(RemoveFiles(dir, ids), id, NewSegment)
  BY DEF PurgeOlderThan, CrashInPurge, StopWith
<1> QED BY <1>1, AddRemoveKeeps

\* The steps that put no block on disk.
LEMMA OtherStepsKeep ==
  ASSUME QueueInv, [Next]_vars, \A p \in Payloads : ~AppendToTail(p) /\ ~AppendToNewSegment(p)
  PROVE  Kept(dir, dir')
<1>1. CASE dir' = dir
  BY <1>1, SameFilesKept
<1>2. CASE Open
  BY <1>2, OpenKeeps
<1>3. ASSUME NEW p \in Payloads, AppendTooLarge(p) \/ CrashInAppend(p) PROVE Kept(dir, dir')
  BY <1>3, AddRemoveKeeps DEF AppendTooLarge, CrashInAppend, StopWith
<1>4. CASE Advance \/ CrashInAdvance
  BY <1>4, AdvanceIsKept
<1>5. CASE PurgeOlderThan \/ CrashInPurge
  BY <1>5, PurgeIsKept
<1>6. CASE Tick
  BY <1>6, TickIsKept
<1>7. ASSUME Close \/ Crash \/ ReadCurrent \/ WriteSucceeds \/ WriteFails \/ UNCHANGED vars
             \/ \E p \in Payloads : AppendNotOpen(p)
      PROVE  dir' = dir
  BY <1>7 DEF Close, Crash, StopWith, ReadCurrent, WriteSucceeds, WriteFails, AppendNotOpen,
              queueVars, vars
<1> QED BY <1>1, <1>2, <1>3, <1>4, <1>5, <1>6, <1>7 DEF Next, QueueAppend, SendWrite

\* The steps that put a block on disk: it goes to a file of the open queue or to a new one.
LEMMA AppendsGrow ==
  ASSUME QueueInv, NEW p \in Payloads, AppendToTail(p) \/ AppendToNewSegment(p)
  PROVE  GrownAt(dir, dir', HintBlock(p), tail') /\ Ack
<1>1. CASE AppendToTail(p)
  <2>1. /\ isOpen /\ tail \in Range(segments) /\ Ack /\ tail' = tail
        /\ dir' = [dir EXCEPT ![tail] = AppendBlock(dir[tail], HintBlock(p))]
    BY <1>1 DEF AppendToTail, MayAppend, TailIsOpen
  <2>2. tail \in DOMAIN dir /\ dir = [i \in DOMAIN dir |-> dir[i]]
    BY <2>1 DEF QueueInv, Listed, ListOK, DirOK
  <2> QED BY <2>1, <2>2 DEF GrownAt
<1>2. CASE AppendToNewSegment(p)
  <2>id. PICK id, f : id = nextSegmentID(dir) /\ f = AppendBlock(NewSegment, HintBlock(p))
    OBVIOUS
  <2>1. Ack /\ tail' = id /\ dir' = AddFile(dir, id, f) /\ id <= MaxID
    BY <1>2, <2>id DEF AppendToNewSegment
  <2>2. id \notin DOMAIN dir
    BY <2>id, <2>1, NextIDOK
  <2>3. DOMAIN dir' = DOMAIN dir \cup {id} /\ dir'[id] = f /\ \A i \in DOMAIN dir : dir'[i] = dir[i]
    BY <2>1, <2>2 DEF AddFile
  <2> QED BY <2>id, <2>1, <2>2, <2>3 DEF GrownAt
<1> QED BY <1>1, <1>2

\* No step brings a hint back that has left the disk.
LEMMA PendingStep ==
  ASSUME QueueInv, QueueInv', [Next]_vars
  PROVE  Pending' \subseteq Pending \cup {last + 1}
<1>1. Pending = UnreadIn(dir, DOMAIN dir) /\ Pending' = UnreadIn(dir', DOMAIN dir')
  BY DEF Pending, UnreadIn
<1>2. DirOK(dir, acked) /\ DirOK(dir', acked')
  BY DEF QueueInv
<1>3. CASE \A p \in Payloads : ~AppendToTail(p) /\ ~AppendToNewSegment(p)
  BY <1>1, <1>2, <1>3, OtherStepsKeep, KeptIsRead
<1>4. ASSUME NEW p \in Payloads, AppendToTail(p) \/ AppendToNewSegment(p)
      PROVE  Pending' \subseteq Pending \cup {last + 1}
  <2>1. HintBlock(p) \in Block /\ HintBlock(p).len >= 1 /\ HintBlock(p).hint = last + 1
    BY HintBlockOK DEF QueueInv
  <2> QED BY <1>1, <1>2, <1>4, <2>1, AppendsGrow, GrownIsRead
<1> QED BY <1>3, <1>4

\* A hint that has left the disk does not come back: neither a restart, nor a crash
\* inside segment.append, segment.advance, trimHead or PurgeOlderThan, nor a segment
\* name used again makes queue.Current return it once more.
THEOREM NothingComesBack == Spec => NoResurrection
<1>1. ASSUME QueueInv, QueueInv', [Next]_vars
      PROVE  [\A n \in acked : n \notin Pending => n \notin Pending']_vars
  <2>1. last + 1 \notin acked
    BY <1>1 DEF QueueInv, HistoryOK, acked
  <2> QED BY <1>1, <2>1, PendingStep
<1> QED BY <1>1, QueueInvariant, PTL DEF Spec, NoResurrection

-----------------------------------------------------------------------------
(* Order.  InOrder is not inductive by itself: that the block SendWrite holds is the
   oldest one on disk needs hints to be written to the files in order, appends to go to
   the file with the greatest name, and the list of segments to be in the order of the
   names.  loadSegments lists the files in the order of their names as strings, which is
   that order as long as the names have one digit. *)

\* Hints increase along a file, and from a file to one with a greater name.
Ordered(d) ==
  \A i, j \in DOMAIN d : \A o \in DOMAIN d[i].blocks, p \in DOMAIN d[j].blocks :
    (i < j \/ (i = j /\ o < p)) => d[i].blocks[o].hint < d[j].blocks[p].hint

Ascending(segs) == \A i, j \in DOMAIN segs : i < j => segs[i] < segs[j]

\* The tail t is the last segment, or was purged before all of them were added.
TailLast(segs, t) ==
  /\ Ascending(segs)
  /\ t = segs[Len(segs)] \/ \A i \in DOMAIN segs : t < segs[i]

OrderInv == Ordered(dir) /\ (isOpen => TailLast(segments, tail)) /\ InOrder

\* A directory that was kept is still ordered.
LEMMA KeptOrdered ==
  ASSUME NEW d, NEW e, Kept(d, e), Ordered(d)
  PROVE  Ordered(e)
<1>1. DOMAIN NewSegment.blocks = {}
  BY DEF NewSegment
<1> SUFFICES ASSUME NEW i \in DOMAIN e, NEW j \in DOMAIN e,
                    NEW o \in DOMAIN e[i].blocks, NEW p \in DOMAIN e[j].blocks,
                    i < j \/ (i = j /\ o < p)
             PROVE  e[i].blocks[o].hint < e[j].blocks[p].hint
  BY DEF Ordered
<1>2. /\ i \in DOMAIN d /\ e[i].blocks = d[i].blocks
      /\ j \in DOMAIN d /\ e[j].blocks = d[j].blocks
  BY <1>1 DEF Kept
<1> QED BY <1>2 DEF Ordered

\* A hint greater than all others, appended to the last file.
LEMMA GrownOrdered ==
  ASSUME NEW d, NEW H, DirOK(d, H), Ordered(d), NEW e, NEW b, NEW id \in Nat,
         GrownAt(d, e, b, id), \A i \in DOMAIN d : i <= id, \A h \in H : h < b.hint
  PROVE  Ordered(e)
<1>f. PICK f, n : f = (IF id \in DOMAIN d THEN d[id] ELSE NewSegment) /\ n = End(f)
  OBVIOUS
<1>1. /\ DOMAIN e = DOMAIN d \cup {id} /\ e[id].blocks = WithBlock(f, b)
      /\ \A i \in DOMAIN d : i # id => e[i] = d[i]
  BY <1>f DEF GrownAt, AppendBlock
<1>2. FileOK(f)
  BY <1>f, NewSegmentOK DEF DirOK
<1>3. n \in Nat /\ \A o \in DOMAIN f.blocks : o \in Nat /\ o < n
  <2>1. f.size \in Nat /\ f.size >= 1 /\ n = f.size - 1 /\ DOMAIN f.blocks \subseteq Nat
    <3>1. f.size \in Nat /\ DOMAIN f.blocks \subseteq Nat
      BY <1>2 DEF FileOK, SegmentOK
    <3>2. f.size >= 1
      BY <1>2 DEF FileOK, Contiguous, footerSize
    <3>3. n = f.size - 1
      BY <1>f DEF End, footerSize
    <3> QED BY <3>1, <3>2, <3>3
  <2>2. n \in Nat
    BY <2>1
  <2> SUFFICES ASSUME NEW o \in DOMAIN f.blocks PROVE o < n
    BY <2>1, <2>2
  <2>3. o \in Nat /\ f.blocks[o] \in Block
    BY <1>2 DEF FileOK, SegmentOK
  <2>4. f.blocks[o].len \in Nat
    BY <2>3 DEF Block
  <2>5. o + (f.blocks[o].len + 1) <= n
    BY <1>f, <1>2 DEF FileOK, Contiguous, BlockSize
  <2> QED BY <2>2, <2>3, <2>4, <2>5
<1>4. /\ DOMAIN e[id].blocks = DOMAIN f.blocks \cup {n} /\ e[id].blocks[n] = b
      /\ \A o \in DOMAIN f.blocks : e[id].blocks[o] = f.blocks[o]
  BY <1>f, <1>1, <1>3 DEF WithBlock
<1>5. DOMAIN f.blocks # {} => id \in DOMAIN d /\ f = d[id]
  BY <1>f DEF NewSegment
<1>6. ASSUME NEW i \in DOMAIN d, NEW o \in DOMAIN d[i].blocks
      PROVE  d[i].blocks[o].hint < b.hint
  BY DEF DirOK, HintsIn
<1>7. ASSUME NEW i \in DOMAIN e, NEW o \in DOMAIN e[i].blocks
      PROVE  \/ i = id /\ o = n /\ e[i].blocks[o] = b
             \/ i \in DOMAIN d /\ o \in DOMAIN d[i].blocks /\ e[i].blocks[o] = d[i].blocks[o]
  BY <1>1, <1>4, <1>5
<1>8. DOMAIN d \subseteq Nat
  BY BoundAssumption DEF DirOK
<1> SUFFICES ASSUME NEW i \in DOMAIN e, NEW j \in DOMAIN e,
                    NEW o \in DOMAIN e[i].blocks, NEW p \in DOMAIN e[j].blocks,
                    i < j \/ (i = j /\ o < p)
             PROVE  e[i].blocks[o].hint < e[j].blocks[p].hint
  BY DEF Ordered
<1>9. CASE i = id /\ o = n
  <2>1. i \in Nat /\ j \in Nat /\ j <= id
    BY <1>1, <1>8
  <2>2. j = id
    BY <1>9, <2>1
  <2>3. p \in Nat /\ p <= n
    BY <1>3, <1>4, <2>2
  <2> QED BY <1>3, <1>9, <2>1, <2>2, <2>3
<1>10. CASE ~(i = id /\ o = n)
  <2>1. i \in DOMAIN d /\ o \in DOMAIN d[i].blocks /\ e[i].blocks[o] = d[i].blocks[o]
    BY <1>7, <1>10
  <2>2. CASE j = id /\ p = n /\ e[j].blocks[p] = b
    BY <1>6, <2>1, <2>2
  <2>3. CASE j \in DOMAIN d /\ p \in DOMAIN d[j].blocks /\ e[j].blocks[p] = d[j].blocks[p]
    BY <2>1, <2>3 DEF Ordered
  <2> QED BY <1>7, <2>2, <2>3
<1> QED BY <1>9, <1>10

-----------------------------------------------------------------------------
(* The list of segments *)

\* loadSegments with names of one digit.
LEMMA LoadedLast ==
  ASSUME MaxID <= 9, NEW d, DOMAIN d \subseteq 1 .. MaxID, DOMAIN d # {},
         NEW s \in LoadOrders(DOMAIN d)
  PROVE  TailLast(s, s[Len(s)])
<1>1. /\ \A i \in DOMAIN s : s[i] \in DOMAIN d
      /\ \A i, j \in DOMAIN s : i < j => NameBefore(s[i], s[j])
  BY DEF LoadOrders
<1>2. \A i \in DOMAIN s : s[i] \in Nat /\ s[i] <= 9
  BY <1>1, BoundAssumption
<1>3. \A a, b \in Nat : a <= 9 /\ b <= 9 /\ NameBefore(a, b) => a < b
  BY DEF NameBefore
<1>4. Ascending(s)
  BY <1>1, <1>2, <1>3 DEF Ascending
<1> QED BY <1>4 DEF TailLast

\* A suffix of the list.
LEMMA SuffixLast ==
  ASSUME NEW segs \in Seq(1 .. MaxID), NEW t, TailLast(segs, t), NEW n \in 0 .. Len(segs),
         n < Len(segs), NEW u \in Seq(1 .. MaxID), Len(u) = Len(segs) - n,
         \A i \in DOMAIN u : u[i] = segs[i + n]
  PROVE  TailLast(u, t)
<1>1. /\ n \in Nat /\ Len(segs) \in Nat /\ Len(u) \in Nat
      /\ DOMAIN segs = 1 .. Len(segs) /\ DOMAIN u = 1 .. Len(u)
  OBVIOUS
<1>2. \A i \in DOMAIN u : i + n \in DOMAIN segs /\ i \in Nat
  BY <1>1
<1>3. Ascending(u)
  <2> SUFFICES ASSUME NEW i \in DOMAIN u, NEW j \in DOMAIN u, i < j PROVE u[i] < u[j]
    BY DEF Ascending
  <2>1. i + n < j + n
    BY <1>1, <1>2
  <2> QED BY <1>2, <2>1 DEF TailLast, Ascending
<1>4. CASE t = segs[Len(segs)]
  <2>1. Len(u) \in DOMAIN u /\ Len(u) + n = Len(segs)
    BY <1>1
  <2> QED BY <1>3, <1>4, <2>1 DEF TailLast
<1>5. CASE \A i \in DOMAIN segs : t < segs[i]
  BY <1>2, <1>3, <1>5 DEF TailLast
<1> QED BY <1>4, <1>5 DEF TailLast

\* trimHead leaves the tail where it is.
LEMMA TrimmedLast ==
  ASSUME NEW segs \in Seq(1 .. MaxID), NEW t, TailLast(segs, t)
  PROVE  TailLast(Trimmed(segs), t)
<1>1. CASE Len(segs) > 1
  <2>u. PICK u : u = Tail(segs)
    OBVIOUS
  <2>1. /\ u \in Seq(1 .. MaxID) /\ Len(u) = Len(segs) - 1
        /\ \A i \in 1 .. Len(segs) - 1 : u[i] = segs[i + 1]
    BY <1>1, <2>u
  <2>2. DOMAIN u = 1 .. Len(segs) - 1 /\ 1 \in 0 .. Len(segs) /\ 1 < Len(segs)
    BY <1>1, <2>1
  <2>3. TailLast(u, t)
    BY <2>1, <2>2, SuffixLast
  <2> QED BY <1>1, <2>u, <2>3 DEF Trimmed
<1>2. CASE ~(Len(segs) > 1)
  BY <1>2 DEF Trimmed
<1> QED BY <1>1, <1>2

\* addSegment.
LEMMA ExtendedLast ==
  ASSUME NEW segs \in Seq(1 .. MaxID), Ascending(segs), NEW id \in Nat,
         \A i \in DOMAIN segs : segs[i] < id
  PROVE  TailLast(Append(segs, id), id)
<1>u. PICK u : u = Append(segs, id)
  OBVIOUS
<1>1. /\ Len(u) = Len(segs) + 1 /\ Len(segs) \in Nat /\ DOMAIN u = 1 .. Len(u)
      /\ DOMAIN segs = 1 .. Len(segs) /\ u[Len(u)] = id
      /\ \A i \in DOMAIN segs : u[i] = segs[i]
  BY <1>u
<1>2. Ascending(u)
  <2> SUFFICES ASSUME NEW i \in DOMAIN u, NEW j \in DOMAIN u, i < j PROVE u[i] < u[j]
    BY DEF Ascending
  <2>1. i \in DOMAIN segs
    BY <1>1
  <2>2. CASE j = Len(u)
    BY <1>1, <2>1, <2>2
  <2>3. CASE j # Len(u)
    <3>1. j \in DOMAIN segs
      BY <1>1, <2>3
    <3> QED BY <1>1, <2>1, <3>1 DEF Ascending
  <2> QED BY <2>2, <2>3
<1> QED BY <1>u, <1>1, <1>2 DEF TailLast

-----------------------------------------------------------------------------
(* The order of hints is kept *)

\* The tail to which Append writes has the greatest name.
LEMMA TailIsGreatest ==
  ASSUME QueueInv, isOpen, TailLast(segments, tail), tail \in Range(segments)
  PROVE  \A i \in DOMAIN dir : i <= tail
<1>1. /\ segments \in Seq(1 .. MaxID) /\ Range(segments) = DOMAIN dir /\ Ascending(segments)
  BY DEF QueueInv, MemoryOK, Listed, ListOK, TailLast
<1>2. PICK k \in DOMAIN segments : segments[k] = tail
  BY DEF Range
<1>3. \A j \in DOMAIN segments : segments[j] \in Nat
  BY <1>1, ElementOfSeq, BoundAssumption
<1>4. tail = segments[Len(segments)]
  BY <1>2, <1>3 DEF TailLast
<1> SUFFICES ASSUME NEW j \in DOMAIN segments PROVE segments[j] <= tail
  BY <1>1 DEF Range
<1>5. Len(segments) \in DOMAIN segments /\ j \in Nat /\ j <= Len(segments) /\ Len(segments) \in Nat
  BY <1>1
<1>6. CASE j = Len(segments)
  BY <1>3, <1>4, <1>6
<1>7. CASE j # Len(segments)
  <2>1. segments[j] < segments[Len(segments)]
    BY <1>1, <1>5, <1>7 DEF Ascending
  <2> QED BY <1>3, <1>4, <1>5, <2>1
<1> QED BY <1>6, <1>7

\* addSegment's name is greater than those of the list.
LEMMA NextIsAfter ==
  ASSUME QueueInv, isOpen
  PROVE  \A i \in DOMAIN segments : segments[i] < nextSegmentID(dir)
<1>1. Range(segments) = DOMAIN dir /\ DOMAIN dir \subseteq 1 .. MaxID
  BY DEF QueueInv, DirOK, Listed, ListOK
<1> QED BY <1>1, NextIsLast DEF Range

\* Appends keep the order on disk.
LEMMA AppendOrdered ==
  ASSUME QueueInv, OrderInv, NEW p \in Payloads, AppendToTail(p) \/ AppendToNewSegment(p)
  PROVE  Ordered(dir')
<1>1. GrownAt(dir, dir', HintBlock(p), tail')
  BY AppendsGrow
<1>2. isOpen /\ tail \in Range(segments) /\ TailLast(segments, tail)
  BY DEF AppendToTail, AppendToNewSegment, MayAppend, TailIsOpen, OrderInv
<1>3. DOMAIN dir \subseteq 1 .. MaxID /\ DirOK(dir, acked) /\ Ordered(dir)
  BY DEF QueueInv, DirOK, OrderInv
<1>4. \A h \in acked : h < HintBlock(p).hint
  BY HintBlockOK DEF QueueInv, HistoryOK, acked
<1>5. tail' \in Nat /\ \A i \in DOMAIN dir : i <= tail'
  <2>1. CASE AppendToTail(p)
    <3>1. tail' = tail
      BY <2>1 DEF AppendToTail
    <3>2. tail \in 1 .. MaxID
      BY <1>2 DEF QueueInv, MemoryOK, isOpen
    <3> QED BY <1>2, <3>1, <3>2, TailIsGreatest, BoundAssumption
  <2>2. CASE AppendToNewSegment(p)
    <3>1. tail' = nextSegmentID(dir)
      BY <2>2 DEF AppendToNewSegment
    <3>2. tail' \in Nat /\ \A i \in DOMAIN dir : i < tail'
      BY <1>3, <3>1, NextIsLast, NextIsFree
    <3>3. \A i \in DOMAIN dir : i \in Nat
      BY <1>3, BoundAssumption
    <3> QED BY <3>2, <3>3
  <2> QED BY <2>1, <2>2
<1> QED BY <1>1, <1>3, <1>4, <1>5, GrownOrdered

\* Every step keeps the list in order and the tail at its end.
LEMMA TailLastStep ==
  ASSUME MaxID <= 9, QueueInv, OrderInv, [Next]_vars, isOpen'
  PROVE  TailLast(segments', tail')
<1>0. segments \in Seq(1 .. MaxID) /\ DOMAIN dir \subseteq 1 .. MaxID
  BY DEF QueueInv, MemoryOK, DirOK
<1>1. CASE Open
  <2>d. PICK d : d = IF DOMAIN dir = {} THEN [i \in {1} |-> NewSegment] ELSE dir
    OBVIOUS
  <2>1. DOMAIN d # {} /\ DOMAIN d \subseteq 1 .. MaxID
    <3>1. CASE DOMAIN dir = {}
      <4>1. DOMAIN d = {1}
        BY <2>d, <3>1
      <4> QED BY <4>1, BoundAssumption
    <3>2. CASE DOMAIN dir # {}
      BY <1>0, <2>d, <3>2
    <3> QED BY <3>1, <3>2
  <2>2. PICK s \in LoadOrders(DOMAIN d) :
          tail' = s[Len(s)] /\ (segments' = Trimmed(s) \/ segments' = s)
    BY <1>1, <2>d DEF Open
  <2>3. s \in Seq(1 .. MaxID) /\ TailLast(s, s[Len(s)])
    BY <2>1, LoadedList, LoadedLast
  <2> QED BY <2>2, <2>3, TrimmedLast
<1>2. ASSUME NEW p \in Payloads, AppendToNewSegment(p) \/ AppendTooLarge(p)
      PROVE  TailLast(segments', tail')
  <2>1. /\ isOpen /\ segments' = Append(segments, nextSegmentID(dir)) /\ tail' = nextSegmentID(dir)
    BY <1>2 DEF AppendToNewSegment, AppendTooLarge, MayAppend
  <2>2. nextSegmentID(dir) \in Nat
    BY <1>0, NextIsFree
  <2>3. Ascending(segments)
    BY <2>1 DEF OrderInv, TailLast
  <2> QED BY <1>0, <2>1, <2>2, <2>3, NextIsAfter, ExtendedLast
<1>3. CASE Advance
  <2>1. /\ isOpen /\ tail' = tail /\ (segments' = segments \/ segments' = Trimmed(segments))
    BY <1>3 DEF Advance, QueueInv, Listed
  <2> QED BY <1>0, <2>1, TrimmedLast DEF OrderInv
<1>4. CASE PurgeOlderThan
  <2>1. PICK n \in OldPrefix :
          \/ /\ n < Len(segments) /\ segments' = SubSeq(segments, n + 1, Len(segments))
          \/ /\ n = Len(segments) /\ segments' = <<segments[n] + 1>>
    BY <1>4 DEF PurgeOlderThan
  <2>2. isOpen /\ tail' = tail /\ TailLast(segments, tail)
    BY <1>4 DEF PurgeOlderThan, OrderInv
  <2>3. n \in 1 .. Len(segments) /\ Len(segments) \in Nat /\ DOMAIN segments = 1 .. Len(segments)
    BY <1>0 DEF OldPrefix
  <2>4. CASE n < Len(segments) /\ segments' = SubSeq(segments, n + 1, Len(segments))
    <3>u. PICK u : u = SubSeq(segments, n + 1, Len(segments))
      OBVIOUS
    <3>1. /\ u \in Seq(1 .. MaxID) /\ Len(u) = Len(segments) - n
          /\ \A i \in 1 .. Len(segments) - n : u[i] = segments[i + n]
      <4>1. \A i \in n + 1 .. Len(segments) : segments[i] \in 1 .. MaxID
        <5>1. \A i \in n + 1 .. Len(segments) : i \in 1 .. Len(segments)
          BY <2>3
        <5>2. \A i \in 1 .. Len(segments) : segments[i] \in 1 .. MaxID
          BY <1>0, ElementOfSeq
        <5> QED BY <5>1, <5>2
      <4>2. n + 1 \in Int /\ Len(segments) \in Int /\ n + 1 <= Len(segments)
        BY <2>3, <2>4
      <4>3. /\ u \in Seq(1 .. MaxID)
            /\ Len(u) = IF n + 1 <= Len(segments) THEN Len(segments) - (n + 1) + 1 ELSE 0
            /\ \A i \in 1 .. Len(segments) - (n + 1) + 1 : u[i] = segments[(n + 1) + i - 1]
        BY <3>u, <4>1, <4>2, SubSeqProperties
      <4> QED BY <2>3, <4>2, <4>3
    <3>2. DOMAIN u = 1 .. Len(segments) - n
      BY <3>1
    <3>3. n \in 0 .. Len(segments) /\ n < Len(segments)
      BY <2>3, <2>4
    <3>4. TailLast(u, tail)
      BY <1>0, <2>2, <3>1, <3>2, <3>3, SuffixLast
    <3> QED BY <2>2, <2>4, <3>u, <3>4
  <2>5. CASE n = Len(segments) /\ segments' = <<segments[n] + 1>>
    <3>1. segments[n] \in Nat /\ tail \in Nat
      BY <1>0, <2>2, <2>3, ElementOfSeq, BoundAssumption DEF QueueInv, MemoryOK, isOpen
    <3>2. tail < segments[n] + 1
      BY <2>2, <2>3, <2>5, <3>1 DEF TailLast
    <3>3. DOMAIN segments' = {1} /\ segments'[1] = segments[n] + 1
      BY <2>5
    <3> QED BY <2>2, <3>2, <3>3 DEF TailLast, Ascending
  <2> QED BY <2>1, <2>4, <2>5
<1>5. ASSUME Close \/ Crash \/ CrashInAdvance \/ CrashInPurge \/ \E p \in Payloads : CrashInAppend(p)
      PROVE  FALSE
  BY <1>5 DEF Close, Crash, CrashInAdvance, CrashInPurge, CrashInAppend, StopWith, isOpen
<1>6. ASSUME ReadCurrent \/ WriteSucceeds \/ WriteFails \/ Tick \/ UNCHANGED vars
             \/ \E p \in Payloads : AppendToTail(p) \/ AppendNotOpen(p)
      PROVE  UNCHANGED <<segments, tail>>
  BY <1>6 DEF ReadCurrent, WriteSucceeds, WriteFails, Tick, AppendToTail, AppendNotOpen, queueVars, vars
<1>7. CASE UNCHANGED <<segments, tail>>
  BY <1>7 DEF isOpen, OrderInv
<1> QED BY <1>1, <1>2, <1>3, <1>4, <1>5, <1>6, <1>7 DEF Next, QueueAppend, SendWrite

\* The current block of the head holds the oldest hint on disk.
LEMMA HeadIsOldest ==
  ASSUME QueueInv, OrderInv, isOpen, NEW f, f = dir[head], f.pos \in DOMAIN f.blocks
  PROVE  /\ f.blocks[f.pos].hint \in Pending
         /\ \A m \in Pending : f.blocks[f.pos].hint <= m
<1>1. head \in DOMAIN dir /\ FileOK(f)
  BY HeadOK
<1>2. f.blocks[f.pos].hint \in Pending
  BY <1>1 DEF Pending, Unread, FileOK, SegmentOK
<1>3. ASSUME NEW j \in DOMAIN dir, NEW o \in DOMAIN dir[j].blocks, o >= dir[j].pos
      PROVE  f.blocks[f.pos].hint <= dir[j].blocks[o].hint
  <2>1. /\ FileOK(dir[j]) /\ j \in Nat /\ head \in Nat
    BY <1>1, BoundAssumption DEF QueueInv, DirOK
  <2>2. o \in Nat /\ f.pos \in Nat /\ f.blocks[f.pos] \in Block /\ dir[j].blocks[o] \in Block
    BY <1>1, <2>1 DEF FileOK, SegmentOK
  <2>3. f.blocks[f.pos].hint \in Nat /\ dir[j].blocks[o].hint \in Nat
    BY <2>2 DEF Block
  <2>4. head <= j
    <3>1. segments \in Seq(1 .. MaxID) /\ Range(segments) = DOMAIN dir /\ Ascending(segments)
      BY DEF QueueInv, MemoryOK, Listed, ListOK, OrderInv, TailLast
    <3>2. PICK k \in DOMAIN segments : segments[k] = j
      BY <3>1 DEF Range
    <3>3. 1 \in DOMAIN segments /\ k \in Nat /\ k >= 1
      BY <3>1, <3>2
    <3>4. CASE k = 1
      BY <2>1, <3>2, <3>4 DEF head
    <3>5. CASE k # 1
      <4>1. segments[1] < segments[k]
        BY <3>1, <3>3, <3>5 DEF Ascending
      <4> QED BY <2>1, <3>2, <4>1 DEF head
    <3> QED BY <3>4, <3>5
  <2>5. CASE head < j \/ (head = j /\ f.pos < o)
    <3>1. f.blocks[f.pos].hint < dir[j].blocks[o].hint
      BY <1>1, <2>5 DEF OrderInv, Ordered
    <3> QED BY <2>3, <3>1
  <2>6. CASE head = j /\ f.pos = o
    BY <2>3, <2>6
  <2>7. \/ head < j \/ (head = j /\ f.pos < o) \/ (head = j /\ f.pos = o)
    BY <1>3, <2>1, <2>2, <2>4
  <2> QED BY <2>5, <2>6, <2>7
<1>4. \A m \in Pending : f.blocks[f.pos].hint <= m
  BY <1>3 DEF Pending, Unread
<1> QED BY <1>2, <1>4

\* What SendWrite holds is the oldest hint on disk.
LEMMA BufIsOldest ==
  ASSUME QueueInv, OrderInv, pc # "idle"
  PROVE  buf.hint \in Pending /\ \A m \in Pending : buf.hint <= m
<1>1. isOpen
  BY DEF QueueInv, Listed
<1>f. PICK f : f = dir[head]
  OBVIOUS
<1>2. f.pos \in DOMAIN f.blocks /\ buf = f.blocks[f.pos]
  BY <1>f DEF QueueInv, SenderOK
<1> QED BY <1>1, <1>f, <1>2, HeadIsOldest

\* Every step changes the history as the sender and the purge do.
LEMMA HistoryStep ==
  ASSUME QueueInv, [Next]_vars
  PROVE  /\ Handled \subseteq Handled'
         /\ \/ delivered' = delivered
            \/ pc = "sending" /\ acked' = acked /\ delivered' = delivered \cup {buf.hint}
<1>1. /\ delivered \subseteq delivered' /\ skipped \subseteq skipped'
      /\ expired \subseteq expired' /\ swallowed \subseteq swallowed'
      /\ \/ delivered' = delivered
         \/ pc = "sending" /\ last' = last /\ delivered' = delivered \cup {buf.hint}
  <2>1. CASE \/ Open \/ Close \/ Crash \/ Advance \/ CrashInAdvance \/ Tick \/ UNCHANGED vars
             \/ \E p \in Payloads : AppendTooLarge(p) \/ CrashInAppend(p)
    BY <2>1 DEF Open, Close, Crash, Advance, CrashInAdvance, Tick, vars, history, AppendTooLarge,
                CrashInAppend
  <2>2. CASE \E p \in Payloads : AppendToTail(p) \/ AppendToNewSegment(p) \/ AppendNotOpen(p)
    BY <2>2 DEF AppendToTail, AppendToNewSegment, AppendNotOpen, Ack
  <2>3. CASE ReadCurrent \/ WriteSucceeds \/ WriteFails
    BY <2>3 DEF ReadCurrent, WriteSucceeds, WriteFails
  <2>4. CASE PurgeOlderThan \/ CrashInPurge
    BY <2>4 DEF PurgeOlderThan, CrashInPurge, Expire
  <2> QED BY <2>1, <2>2, <2>3, <2>4 DEF Next, QueueAppend, SendWrite
<1> QED BY <1>1 DEF Handled, acked

\* Every step keeps the order of the sends.
LEMMA InOrderStep ==
  ASSUME QueueInv, OrderInv, [Next]_vars, QueueInv'
  PROVE  InOrder'
<1> SUFFICES ASSUME NEW m \in acked', NEW n \in delivered', m < n PROVE m \in Handled'
  BY DEF InOrder
<1>1. Handled \subseteq Handled'
  BY HistoryStep
<1>2. last \in Nat /\ last' \in Nat /\ delivered \subseteq acked
  BY DEF QueueInv, HistoryOK
<1>3. CASE n \in delivered
  <2>1. n \in Nat /\ n <= last /\ m \in Nat /\ m >= 1
    BY <1>2, <1>3 DEF acked
  <2>2. m \in acked
    BY <1>2, <2>1 DEF acked
  <2> QED BY <1>1, <1>3, <2>2 DEF OrderInv, InOrder
<1>4. CASE n \notin delivered
  <2>1. pc = "sending" /\ acked' = acked /\ n = buf.hint
    BY <1>4, HistoryStep
  <2>2. buf.hint \in acked
    BY <2>1, HeadOK DEF QueueInv, Listed
  <2>3. m \notin Pending
    <3>1. m \in Nat /\ n \in Nat
      BY <1>2, <2>1, <2>2 DEF acked
    <3> QED BY <2>1, <3>1, BufIsOldest
  <2>4. m \in Handled
    BY <2>1, <2>3 DEF QueueInv, NoOtherLoss
  <2> QED BY <1>1, <2>4
<1> QED BY <1>3, <1>4

\* Nothing is out of order before the queue is first opened.
LEMMA OrderInvInit == Init => OrderInv
<1> SUFFICES ASSUME Init PROVE OrderInv
  OBVIOUS
<1>1. \A i \in DOMAIN dir : DOMAIN dir[i].blocks = {}
  BY DEF Init, NewSegment
<1>2. delivered = {} /\ ~isOpen
  BY DEF Init, isOpen
<1> QED BY <1>1, <1>2 DEF OrderInv, Ordered, InOrder

\* Every step keeps the order.
LEMMA OrderInvStep ==
  ASSUME MaxID <= 9
  PROVE  QueueInv /\ QueueInv' /\ OrderInv /\ [Next]_vars => OrderInv'
<1> SUFFICES ASSUME QueueInv, QueueInv', OrderInv, [Next]_vars PROVE OrderInv'
  OBVIOUS
<1>1. Ordered(dir')
  <2>1. CASE \A p \in Payloads : ~AppendToTail(p) /\ ~AppendToNewSegment(p)
    BY <2>1, OtherStepsKeep, KeptOrdered DEF OrderInv
  <2>2. CASE \E p \in Payloads : AppendToTail(p) \/ AppendToNewSegment(p)
    BY <2>2, AppendOrdered
  <2> QED BY <2>1, <2>2
<1>2. isOpen' => TailLast(segments', tail')
  BY TailLastStep
<1>3. InOrder'
  BY InOrderStep
<1> QED BY <1>1, <1>2, <1>3 DEF OrderInv

\* As long as segment names have one digit, hints reach the target in the order in which
\* Append acknowledged them, whatever is retried, purged or restarted: when one has been
\* applied, every earlier one has been applied, dropped, aged out or swallowed.
THEOREM HintsAreSentInOrder ==
  ASSUME MaxID <= 9
  PROVE  Spec => []InOrder
<1>1. Spec => []OrderInv
  BY OrderInvInit, OrderInvStep, QueueInvariant, PTL DEF Spec
<1>2. OrderInv => InOrder
  BY DEF OrderInv
<1> QED BY <1>1, <1>2, PTL

-----------------------------------------------------------------------------
(* The log.  When no segment outlives MaxAge nothing is ever purged, so the tail of an
   open queue stays open, and every step of the queue is a step of HandoffLog. *)

\* No file is old, and the tail is open.
Young ==
  /\ \A i \in DOMAIN dir : dir[i].age <= Horizon
  /\ isOpen => TailIsOpen

\* Nothing is old enough to be purged.
LEMMA NothingIsPurged ==
  ASSUME QueueInv, Young, Horizon <= MaxAge
  PROVE  ~PurgeOlderThan /\ ~CrashInPurge
<1> SUFFICES ASSUME isOpen, NEW n \in OldPrefix PROVE FALSE
  BY DEF PurgeOlderThan, CrashInPurge, StopWith
<1>1. n \in DOMAIN segments /\ \A j \in 1 .. n : TooOld(dir[segments[j]])
  BY DEF OldPrefix
<1>2. 1 \in 1 .. n
  BY <1>1 DEF QueueInv, MemoryOK
<1>3. dir[head].age > MaxAge
  BY <1>1, <1>2 DEF TooOld, head
<1>4. dir[head].age \in Nat /\ dir[head].age <= Horizon
  BY HeadOK DEF FileOK, SegmentOK, Young
<1> QED BY <1>3, <1>4, AgeAssumption

\* Every step leaves the ages within the horizon.
LEMMA AgeStep ==
  ASSUME QueueInv, Young, Horizon <= MaxAge, [Next]_vars
  PROVE  \A i \in DOMAIN dir' : dir'[i].age <= Horizon
<1>n. NewSegment.age <= Horizon /\ 0 <= Horizon
  BY AgeAssumption DEF NewSegment
<1>y. \A i \in DOMAIN dir : dir[i].age <= Horizon
  BY DEF Young
<1>1. CASE Open
  <2>d. PICK d : d = IF DOMAIN dir = {} THEN [i \in {1} |-> NewSegment] ELSE dir
    OBVIOUS
  <2>1. \A i \in DOMAIN d : d[i].age <= Horizon
    BY <1>n, <1>y, <2>d
  <2>2. PICK s : dir' = TrimmedFiles(d, s) \/ dir' = d
    BY <1>1, <2>d DEF Open
  <2>3. DOMAIN dir' \subseteq DOMAIN d /\ \A i \in DOMAIN dir' : dir'[i] = d[i]
    BY <2>2, TrimKeeps
  <2> QED BY <2>1, <2>3
<1>2. ASSUME NEW p \in Payloads, AppendToTail(p) \/ AppendToNewSegment(p)
      PROVE  \A i \in DOMAIN dir' : dir'[i].age <= Horizon
  <2>1. GrownAt(dir, dir', HintBlock(p), tail')
    BY <1>2, AppendsGrow
  <2>2. dir'[tail'].age = 0
    BY <2>1 DEF GrownAt, AppendBlock
  <2> QED BY <1>n, <1>y, <2>1, <2>2 DEF GrownAt
<1>3. ASSUME NEW p \in Payloads, AppendTooLarge(p) \/ CrashInAppend(p)
      PROVE  \A i \in DOMAIN dir' : dir'[i].age <= Horizon
  <2>1. PICK id : dir' = AddFile(dir, id, NewSegment)
    BY <1>3 DEF AppendTooLarge, CrashInAppend, StopWith
  <2>2. DOMAIN dir' = DOMAIN dir \cup {id} /\ dir'[id] = NewSegment
        /\ \A i \in DOMAIN dir : i # id => dir'[i] = dir[i]
    BY <2>1 DEF AddFile
  <2> QED BY <1>n, <1>y, <2>2
<1>4. CASE Advance \/ CrashInAdvance
  <2>d. PICK d, f : d = [dir EXCEPT ![head] = AdvancedHead] /\ f = dir[head]
    OBVIOUS
  <2>1. dir' = TrimmedFiles(d, segments) \/ dir' = d
    BY <1>4, <2>d DEF Advance, CrashInAdvance, StopWith
  <2>2. DOMAIN dir' \subseteq DOMAIN d /\ \A i \in DOMAIN dir' : dir'[i] = d[i]
    BY <2>1, TrimKeeps
  <2>3. isOpen
    BY <1>4 DEF Advance, CrashInAdvance, QueueInv, Listed
  <2>4. head \in DOMAIN dir /\ FileOK(f) /\ dir = [i \in DOMAIN dir |-> dir[i]]
    BY <2>3, <2>d, HeadOK DEF QueueInv, DirOK
  <2>5. AdvancedHead = f \/ AdvancedHead.age = 0
    BY <2>d, <2>4 DEF AdvancedHead, AdvanceSegment, FileOK, SegmentOK
  <2>6. AdvancedHead.age <= Horizon
    BY <1>n, <1>y, <2>d, <2>4, <2>5
  <2>7. /\ DOMAIN d = DOMAIN dir /\ d[head] = AdvancedHead
        /\ \A i \in DOMAIN dir : i # head => d[i] = dir[i]
    BY <2>d, <2>4
  <2> QED BY <1>y, <2>2, <2>6, <2>7
<1>5. CASE Tick
  <2>1. /\ DOMAIN dir' = DOMAIN dir
        /\ \A i \in DOMAIN dir :
             dir'[i] = [dir[i] EXCEPT !.age = IF dir[i].age < Horizon THEN dir[i].age + 1 ELSE dir[i].age]
    BY <1>5 DEF Tick
  <2> SUFFICES ASSUME NEW i \in DOMAIN dir PROVE dir'[i].age <= Horizon
    BY <2>1
  <2>f. PICK f, g : f = dir[i] /\ g = dir'[i]
    OBVIOUS
  <2>2. SegmentOK(f)
    BY <2>f DEF QueueInv, DirOK, FileOK
  <2>3. f = [blocks |-> f.blocks, pos |-> f.pos, size |-> f.size, age |-> f.age] /\ f.age \in Nat
    BY <2>2 DEF SegmentOK
  <2>4. g = [f EXCEPT !.age = IF f.age < Horizon THEN f.age + 1 ELSE f.age]
    BY <2>1, <2>f
  <2>5. g.age = IF f.age < Horizon THEN f.age + 1 ELSE f.age
    BY <2>3, <2>4
  <2>6. f.age <= Horizon /\ Horizon \in Nat
    BY <1>y, <2>f, AgeAssumption
  <2> QED BY <2>3, <2>5, <2>6, <2>f
<1>6. ASSUME Close \/ Crash \/ ReadCurrent \/ WriteSucceeds \/ WriteFails \/ UNCHANGED vars
             \/ \E p \in Payloads : AppendNotOpen(p)
      PROVE  dir' = dir
  BY <1>6 DEF Close, Crash, StopWith, ReadCurrent, WriteSucceeds, WriteFails, AppendNotOpen,
              queueVars, vars
<1>7. CASE dir' = dir
  BY <1>7 DEF Young
<1> QED BY <1>1, <1>2, <1>3, <1>4, <1>5, <1>6, <1>7, NothingIsPurged DEF Next, QueueAppend, SendWrite

\* The last segment is never trimmed.
LEMMA TrimKeepsTail ==
  ASSUME NEW segs \in Seq(1 .. MaxID), segs # << >>, NEW t, t = segs[Len(segs)]
  PROVE  t \in Range(Trimmed(segs))
<1>0. Len(segs) \in Nat /\ Len(segs) >= 1 /\ DOMAIN segs = 1 .. Len(segs)
  OBVIOUS
<1>1. CASE Len(segs) > 1
  <2>u. PICK u : u = Tail(segs)
    OBVIOUS
  <2>1. /\ u \in Seq(1 .. MaxID) /\ Len(u) = Len(segs) - 1
        /\ \A i \in 1 .. Len(segs) - 1 : u[i] = segs[i + 1]
    BY <1>1, <2>u
  <2>2. Len(segs) - 1 \in DOMAIN u /\ (Len(segs) - 1) + 1 = Len(segs)
    BY <1>0, <1>1, <2>1
  <2>3. u[Len(segs) - 1] = t
    BY <1>0, <1>1, <2>1, <2>2
  <2> QED BY <1>1, <2>u, <2>2, <2>3 DEF Trimmed, Range
<1>2. CASE ~(Len(segs) > 1)
  <2>1. Len(segs) \in DOMAIN segs
    BY <1>0
  <2> QED BY <1>2, <2>1 DEF Trimmed, Range
<1> QED BY <1>1, <1>2

\* The tail stays open.
LEMMA TailOpenStep ==
  ASSUME QueueInv, OrderInv, Young, Horizon <= MaxAge, [Next]_vars, isOpen'
  PROVE  TailIsOpen'
<1>0. segments \in Seq(1 .. MaxID) /\ DOMAIN dir \subseteq 1 .. MaxID
  BY DEF QueueInv, MemoryOK, DirOK
<1>1. CASE Open
  <2>d. PICK d : d = IF DOMAIN dir = {} THEN [i \in {1} |-> NewSegment] ELSE dir
    OBVIOUS
  <2>1. DOMAIN d # {} /\ DOMAIN d \subseteq 1 .. MaxID
    <3>1. CASE DOMAIN dir = {}
      <4>1. DOMAIN d = {1}
        BY <2>d, <3>1
      <4> QED BY <4>1, BoundAssumption
    <3>2. CASE DOMAIN dir # {}
      BY <1>0, <2>d, <3>2
    <3> QED BY <3>1, <3>2
  <2>2. PICK s \in LoadOrders(DOMAIN d) :
          tail' = s[Len(s)] /\ (segments' = Trimmed(s) \/ segments' = s)
    BY <1>1, <2>d DEF Open
  <2>3. s \in Seq(1 .. MaxID) /\ s # << >>
    BY <2>1, LoadedList DEF ListOK
  <2>4. s[Len(s)] \in Range(s)
    BY <2>3 DEF Range
  <2> QED BY <2>2, <2>3, <2>4, TrimKeepsTail DEF TailIsOpen
<1>2. ASSUME NEW p \in Payloads, AppendToNewSegment(p) \/ AppendTooLarge(p)
      PROVE  TailIsOpen'
  <2>1. PICK id : segments' = Append(segments, id) /\ tail' = id
    BY <1>2 DEF AppendToNewSegment, AppendTooLarge
  <2>2. segments'[Len(segments) + 1] = id /\ Len(segments) + 1 \in DOMAIN segments'
    BY <1>0, <2>1
  <2> QED BY <2>1, <2>2 DEF TailIsOpen, Range
<1>3. CASE Advance
  <2>1. /\ isOpen /\ tail' = tail /\ (segments' = segments \/ segments' = Trimmed(segments))
    BY <1>3 DEF Advance, QueueInv, Listed
  <2>2. tail \in Range(segments) /\ TailLast(segments, tail) /\ segments # << >>
    BY <2>1 DEF Young, TailIsOpen, OrderInv, QueueInv, Listed, ListOK
  <2>3. tail = segments[Len(segments)]
    <3>1. PICK k \in DOMAIN segments : segments[k] = tail
      BY <2>2 DEF Range
    <3>2. segments[k] \in Nat
      BY <1>0, <3>1, ElementOfSeq, BoundAssumption
    <3> QED BY <2>2, <3>1, <3>2 DEF TailLast
  <2> QED BY <1>0, <2>1, <2>2, <2>3, TrimKeepsTail DEF TailIsOpen
<1>4. ASSUME Close \/ Crash \/ CrashInAdvance \/ \E p \in Payloads : CrashInAppend(p)
      PROVE  FALSE
  BY <1>4 DEF Close, Crash, CrashInAdvance, CrashInAppend, StopWith, isOpen
<1>5. ASSUME ReadCurrent \/ WriteSucceeds \/ WriteFails \/ Tick \/ UNCHANGED vars
             \/ \E p \in Payloads : AppendToTail(p) \/ AppendNotOpen(p)
      PROVE  UNCHANGED <<segments, tail>>
  BY <1>5 DEF ReadCurrent, WriteSucceeds, WriteFails, Tick, AppendToTail, AppendNotOpen, queueVars, vars
<1>6. CASE UNCHANGED <<segments, tail>>
  BY <1>6 DEF isOpen, Young, TailIsOpen
<1> QED BY <1>1, <1>2, <1>3, <1>4, <1>5, <1>6, NothingIsPurged DEF Next, QueueAppend, SendWrite

\* Nothing is old before the queue is first opened.
LEMMA YoungInit == Init => Young
  BY AgeAssumption DEF Init, Young, isOpen, NewSegment

\* Every step keeps the files young and the tail open.
LEMMA YoungStep ==
  ASSUME Horizon <= MaxAge
  PROVE  QueueInv /\ OrderInv /\ Young /\ [Next]_vars => Young'
<1> SUFFICES ASSUME QueueInv, OrderInv, Young, [Next]_vars PROVE Young'
  OBVIOUS
<1> QED BY AgeStep, TailOpenStep DEF Young

\* A directory whose unread hints do not change.
LEMMA PendingKept ==
  ASSUME QueueInv, QueueInv', [Next]_vars,
         \/ Open \/ Tick \/ dir' = dir
         \/ \E p \in Payloads : AppendTooLarge(p) \/ CrashInAppend(p)
  PROVE  Pending' = Pending
<1>1. Pending = UnreadIn(dir, DOMAIN dir) /\ Pending' = UnreadIn(dir', DOMAIN dir')
  BY DEF Pending, UnreadIn
<1>2. DirOK(dir, acked) /\ DirOK(dir', acked')
  BY DEF QueueInv
<1>3. CASE Open
  <2>1. Kept(dir, dir')
    BY <1>3, OpenKeeps
  <2>2. UnreadIn(dir, DOMAIN dir) \subseteq UnreadIn(dir', DOMAIN dir')
    <3>d. PICK d : d = IF DOMAIN dir = {} THEN [i \in {1} |-> NewSegment] ELSE dir
      OBVIOUS
    <3>1. DirOK(d, acked) /\ DOMAIN d # {} /\ UnreadIn(dir, DOMAIN dir) \subseteq UnreadIn(d, DOMAIN d)
      <4>1. CASE DOMAIN dir = {}
        <5>1. DOMAIN d = {1} /\ d[1] = NewSegment /\ d = [i \in DOMAIN d |-> d[i]]
          BY <3>d, <4>1
        <5>2. 1 \in 1 .. MaxID
          BY BoundAssumption
        <5> QED BY <4>1, <5>1, <5>2, NewSegmentOK DEF DirOK, UnreadIn
      <4>2. CASE DOMAIN dir # {}
        BY <1>2, <3>d, <4>2
      <4> QED BY <4>1, <4>2
    <3>2. PICK s \in LoadOrders(DOMAIN d) :
            IF AtEnd(d[s[1]]) THEN dir' = TrimmedFiles(d, s) ELSE dir' = d
      BY <1>3, <3>d DEF Open
    <3>3. s \in Seq(1 .. MaxID) /\ ListOK(s, d)
      BY <3>1, LoadedList DEF DirOK
    <3>4. CASE AtEnd(d[s[1]])
      BY <3>1, <3>2, <3>3, <3>4, TrimmedList
    <3>5. CASE ~AtEnd(d[s[1]])
      BY <3>1, <3>2, <3>5
    <3> QED BY <3>4, <3>5
  <2> QED BY <1>1, <1>2, <2>1, <2>2, KeptIsRead
<1>4. CASE Tick
  <2>1. DOMAIN dir' = DOMAIN dir
    BY <1>4 DEF Tick
  <2>2. ASSUME NEW i \in DOMAIN dir PROVE Unread(dir'[i]) = Unread(dir[i])
    <3>1. PICK a : dir'[i] = [dir[i] EXCEPT !.age = a]
      BY <1>4 DEF Tick
    <3>2. dir[i] = [blocks |-> dir[i].blocks, pos |-> dir[i].pos, size |-> dir[i].size,
                    age |-> dir[i].age]
      BY <1>2 DEF DirOK, FileOK, SegmentOK
    <3>3. dir'[i].blocks = dir[i].blocks /\ dir'[i].pos = dir[i].pos
      BY <3>1, <3>2
    <3> QED BY <3>3 DEF Unread
  <2> QED BY <1>1, <2>1, <2>2 DEF UnreadIn
<1>5. ASSUME NEW p \in Payloads, AppendTooLarge(p) \/ CrashInAppend(p) PROVE Pending' = Pending
  <2>id. PICK id : id = nextSegmentID(dir)
    OBVIOUS
  <2>1. dir' = AddFile(dir, id, NewSegment) /\ id <= MaxID
    BY <1>5, <2>id DEF AppendTooLarge, CrashInAppend, StopWith
  <2>2. id \notin DOMAIN dir
    BY <2>id, <2>1, NextIDOK
  <2>3. UnreadIn(dir', DOMAIN dir') = UnreadIn(dir, DOMAIN dir) \cup Unread(NewSegment)
    BY <2>1, <2>2, AddedFile
  <2> QED BY <1>1, <2>3, NewSegmentOK
<1>6. CASE dir' = dir
  BY <1>1, <1>6
<1> QED BY <1>3, <1>4, <1>5, <1>6

\* queue.Advance, completed or cut short, takes from the disk what was sent and no more.
LEMMA AdvanceReleases ==
  ASSUME QueueInv, QueueInv', OrderInv, Advance \/ CrashInAdvance
  PROVE  Pending' = Pending \ {buf.hint}
<1>1. pc = "advancing" /\ isOpen
  BY DEF Advance, CrashInAdvance, QueueInv, Listed
<1>d. PICK d, f, g : d = [dir EXCEPT ![head] = AdvancedHead] /\ f = dir[head] /\ g = AdvancedHead
  OBVIOUS
<1>2. head \in DOMAIN dir /\ FileOK(f) /\ dir = [i \in DOMAIN dir |-> dir[i]]
  BY <1>1, <1>d, HeadOK DEF QueueInv, DirOK
<1>3. /\ f.pos \in DOMAIN f.blocks /\ buf = f.blocks[f.pos] /\ currentSize[head] = f.blocks[f.pos].len
  BY <1>1, <1>d DEF QueueInv, SenderOK
<1>4. /\ f.pos \in Nat /\ f.size \in Nat /\ buf \in Block /\ buf.len >= 1 /\ buf.hint \in Nat
      /\ buf.len \in Nat /\ ~AtEnd(f)
  <2>1. f.pos \in Nat /\ f.size \in Nat /\ buf \in Block
    BY <1>2, <1>3 DEF FileOK, SegmentOK
  <2>2. buf.len \in Nat /\ buf.hint \in Nat
    BY <2>1 DEF Block
  <2>3. buf.hint \in Unread(f)
    BY <1>3, <2>1 DEF Unread
  <2>4. buf.len >= 1
    BY <1>2, <1>3 DEF FileOK, Contiguous
  <2> QED BY <1>2, <2>1, <2>2, <2>3, <2>4, AtEndIsRead
<1>5. g.blocks = f.blocks /\ g.pos = f.pos + buf.len + 1
  <2>1. f = [blocks |-> f.blocks, pos |-> f.pos, size |-> f.size, age |-> f.age]
    BY <1>2 DEF FileOK, SegmentOK
  <2>2. g = [f EXCEPT !.pos = f.pos + buf.len + 1, !.age = 0]
    BY <1>d, <1>3, <1>4 DEF AdvancedHead, AdvanceSegment
  <2> QED BY <2>1, <2>2
<1>6. /\ FileOK(g) /\ Unread(f) \subseteq Unread(g) \cup {buf.hint}
      /\ HintsIn(g) = HintsIn(f)
  BY <1>d, <1>2, <1>3, AdvancedFile DEF AdvancedHead
<1>7. /\ DirOK(d, acked) /\ DOMAIN d = DOMAIN dir /\ d[head] = g
      /\ \A i \in DOMAIN dir : i # head => d[i] = dir[i]
      /\ UnreadIn(dir, DOMAIN dir) \subseteq UnreadIn(d, DOMAIN d) \cup {buf.hint}
  <2>1. DirOK(dir, acked) /\ HintsIn(g) \subseteq acked /\ Unread(dir[head]) \subseteq Unread(g) \cup {buf.hint}
    BY <1>1, <1>d, <1>6, HeadOK DEF QueueInv
  <2>2. PICK L, id : L = {buf.hint} /\ id = head
    OBVIOUS
  <2>3. /\ id \in DOMAIN dir /\ d = [dir EXCEPT ![id] = g]
        /\ Unread(dir[id]) \subseteq Unread(g) \cup L
    BY <1>d, <1>2, <2>1, <2>2
  <2>4. /\ DirOK(d, acked) /\ DOMAIN d = DOMAIN dir /\ d[id] = g
        /\ \A i \in DOMAIN dir : i # id => d[i] = dir[i]
        /\ UnreadIn(dir, DOMAIN dir) \subseteq UnreadIn(d, DOMAIN d) \cup L
    BY <1>6, <2>1, <2>3, ChangedFile
  <2> QED BY <2>2, <2>4
<1>8. UnreadIn(d, DOMAIN d) \subseteq UnreadIn(dir', DOMAIN dir')
  <2>1. CASE dir' = d
    BY <2>1
  <2>2. CASE AtEnd(AdvancedHead) /\ dir' = TrimmedFiles(d, segments)
    <3>1. segments \in Seq(1 .. MaxID) /\ ListOK(segments, d)
      BY <1>1, <1>7 DEF QueueInv, MemoryOK, Listed, ListOK
    <3>2. AtEnd(d[segments[1]])
      BY <1>d, <1>7, <2>2 DEF head
    <3> QED BY <1>7, <2>2, <3>1, <3>2, TrimmedList
  <2> QED BY <1>d, <2>1, <2>2 DEF Advance, CrashInAdvance, StopWith
<1>9. DOMAIN dir' \subseteq DOMAIN d /\ \A i \in DOMAIN dir' : dir'[i] = d[i]
  <2>1. dir' = TrimmedFiles(d, segments) \/ dir' = d
    BY <1>d DEF Advance, CrashInAdvance, StopWith
  <2> QED BY <2>1, TrimKeeps
<1>10. ASSUME NEW i \in DOMAIN d PROVE buf.hint \notin Unread(d[i])
  <2> SUFFICES ASSUME NEW o \in DOMAIN d[i].blocks, o >= d[i].pos, d[i].blocks[o].hint = buf.hint
               PROVE  FALSE
    BY DEF Unread
  <2>1. d[i].blocks = dir[i].blocks /\ i \in DOMAIN dir
    BY <1>d, <1>5, <1>7
  <2>2. i \in Nat /\ head \in Nat
    BY <1>2, <2>1, BoundAssumption DEF QueueInv, DirOK
  <2>3. o \in Nat
    BY <1>7 DEF DirOK, FileOK, SegmentOK
  <2>4. ~(i < head \/ (i = head /\ o < f.pos)) /\ ~(head < i \/ (i = head /\ f.pos < o))
    <3>1. /\ (i < head \/ (i = head /\ o < f.pos)) => dir[i].blocks[o].hint < f.blocks[f.pos].hint
          /\ (head < i \/ (head = i /\ f.pos < o)) => f.blocks[f.pos].hint < dir[i].blocks[o].hint
      BY <1>d, <1>2, <1>3, <2>1 DEF OrderInv, Ordered
    <3>2. dir[i].blocks[o].hint = buf.hint /\ f.blocks[f.pos].hint = buf.hint
      BY <1>3, <2>1
    <3> QED BY <1>4, <3>1, <3>2
  <2>5. i = head /\ o = f.pos
    BY <1>4, <2>2, <2>3, <2>4
  <2>6. o >= f.pos + buf.len + 1
    BY <1>5, <1>7, <2>5
  <2> QED BY <1>4, <2>5, <2>6
<1>11. Pending = UnreadIn(dir, DOMAIN dir) /\ Pending' = UnreadIn(dir', DOMAIN dir')
  BY DEF Pending, UnreadIn
<1>12. Pending' \subseteq Pending
  BY <1>11, AdvanceIsKept, KeptIsRead DEF QueueInv
<1>13. buf.hint \notin Pending'
  BY <1>9, <1>10, <1>11 DEF UnreadIn
<1> QED BY <1>7, <1>8, <1>11, <1>12, <1>13

\* Every step of the queue is a step of the log or leaves it as it is.
LEMMA LogStep ==
  ASSUME Horizon <= MaxAge, QueueInv, QueueInv', OrderInv, Young, [Next]_vars
  PROVE  [Log!LogNext]_(Log!logVars)
<1> USE DEF Log!LogNext, Log!logVars
<1>1. ASSUME NEW p \in Payloads, AppendToTail(p) \/ AppendToNewSegment(p)
      PROVE  Log!Accept
  <2>1. HintBlock(p) \in Block /\ HintBlock(p).len >= 1 /\ HintBlock(p).hint = last + 1
    BY HintBlockOK DEF QueueInv
  <2>2. Pending = UnreadIn(dir, DOMAIN dir) /\ Pending' = UnreadIn(dir', DOMAIN dir')
    BY DEF Pending, UnreadIn
  <2>3. Pending' = Pending \cup {last + 1}
    BY <1>1, <2>1, <2>2, AppendsGrow, GrownIsRead DEF QueueInv
  <2> QED BY <1>1, <2>3 DEF Log!Accept, AppendToTail, AppendToNewSegment, Ack
<1>2. ASSUME Open \/ Tick \/ Close \/ Crash \/ UNCHANGED vars
             \/ \E p \in Payloads : AppendTooLarge(p) \/ CrashInAppend(p)
      PROVE  UNCHANGED <<last, Pending, delivered \cup skipped>>
  <2>1. UNCHANGED <<last, delivered, skipped>>
    BY <1>2 DEF Open, Tick, Close, Crash, vars, AppendTooLarge, CrashInAppend, history
  <2>2. (Close \/ Crash \/ UNCHANGED vars) => dir' = dir
    BY DEF Close, Crash, StopWith, vars
  <2>3. Pending' = Pending
    BY <1>2, <2>2, PendingKept
  <2> QED BY <2>1, <2>3
<1>3. ASSUME NEW p \in Payloads PROVE ~AppendNotOpen(p)
  BY DEF AppendNotOpen, MayAppend, Young
<1>4. CASE ReadCurrent
  <2>f. PICK f, n : f = dir[head] /\ n = f.blocks[f.pos].hint
    OBVIOUS
  <2>1. /\ isOpen /\ ~AtEnd(f) /\ UNCHANGED <<dir, last, delivered>>
        /\ skipped' = skipped \/ skipped' = skipped \cup {n}
    BY <1>4, <2>f DEF ReadCurrent
  <2>2. Pending' = Pending
    BY <2>1 DEF Pending
  <2>3. FileOK(f)
    BY <2>f, <2>1, HeadOK
  <2>4. f.pos \in DOMAIN f.blocks
    BY <2>1, <2>3 DEF FileOK, Contiguous, AtEnd
  <2>5. n \in Pending /\ \A m \in Pending : n <= m
    BY <2>f, <2>1, <2>4, HeadIsOldest
  <2> QED BY <2>1, <2>2, <2>5 DEF Log!Send, Log!IsOldest
<1>5. CASE WriteSucceeds \/ WriteFails
  <2>1. /\ pc = "sending" /\ UNCHANGED <<dir, last, skipped>>
        /\ delivered' = delivered \/ delivered' = delivered \cup {buf.hint}
    BY <1>5 DEF WriteSucceeds, WriteFails, queueVars
  <2>2. Pending' = Pending
    BY <2>1 DEF Pending
  <2>3. buf.hint \in Pending /\ \A m \in Pending : buf.hint <= m
    BY <2>1, BufIsOldest
  <2> QED BY <2>1, <2>2, <2>3 DEF Log!Send, Log!IsOldest
<1>6. CASE Advance \/ CrashInAdvance
  <2>1. pc = "advancing" /\ UNCHANGED <<last, delivered, skipped>>
    BY <1>6 DEF Advance, CrashInAdvance, history
  <2>2. Pending' = Pending \ {buf.hint}
    BY <1>6, AdvanceReleases
  <2>3. buf.hint \in Pending /\ \A m \in Pending : buf.hint <= m
    BY <2>1, BufIsOldest
  <2>4. buf.hint \in delivered \cup skipped
    BY <2>1 DEF QueueInv, SenderOK
  <2> QED BY <2>1, <2>2, <2>3, <2>4 DEF Log!Release, Log!IsOldest
<1> QED BY <1>1, <1>2, <1>3, <1>4, <1>5, <1>6, NothingIsPurged DEF Next, QueueAppend, SendWrite

\* While names have one digit and no segment outlives MaxAge, the queue with its segment
\* files, its sender, its trims, restarts and crashes implements a first-in first-out log:
\* an acknowledged hint waits until it was sent or found unreadable, only the oldest is
\* sent, and what was released is never sent again.
THEOREM QueueImplementsLog ==
  ASSUME MaxID <= 9, Horizon <= MaxAge
  PROVE  Spec => ImplementsLog
<1>1. Spec => []OrderInv
  BY OrderInvInit, OrderInvStep, QueueInvariant, PTL DEF Spec
<1>2. Spec => []Young
  BY <1>1, YoungInit, YoungStep, QueueInvariant, PTL DEF Spec
<1>3. Init => Log!LogInit
  <2> SUFFICES ASSUME Init PROVE Log!LogInit
    OBVIOUS
  <2>1. \A i \in DOMAIN dir : Unread(dir[i]) = {}
    BY NewSegmentOK DEF Init
  <2> QED BY <2>1 DEF Init, Log!LogInit, Pending
<1>4. QueueInv /\ QueueInv' /\ OrderInv /\ Young /\ [Next]_vars => [Log!LogNext]_(Log!logVars)
  BY LogStep
<1> QED BY <1>1, <1>2, <1>3, <1>4, QueueInvariant, PTL DEF Spec, ImplementsLog, Log!LogSpec

=============================================================================
