--------------------------- MODULE HHQueueProofs ---------------------------
(* Proofs about the hinted-handoff queue, for every payload, size, age and bound. *)
EXTENDS HHQueue, FiniteSetTheorems, SequenceTheorems, WellFoundedInduction, TLAPS

-----------------------------------------------------------------------------
(* Segment files *)

\* A segment file whose blocks can be read back.
FileOK(f) == SegmentOK(f) /\ Contiguous(f)

USE DEF footerSize

\* A new segment file is well formed and holds nothing.
LEMMA NewSegmentOK ==
  /\ FileOK(NewSegment) /\ Unread(NewSegment) = {} /\ HintsIn(NewSegment) = {}
<1>1. DOMAIN NewSegment.blocks = {}
  BY DEF NewSegment
<1>2. SegmentOK(NewSegment)
  BY <1>1 DEF NewSegment, SegmentOK
<1>3. Contiguous(NewSegment)
  BY <1>1 DEF NewSegment, Contiguous, End
<1> QED BY <1>1, <1>2, <1>3 DEF FileOK, Unread, HintsIn

\* A file read to its end holds nothing that was not read.
LEMMA AtEndIsRead ==
  ASSUME NEW f, FileOK(f), AtEnd(f)
  PROVE  Unread(f) = {}
<1> SUFFICES ASSUME NEW o \in DOMAIN f.blocks, o >= f.pos PROVE FALSE
  BY DEF Unread
<1>1. o \in Nat /\ f.blocks[o].len \in Nat /\ f.pos \in Nat /\ f.size \in Nat
  BY DEF FileOK, SegmentOK, Block
<1>2. f.blocks[o].len >= 1 /\ o + f.blocks[o].len + 1 <= f.size - 1 /\ f.pos = f.size - 1
  BY <1>1 DEF FileOK, Contiguous, BlockSize, AtEnd, End
<1> QED BY <1>1, <1>2

\* segment.append keeps the file readable, adds its hint to what is to be read,
\* and leaves the current block where it is.
LEMMA AppendedFile ==
  ASSUME NEW f, FileOK(f), NEW b \in Block, b.len >= 1
  PROVE  LET g == AppendBlock(f, b)
         IN  /\ FileOK(g)
             /\ Unread(g) = Unread(f) \cup {b.hint}
             /\ HintsIn(g) = HintsIn(f) \cup {b.hint}
             /\ g.pos = f.pos
             /\ f.pos \in DOMAIN f.blocks => /\ f.pos \in DOMAIN g.blocks
                                             /\ g.blocks[f.pos] = f.blocks[f.pos]
<1> DEFINE g == AppendBlock(f, b)
           e == End(f)
<1>1. /\ f.size \in Nat /\ f.pos \in Nat /\ f.size >= 1 /\ e = f.size - 1 /\ e \in Nat
      /\ b.len \in Nat /\ b.hint \in Nat /\ b.ok \in BOOLEAN
      /\ DOMAIN f.blocks \subseteq Nat
  BY DEF FileOK, SegmentOK, Contiguous, End, Block
<1>2. /\ g.size = f.size + b.len + 1 /\ g.pos = f.pos /\ g.age = 0
      /\ DOMAIN g.blocks = DOMAIN f.blocks \cup {e}
      /\ g.blocks = [o \in DOMAIN g.blocks |-> g.blocks[o]]
      /\ g = [blocks |-> g.blocks, pos |-> g.pos, size |-> g.size, age |-> g.age]
  BY <1>1 DEF AppendBlock, WithBlock, BlockSize
<1>3. ASSUME NEW o \in DOMAIN f.blocks
      PROVE  /\ f.blocks[o] \in Block /\ f.blocks[o].len \in Nat /\ f.blocks[o].len >= 1
             /\ o \in Nat /\ o + f.blocks[o].len + 1 <= e /\ o # e
  <2>1. f.blocks[o] \in Block /\ o \in Nat
    BY DEF FileOK, SegmentOK
  <2>2. f.blocks[o].len \in Nat
    BY <2>1 DEF Block
  <2>3. f.blocks[o].len >= 1 /\ o + f.blocks[o].len + 1 <= e
    BY <1>1, <2>1, <2>2 DEF FileOK, Contiguous, BlockSize
  <2> QED BY <1>1, <2>1, <2>2, <2>3
<1>4. /\ g.blocks[e] = b
      /\ \A o \in DOMAIN f.blocks : g.blocks[o] = f.blocks[o]
  BY <1>2, <1>3 DEF AppendBlock, WithBlock
<1>5. End(g) = e + b.len + 1
  BY <1>1, <1>2 DEF End
<1>6. SegmentOK(g)
  BY <1>1, <1>2, <1>3, <1>4 DEF SegmentOK
<1>7. Contiguous(g)
  <2>1. g.size >= footerSize /\ g.pos \in DOMAIN g.blocks \cup {End(g)}
    BY <1>1, <1>2 DEF FileOK, Contiguous
  <2>2. ASSUME NEW o \in DOMAIN g.blocks
        PROVE  /\ g.blocks[o].len >= 1
               /\ o + BlockSize(g.blocks[o]) <= End(g)
               /\ o + BlockSize(g.blocks[o]) \in DOMAIN g.blocks \cup {End(g)}
               /\ \A p \in DOMAIN g.blocks : o < p => o + BlockSize(g.blocks[o]) <= p
    <3>1. CASE o = e
      BY <1>1, <1>2, <1>3, <1>4, <1>5, <3>1 DEF BlockSize
    <3>2. CASE o \in DOMAIN f.blocks
      <4>1. /\ o + BlockSize(f.blocks[o]) \in DOMAIN f.blocks \cup {e}
            /\ \A p \in DOMAIN f.blocks : o < p => o + BlockSize(f.blocks[o]) <= p
        BY <3>2 DEF FileOK, Contiguous
      <4> QED BY <1>1, <1>2, <1>3, <1>4, <1>5, <3>2, <4>1 DEF BlockSize
    <3> QED BY <1>2, <3>1, <3>2
  <2> QED BY <2>1, <2>2 DEF Contiguous
<1>8. f.pos <= e
  BY <1>1, <1>3 DEF FileOK, Contiguous
<1>9. Unread(g) = Unread(f) \cup {b.hint} /\ HintsIn(g) = HintsIn(f) \cup {b.hint}
  BY <1>1, <1>2, <1>3, <1>4, <1>8 DEF Unread, HintsIn
<1> QED BY <1>2, <1>4, <1>6, <1>7, <1>9 DEF FileOK

\* segment.advance past the block at the footer's position keeps the file readable
\* and drops no hint but that block's.
LEMMA AdvancedFile ==
  ASSUME NEW f, FileOK(f), f.pos \in DOMAIN f.blocks, NEW cs, cs = f.blocks[f.pos].len
  PROVE  LET g == AdvanceSegment(f, cs)
         IN  /\ FileOK(g)
             /\ Unread(f) \subseteq Unread(g) \cup {f.blocks[f.pos].hint}
             /\ HintsIn(g) = HintsIn(f)
<1> DEFINE g == AdvanceSegment(f, cs)
           e == End(f)
<1>1. /\ f.size \in Nat /\ f.pos \in Nat /\ f.size >= 1 /\ e = f.size - 1 /\ e \in Nat
      /\ f.blocks[f.pos] \in Block /\ DOMAIN f.blocks \subseteq Nat
  BY DEF FileOK, SegmentOK, Contiguous, End
<1>2. /\ cs \in Nat /\ cs >= 1 /\ f.pos + cs + 1 <= e
      /\ f.pos + (cs + 1) \in DOMAIN f.blocks \cup {e}
      /\ \A p \in DOMAIN f.blocks : f.pos < p => f.pos + cs + 1 <= p
  BY <1>1 DEF FileOK, Contiguous, BlockSize, Block
<1>3. /\ g = [f EXCEPT !.pos = f.pos + cs + 1, !.age = 0]
  BY <1>1, <1>2 DEF AdvanceSegment, AtEnd
<1>4. /\ g.size = f.size /\ g.pos = f.pos + cs + 1 /\ g.age = 0 /\ g.blocks = f.blocks
      /\ g = [blocks |-> g.blocks, pos |-> g.pos, size |-> g.size, age |-> g.age]
  BY <1>3 DEF FileOK, SegmentOK
<1>5. SegmentOK(g)
  BY <1>1, <1>2, <1>4 DEF SegmentOK, FileOK
<1>6. Contiguous(g)
  <2>1. End(g) = e
    BY <1>4 DEF End
  <2>2. g.pos \in DOMAIN g.blocks \cup {End(g)}
    BY <1>1, <1>2, <1>4, <2>1
  <2> QED BY <1>4, <2>1, <2>2 DEF Contiguous, FileOK
<1>7. Unread(f) \subseteq Unread(g) \cup {f.blocks[f.pos].hint}
  <2> SUFFICES ASSUME NEW o \in DOMAIN f.blocks, o >= f.pos, o # f.pos PROVE o >= g.pos
    BY <1>4 DEF Unread
  <2> QED BY <1>1, <1>2, <1>4
<1> QED BY <1>4, <1>5, <1>6, <1>7 DEF FileOK, HintsIn

-----------------------------------------------------------------------------
(* Directories *)

\* A directory of readable segment files that hold hints of the set H only.
DirOK(d, H) ==
  /\ DOMAIN d \subseteq 1 .. MaxID
  /\ d = [i \in DOMAIN d |-> d[i]]
  /\ \A i \in DOMAIN d : FileOK(d[i]) /\ HintsIn(d[i]) \subseteq H

\* The hints that can be read from the files ids of a directory.
UnreadIn(d, ids) == UNION {Unread(d[i]) : i \in ids}

\* Adding a file adds its unread hints and changes no other file.
LEMMA AddedFile ==
  ASSUME NEW d, NEW id, id \notin DOMAIN d, NEW f
  PROVE  LET e == AddFile(d, id, f)
         IN  /\ DOMAIN e = DOMAIN d \cup {id}
             /\ \A i \in DOMAIN d : e[i] = d[i]
             /\ UnreadIn(e, DOMAIN e) = UnreadIn(d, DOMAIN d) \cup Unread(f)
<1> DEFINE e == AddFile(d, id, f)
<1>1. /\ DOMAIN e = DOMAIN d \cup {id} /\ e[id] = f /\ \A i \in DOMAIN d : e[i] = d[i]
  BY DEF AddFile
<1> HIDE DEF e
<1>2. UnreadIn(e, DOMAIN e) = UnreadIn(d, DOMAIN d) \cup Unread(f)
  BY <1>1 DEF UnreadIn
<1> QED BY <1>1, <1>2 DEF e

\* Adding a well-formed file keeps the directory well formed.
LEMMA AddedFileOK ==
  ASSUME NEW d, NEW H, DirOK(d, H), NEW id \in 1 .. MaxID, id \notin DOMAIN d,
         NEW f, FileOK(f), HintsIn(f) \subseteq H
  PROVE  DirOK(AddFile(d, id, f), H)
  BY DEF DirOK, AddFile

\* Removing files loses the unread hints of those files at most.
LEMMA RemovedFiles ==
  ASSUME NEW d, NEW ids
  PROVE  LET e == RemoveFiles(d, ids)
         IN  /\ DOMAIN e = DOMAIN d \ ids
             /\ UnreadIn(d, DOMAIN d) \subseteq UnreadIn(e, DOMAIN e) \cup UnreadIn(d, ids)
<1> DEFINE e == RemoveFiles(d, ids)
<1>1. DOMAIN e = DOMAIN d \ ids /\ \A i \in DOMAIN e : e[i] = d[i]
  BY DEF RemoveFiles
<1> HIDE DEF e
<1>2. UnreadIn(d, DOMAIN d) \subseteq UnreadIn(e, DOMAIN e) \cup UnreadIn(d, ids)
  BY <1>1 DEF UnreadIn
<1> QED BY <1>1, <1>2 DEF e

\* Removing files keeps the directory well formed.
LEMMA RemovedFilesOK ==
  ASSUME NEW d, NEW H, DirOK(d, H), NEW ids
  PROVE  DirOK(RemoveFiles(d, ids), H)
  BY DEF DirOK, RemoveFiles

\* Rewriting one file loses at most the hints L that the rewriting gives up.
LEMMA ChangedFile ==
  ASSUME NEW d, NEW H, DirOK(d, H), NEW id \in DOMAIN d,
         NEW f, FileOK(f), HintsIn(f) \subseteq H,
         NEW L, Unread(d[id]) \subseteq Unread(f) \cup L
  PROVE  LET e == [d EXCEPT ![id] = f]
         IN  /\ DirOK(e, H)
             /\ DOMAIN e = DOMAIN d
             /\ e[id] = f
             /\ \A i \in DOMAIN d : i # id => e[i] = d[i]
             /\ UnreadIn(d, DOMAIN d) \subseteq UnreadIn(e, DOMAIN e) \cup L
             /\ Unread(f) \subseteq UnreadIn(e, DOMAIN e)
<1> DEFINE e == [d EXCEPT ![id] = f]
<1>1. /\ DOMAIN e = DOMAIN d /\ e[id] = f /\ \A i \in DOMAIN d : i # id => e[i] = d[i]
      /\ e = [i \in DOMAIN e |-> e[i]]
  BY DEF DirOK
<1> HIDE DEF e
<1>2. DirOK(e, H)
  BY <1>1 DEF DirOK
<1>3. UnreadIn(d, DOMAIN d) \subseteq UnreadIn(e, DOMAIN e) \cup L
  <2> SUFFICES ASSUME NEW i \in DOMAIN d, NEW n \in Unread(d[i])
               PROVE  n \in L \/ \E j \in DOMAIN e : n \in Unread(e[j])
    BY DEF UnreadIn
  <2>1. CASE i = id
    BY <1>1, <2>1
  <2>2. CASE i # id
    BY <1>1, <2>2
  <2> QED BY <2>1, <2>2
<1>4. Unread(f) \subseteq UnreadIn(e, DOMAIN e)
  BY <1>1 DEF UnreadIn
<1> QED BY <1>1, <1>2, <1>3, <1>4 DEF e

\* A nonempty set of natural numbers has a least element.
LEMMA LeastNatural ==
  ASSUME NEW T, T \subseteq Nat, T # {}
  PROVE  \E x \in T : \A y \in T : x <= y
<1>1. PICK x \in T : \A y \in T : ~ (<<y, x>> \in OpToRel(<, Nat))
  BY NatLessThanWellFounded, WFMin
<1>2. \A y \in T : x <= y
  <2> SUFFICES ASSUME NEW y \in T PROVE x <= y
    OBVIOUS
  <2>1. x \in Nat /\ y \in Nat
    OBVIOUS
  <2>2. <<y, x>>[1] = y /\ <<y, x>>[2] = x /\ <<y, x>> \in Nat \X Nat
    BY <2>1
  <2>3. ~(y < x)
    BY <1>1, <2>2, Zenon DEF OpToRel
  <2> QED BY <2>1, <2>3
<1> QED BY <1>2

\* A nonempty set of file names has a greatest element, so the name that
\* nextSegmentID returns is free.
LEMMA NextIsFree ==
  ASSUME NEW d, DOMAIN d \subseteq 1 .. MaxID
  PROVE  nextSegmentID(d) \in Nat \ {0} /\ nextSegmentID(d) \notin DOMAIN d
<1>1. CASE DOMAIN d = {}
  BY <1>1 DEF nextSegmentID
<1>2. CASE DOMAIN d # {}
  <2> DEFINE S == DOMAIN d
             T == {MaxID - x : x \in S}
  <2>1. T \subseteq Nat /\ T # {}
    BY <1>2, BoundAssumption
  <2>2. PICK x \in T : \A y \in T : x <= y
    <3> HIDE DEF T
    <3> QED BY <2>1, LeastNatural
  <2>4. PICK m \in S : x = MaxID - m
    OBVIOUS
  <2>5. \A y \in S : m >= y
    <3> SUFFICES ASSUME NEW y \in S PROVE m >= y
      OBVIOUS
    <3>1. x <= MaxID - y
      BY <2>2
    <3>2. m \in Nat /\ y \in Nat /\ MaxID \in Nat
      BY BoundAssumption
    <3> QED BY <2>4, <3>1, <3>2
  <2>6. Max(S) \in S /\ \A y \in S : Max(S) >= y
    BY <2>5 DEF Max
  <2>7. nextSegmentID(d) = Max(S) + 1
    BY <1>2 DEF nextSegmentID
  <2> HIDE DEF S
  <2>8. S \subseteq Nat
    BY BoundAssumption DEF S
  <2>9. Max(S) \in Nat
    BY <2>6, <2>8, Zenon
  <2>10. Max(S) + 1 \notin S
    <3> SUFFICES ASSUME Max(S) + 1 \in S PROVE FALSE
      OBVIOUS
    <3>1. Max(S) >= Max(S) + 1
      BY <2>6
    <3> QED BY <2>9, <3>1
  <2> QED BY <2>7, <2>9, <2>10 DEF S
<1> QED BY <1>1, <1>2

-----------------------------------------------------------------------------
(* The inductive invariant.  NoOtherLoss is not inductive by itself: that trimming a
   segment loses nothing needs the files to be readable and the list of segments to
   match the directory, and that advancing loses nothing needs the remembered size
   to be that of the block which was sent. *)

\* The list of segments matches the directory, each file listed once.
ListOK(segs, d) ==
  /\ segs # << >>
  /\ Range(segs) = DOMAIN d
  /\ \A i, j \in DOMAIN segs : segs[i] = segs[j] => i = j

Listed ==
  /\ isOpen => ListOK(segments, dir)
  /\ ~isOpen => pc = "idle"

\* The sender holds the current block of the head, and advances past it only after
\* it was sent or found unreadable.
SenderOK ==
  /\ pc = "idle" => buf = Nil
  /\ pc # "idle" => /\ dir[head].pos \in DOMAIN dir[head].blocks
                    /\ buf = dir[head].blocks[dir[head].pos]
                    /\ currentSize[head] = buf.len
  /\ pc = "advancing" => buf.hint \in delivered \cup skipped

\* The types of what is not on disk.
MemoryOK ==
  /\ segments \in Seq(1 .. MaxID)
  /\ tail \in (1 .. MaxID) \cup {Nil}
  /\ currentSize \in [1 .. MaxID -> Nat]
  /\ pc \in {"idle", "sending", "advancing"}
  /\ buf \in Block \cup {Nil}
  /\ restarts \in Nat

HistoryOK ==
  /\ last \in Nat
  /\ delivered \subseteq acked /\ skipped \subseteq acked
  /\ expired \subseteq acked /\ swallowed \subseteq acked

QueueInv ==
  /\ DirOK(dir, acked) /\ MemoryOK /\ HistoryOK
  /\ Listed /\ SenderOK /\ NoOtherLoss

\* Pending, in the form the lemmas about directories use.
LEMMA PendingIsUnread == Pending = UnreadIn(dir, DOMAIN dir)
  BY DEF Pending, UnreadIn

\* The inductive invariant implies the properties the runs check.
LEMMA QueueInvSuffices == QueueInv => TypeOK /\ FilesParse /\ NoStrayFiles /\ NoOtherLoss
<1> SUFFICES ASSUME QueueInv PROVE TypeOK /\ FilesParse /\ NoStrayFiles
  BY DEF QueueInv
<1> USE DEF QueueInv
<1>1. TypeOK
  BY DEF DirOK, FileOK, MemoryOK, HistoryOK, TypeOK
<1>2. NoStrayFiles
  BY DEF Listed, ListOK, NoStrayFiles
<1>3. ASSUME buf # Nil
      PROVE  /\ ~AtEnd(dir[head])
             /\ buf = dir[head].blocks[dir[head].pos]
             /\ currentSize[head] = buf.len
  <2>1. pc # "idle" /\ isOpen
    BY <1>3 DEF SenderOK, Listed
  <2>2. head \in DOMAIN dir
    BY <2>1 DEF Listed, ListOK, MemoryOK, head, Range
  <2>3. FileOK(dir[head])
    BY <2>2 DEF DirOK
  <2>4. dir[head].pos \in DOMAIN dir[head].blocks
    BY <2>1 DEF SenderOK
  <2>5. dir[head].blocks[dir[head].pos].hint \in Unread(dir[head])
    BY <2>3, <2>4 DEF Unread, FileOK, SegmentOK
  <2> QED BY <2>1, <2>3, <2>5, AtEndIsRead DEF SenderOK
<1>4. FilesParse
  BY <1>3 DEF FilesParse, DirOK, FileOK
<1> QED BY <1>1, <1>2, <1>4

\* The invariant holds before the queue is first opened.
LEMMA QueueInvInit == Init => QueueInv
<1> SUFFICES ASSUME Init PROVE QueueInv
  OBVIOUS
<1> USE DEF Init
<1>1. DirOK(dir, acked)
  <2>1. CASE StartID = 0
    <3>1. DOMAIN dir = {} /\ dir = [i \in DOMAIN dir |-> dir[i]]
      BY <2>1
    <3> QED BY <3>1 DEF DirOK
  <2>2. CASE StartID # 0
    <3>1. /\ DOMAIN dir = {StartID} /\ dir = [i \in DOMAIN dir |-> dir[i]]
          /\ dir[StartID] = NewSegment /\ StartID \in 1 .. MaxID
      BY <2>2, BoundAssumption
    <3> QED BY <3>1, NewSegmentOK DEF DirOK
  <2> QED BY <2>1, <2>2
<1>2. acked = {}
  BY DEF acked
<1>3. MemoryOK
  <2>1. << >> \in Seq(1 .. MaxID)
    OBVIOUS
  <2> QED BY <2>1 DEF MemoryOK
<1>4. HistoryOK /\ Listed /\ SenderOK /\ NoOtherLoss
  BY <1>2 DEF HistoryOK, Listed, isOpen, SenderOK, NoOtherLoss
<1> QED BY <1>1, <1>3, <1>4 DEF QueueInv

-----------------------------------------------------------------------------
(* Lists of segments *)

\* trimHead of a head that was read to its end keeps list and directory in step and
\* loses nothing.
LEMMA TrimmedList ==
  ASSUME NEW segs \in Seq(1 .. MaxID), NEW d, NEW H, DirOK(d, H), ListOK(segs, d),
         AtEnd(d[segs[1]])
  PROVE  LET e == TrimmedFiles(d, segs)
         IN  /\ DirOK(e, H)
             /\ Trimmed(segs) \in Seq(1 .. MaxID) /\ ListOK(Trimmed(segs), e)
             /\ UnreadIn(d, DOMAIN d) \subseteq UnreadIn(e, DOMAIN e)
<1>1. CASE Len(segs) > 1
  <2> DEFINE e == RemoveFiles(d, {segs[1]})
             t == Tail(segs)
  <2>1. Trimmed(segs) = t /\ TrimmedFiles(d, segs) = e
    BY <1>1 DEF Trimmed, TrimmedFiles
  <2>2. segs[1] \in DOMAIN d
    BY DEF ListOK, Range
  <2>3. FileOK(d[segs[1]])
    BY <2>2 DEF DirOK
  <2>4. UnreadIn(d, {segs[1]}) = {}
    BY <2>3, AtEndIsRead DEF UnreadIn
  <2>5. /\ DirOK(e, H) /\ DOMAIN e = DOMAIN d \ {segs[1]}
        /\ UnreadIn(d, DOMAIN d) \subseteq UnreadIn(e, DOMAIN e)
    BY <2>4, RemovedFiles, RemovedFilesOK
  <2>6. /\ t \in Seq(1 .. MaxID) /\ t # << >> /\ DOMAIN t = 1 .. Len(segs) - 1
        /\ \A i \in DOMAIN t : t[i] = segs[i + 1] /\ i + 1 \in DOMAIN segs
    <3>1. t \in Seq(1 .. MaxID) /\ Len(t) = Len(segs) - 1
      BY <1>1
    <3>2. DOMAIN t = 1 .. Len(segs) - 1 /\ DOMAIN segs = 1 .. Len(segs) /\ Len(segs) \in Nat
      BY <3>1
    <3>3. ASSUME NEW i \in 1 .. Len(segs) - 1
          PROVE  t[i] = segs[i + 1] /\ i + 1 \in 1 .. Len(segs)
      BY <1>1, <3>2
    <3> HIDE DEF t
    <3>4. 1 \in DOMAIN t
      BY <1>1, <3>2
    <3>5. t # << >>
      BY <3>4
    <3> QED BY <3>1, <3>2, <3>3, <3>5
  <2>7. Range(t) = DOMAIN e
    <3>1. ASSUME NEW i \in DOMAIN t PROVE t[i] \in DOMAIN d \ {segs[1]}
      BY <2>6 DEF ListOK, Range
    <3>2. ASSUME NEW x \in DOMAIN d, x # segs[1] PROVE \E i \in DOMAIN t : t[i] = x
      <4>1. PICK j \in DOMAIN segs : segs[j] = x
        BY DEF ListOK, Range
      <4>2. j - 1 \in DOMAIN t /\ (j - 1) + 1 = j
        BY <2>6, <3>2, <4>1
      <4> QED BY <2>6, <4>1, <4>2
    <3> HIDE DEF t, e
    <3> QED BY <2>5, <3>1, <3>2 DEF Range
  <2>8. \A i, j \in DOMAIN t : t[i] = t[j] => i = j
    <3> SUFFICES ASSUME NEW i \in DOMAIN t, NEW j \in DOMAIN t, t[i] = t[j] PROVE i = j
      OBVIOUS
    <3>1. i + 1 = j + 1
      BY <2>6 DEF ListOK
    <3> QED BY <2>6, <3>1
  <2> QED BY <2>1, <2>5, <2>6, <2>7, <2>8 DEF ListOK
<1>2. CASE ~(Len(segs) > 1)
  BY <1>2 DEF Trimmed, TrimmedFiles
<1> QED BY <1>1, <1>2

\* The list loadSegments builds: NameBefore orders no name before itself.
LEMMA LoadedList ==
  ASSUME NEW d, DOMAIN d \subseteq 1 .. MaxID, DOMAIN d # {}, NEW s \in LoadOrders(DOMAIN d)
  PROVE  s \in Seq(1 .. MaxID) /\ ListOK(s, d) /\ s[Len(s)] \in 1 .. MaxID
<1> DEFINE n == Cardinality(DOMAIN d)
<1>1. IsFiniteSet(DOMAIN d)
  BY FS_Interval, FS_Subset, BoundAssumption
<1>2. n \in Nat /\ n # 0
  BY <1>1, FS_CardinalityType, FS_EmptySet
<1> HIDE DEF n
<1>3. /\ s \in [1 .. n -> DOMAIN d] /\ Range(s) = DOMAIN d
      /\ \A i, j \in 1 .. n : i < j => NameBefore(s[i], s[j])
  BY DEF LoadOrders, n
<1>4. /\ s \in Seq(1 .. MaxID) /\ s # << >> /\ Len(s) = n /\ s[Len(s)] \in 1 .. MaxID
  <2>1. s \in [1 .. n -> 1 .. MaxID]
    BY <1>3
  <2>2. s \in Seq(1 .. MaxID)
    BY <1>2, <2>1, SeqDef, Zenon
  <2>3. DOMAIN s = 1 .. n /\ DOMAIN s = 1 .. Len(s) /\ Len(s) \in Nat
    BY <2>1, <2>2
  <2>4. Len(s) = n
    BY <1>2, <2>3
  <2> QED BY <1>2, <2>1, <2>2, <2>4
<1>5. ASSUME NEW i \in 1 .. n, NEW j \in 1 .. n, i < j PROVE s[i] # s[j]
  <2>1. NameBefore(s[i], s[j]) /\ s[i] \in Nat
    BY <1>3, <1>5, BoundAssumption
  <2>2. \A a \in Nat : ~NameBefore(a, a)
    BY DEF NameBefore
  <2> QED BY <2>1, <2>2
<1>6. \A i, j \in 1 .. n : s[i] = s[j] => i = j
  <2> SUFFICES ASSUME NEW i \in 1 .. n, NEW j \in 1 .. n, i # j PROVE s[i] # s[j]
    OBVIOUS
  <2>1. i < j \/ j < i
    BY <1>2
  <2> QED BY <1>5, <2>1
<1> QED BY <1>3, <1>4, <1>6 DEF ListOK

\* addSegment: a new file joins the directory and the end of the list.
LEMMA ExtendedList ==
  ASSUME NEW segs \in Seq(1 .. MaxID), NEW d, ListOK(segs, d), NEW id \in 1 .. MaxID,
         id \notin DOMAIN d, NEW e, DOMAIN e = DOMAIN d \cup {id}
  PROVE  /\ Append(segs, id) \in Seq(1 .. MaxID) /\ ListOK(Append(segs, id), e)
         /\ Append(segs, id)[1] = segs[1]
<1> DEFINE t == Append(segs, id)
<1>1. /\ t \in Seq(1 .. MaxID) /\ t # << >> /\ Len(t) = Len(segs) + 1
      /\ DOMAIN t = DOMAIN segs \cup {Len(t)} /\ t[Len(t)] = id
      /\ \A i \in DOMAIN segs : t[i] = segs[i] /\ i # Len(t)
  OBVIOUS
<1>2. \A i \in DOMAIN segs : segs[i] # id
  BY DEF ListOK, Range
<1> HIDE DEF t
<1>3. Range(t) = DOMAIN e
  BY <1>1 DEF ListOK, Range
<1>4. \A i, j \in DOMAIN t : t[i] = t[j] => i = j
  BY <1>1, <1>2 DEF ListOK
<1>5. 1 \in DOMAIN segs
  BY DEF ListOK
<1> QED BY <1>1, <1>3, <1>4, <1>5 DEF ListOK, t

-----------------------------------------------------------------------------
(* Steps *)

\* A step that acknowledges nothing loses nothing if whatever it takes from the disk
\* is handled.
LEMMA LossStep ==
  ASSUME NoOtherLoss, last' = last, Handled \subseteq Handled',
         UnreadIn(dir, DOMAIN dir) \subseteq UnreadIn(dir', DOMAIN dir') \cup Handled'
  PROVE  NoOtherLoss'
  BY DEF NoOtherLoss, acked, Pending, UnreadIn

\* An acknowledged hint on disk is not lost.
LEMMA AckStep ==
  ASSUME HistoryOK, NoOtherLoss, Ack, Handled \subseteq Handled',
         UnreadIn(dir, DOMAIN dir) \subseteq UnreadIn(dir', DOMAIN dir'),
         last + 1 \in UnreadIn(dir', DOMAIN dir') \cup Handled'
  PROVE  NoOtherLoss'
<1>1. acked' = acked \cup {last + 1}
  BY DEF HistoryOK, Ack, acked
<1> QED BY <1>1 DEF NoOtherLoss, Pending, UnreadIn

\* An acknowledgement adds one hint to the history.
LEMMA AckHistory ==
  ASSUME HistoryOK, Ack, swallowed' \subseteq swallowed \cup {last + 1}
  PROVE  HistoryOK' /\ acked' = acked \cup {last + 1}
<1>1. acked' = acked \cup {last + 1} /\ last' \in Nat
  BY DEF HistoryOK, Ack, acked
<1> QED BY <1>1 DEF HistoryOK, Ack

\* A directory is still well formed when more hints have been acknowledged.
LEMMA DirMonotone ==
  ASSUME NEW d, NEW H, NEW J, DirOK(d, H), H \subseteq J
  PROVE  DirOK(d, J)
  BY DEF DirOK

\* A stopped process leaves a directory that holds all that is not handled.
LEMMA StopStep ==
  ASSUME QueueInv, NEW d, DirOK(d, acked), StopWith(d), last' = last, HistoryOK',
         Handled \subseteq Handled',
         UnreadIn(dir, DOMAIN dir) \subseteq UnreadIn(d, DOMAIN d) \cup Handled'
  PROVE  QueueInv'
<1> USE DEF QueueInv
<1>1. dir' = d /\ acked' = acked /\ tail' = Nil /\ pc' = "idle" /\ buf' = Nil
  BY DEF StopWith, acked
<1>2. DirOK(dir, acked)'
  BY <1>1
<1>3. MemoryOK'
  <2>1. << >> \in Seq(1 .. MaxID)
    OBVIOUS
  <2> QED BY <2>1 DEF StopWith, MemoryOK
<1>4. Listed' /\ SenderOK'
  BY <1>1 DEF Listed, isOpen, SenderOK
<1>5. NoOtherLoss'
  BY <1>1, LossStep
<1> QED BY <1>2, <1>3, <1>4, <1>5

\* The head is a file of the directory, and the sender's block is not empty.
LEMMA HeadOK ==
  ASSUME QueueInv, isOpen
  PROVE  /\ head \in DOMAIN dir /\ head \in 1 .. MaxID /\ FileOK(dir[head])
         /\ HintsIn(dir[head]) \subseteq acked
         /\ pc # "idle" => buf \in Block /\ buf.len \in Nat /\ buf.len >= 1 /\ buf.hint \in acked
<1> USE DEF QueueInv
<1>1. head \in DOMAIN dir
  BY DEF Listed, ListOK, MemoryOK, head, Range
<1>2. head \in 1 .. MaxID /\ FileOK(dir[head]) /\ HintsIn(dir[head]) \subseteq acked
  BY <1>1 DEF DirOK
<1>3. ASSUME pc # "idle"
      PROVE  buf \in Block /\ buf.len \in Nat /\ buf.len >= 1 /\ buf.hint \in acked
  <2>1. dir[head].pos \in DOMAIN dir[head].blocks /\ buf = dir[head].blocks[dir[head].pos]
    BY <1>3 DEF SenderOK
  <2>2. buf \in Block /\ buf.len >= 1
    BY <1>2, <2>1 DEF FileOK, SegmentOK, Contiguous
  <2>3. buf.hint \in acked
    BY <1>2, <2>1 DEF HintsIn
  <2> QED BY <2>2, <2>3 DEF Block
<1> QED BY <1>1, <1>2, <1>3

\* queue.Open keeps the invariant.
LEMMA OpenStep == QueueInv /\ Open => QueueInv'
<1> SUFFICES ASSUME QueueInv, Open PROVE QueueInv'
  OBVIOUS
<1> USE DEF QueueInv
<1> DEFINE d == IF DOMAIN dir = {} THEN [i \in {1} |-> NewSegment] ELSE dir
<1>1. /\ DirOK(d, acked) /\ DOMAIN d # {}
      /\ UnreadIn(dir, DOMAIN dir) \subseteq UnreadIn(d, DOMAIN d)
  <2>1. CASE DOMAIN dir = {}
    <3>1. /\ DOMAIN d = {1} /\ d[1] = NewSegment /\ d = [i \in DOMAIN d |-> d[i]]
      BY <2>1
    <3> HIDE DEF d
    <3>2. 1 \in 1 .. MaxID
      BY BoundAssumption
    <3> QED BY <2>1, <3>1, <3>2, NewSegmentOK DEF DirOK, UnreadIn
  <2>2. CASE DOMAIN dir # {}
    BY <2>2
  <2> QED BY <2>1, <2>2
<1>2. PICK s \in LoadOrders(DOMAIN d) :
        /\ tail' = s[Len(s)]
        /\ currentSize' = [i \in 1 .. MaxID |-> IF i \in DOMAIN d THEN OpenedSize(d[i]) ELSE 0]
        /\ IF AtEnd(d[s[1]])
           THEN segments' = Trimmed(s) /\ dir' = TrimmedFiles(d, s)
           ELSE segments' = s /\ dir' = d
  BY DEF Open
<1> HIDE DEF d
<1>3. s \in Seq(1 .. MaxID) /\ ListOK(s, d) /\ s[Len(s)] \in 1 .. MaxID
  BY <1>1, LoadedList DEF DirOK
<1>4. /\ ~isOpen /\ UNCHANGED <<pc, buf, restarts, last, delivered, skipped, expired, swallowed>>
      /\ acked' = acked /\ pc = "idle" /\ Handled' = Handled
  BY DEF Open, senderVars, history, acked, Listed, Handled
<1>5. /\ DirOK(dir', acked) /\ segments' \in Seq(1 .. MaxID) /\ ListOK(segments', dir')
      /\ UnreadIn(dir, DOMAIN dir) \subseteq UnreadIn(dir', DOMAIN dir')
  <2>1. CASE AtEnd(d[s[1]])
    BY <1>1, <1>2, <1>3, <2>1, TrimmedList
  <2>2. CASE ~AtEnd(d[s[1]])
    BY <1>1, <1>2, <1>3, <2>2
  <2> QED BY <2>1, <2>2
<1>6. \A i \in DOMAIN d : OpenedSize(d[i]) \in Nat
  <2> SUFFICES ASSUME NEW i \in DOMAIN d PROVE OpenedSize(d[i]) \in Nat
    OBVIOUS
  <2>1. SegmentOK(d[i])
    BY <1>1 DEF DirOK, FileOK
  <2> QED BY <2>1 DEF SegmentOK, OpenedSize, SizeAt, Block
<1>7. MemoryOK'
  BY <1>2, <1>3, <1>4, <1>5, <1>6 DEF MemoryOK
<1>8. HistoryOK' /\ Listed' /\ SenderOK'
  BY <1>4, <1>5 DEF HistoryOK, Listed, SenderOK
<1>9. NoOtherLoss'
  BY <1>4, <1>5, LossStep
<1> QED BY <1>4, <1>5, <1>7, <1>8, <1>9

\* The block of a payload is a block of the next hint.
LEMMA HintBlockOK ==
  ASSUME HistoryOK, NEW p \in Payloads
  PROVE  /\ HintBlock(p) \in Block /\ HintBlock(p).len >= 1 /\ HintBlock(p).len = p.len
         /\ HintBlock(p).hint = last + 1 /\ p.len \in Nat
  BY PayloadsAssumption DEF HistoryOK, HintBlock, Block

\* An Append that fits in the tail keeps the invariant.
LEMMA AppendToTailStep ==
  ASSUME QueueInv, NEW p \in Payloads, AppendToTail(p)
  PROVE  QueueInv'
<1> USE DEF QueueInv
<1> DEFINE b == HintBlock(p)
           f == dir[tail]
           g == AppendBlock(f, b)
<1>1. /\ isOpen /\ tail \in Range(segments) /\ Ack
      /\ dir' = [dir EXCEPT ![tail] = g]
      /\ currentSize' = [currentSize EXCEPT ![tail] = CurrentSizeAfterAppend(@, p)]
      /\ UNCHANGED <<segments, tail, pc, buf, restarts, delivered, skipped, expired, swallowed>>
  BY DEF AppendToTail, MayAppend, TailIsOpen, senderVars, Ack
<1>2. tail \in DOMAIN dir /\ FileOK(f) /\ HintsIn(f) \subseteq acked
  BY <1>1 DEF Listed, ListOK, DirOK
<1>3. /\ FileOK(g) /\ Unread(g) = Unread(f) \cup {last + 1}
      /\ HintsIn(g) = HintsIn(f) \cup {last + 1} /\ g.pos = f.pos
      /\ f.pos \in DOMAIN f.blocks => /\ f.pos \in DOMAIN g.blocks
                                      /\ g.blocks[f.pos] = f.blocks[f.pos]
  BY <1>2, HintBlockOK, AppendedFile
<1>4. HistoryOK' /\ acked' = acked \cup {last + 1}
  BY <1>1, AckHistory
<1>5. DirOK(dir, acked')
  BY <1>4, DirMonotone
<1> HIDE DEF g, f
<1>6. /\ DirOK(dir', acked') /\ DOMAIN dir' = DOMAIN dir /\ dir'[tail] = g
      /\ \A i \in DOMAIN dir : i # tail => dir'[i] = dir[i]
      /\ UnreadIn(dir, DOMAIN dir) \subseteq UnreadIn(dir', DOMAIN dir')
      /\ Unread(g) \subseteq UnreadIn(dir', DOMAIN dir')
  <2>1. Unread(dir[tail]) \subseteq Unread(g) \cup {} /\ HintsIn(g) \subseteq acked'
    BY <1>2, <1>3, <1>4 DEF f
  <2>2. UnreadIn(dir, DOMAIN dir) \subseteq UnreadIn(dir', DOMAIN dir') \cup {}
    BY <1>1, <1>2, <1>3, <1>5, <2>1, ChangedFile
  <2> QED BY <1>1, <1>2, <1>3, <1>5, <2>1, <2>2, ChangedFile
<1>7. MemoryOK'
  BY <1>1, HintBlockOK DEF MemoryOK, CurrentSizeAfterAppend
<1>8. Listed'
  BY <1>1, <1>6 DEF Listed, ListOK, isOpen
<1>9. SenderOK'
  <2> SUFFICES ASSUME pc # "idle"
               PROVE  /\ dir'[head].pos \in DOMAIN dir'[head].blocks
                      /\ buf = dir'[head].blocks[dir'[head].pos]
                      /\ currentSize'[head] = buf.len
    BY <1>1 DEF SenderOK, head
  <2>1. head \in DOMAIN dir /\ head \in 1 .. MaxID /\ buf.len \in Nat /\ buf.len >= 1
    BY <1>1, HeadOK
  <2>2. CASE head = tail
    <3>1. currentSize'[head] = buf.len
      BY <1>1, <2>1, <2>2 DEF SenderOK, MemoryOK, CurrentSizeAfterAppend
    <3> QED BY <1>3, <1>6, <2>2, <3>1 DEF SenderOK, f
  <2>3. CASE head # tail
    BY <1>1, <1>6, <2>1, <2>3 DEF SenderOK, MemoryOK
  <2> QED BY <2>2, <2>3
<1>10. Handled' = Handled /\ last + 1 \in UnreadIn(dir', DOMAIN dir')
  BY <1>1, <1>3, <1>6 DEF Handled
<1>11. NoOtherLoss'
  BY <1>1, <1>6, <1>10, AckStep
<1> QED BY <1>4, <1>6, <1>7, <1>8, <1>9, <1>11

\* nextSegmentID is a free name.
LEMMA NextIDOK ==
  ASSUME QueueInv, nextSegmentID(dir) <= MaxID
  PROVE  nextSegmentID(dir) \in 1 .. MaxID /\ nextSegmentID(dir) \notin DOMAIN dir
<1>1. nextSegmentID(dir) \in Nat \ {0} /\ nextSegmentID(dir) \notin DOMAIN dir
  BY NextIsFree DEF QueueInv, DirOK
<1> QED BY <1>1, BoundAssumption

\* What addSegment does, with the file f it leaves behind.
LEMMA AddSegmentStep ==
  ASSUME QueueInv, isOpen, NEW id \in 1 .. MaxID, id \notin DOMAIN dir,
         NEW f, FileOK(f), HintsIn(f) \subseteq acked', acked \subseteq acked',
         dir' = AddFile(dir, id, f), segments' = Append(segments, id), tail' = id,
         NEW n \in Nat, currentSize' = [currentSize EXCEPT ![id] = n],
         UNCHANGED <<pc, buf, restarts, delivered, skipped>>
  PROVE  /\ DirOK(dir', acked') /\ MemoryOK' /\ Listed' /\ SenderOK'
         /\ UnreadIn(dir', DOMAIN dir') = UnreadIn(dir, DOMAIN dir) \cup Unread(f)
<1> USE DEF QueueInv
<1>2. DirOK(dir, acked')
  BY DirMonotone
<1>3. /\ DirOK(dir', acked') /\ DOMAIN dir' = DOMAIN dir \cup {id}
      /\ \A i \in DOMAIN dir : dir'[i] = dir[i]
      /\ UnreadIn(dir', DOMAIN dir') = UnreadIn(dir, DOMAIN dir) \cup Unread(f)
  <2> DEFINE e == AddFile(dir, id, f)
  <2>1. DirOK(e, acked')
    BY <1>2, AddedFileOK
  <2>2. /\ DOMAIN e = DOMAIN dir \cup {id}
        /\ \A i \in DOMAIN dir : e[i] = dir[i]
        /\ UnreadIn(e, DOMAIN e) = UnreadIn(dir, DOMAIN dir) \cup Unread(f)
    BY AddedFile
  <2> QED BY <2>1, <2>2
<1>4. segments \in Seq(1 .. MaxID) /\ ListOK(segments, dir)
  BY DEF MemoryOK, Listed
<1>5. segments' \in Seq(1 .. MaxID) /\ ListOK(segments', dir') /\ segments'[1] = segments[1]
  <2>1. /\ Append(segments, id) \in Seq(1 .. MaxID) /\ ListOK(Append(segments, id), dir')
        /\ Append(segments, id)[1] = segments[1]
    BY <1>3, <1>4, ExtendedList
  <2> QED BY <2>1
<1>6. MemoryOK'
  BY <1>5 DEF MemoryOK
<1>7. Listed'
  <2>1. isOpen'
    BY NilAssumption DEF isOpen
  <2> QED BY <1>5, <2>1 DEF Listed
<1>8. head' = head /\ head \in DOMAIN dir /\ head # id /\ dir'[head] = dir[head]
      /\ head \in 1 .. MaxID
  BY <1>3, <1>5, HeadOK DEF head
<1>9. SenderOK'
  BY <1>8 DEF SenderOK, MemoryOK
<1> QED BY <1>3, <1>6, <1>7, <1>9

\* An Append that starts a new segment keeps the invariant.
LEMMA AppendToNewSegmentStep ==
  ASSUME QueueInv, NEW p \in Payloads, AppendToNewSegment(p)
  PROVE  QueueInv'
<1> USE DEF QueueInv
<1> DEFINE id == nextSegmentID(dir)
           f == AppendBlock(NewSegment, HintBlock(p))
<1>1. /\ isOpen /\ Ack /\ id <= MaxID
      /\ dir' = AddFile(dir, id, f) /\ segments' = Append(segments, id) /\ tail' = id
      /\ currentSize' = [currentSize EXCEPT ![id] = p.len]
      /\ UNCHANGED <<pc, buf, restarts, delivered, skipped, expired, swallowed>>
  BY DEF AppendToNewSegment, MayAppend, senderVars, Ack
<1>2. HistoryOK' /\ acked' = acked \cup {last + 1}
  BY <1>1, AckHistory
<1>3. FileOK(f) /\ Unread(f) = {last + 1} /\ HintsIn(f) = {last + 1}
  BY NewSegmentOK, HintBlockOK, AppendedFile
<1>4. p.len \in Nat
  BY HintBlockOK
<1> HIDE DEF f, id
<1>5. /\ DirOK(dir', acked') /\ MemoryOK' /\ Listed' /\ SenderOK'
      /\ UnreadIn(dir', DOMAIN dir') = UnreadIn(dir, DOMAIN dir) \cup Unread(f)
  <2>1. id \in 1 .. MaxID /\ id \notin DOMAIN dir
    BY <1>1, NextIDOK DEF id
  <2>2. HintsIn(f) \subseteq acked' /\ acked \subseteq acked'
    BY <1>2, <1>3
  <2> QED BY <1>1, <1>3, <1>4, <2>1, <2>2, AddSegmentStep
<1>6. NoOtherLoss'
  <2>1. Handled' = Handled
    BY <1>1 DEF Handled
  <2> QED BY <1>1, <1>3, <1>5, <2>1, AckStep
<1> QED BY <1>2, <1>5, <1>6

\* An Append of a block too large for any segment keeps the invariant.
LEMMA AppendTooLargeStep ==
  ASSUME QueueInv, NEW p \in Payloads, AppendTooLarge(p)
  PROVE  QueueInv'
<1> USE DEF QueueInv
<1> DEFINE id == nextSegmentID(dir)
<1>1. /\ isOpen /\ id <= MaxID
      /\ dir' = AddFile(dir, id, NewSegment) /\ segments' = Append(segments, id) /\ tail' = id
      /\ currentSize' = [currentSize EXCEPT ![id] = 0]
      /\ UNCHANGED <<pc, buf, restarts, last, delivered, skipped, expired, swallowed>>
  BY DEF AppendTooLarge, MayAppend, senderVars, history
<1>2. acked' = acked /\ Handled' = Handled
  BY <1>1 DEF acked, Handled
<1> HIDE DEF id
<1>3. /\ DirOK(dir', acked') /\ MemoryOK' /\ Listed' /\ SenderOK'
      /\ UnreadIn(dir', DOMAIN dir') = UnreadIn(dir, DOMAIN dir) \cup Unread(NewSegment)
  <2>1. id \in 1 .. MaxID /\ id \notin DOMAIN dir
    BY <1>1, NextIDOK DEF id
  <2>2. HintsIn(NewSegment) \subseteq acked' /\ acked \subseteq acked' /\ FileOK(NewSegment)
    BY <1>2, NewSegmentOK
  <2> QED BY <1>1, <2>1, <2>2, AddSegmentStep
<1>4. HistoryOK'
  BY <1>1, <1>2 DEF HistoryOK
<1>5. NoOtherLoss'
  BY <1>1, <1>2, <1>3, LossStep
<1> QED BY <1>3, <1>4, <1>5

\* An Append to a closed tail keeps the invariant: its hint is swallowed.
LEMMA AppendNotOpenStep ==
  ASSUME QueueInv, NEW p \in Payloads, AppendNotOpen(p)
  PROVE  QueueInv'
<1> USE DEF QueueInv
<1>1. /\ Ack /\ swallowed' = swallowed \cup {last + 1}
      /\ UNCHANGED <<dir, segments, tail, currentSize, pc, buf, restarts, delivered, skipped,
                     expired>>
  BY DEF AppendNotOpen, queueVars, senderVars, Ack
<1>2. HistoryOK' /\ acked' = acked \cup {last + 1}
  BY <1>1, AckHistory
<1>3. DirOK(dir', acked')
  BY <1>1, <1>2, DirMonotone
<1>4. MemoryOK' /\ Listed'
  BY <1>1 DEF MemoryOK, Listed, isOpen
<1>5. SenderOK'
  BY <1>1 DEF SenderOK, head
<1>6. NoOtherLoss'
  <2>1. Handled' = Handled \cup {last + 1}
    BY <1>1 DEF Handled
  <2> QED BY <1>1, <2>1, AckStep
<1> QED BY <1>2, <1>3, <1>4, <1>5, <1>6

\* A crash after addSegment keeps the invariant.
LEMMA CrashInAppendStep ==
  ASSUME QueueInv, NEW p \in Payloads, CrashInAppend(p)
  PROVE  QueueInv'
<1> DEFINE id == nextSegmentID(dir)
           d == AddFile(dir, id, NewSegment)
<1>1. id <= MaxID /\ StopWith(d) /\ UNCHANGED <<last, delivered, skipped, expired, swallowed>>
  BY DEF CrashInAppend, history
<1>2. HistoryOK' /\ Handled' = Handled
  BY <1>1 DEF QueueInv, HistoryOK, acked, Handled
<1>3. id \in 1 .. MaxID /\ id \notin DOMAIN dir
  BY <1>1, NextIDOK
<1> HIDE DEF id
<1>5. /\ DirOK(d, acked)
      /\ UnreadIn(d, DOMAIN d) = UnreadIn(dir, DOMAIN dir) \cup Unread(NewSegment)
  <2>1. DirOK(dir, acked) /\ HintsIn(NewSegment) \subseteq acked /\ FileOK(NewSegment)
    BY NewSegmentOK DEF QueueInv
  <2> QED BY <1>3, <2>1, AddedFile, AddedFileOK
<1> HIDE DEF d
<1> QED BY <1>1, <1>2, <1>5, StopStep

\* queue.Current keeps the invariant.
LEMMA ReadCurrentStep == QueueInv /\ ReadCurrent => QueueInv'
<1> SUFFICES ASSUME QueueInv, ReadCurrent PROVE QueueInv'
  OBVIOUS
<1> USE DEF QueueInv
<1> DEFINE f == dir[head]
           b == f.blocks[f.pos]
<1>1. /\ isOpen /\ ~AtEnd(f) /\ buf' = b
      /\ currentSize' = [currentSize EXCEPT ![head] = b.len]
      /\ \/ pc' = "sending" /\ skipped' = skipped
         \/ pc' = "advancing" /\ skipped' = skipped \cup {b.hint}
      /\ UNCHANGED <<dir, segments, tail, restarts, last, delivered, expired, swallowed>>
  BY DEF ReadCurrent
<1>2. head \in DOMAIN dir /\ head \in 1 .. MaxID /\ FileOK(f) /\ HintsIn(f) \subseteq acked
  BY <1>1, HeadOK
<1>3. f.pos \in DOMAIN f.blocks
  BY <1>1, <1>2 DEF FileOK, Contiguous, AtEnd
<1>4. b \in Block /\ b.len \in Nat /\ b.hint \in acked
  BY <1>2, <1>3 DEF FileOK, SegmentOK, HintsIn, Block
<1>5. acked' = acked /\ head' = head /\ DirOK(dir', acked')
  BY <1>1 DEF acked, head
<1> HIDE DEF b
<1>6. MemoryOK'
  BY <1>1, <1>2, <1>4 DEF MemoryOK
<1>7. HistoryOK'
  BY <1>1, <1>4, <1>5 DEF HistoryOK
<1>8. Listed'
  BY <1>1 DEF Listed, isOpen
<1>9. SenderOK'
  BY <1>1, <1>2, <1>3, <1>5 DEF SenderOK, MemoryOK, b
<1>10. NoOtherLoss'
  <2>1. Handled \subseteq Handled'
    BY <1>1 DEF Handled
  <2> QED BY <1>1, <2>1, LossStep
<1> QED BY <1>5, <1>6, <1>7, <1>8, <1>9, <1>10

\* The end of a send, good or bad, keeps the invariant.
LEMMA WriteStep == QueueInv /\ (WriteSucceeds \/ WriteFails) => QueueInv'
<1> SUFFICES ASSUME QueueInv, WriteSucceeds \/ WriteFails PROVE QueueInv'
  OBVIOUS
<1> USE DEF QueueInv
<1>1. /\ pc = "sending" /\ delivered' \in {delivered, delivered \cup {buf.hint}}
      /\ \/ pc' = "advancing" /\ buf' = buf /\ delivered' = delivered \cup {buf.hint}
         \/ pc' = "idle" /\ buf' = Nil
      /\ UNCHANGED <<dir, segments, tail, currentSize, restarts, last, skipped, expired, swallowed>>
  BY DEF WriteSucceeds, WriteFails, queueVars
<1>2. isOpen /\ buf.hint \in acked
  BY <1>1, HeadOK DEF Listed
<1>3. acked' = acked /\ head' = head /\ DirOK(dir', acked')
  BY <1>1 DEF acked, head
<1>4. MemoryOK'
  BY <1>1 DEF MemoryOK
<1>5. HistoryOK'
  BY <1>1, <1>2, <1>3 DEF HistoryOK
<1>6. Listed'
  BY <1>1, <1>2 DEF Listed, isOpen
<1>7. SenderOK'
  BY <1>1, <1>3 DEF SenderOK
<1>8. NoOtherLoss'
  <2>1. Handled \subseteq Handled'
    BY <1>1 DEF Handled
  <2> QED BY <1>1, <2>1, LossStep
<1> QED BY <1>3, <1>4, <1>5, <1>6, <1>7, <1>8

\* The head after the footer has moved past the block that was sent.
LEMMA AdvancedHeadOK ==
  ASSUME QueueInv, pc = "advancing"
  PROVE  LET d == [dir EXCEPT ![head] = AdvancedHead]
         IN  /\ isOpen /\ head \in DOMAIN dir /\ head \in 1 .. MaxID
             /\ DirOK(d, acked) /\ DOMAIN d = DOMAIN dir /\ d[head] = AdvancedHead
             /\ FileOK(AdvancedHead)
             /\ UnreadIn(dir, DOMAIN dir) \subseteq UnreadIn(d, DOMAIN d) \cup Handled
<1> DEFINE f == dir[head]
           d == [dir EXCEPT ![head] = AdvancedHead]
<1>1. isOpen
  BY DEF QueueInv, Listed
<1>2. head \in DOMAIN dir /\ head \in 1 .. MaxID /\ FileOK(f) /\ HintsIn(f) \subseteq acked
  BY <1>1, HeadOK
<1>3. /\ f.pos \in DOMAIN f.blocks /\ currentSize[head] = f.blocks[f.pos].len
      /\ f.blocks[f.pos].hint \in Handled
  BY DEF QueueInv, SenderOK, Handled
<1>4. /\ FileOK(AdvancedHead) /\ HintsIn(AdvancedHead) = HintsIn(f)
      /\ Unread(f) \subseteq Unread(AdvancedHead) \cup {f.blocks[f.pos].hint}
  BY <1>2, <1>3, AdvancedFile DEF AdvancedHead
<1>5. Unread(f) \subseteq Unread(AdvancedHead) \cup Handled
  BY <1>3, <1>4
<1>6. DirOK(dir, acked) /\ HintsIn(AdvancedHead) \subseteq acked
  BY <1>2, <1>4 DEF QueueInv
<1>7. /\ DirOK(d, acked) /\ DOMAIN d = DOMAIN dir /\ d[head] = AdvancedHead
      /\ UnreadIn(dir, DOMAIN dir) \subseteq UnreadIn(d, DOMAIN d) \cup Handled
  BY <1>2, <1>4, <1>5, <1>6, ChangedFile
<1> QED BY <1>1, <1>2, <1>4, <1>7

\* queue.Advance keeps the invariant: it gives up the block that was handled.
LEMMA AdvanceStep == QueueInv /\ Advance => QueueInv'
<1> SUFFICES ASSUME QueueInv, Advance PROVE QueueInv'
  OBVIOUS
<1> USE DEF QueueInv
<1> DEFINE d == [dir EXCEPT ![head] = AdvancedHead]
<1>1. /\ pc = "advancing" /\ pc' = "idle" /\ buf' = Nil
      /\ IF AtEnd(AdvancedHead)
         THEN segments' = Trimmed(segments) /\ dir' = TrimmedFiles(d, segments)
         ELSE dir' = d /\ segments' = segments
      /\ currentSize' = [currentSize EXCEPT ![head] = SizeAt(AdvancedHead, AdvancedHead.pos)]
      /\ UNCHANGED <<tail, restarts, last, delivered, skipped, expired, swallowed>>
  BY DEF Advance, history
<1>2. /\ isOpen /\ head \in DOMAIN dir /\ head \in 1 .. MaxID
      /\ DirOK(d, acked) /\ DOMAIN d = DOMAIN dir /\ d[head] = AdvancedHead
      /\ FileOK(AdvancedHead)
      /\ UnreadIn(dir, DOMAIN dir) \subseteq UnreadIn(d, DOMAIN d) \cup Handled
  BY <1>1, AdvancedHeadOK
<1>3. acked' = acked /\ Handled' = Handled
  BY <1>1 DEF acked, Handled
<1> HIDE DEF d
<1>4. segments \in Seq(1 .. MaxID) /\ ListOK(segments, d)
  BY <1>2 DEF MemoryOK, Listed, ListOK
<1>5. /\ DirOK(dir', acked) /\ segments' \in Seq(1 .. MaxID) /\ ListOK(segments', dir')
      /\ UnreadIn(d, DOMAIN d) \subseteq UnreadIn(dir', DOMAIN dir')
  <2>1. CASE AtEnd(AdvancedHead)
    <3>1. AtEnd(d[segments[1]])
      BY <1>2, <2>1 DEF head
    <3> QED BY <1>1, <1>2, <1>4, <2>1, <3>1, TrimmedList
  <2>2. CASE ~AtEnd(AdvancedHead)
    BY <1>1, <1>2, <1>4, <2>2
  <2> QED BY <2>1, <2>2
<1>6. SizeAt(AdvancedHead, AdvancedHead.pos) \in Nat
  BY <1>2 DEF FileOK, SegmentOK, SizeAt, Block
<1>7. MemoryOK'
  BY <1>1, <1>2, <1>5, <1>6 DEF MemoryOK
<1>8. HistoryOK' /\ Listed' /\ SenderOK'
  BY <1>1, <1>3, <1>5 DEF HistoryOK, Listed, SenderOK
<1>9. NoOtherLoss'
  BY <1>1, <1>2, <1>3, <1>5, LossStep
<1> QED BY <1>3, <1>5, <1>7, <1>8, <1>9

\* A crash between the footer and os.Remove keeps the invariant.
LEMMA CrashInAdvanceStep == QueueInv /\ CrashInAdvance => QueueInv'
<1> SUFFICES ASSUME QueueInv, CrashInAdvance PROVE QueueInv'
  OBVIOUS
<1> DEFINE d == [dir EXCEPT ![head] = AdvancedHead]
<1>1. /\ pc = "advancing" /\ StopWith(d)
      /\ UNCHANGED <<last, delivered, skipped, expired, swallowed>>
  BY DEF CrashInAdvance, history
<1>2. DirOK(d, acked) /\ UnreadIn(dir, DOMAIN dir) \subseteq UnreadIn(d, DOMAIN d) \cup Handled
  BY <1>1, AdvancedHeadOK
<1>3. HistoryOK' /\ Handled' = Handled
  BY <1>1 DEF QueueInv, HistoryOK, acked, Handled
<1> HIDE DEF d
<1> QED BY <1>1, <1>2, <1>3, StopStep

-----------------------------------------------------------------------------
(* Purging and the clock *)

\* The first n segments are files of the directory, and their unread hints were
\* acknowledged.
LEMMA OldFilesOK ==
  ASSUME QueueInv, isOpen, NEW n \in 0 .. Len(segments)
  PROVE  /\ OldFiles(n) \subseteq DOMAIN dir
         /\ UnreadIn(dir, OldFiles(n)) \subseteq acked
<1>1. segments \in Seq(1 .. MaxID) /\ ListOK(segments, dir)
  BY DEF QueueInv, MemoryOK, Listed
<1>2. OldFiles(n) \subseteq DOMAIN dir
  BY <1>1 DEF OldFiles, ListOK, Range
<1>3. \A i \in DOMAIN dir : Unread(dir[i]) \subseteq acked
  BY DEF QueueInv, DirOK, HintsIn, Unread
<1> QED BY <1>2, <1>3 DEF UnreadIn

\* What expires, in the form the lemmas about directories use.
LEMMA ExpireIsUnread ==
  ASSUME NEW ids, Expire(ids)
  PROVE  expired' = expired \cup UnreadIn(dir, ids)
  BY DEF Expire, UnreadIn

\* The list that is left after the loop of PurgeOlderThan trimmed n segments.
LEMMA SuffixList ==
  ASSUME NEW segs \in Seq(1 .. MaxID), NEW d, ListOK(segs, d),
         NEW n \in 1 .. Len(segs), n < Len(segs),
         NEW e, DOMAIN e = DOMAIN d \ {segs[i] : i \in 1 .. n}
  PROVE  LET t == SubSeq(segs, n + 1, Len(segs))
         IN  t \in Seq(1 .. MaxID) /\ ListOK(t, e)
<1> DEFINE t == SubSeq(segs, n + 1, Len(segs))
<1>1. /\ t \in Seq(1 .. MaxID) /\ Len(t) = Len(segs) - n
      /\ \A i \in 1 .. Len(segs) - n : t[i] = segs[i + n]
      /\ DOMAIN segs = 1 .. Len(segs) /\ Len(segs) \in Nat /\ n \in Nat
  <2>1. DOMAIN segs = 1 .. Len(segs) /\ Len(segs) \in Nat /\ n \in Nat
    OBVIOUS
  <2>2. /\ n + 1 \in Int /\ Len(segs) \in Int /\ n + 1 <= Len(segs)
        /\ \A i \in n + 1 .. Len(segs) : segs[i] \in 1 .. MaxID
    <3>1. \A i \in n + 1 .. Len(segs) : i \in 1 .. Len(segs)
      BY <2>1
    <3>2. \A i \in 1 .. Len(segs) : segs[i] \in 1 .. MaxID
      BY ElementOfSeq
    <3>3. n + 1 <= Len(segs)
      BY <2>1
    <3> QED BY <2>1, <3>1, <3>2, <3>3
  <2>3. /\ t \in Seq(1 .. MaxID)
        /\ Len(t) = IF n + 1 <= Len(segs) THEN Len(segs) - (n + 1) + 1 ELSE 0
        /\ \A i \in 1 .. Len(segs) - (n + 1) + 1 : t[i] = segs[(n + 1) + i - 1]
    BY <2>2, SubSeqProperties
  <2> HIDE DEF t
  <2> QED BY <2>1, <2>2, <2>3
<1> HIDE DEF t
<1>2. DOMAIN t = 1 .. Len(segs) - n
  BY <1>1
<1>3. t # << >>
  <2>1. 1 \in DOMAIN t
    BY <1>1, <1>2
  <2> QED BY <2>1
<1>4. ASSUME NEW i \in DOMAIN t PROVE i + n \in DOMAIN segs /\ i + n > n
  BY <1>1, <1>2
<1>5. ASSUME NEW i \in DOMAIN t PROVE t[i] \in DOMAIN e
  <2>1. t[i] = segs[i + n] /\ segs[i + n] \in DOMAIN d
    BY <1>1, <1>2, <1>4 DEF ListOK, Range
  <2>2. ASSUME NEW j \in 1 .. n PROVE segs[j] # segs[i + n]
    <3>1. j \in DOMAIN segs /\ j # i + n
      BY <1>1, <1>4
    <3> QED BY <1>4, <3>1 DEF ListOK
  <2> QED BY <2>1, <2>2
<1>6. ASSUME NEW x \in DOMAIN e PROVE \E i \in DOMAIN t : t[i] = x
  <2>1. PICK j \in DOMAIN segs : segs[j] = x
    BY DEF ListOK, Range
  <2>2. j \notin 1 .. n
    BY <2>1
  <2>3. j - n \in DOMAIN t /\ (j - n) + n = j
    BY <1>1, <1>2, <2>2
  <2> QED BY <1>1, <1>2, <2>1, <2>3
<1>7. Range(t) = DOMAIN e
  BY <1>5, <1>6 DEF Range
<1>8. \A i, j \in DOMAIN t : t[i] = t[j] => i = j
  <2> SUFFICES ASSUME NEW i \in DOMAIN t, NEW j \in DOMAIN t, t[i] = t[j] PROVE i = j
    OBVIOUS
  <2>1. i + n = j + n
    BY <1>1, <1>2, <1>4 DEF ListOK
  <2> QED BY <1>1, <1>2, <2>1
<1> QED BY <1>1, <1>3, <1>7, <1>8 DEF ListOK, t

\* PurgeOlderThan keeps the invariant: what it removes has expired.
LEMMA PurgeStep == QueueInv /\ PurgeOlderThan => QueueInv'
<1> SUFFICES ASSUME QueueInv, PurgeOlderThan PROVE QueueInv'
  OBVIOUS
<1>1. PICK n \in OldPrefix :
        /\ Expire(OldFiles(n))
        /\ \/ /\ n < Len(segments)
              /\ segments' = SubSeq(segments, n + 1, Len(segments))
              /\ dir' = RemoveFiles(dir, OldFiles(n))
              /\ UNCHANGED currentSize
           \/ /\ n = Len(segments)
              /\ segments[n] < MaxID
              /\ segments' = <<segments[n] + 1>>
              /\ dir' = AddFile(RemoveFiles(dir, OldFiles(n)), segments[n] + 1, NewSegment)
              /\ currentSize' = [currentSize EXCEPT ![segments[n] + 1] = 0]
  BY DEF PurgeOlderThan
<1>2. /\ isOpen /\ pc = "idle"
      /\ UNCHANGED <<tail, pc, buf, restarts, last, delivered, skipped, swallowed>>
  BY DEF PurgeOlderThan, senderVars
<1>3. /\ segments \in Seq(1 .. MaxID) /\ ListOK(segments, dir) /\ DirOK(dir, acked)
      /\ HistoryOK /\ NoOtherLoss
  BY <1>2 DEF QueueInv, MemoryOK, Listed
<1>4. n \in 1 .. Len(segments)
  BY <1>3 DEF OldPrefix
<1> DEFINE ids == OldFiles(n)
           r == RemoveFiles(dir, ids)
<1>5. ids \subseteq DOMAIN dir /\ UnreadIn(dir, ids) \subseteq acked
  BY <1>2, <1>4, OldFilesOK
<1>6. expired' = expired \cup UnreadIn(dir, ids) /\ acked' = acked
  BY <1>1, <1>2, ExpireIsUnread DEF acked
<1>7. /\ DirOK(r, acked) /\ DOMAIN r = DOMAIN dir \ ids
      /\ UnreadIn(dir, DOMAIN dir) \subseteq UnreadIn(r, DOMAIN r) \cup UnreadIn(dir, ids)
  BY <1>3, RemovedFiles, RemovedFilesOK
<1> HIDE DEF r, ids
<1>8. /\ DirOK(dir', acked) /\ segments' \in Seq(1 .. MaxID) /\ ListOK(segments', dir')
      /\ currentSize' \in [1 .. MaxID -> Nat]
      /\ UnreadIn(r, DOMAIN r) \subseteq UnreadIn(dir', DOMAIN dir')
  <2>1. CASE /\ n < Len(segments)
             /\ segments' = SubSeq(segments, n + 1, Len(segments))
             /\ dir' = r /\ UNCHANGED currentSize
    <3>1. DOMAIN r = DOMAIN dir \ {segments[i] : i \in 1 .. n}
      BY <1>7 DEF ids, OldFiles
    <3>2. segments' \in Seq(1 .. MaxID) /\ ListOK(segments', r)
      BY <1>3, <1>4, <2>1, <3>1, SuffixList
    <3> QED BY <1>7, <2>1, <3>2 DEF QueueInv, MemoryOK
  <2>2. CASE /\ n = Len(segments) /\ segments[n] < MaxID
             /\ segments' = <<segments[n] + 1>>
             /\ dir' = AddFile(r, segments[n] + 1, NewSegment)
             /\ currentSize' = [currentSize EXCEPT ![segments[n] + 1] = 0]
    <3> DEFINE id == segments[n] + 1
    <3>1. segments[n] \in 1 .. MaxID
      BY <1>3, <1>4, ElementOfSeq
    <3>2. id \in 1 .. MaxID
      BY <2>2, <3>1, BoundAssumption
    <3>3. DOMAIN r = {}
      BY <1>3, <1>7, <2>2 DEF ids, OldFiles, ListOK, Range
    <3>4. segments' = <<id>> /\ dir' = AddFile(r, id, NewSegment)
      BY <2>2
    <3>5. currentSize' \in [1 .. MaxID -> Nat]
      BY <2>2, <3>2 DEF QueueInv, MemoryOK
    <3> HIDE DEF id
    <3>6. DirOK(dir', acked)
      <4>1. FileOK(NewSegment) /\ HintsIn(NewSegment) \subseteq acked
        BY NewSegmentOK
      <4> QED BY <1>7, <3>2, <3>3, <3>4, <4>1, AddedFileOK
    <3>7. DOMAIN dir' = {id} /\ UnreadIn(r, DOMAIN r) = {}
      BY <3>3, <3>4 DEF AddFile, UnreadIn
    <3>8. segments' \in Seq(1 .. MaxID) /\ segments' # << >> /\ DOMAIN segments' = {1}
          /\ segments'[1] = id
      BY <3>2, <3>4
    <3>9. ListOK(segments', dir')
      BY <3>7, <3>8 DEF ListOK, Range
    <3> QED BY <3>5, <3>6, <3>7, <3>8, <3>9
  <2> QED BY <1>1, <2>1, <2>2 DEF r, ids
<1>9. MemoryOK'
  BY <1>2, <1>8 DEF QueueInv, MemoryOK
<1>10. HistoryOK'
  BY <1>2, <1>3, <1>5, <1>6 DEF HistoryOK
<1>11. Listed' /\ SenderOK'
  BY <1>2, <1>8 DEF QueueInv, Listed, SenderOK
<1>12. NoOtherLoss'
  <2>1. Handled' = Handled \cup UnreadIn(dir, ids)
    BY <1>2, <1>6 DEF Handled
  <2>2. UnreadIn(dir, DOMAIN dir) \subseteq UnreadIn(dir', DOMAIN dir') \cup Handled'
    BY <1>7, <1>8, <2>1
  <2> QED BY <1>2, <1>3, <2>1, <2>2, LossStep
<1> QED BY <1>6, <1>8, <1>9, <1>10, <1>11, <1>12 DEF QueueInv

\* A crash inside PurgeOlderThan keeps the invariant.
LEMMA CrashInPurgeStep == QueueInv /\ CrashInPurge => QueueInv'
<1> SUFFICES ASSUME QueueInv, CrashInPurge PROVE QueueInv'
  OBVIOUS
<1>1. PICK n \in OldPrefix :
        \/ /\ n < Len(segments)
           /\ Expire(OldFiles(n))
           /\ StopWith(RemoveFiles(dir, OldFiles(n)))
        \/ /\ n = Len(segments)
           /\ segments[n] < MaxID
           /\ Expire(OldFiles(n - 1))
           /\ StopWith(AddFile(RemoveFiles(dir, OldFiles(n - 1)), segments[n] + 1, NewSegment))
  BY DEF CrashInPurge
<1>2. UNCHANGED <<last, delivered, skipped, swallowed>>
  BY DEF CrashInPurge
<1>3. isOpen
  BY <1>1 DEF StopWith
<1>4. /\ segments \in Seq(1 .. MaxID) /\ ListOK(segments, dir) /\ DirOK(dir, acked) /\ HistoryOK
  BY <1>3 DEF QueueInv, MemoryOK, Listed
<1>5. n \in 1 .. Len(segments) /\ n \in 0 .. Len(segments) /\ n - 1 \in 0 .. Len(segments)
  BY <1>4 DEF OldPrefix
<1>6. ASSUME NEW m \in 0 .. Len(segments), Expire(OldFiles(m))
      PROVE  /\ HistoryOK' /\ Handled' = Handled \cup UnreadIn(dir, OldFiles(m))
             /\ DirOK(RemoveFiles(dir, OldFiles(m)), acked)
             /\ LET r == RemoveFiles(dir, OldFiles(m))
                IN  /\ DOMAIN r = DOMAIN dir \ OldFiles(m)
                    /\ UnreadIn(dir, DOMAIN dir) \subseteq UnreadIn(r, DOMAIN r) \cup Handled'
  <2>1. UnreadIn(dir, OldFiles(m)) \subseteq acked
    BY <1>3, OldFilesOK
  <2>2. expired' = expired \cup UnreadIn(dir, OldFiles(m)) /\ acked' = acked
    BY <1>2, <1>6, ExpireIsUnread DEF acked
  <2>3. Handled' = Handled \cup UnreadIn(dir, OldFiles(m))
    BY <1>2, <2>2 DEF Handled
  <2>4. HistoryOK'
    BY <1>2, <1>4, <2>1, <2>2 DEF HistoryOK
  <2>5. DirOK(RemoveFiles(dir, OldFiles(m)), acked)
    BY <1>4, RemovedFilesOK
  <2> QED BY <2>3, <2>4, <2>5, RemovedFiles
<1>7. CASE n < Len(segments) /\ Expire(OldFiles(n)) /\ StopWith(RemoveFiles(dir, OldFiles(n)))
  <2> DEFINE r == RemoveFiles(dir, OldFiles(n))
  <2>1. /\ HistoryOK' /\ Handled \subseteq Handled' /\ DirOK(r, acked) /\ StopWith(r)
        /\ UnreadIn(dir, DOMAIN dir) \subseteq UnreadIn(r, DOMAIN r) \cup Handled'
    BY <1>5, <1>6, <1>7
  <2> HIDE DEF r
  <2> QED BY <1>2, <2>1, StopStep
<1>8. CASE /\ n = Len(segments)
           /\ segments[n] < MaxID
           /\ Expire(OldFiles(n - 1))
           /\ StopWith(AddFile(RemoveFiles(dir, OldFiles(n - 1)), segments[n] + 1, NewSegment))
  <2> DEFINE r == RemoveFiles(dir, OldFiles(n - 1))
             id == segments[n] + 1
             d == AddFile(r, id, NewSegment)
  <2>1. /\ HistoryOK' /\ Handled \subseteq Handled' /\ DirOK(r, acked) /\ StopWith(d)
        /\ DOMAIN r = DOMAIN dir \ OldFiles(n - 1)
        /\ UnreadIn(dir, DOMAIN dir) \subseteq UnreadIn(r, DOMAIN r) \cup Handled'
    BY <1>5, <1>6, <1>8
  <2>2. segments[n] \in 1 .. MaxID
    BY <1>4, <1>5, ElementOfSeq
  <2>3. id \in 1 .. MaxID /\ id # segments[n]
    BY <1>8, <2>2, BoundAssumption
  <2>4. DOMAIN r \subseteq {segments[n]}
    <3> SUFFICES ASSUME NEW x \in DOMAIN dir, x \notin OldFiles(n - 1) PROVE x = segments[n]
      BY <2>1
    <3>1. PICK j \in 1 .. Len(segments) : segments[j] = x
      BY <1>4 DEF ListOK, Range
    <3>2. j \notin 1 .. n - 1
      BY <3>1 DEF OldFiles
    <3>3. j = n
      BY <1>4, <1>5, <1>8, <3>2
    <3> QED BY <3>1, <3>3
  <2>5. id \notin DOMAIN r
    BY <2>3, <2>4
  <2> HIDE DEF r, id
  <2>6. DirOK(d, acked)
    <3>1. FileOK(NewSegment) /\ HintsIn(NewSegment) \subseteq acked
      BY NewSegmentOK
    <3> QED BY <2>1, <2>3, <2>5, <3>1, AddedFileOK
  <2>7. UnreadIn(d, DOMAIN d) = UnreadIn(r, DOMAIN r) \cup Unread(NewSegment)
    BY <2>5, AddedFile
  <2> HIDE DEF d
  <2> QED BY <1>2, <2>1, <2>6, <2>7, StopStep
<1> QED BY <1>1, <1>7, <1>8

\* The passing of time keeps the invariant.
LEMMA TickStep == QueueInv /\ Tick => QueueInv'
<1> SUFFICES ASSUME QueueInv, Tick PROVE QueueInv'
  OBVIOUS
<1> USE DEF QueueInv
<1>1. UNCHANGED <<segments, tail, currentSize, pc, buf, restarts, last, delivered, skipped,
                  expired, swallowed>>
  BY DEF Tick, senderVars, history
<1>2. /\ DOMAIN dir' = DOMAIN dir /\ dir' = [i \in DOMAIN dir' |-> dir'[i]]
      /\ \A i \in DOMAIN dir :
           dir'[i] = [dir[i] EXCEPT !.age = IF dir[i].age < Horizon THEN dir[i].age + 1 ELSE dir[i].age]
  BY DEF Tick
<1>3. ASSUME NEW i \in DOMAIN dir
      PROVE  /\ FileOK(dir'[i]) /\ Unread(dir'[i]) = Unread(dir[i])
             /\ HintsIn(dir'[i]) = HintsIn(dir[i])
             /\ dir'[i].pos = dir[i].pos /\ dir'[i].blocks = dir[i].blocks
  <2> DEFINE f == dir[i]
             g == dir'[i]
  <2>1. FileOK(f)
    BY DEF DirOK
  <2>2. f = [blocks |-> f.blocks, pos |-> f.pos, size |-> f.size, age |-> f.age] /\ f.age \in Nat
    BY <2>1 DEF FileOK, SegmentOK
  <2>3. \E a \in Nat : g = [f EXCEPT !.age = a]
    BY <1>2, <2>2
  <2>4. /\ g = [blocks |-> g.blocks, pos |-> g.pos, size |-> g.size, age |-> g.age]
        /\ g.blocks = f.blocks /\ g.pos = f.pos /\ g.size = f.size /\ g.age \in Nat
    BY <2>2, <2>3
  <2> HIDE DEF f, g
  <2>5. SegmentOK(g)
    BY <2>1, <2>4 DEF FileOK, SegmentOK
  <2>6. Contiguous(g)
    BY <2>1, <2>4 DEF FileOK, Contiguous, End
  <2>7. Unread(g) = Unread(f) /\ HintsIn(g) = HintsIn(f)
    BY <2>4 DEF Unread, HintsIn
  <2> QED BY <2>4, <2>5, <2>6, <2>7 DEF FileOK, f, g
<1>4. acked' = acked /\ Handled' = Handled /\ head' = head
  BY <1>1 DEF acked, Handled, head
<1>5. DirOK(dir', acked')
  BY <1>2, <1>3, <1>4 DEF DirOK
<1>6. MemoryOK' /\ HistoryOK'
  BY <1>1, <1>4 DEF MemoryOK, HistoryOK
<1>7. Listed'
  BY <1>1, <1>2 DEF Listed, ListOK, isOpen
<1>8. SenderOK'
  <2>1. CASE pc = "idle"
    BY <1>1, <2>1 DEF SenderOK
  <2>2. CASE pc # "idle"
    <3>1. head \in DOMAIN dir
      BY <2>2, HeadOK DEF Listed
    <3> QED BY <1>1, <1>3, <1>4, <3>1 DEF SenderOK
  <2> QED BY <2>1, <2>2
<1>9. NoOtherLoss'
  <2>1. UnreadIn(dir, DOMAIN dir) \subseteq UnreadIn(dir', DOMAIN dir')
    BY <1>2, <1>3 DEF UnreadIn
  <2> QED BY <1>1, <1>4, <2>1, LossStep
<1> QED BY <1>5, <1>6, <1>7, <1>8, <1>9

-----------------------------------------------------------------------------
(* The invariant and what it shows *)

\* Every step keeps the invariant.
LEMMA QueueInvStep == QueueInv /\ [Next]_vars => QueueInv'
<1> SUFFICES ASSUME QueueInv, [Next]_vars PROVE QueueInv'
  OBVIOUS
<1>1. CASE Open
  BY <1>1, OpenStep
<1>2. CASE Close \/ Crash
  <2>1. StopWith(dir) /\ UNCHANGED <<last, delivered, skipped, expired, swallowed>>
    BY <1>2 DEF Close, Crash, history
  <2>2. DirOK(dir, acked) /\ HistoryOK' /\ Handled' = Handled
    BY <2>1 DEF QueueInv, HistoryOK, acked, Handled
  <2> QED BY <2>1, <2>2, StopStep
<1>3. ASSUME NEW p \in Payloads, AppendToTail(p) PROVE QueueInv'
  BY <1>3, AppendToTailStep
<1>4. ASSUME NEW p \in Payloads, AppendToNewSegment(p) PROVE QueueInv'
  BY <1>4, AppendToNewSegmentStep
<1>5. ASSUME NEW p \in Payloads, AppendTooLarge(p) PROVE QueueInv'
  BY <1>5, AppendTooLargeStep
<1>6. ASSUME NEW p \in Payloads, AppendNotOpen(p) PROVE QueueInv'
  BY <1>6, AppendNotOpenStep
<1>7. ASSUME NEW p \in Payloads, CrashInAppend(p) PROVE QueueInv'
  BY <1>7, CrashInAppendStep
<1>8. CASE ReadCurrent
  BY <1>8, ReadCurrentStep
<1>9. CASE WriteSucceeds \/ WriteFails
  BY <1>9, WriteStep
<1>10. CASE Advance
  BY <1>10, AdvanceStep
<1>11. CASE CrashInAdvance
  BY <1>11, CrashInAdvanceStep
<1>12. CASE PurgeOlderThan
  BY <1>12, PurgeStep
<1>13. CASE CrashInPurge
  BY <1>13, CrashInPurgeStep
<1>14. CASE Tick
  BY <1>14, TickStep
<1>15. CASE UNCHANGED vars
  BY <1>15 DEF vars, QueueInv, DirOK, MemoryOK, HistoryOK, Listed, isOpen, SenderOK, head,
               NoOtherLoss, acked, Handled, Pending
<1> QED
  BY <1>1, <1>2, <1>3, <1>4, <1>5, <1>6, <1>7, <1>8, <1>9, <1>10, <1>11, <1>12, <1>13, <1>14,
     <1>15
  DEF Next, QueueAppend, SendWrite

\* The queue's invariant holds in every reachable state.
THEOREM QueueInvariant == Spec => []QueueInv
  BY QueueInvInit, QueueInvStep, PTL DEF Spec

\* Every variable of the queue and of its sender has its type.
THEOREM QueueTypeCorrect == Spec => []TypeOK
<1>1. QueueInv => TypeOK
  BY QueueInvSuffices
<1> QED BY <1>1, QueueInvariant, PTL

\* Whatever is appended, sent, purged, trimmed or interrupted by a crash between two
\* operations, every segment file can be read from its footer (segment.open,
\* segment.append, segment.advance).
THEOREM FilesAlwaysParse == Spec => []FilesParse
<1>1. QueueInv => FilesParse
  BY QueueInvSuffices
<1> QED BY <1>1, QueueInvariant, PTL

\* An open queue lists every file of its directory, so no file is left behind to come
\* back on restart (trimHead, PurgeOlderThan).
THEOREM NoFileIsStray == Spec => []NoStrayFiles
<1>1. QueueInv => NoStrayFiles
  BY QueueInvSuffices
<1> QED BY <1>1, QueueInvariant, PTL

\* A hint that Append acknowledged is applied, dropped as unreadable, aged out,
\* swallowed by the closed tail, or still on disk: nothing else ever loses it.
THEOREM NothingElseIsLost == Spec => []NoOtherLoss
<1>1. QueueInv => NoOtherLoss
  BY QueueInvSuffices
<1> QED BY <1>1, QueueInvariant, PTL

-----------------------------------------------------------------------------
(* The space on disk.  diskUsage is a fold over the set of segments, so its bound needs
   what folds compute.  The library's induction theorems take an operator, which the
   provers cannot instantiate; that every nonempty set of natural numbers has a least
   element says the same of sets, so each fact about sums is proved by looking at a
   counterexample of least cardinality. *)

\* The equation of the fold that MapThenSumSet is: a set's sum is the size of one of its
\* files and the sum g of the others.
SumBody(d, g, s) ==
  IF s = {} THEN 0
  ELSE LET x == CHOOSE y \in s : TRUE IN d[x].size + g[s \ {x}]

\* g gives the sum of the sizes of every set of files of S.
IsSum(d, S, g) == g = [s \in SUBSET S |-> SumBody(d, g, s)]

\* The space that the files S of the directory d take, in words.
SizeOf(d, S) == MapThenSumSet(LAMBDA s : d[s].size, S)

\* The fold, unrolled.
LEMMA SizeOfIsSum ==
  ASSUME NEW d, NEW S
  PROVE  SizeOf(d, S) = (CHOOSE g : IsSum(d, S, g))[S]
BY DEF SizeOf, MapThenSumSet, MapThenFoldSet, IsSum, SumBody

\* queue.diskUsage sums the open segments.
LEMMA DiskUsageIsSizeOf == diskUsage = SizeOf(dir, Range(segments))
BY DEF SizeOf, diskUsage, MapThenSumSet, MapThenFoldSet

\* A nonempty collection of finite sets has one of least cardinality: the form of
\* induction used below, on a smallest counterexample.
LEMMA SmallestSet ==
  ASSUME NEW C, C # {}, \A s \in C : IsFiniteSet(s)
  PROVE  \E s \in C : \A t \in C : Cardinality(s) <= Cardinality(t)
<1> DEFINE T == {Cardinality(s) : s \in C}
<1>1. T \subseteq Nat /\ T # {}
  BY FS_CardinalityType
<1>2. PICK x \in T : \A y \in T : x <= y
  <2> HIDE DEF T
  <2> QED BY <1>1, LeastNatural
<1>3. PICK s \in C : x = Cardinality(s)
  OBVIOUS
<1> QED BY <1>2, <1>3

\* Removing an element lowers the cardinality by one.
LEMMA WithoutOne ==
  ASSUME NEW s, IsFiniteSet(s), NEW x \in s
  PROVE  /\ IsFiniteSet(s \ {x})
         /\ Cardinality(s) \in Nat /\ Cardinality(s \ {x}) \in Nat
         /\ Cardinality(s \ {x}) = Cardinality(s) - 1
BY FS_RemoveElement, FS_CardinalityType

\* The fold's equation has a solution on a finite set, built up cardinality by cardinality.
LEMMA SumExists ==
  ASSUME NEW d, NEW S, IsFiniteSet(S)
  PROVE  \E g : IsSum(d, S, g)
<1> DEFINE Upto(n) == {t \in SUBSET S : Cardinality(t) <= n}
           Good(n) == \E g : g = [s \in Upto(n) |-> SumBody(d, g, s)]
           Bad == {n \in Nat : ~Good(n)}
<1>0. \A s \in SUBSET S : /\ IsFiniteSet(s) /\ Cardinality(s) \in Nat
                          /\ Cardinality(s) <= Cardinality(S)
  BY FS_Subset, FS_CardinalityType
<1>1. Bad = {}
  <2> SUFFICES ASSUME Bad # {} PROVE FALSE
    OBVIOUS
  <2>1. PICK n \in Bad : \A m \in Bad : n <= m
    <3>1. Bad \subseteq Nat
      OBVIOUS
    <3> HIDE DEF Bad
    <3> QED BY <3>1, LeastNatural
  <2>2. n \in Nat /\ ~Good(n)
    OBVIOUS
  <2>3. CASE n = 0
    <3> DEFINE g == [s \in Upto(0) |-> 0]
    <3>1. \A s \in Upto(0) : s = {}
      <4> SUFFICES ASSUME NEW s \in Upto(0) PROVE s = {}
        OBVIOUS
      <4>1. IsFiniteSet(s) /\ Cardinality(s) = 0
        BY <1>0
      <4> QED BY <4>1, FS_EmptySet
    <3>2. g = [s \in Upto(0) |-> SumBody(d, g, s)]
      <4>1. \A s \in Upto(0) : SumBody(d, g, s) = 0
        BY <3>1 DEF SumBody
      <4> HIDE DEF Upto
      <4> QED BY <4>1
    <3>3. Good(0)
      BY <3>2
    <3> QED BY <2>2, <2>3, <3>3
  <2>4. CASE n # 0
    <3>1. n - 1 \in Nat /\ ~(n <= n - 1)
      BY <2>2, <2>4
    <3>2. Good(n - 1)
      <4> HIDE DEF Good
      <4>1. n - 1 \notin Bad
        <5> HIDE DEF Bad
        <5> QED BY <2>1, <3>1
      <4> QED BY <3>1, <4>1
    <3>3. PICK g : g = [s \in Upto(n - 1) |-> SumBody(d, g, s)]
      BY <3>2
    <3> DEFINE h == [s \in Upto(n) |-> SumBody(d, g, s)]
    <3>4. ASSUME NEW s \in Upto(n) PROVE SumBody(d, g, s) = SumBody(d, h, s)
      <4>1. CASE s = {}
        BY <4>1 DEF SumBody
      <4>2. CASE s # {}
        <5> DEFINE x == CHOOSE y \in s : TRUE
                   t == s \ {x}
        <5>1. x \in s
          BY <4>2
        <5> HIDE DEF x
        <5>2. s \in SUBSET S /\ IsFiniteSet(s) /\ Cardinality(s) <= n
          BY <1>0
        <5>3. Cardinality(t) = Cardinality(s) - 1 /\ Cardinality(s) \in Nat /\ Cardinality(t) \in Nat
          BY <5>1, <5>2, WithoutOne
        <5>4. t \in Upto(n - 1) /\ t \in Upto(n)
          BY <2>2, <5>2, <5>3
        <5> HIDE DEF Upto, t
        <5>5. g[t] = SumBody(d, g, t)
          BY <3>3, <5>4
        <5>6. h[t] = SumBody(d, g, t)
          BY <5>4
        <5> HIDE DEF h
        <5>7. SumBody(d, g, s) = d[x].size + g[t] /\ SumBody(d, h, s) = d[x].size + h[t]
          BY <4>2 DEF SumBody, x, t
        <5> QED BY <5>5, <5>6, <5>7
      <4> QED BY <4>1, <4>2
    <3>5. h = [s \in Upto(n) |-> SumBody(d, h, s)]
      <4> HIDE DEF Upto
      <4> QED BY <3>4
    <3>6. Good(n)
      BY <3>5
    <3> QED BY <2>2, <3>6
  <2> QED BY <2>3, <2>4
<1>2. Cardinality(S) \in Nat
  BY FS_CardinalityType
<1>3. Good(Cardinality(S))
  BY <1>1, <1>2
<1>4. Upto(Cardinality(S)) = SUBSET S
  BY <1>0
<1>5. PICK g : g = [s \in Upto(Cardinality(S)) |-> SumBody(d, g, s)]
  BY <1>3
<1>6. g = [s \in SUBSET S |-> SumBody(d, g, s)]
  <2> HIDE DEF Upto
  <2> QED BY <1>4, <1>5
<1> QED BY <1>6 DEF IsSum

\* The sum of nothing is 0, and any other sum starts with some file.
LEMMA SumValue ==
  ASSUME NEW d, NEW S, NEW g, IsSum(d, S, g), NEW s \in SUBSET S
  PROVE  /\ s = {} => g[s] = 0
         /\ s # {} => \E x \in s : g[s] = d[x].size + g[s \ {x}]
<1>1. g[s] = SumBody(d, g, s)
  BY DEF IsSum
<1>2. CASE s = {}
  BY <1>1, <1>2 DEF SumBody
<1>3. CASE s # {}
  <2> DEFINE x == CHOOSE y \in s : TRUE
  <2>1. x \in s
    BY <1>3
  <2>2. SumBody(d, g, s) = d[x].size + g[s \ {x}]
    BY <1>3 DEF SumBody
  <2> HIDE DEF x
  <2> QED BY <1>1, <1>3, <2>1, <2>2
<1> QED BY <1>2, <1>3

\* Finitely many files, each with a size.
Sized(d, S) == IsFiniteSet(S) /\ \A i \in S : d[i].size \in Nat

\* Sums of sizes are natural numbers.
LEMMA SumNat ==
  ASSUME NEW d, NEW S, Sized(d, S), NEW g, IsSum(d, S, g), NEW t \in SUBSET S
  PROVE  g[t] \in Nat
<1> DEFINE Bad == {s \in SUBSET S : g[s] \notin Nat}
<1>1. \A s \in SUBSET S : IsFiniteSet(s)
  BY FS_Subset DEF Sized
<1>2. ASSUME Bad # {} PROVE FALSE
  <2>1. PICK s \in Bad : \A u \in Bad : Cardinality(s) <= Cardinality(u)
    <3>1. \A u \in Bad : IsFiniteSet(u)
      BY <1>1
    <3> HIDE DEF Bad
    <3> QED BY <1>2, <3>1, SmallestSet
  <2>2. s # {}
    BY SumValue
  <2>3. PICK x \in s : g[s] = d[x].size + g[s \ {x}]
    BY <2>2, SumValue
  <2>4. s \ {x} \notin Bad
    BY <1>1, <2>1, WithoutOne
  <2>5. g[s \ {x}] \in Nat /\ d[x].size \in Nat
    BY <2>4 DEF Sized
  <2> QED BY <2>3, <2>5
<1> QED BY <1>2

\* The order of the summation does not matter: any file may come first.
LEMMA SumPick ==
  ASSUME NEW d, NEW S, Sized(d, S), NEW g, IsSum(d, S, g), NEW t \in SUBSET S, NEW y \in t
  PROVE  g[t] = d[y].size + g[t \ {y}]
<1> DEFINE Wrong(s) == \E z \in s : g[s] # d[z].size + g[s \ {z}]
           Bad == {s \in SUBSET S : Wrong(s)}
<1>1. \A s \in SUBSET S : IsFiniteSet(s)
  BY FS_Subset DEF Sized
<1>2. ASSUME Bad # {} PROVE FALSE
  <2>1. PICK s \in Bad : \A u \in Bad : Cardinality(s) <= Cardinality(u)
    <3>1. \A u \in Bad : IsFiniteSet(u)
      BY <1>1
    <3> HIDE DEF Bad
    <3> QED BY <1>2, <3>1, SmallestSet
  <2>2. PICK z \in s : g[s] # d[z].size + g[s \ {z}]
    OBVIOUS
  <2>3. PICK x \in s : g[s] = d[x].size + g[s \ {x}]
    BY SumValue
  <2>4. x # z
    BY <2>2, <2>3
  <2>5. s \ {x} \notin Bad /\ s \ {z} \notin Bad
    <3>1. IsFiniteSet(s)
      BY <1>1
    <3> HIDE DEF Bad
    <3>2. ASSUME NEW w \in s PROVE s \ {w} \notin Bad
      <4>1. ~(Cardinality(s) <= Cardinality(s \ {w}))
        BY <3>1, WithoutOne
      <4> QED BY <2>1, <4>1
    <3> QED BY <3>2
  <2> DEFINE r == (s \ {x}) \ {z}
  <2>6. r = (s \ {z}) \ {x} /\ r \in SUBSET S /\ s \ {x} \in SUBSET S /\ s \ {z} \in SUBSET S
        /\ z \in s \ {x} /\ x \in s \ {z}
    BY <2>4
  <2>7. g[s \ {x}] = d[z].size + g[r]
    BY <2>5, <2>6
  <2>8. g[s \ {z}] = d[x].size + g[r]
    BY <2>5, <2>6
  <2>9. g[r] \in Nat /\ d[x].size \in Nat /\ d[z].size \in Nat
    BY <2>6, SumNat DEF Sized
  <2> HIDE DEF r, Bad
  <2> QED BY <2>2, <2>3, <2>7, <2>8, <2>9
<1> QED BY <1>2

\* The sum depends on the sizes of the files summed and on nothing else.
LEMMA SumSame ==
  ASSUME NEW d, NEW S, Sized(d, S), NEW g, IsSum(d, S, g),
         NEW e, NEW R, Sized(e, R), NEW h, IsSum(e, R, h),
         NEW t, t \subseteq S, t \subseteq R, \A i \in t : d[i].size = e[i].size
  PROVE  g[t] = h[t]
<1> DEFINE Bad == {s \in SUBSET t : g[s] # h[s]}
<1>1. \A s \in SUBSET t : IsFiniteSet(s) /\ s \in SUBSET S /\ s \in SUBSET R
  BY FS_Subset DEF Sized
<1>2. ASSUME Bad # {} PROVE FALSE
  <2>1. PICK s \in Bad : \A u \in Bad : Cardinality(s) <= Cardinality(u)
    <3>1. \A u \in Bad : IsFiniteSet(u)
      BY <1>1
    <3> HIDE DEF Bad
    <3> QED BY <1>2, <3>1, SmallestSet
  <2>2. s \in SUBSET S /\ s \in SUBSET R /\ IsFiniteSet(s)
    BY <1>1
  <2>3. s # {}
    BY <2>2, SumValue
  <2>4. PICK x \in s : TRUE
    BY <2>3
  <2>5. g[s] = d[x].size + g[s \ {x}] /\ h[s] = e[x].size + h[s \ {x}]
    BY <2>2, SumPick
  <2>6. s \ {x} \notin Bad
    BY <2>1, <2>2, WithoutOne
  <2> QED BY <2>5, <2>6
<1> QED BY <1>2

\* SizeOf is a solution of the fold's equation.
LEMMA SizeOfSum ==
  ASSUME NEW d, NEW S, IsFiniteSet(S)
  PROVE  \E g : IsSum(d, S, g) /\ SizeOf(d, S) = g[S]
<1> DEFINE g == CHOOSE h : IsSum(d, S, h)
<1>1. IsSum(d, S, g)
  BY SumExists
<1>2. SizeOf(d, S) = g[S]
  BY SizeOfIsSum
<1> HIDE DEF g
<1> QED BY <1>1, <1>2

\* SizeOf is a natural number, and 0 for no file.
LEMMA SizeOfNat ==
  ASSUME NEW d, NEW S, Sized(d, S)
  PROVE  SizeOf(d, S) \in Nat /\ SizeOf(d, {}) = 0
<1>1. PICK g : IsSum(d, S, g) /\ SizeOf(d, S) = g[S]
  BY SizeOfSum DEF Sized
<1>2. g[S] \in Nat
  BY <1>1, SumNat
<1>3. PICK h : IsSum(d, {}, h) /\ SizeOf(d, {}) = h[{}]
  BY SizeOfSum, FS_EmptySet
<1>4. h[{}] = 0
  BY <1>3, SumValue
<1> QED BY <1>1, <1>2, <1>3, <1>4

\* Directories that agree on the sizes of S agree on SizeOf.
LEMMA SizeOfSame ==
  ASSUME NEW d, NEW S, Sized(d, S), NEW e, \A i \in S : e[i].size = d[i].size
  PROVE  SizeOf(e, S) = SizeOf(d, S)
<1>1. Sized(e, S)
  BY DEF Sized
<1>2. PICK g : IsSum(d, S, g) /\ SizeOf(d, S) = g[S]
  BY SizeOfSum DEF Sized
<1>3. PICK h : IsSum(e, S, h) /\ SizeOf(e, S) = h[S]
  BY <1>1, SizeOfSum DEF Sized
<1>4. g[S] = h[S]
  BY <1>1, <1>2, <1>3, SumSame
<1> QED BY <1>2, <1>3, <1>4

\* SizeOf, one file taken out.
LEMMA SizeOfPick ==
  ASSUME NEW d, NEW S, Sized(d, S), NEW y \in S
  PROVE  SizeOf(d, S) = d[y].size + SizeOf(d, S \ {y})
<1> DEFINE R == S \ {y}
<1>1. Sized(d, R)
  BY FS_Subset DEF Sized
<1>2. PICK g : IsSum(d, S, g) /\ SizeOf(d, S) = g[S]
  BY SizeOfSum DEF Sized
<1>3. PICK h : IsSum(d, R, h) /\ SizeOf(d, R) = h[R]
  BY <1>1, SizeOfSum DEF Sized
<1>4. R \subseteq S /\ R \subseteq R
  OBVIOUS
<1>5. g[S] = d[y].size + g[R]
  BY <1>2, SumPick
<1> HIDE DEF R
<1>6. g[R] = h[R]
  BY <1>1, <1>2, <1>3, <1>4, SumSame
<1> QED BY <1>2, <1>3, <1>5, <1>6 DEF R

\* Fewer files take no more space.
LEMMA SizeOfSubset ==
  ASSUME NEW d, NEW S, Sized(d, S), NEW T \in SUBSET S
  PROVE  SizeOf(d, T) <= SizeOf(d, S)
<1> DEFINE Bad == {U \in SUBSET S : T \subseteq U /\ ~(SizeOf(d, T) <= SizeOf(d, U))}
<1>1. \A U \in SUBSET S : Sized(d, U) /\ IsFiniteSet(U)
  BY FS_Subset DEF Sized
<1>2. \A U \in SUBSET S : SizeOf(d, U) \in Nat
  BY <1>1, SizeOfNat
<1>3. ASSUME Bad # {} PROVE FALSE
  <2>1. PICK U \in Bad : \A V \in Bad : Cardinality(U) <= Cardinality(V)
    <3>1. \A V \in Bad : IsFiniteSet(V)
      BY <1>1
    <3> HIDE DEF Bad
    <3> QED BY <1>3, <3>1, SmallestSet
  <2>2. U # T
    BY <1>2
  <2>3. PICK x \in U : x \notin T
    BY <2>2
  <2>4. U \ {x} \notin Bad
    <3>1. IsFiniteSet(U)
      BY <1>1
    <3>2. ~(Cardinality(U) <= Cardinality(U \ {x}))
      BY <3>1, WithoutOne
    <3> HIDE DEF Bad
    <3> QED BY <2>1, <3>2
  <2>5. U \ {x} \in SUBSET S /\ T \subseteq U \ {x} /\ U \in SUBSET S
    BY <2>3
  <2>6. SizeOf(d, T) <= SizeOf(d, U \ {x}) /\ ~(SizeOf(d, T) <= SizeOf(d, U))
    BY <2>4, <2>5
  <2>7. SizeOf(d, U) = d[x].size + SizeOf(d, U \ {x})
    BY <1>1, <2>5, SizeOfPick
  <2>8. d[x].size \in Nat /\ SizeOf(d, U) \in Nat /\ SizeOf(d, U \ {x}) \in Nat
        /\ SizeOf(d, T) \in Nat
    BY <1>2, <2>5 DEF Sized
  <2> HIDE DEF Bad
  <2> QED BY <2>6, <2>7, <2>8
<1> QED BY <1>3

-----------------------------------------------------------------------------
\* The bounds on the directory itself: a single file never exceeds maxSize by more than
\* its length prefix or footer, so a crash that leaves one more empty file beside it
\* stays within the bound on the sum.
SpaceOf(d) ==
  /\ \A i \in DOMAIN d : d[i].size <= MaxSize + 1
  /\ SizeOf(d, DOMAIN d) <= MaxSize + 1 + footerSize

\* A well-formed directory has finitely many files, none smaller than a footer.
LEMMA DirSized ==
  ASSUME NEW d, NEW H, DirOK(d, H)
  PROVE  Sized(d, DOMAIN d) /\ \A i \in DOMAIN d : d[i].size \in Nat /\ d[i].size >= 1
<1>1. IsFiniteSet(1 .. MaxID)
  BY FS_Interval, BoundAssumption
<1>2. IsFiniteSet(DOMAIN d)
  BY <1>1, FS_Subset DEF DirOK
<1>3. \A i \in DOMAIN d : d[i].size \in Nat /\ d[i].size >= 1
  BY DEF DirOK, FileOK, SegmentOK, Contiguous
<1> QED BY <1>2, <1>3 DEF Sized

\* Removing files, or rewriting them at the same size, keeps the bounds.
LEMMA SpaceShrinks ==
  ASSUME NEW d, Sized(d, DOMAIN d), SpaceOf(d),
         NEW e, DOMAIN e \subseteq DOMAIN d, \A i \in DOMAIN e : e[i].size = d[i].size
  PROVE  SpaceOf(e)
<1>1. Sized(d, DOMAIN e)
  BY FS_Subset DEF Sized
<1>2. SizeOf(e, DOMAIN e) = SizeOf(d, DOMAIN e)
  BY <1>1, SizeOfSame
<1>3. SizeOf(d, DOMAIN e) <= SizeOf(d, DOMAIN d)
  BY SizeOfSubset
<1>4. SizeOf(d, DOMAIN e) \in Nat /\ SizeOf(d, DOMAIN d) \in Nat
  BY <1>1, SizeOfNat
<1> QED BY <1>2, <1>3, <1>4, SizeAssumption DEF SpaceOf

\* A file that is added, or enlarged by n words, adds to the sum what it adds to the file.
LEMMA SpaceGrows ==
  ASSUME NEW d, Sized(d, DOMAIN d), NEW e, NEW id, NEW n \in Nat,
         DOMAIN e = DOMAIN d \cup {id}, \A i \in DOMAIN d \ {id} : e[i].size = d[i].size,
         e[id].size \in Nat,
         e[id].size = IF id \in DOMAIN d THEN d[id].size + n ELSE n
  PROVE  Sized(e, DOMAIN e) /\ SizeOf(e, DOMAIN e) = SizeOf(d, DOMAIN d) + n
<1> DEFINE R == DOMAIN d \ {id}
<1>1. Sized(e, DOMAIN e)
  BY FS_AddElement DEF Sized
<1>2. Sized(d, R)
  BY FS_Subset DEF Sized
<1>3. DOMAIN e \ {id} = R
  OBVIOUS
<1>4. SizeOf(e, DOMAIN e) = e[id].size + SizeOf(e, R)
  BY <1>1, <1>3, SizeOfPick
<1>5. SizeOf(e, R) = SizeOf(d, R) /\ SizeOf(d, R) \in Nat
  BY <1>2, SizeOfSame, SizeOfNat
<1>6. SizeOf(d, DOMAIN d) = (IF id \in DOMAIN d THEN d[id].size ELSE 0) + SizeOf(d, R)
  <2>1. CASE id \in DOMAIN d
    BY <2>1, SizeOfPick
  <2>2. CASE id \notin DOMAIN d
    <3>1. R = DOMAIN d
      BY <2>2
    <3> HIDE DEF R
    <3> QED BY <1>5, <2>2, <3>1
  <2> QED BY <2>1, <2>2
<1>7. id \in DOMAIN d => d[id].size \in Nat
  BY DEF Sized
<1> HIDE DEF R
<1> QED BY <1>1, <1>4, <1>5, <1>6, <1>7

\* One file alone is within the bounds if it is within its own.
LEMMA SpaceOfOne ==
  ASSUME NEW e, NEW id, DOMAIN e = {id}, e[id].size \in Nat, e[id].size <= MaxSize + 1
  PROVE  SpaceOf(e)
<1>1. Sized(e, {id})
  BY FS_Singleton DEF Sized
<1>2. SizeOf(e, {id}) = e[id].size + SizeOf(e, {id} \ {id})
  BY <1>1, SizeOfPick
<1>3. {id} \ {id} = {}
  OBVIOUS
<1>4. SizeOf(e, {}) = 0
  BY <1>1, SizeOfNat
<1>5. SizeOf(e, {id}) = e[id].size
  BY <1>2, <1>3, <1>4
<1> QED BY <1>5, SizeAssumption DEF SpaceOf

\* DiskBounded is about an open queue only; what a restart finds needs the bound while
\* the queue is closed too.
SpaceInv == QueueInv /\ SpaceOf(dir)

\* The bound on the directory is the bound on an open queue's segments.
LEMMA SpaceInvSuffices == SpaceInv => DiskBounded
<1> SUFFICES ASSUME SpaceInv, isOpen PROVE diskUsage <= MaxSize + 1 + footerSize
  BY DEF DiskBounded
<1>1. Range(segments) = DOMAIN dir
  BY DEF SpaceInv, QueueInv, Listed, ListOK
<1> QED BY <1>1, DiskUsageIsSizeOf DEF SpaceInv, SpaceOf

\* A directory with one new segment is within the bounds.
LEMMA NewSegmentSpace ==
  ASSUME NEW e, NEW id, DOMAIN e = {id}, e[id] = NewSegment
  PROVE  SpaceOf(e)
<1>1. e[id].size = 1
  BY DEF NewSegment
<1> QED BY <1>1, SpaceOfOne, SizeAssumption

\* The directory a previous run left is within the bounds.
LEMMA SpaceInit == Init => SpaceOf(dir)
<1> SUFFICES ASSUME Init PROVE SpaceOf(dir)
  OBVIOUS
<1>1. CASE StartID = 0
  <2>1. DOMAIN dir = {}
    BY <1>1 DEF Init
  <2>2. Sized(dir, {})
    BY FS_EmptySet DEF Sized
  <2>3. SizeOf(dir, {}) = 0
    BY <2>2, SizeOfNat
  <2> QED BY <2>1, <2>3, SizeAssumption DEF SpaceOf
<1>2. CASE StartID # 0
  <2>1. DOMAIN dir = {StartID} /\ dir[StartID] = NewSegment
    BY <1>2 DEF Init
  <2> QED BY <2>1, NewSegmentSpace
<1> QED BY <1>1, <1>2

\* trimHead removes a file or none.
LEMMA TrimmedSpace ==
  ASSUME NEW d, Sized(d, DOMAIN d), SpaceOf(d), NEW segs
  PROVE  SpaceOf(TrimmedFiles(d, segs))
<1>1. CASE Len(segs) > 1
  <2> DEFINE e == RemoveFiles(d, {segs[1]})
  <2>1. DOMAIN e \subseteq DOMAIN d /\ \A i \in DOMAIN e : e[i] = d[i]
    BY DEF RemoveFiles
  <2>2. TrimmedFiles(d, segs) = e
    BY <1>1 DEF TrimmedFiles
  <2> HIDE DEF e
  <2> QED BY <2>1, <2>2, SpaceShrinks
<1>2. CASE ~(Len(segs) > 1)
  BY <1>2 DEF TrimmedFiles
<1> QED BY <1>1, <1>2

\* queue.Open adds a segment to an empty directory only.
LEMMA OpenSpace ==
  ASSUME SpaceInv, Open
  PROVE  SpaceOf(dir')
<1> DEFINE d == IF DOMAIN dir = {} THEN [i \in {1} |-> NewSegment] ELSE dir
<1>1. Sized(d, DOMAIN d) /\ SpaceOf(d)
  <2>1. CASE DOMAIN dir = {}
    <3>1. DOMAIN d = {1} /\ d[1] = NewSegment
      BY <2>1
    <3>2. d[1].size = 1
      BY <3>1 DEF NewSegment
    <3> HIDE DEF d
    <3>3. IsFiniteSet({1})
      BY FS_Singleton
    <3>4. Sized(d, DOMAIN d)
      BY <3>1, <3>2, <3>3 DEF Sized
    <3> QED BY <3>1, <3>4, NewSegmentSpace
  <2>2. CASE DOMAIN dir # {}
    BY <2>2, DirSized DEF SpaceInv, QueueInv
  <2> QED BY <2>1, <2>2
<1>2. \E s \in LoadOrders(DOMAIN d) : dir' = TrimmedFiles(d, s) \/ dir' = d
  BY DEF Open
<1> HIDE DEF d
<1> QED BY <1>1, <1>2, TrimmedSpace

\* queue.Advance rewrites a footer in place and may trim the head.
LEMMA AdvanceSpace ==
  ASSUME SpaceInv, Advance \/ CrashInAdvance
  PROVE  SpaceOf(dir')
<1> DEFINE d == [dir EXCEPT ![head] = AdvancedHead]
<1>1. pc = "advancing" /\ (dir' = TrimmedFiles(d, segments) \/ dir' = d)
  BY DEF Advance, CrashInAdvance, StopWith
<1>2. /\ head \in DOMAIN dir /\ DirOK(d, acked) /\ DOMAIN d = DOMAIN dir /\ d[head] = AdvancedHead
  BY <1>1, AdvancedHeadOK DEF SpaceInv
<1>3. \A i \in DOMAIN dir : i # head => d[i] = dir[i]
  OBVIOUS
<1>4. AdvancedHead.size = dir[head].size
  <2>1. SegmentOK(dir[head])
    BY <1>2 DEF SpaceInv, QueueInv, DirOK, FileOK
  <2>2. dir[head] = [blocks |-> dir[head].blocks, pos |-> dir[head].pos,
                     size |-> dir[head].size, age |-> dir[head].age]
    BY <2>1 DEF SegmentOK
  <2> QED BY <2>2 DEF AdvancedHead, AdvanceSegment
<1> HIDE DEF d
<1>5. SpaceOf(d)
  <2>1. \A i \in DOMAIN d : d[i].size = dir[i].size
    BY <1>2, <1>3, <1>4
  <2> QED BY <1>2, <2>1, DirSized, SpaceShrinks DEF SpaceInv, QueueInv
<1>6. Sized(d, DOMAIN d)
  BY <1>2, DirSized
<1> QED BY <1>1, <1>5, <1>6, TrimmedSpace

\* What Append compares with maxSize is the space the directory takes, and no file is
\* larger.
LEMMA UsageOfOpen ==
  ASSUME SpaceInv, isOpen
  PROVE  /\ diskUsage = SizeOf(dir, DOMAIN dir) /\ diskUsage \in Nat
         /\ \A i \in DOMAIN dir : dir[i].size \in Nat /\ dir[i].size >= 1 /\ dir[i].size <= diskUsage
<1>1. Range(segments) = DOMAIN dir /\ Sized(dir, DOMAIN dir)
      /\ \A i \in DOMAIN dir : dir[i].size \in Nat /\ dir[i].size >= 1
  BY DirSized DEF SpaceInv, QueueInv, Listed, ListOK
<1>2. diskUsage = SizeOf(dir, DOMAIN dir) /\ diskUsage \in Nat
  BY <1>1, DiskUsageIsSizeOf, SizeOfNat
<1>3. ASSUME NEW i \in DOMAIN dir PROVE dir[i].size <= diskUsage
  <2>1. Sized(dir, DOMAIN dir \ {i})
    BY <1>1, FS_Subset DEF Sized
  <2>2. SizeOf(dir, DOMAIN dir \ {i}) \in Nat
    BY <2>1, SizeOfNat
  <2>3. SizeOf(dir, DOMAIN dir) = dir[i].size + SizeOf(dir, DOMAIN dir \ {i})
    BY <1>1, SizeOfPick
  <2> QED BY <1>1, <1>2, <2>2, <2>3
<1> QED BY <1>1, <1>2, <1>3

\* addSegment after the check of Append: the tail's footer was counted, so the new file
\* alone stays within the bound of a file.
LEMMA AddedSpace ==
  ASSUME SpaceInv, isOpen, TailIsOpen, NEW n \in Nat, diskUsage + n <= MaxSize, n >= 1,
         NEW id, id \notin DOMAIN dir, NEW f, f.size \in Nat, f.size <= n + 2
  PROVE  SpaceOf(AddFile(dir, id, f))
<1> DEFINE e == AddFile(dir, id, f)
<1>1. DOMAIN e = DOMAIN dir \cup {id} /\ e[id] = f /\ \A i \in DOMAIN dir : e[i] = dir[i]
  BY DEF AddFile
<1> HIDE DEF e
<1>2. /\ diskUsage = SizeOf(dir, DOMAIN dir) /\ diskUsage \in Nat
      /\ \A i \in DOMAIN dir : dir[i].size \in Nat /\ dir[i].size >= 1 /\ dir[i].size <= diskUsage
  BY UsageOfOpen
<1>3. diskUsage >= 1
  <2>1. tail \in DOMAIN dir
    BY DEF SpaceInv, QueueInv, Listed, ListOK, TailIsOpen
  <2> QED BY <1>2, <2>1
<1>4. SizeOf(e, DOMAIN e) = diskUsage + f.size
  <2>1. Sized(dir, DOMAIN dir)
    BY DirSized DEF SpaceInv, QueueInv
  <2>2. \A i \in DOMAIN dir \ {id} : e[i].size = dir[i].size
    BY <1>1
  <2> QED BY <1>1, <1>2, <2>1, <2>2, SpaceGrows
<1>5. \A i \in DOMAIN e : e[i].size <= MaxSize + 1
  <2> SUFFICES ASSUME NEW i \in DOMAIN e PROVE e[i].size <= MaxSize + 1
    OBVIOUS
  <2>1. CASE i = id
    BY <1>1, <1>2, <1>3, <2>1, SizeAssumption
  <2>2. CASE i # id
    <3>1. i \in DOMAIN dir /\ e[i] = dir[i]
      BY <1>1, <2>2
    <3> QED BY <3>1 DEF SpaceInv, SpaceOf
  <2> QED BY <2>1, <2>2
<1>6. SizeOf(e, DOMAIN e) <= MaxSize + 1 + footerSize
  BY <1>2, <1>4, SizeAssumption
<1> QED BY <1>5, <1>6 DEF SpaceOf, e

\* Append counts the payload against maxSize, not the length prefix and the new footer.
LEMMA AppendSpace ==
  ASSUME SpaceInv, NEW p \in Payloads,
         \/ AppendToTail(p) \/ AppendToNewSegment(p) \/ AppendTooLarge(p)
         \/ AppendNotOpen(p) \/ CrashInAppend(p)
  PROVE  SpaceOf(dir')
<1>1. p.len \in Nat /\ p.len >= 1 /\ HintBlock(p).len = p.len
  BY HintBlockOK DEF SpaceInv, QueueInv
<1>2. isOpen /\ diskUsage + p.len <= MaxSize
  BY DEF AppendToTail, AppendToNewSegment, AppendTooLarge, AppendNotOpen, CrashInAppend, MayAppend
<1>3. CASE AppendToTail(p)
  <2> DEFINE g == AppendBlock(dir[tail], HintBlock(p))
  <2>1. tail \in DOMAIN dir /\ dir' = [dir EXCEPT ![tail] = g]
    BY <1>2, <1>3 DEF AppendToTail, TailIsOpen, SpaceInv, QueueInv, Listed, ListOK
  <2>2. g.size = dir[tail].size + (p.len + 1)
    BY <1>1 DEF AppendBlock, BlockSize
  <2> HIDE DEF g
  <2>3. DOMAIN dir' = DOMAIN dir \cup {tail} /\ dir'[tail] = g
        /\ \A i \in DOMAIN dir \ {tail} : dir'[i] = dir[i]
    BY <2>1
  <2>4. /\ diskUsage = SizeOf(dir, DOMAIN dir) /\ diskUsage \in Nat
        /\ \A i \in DOMAIN dir : dir[i].size \in Nat /\ dir[i].size >= 1 /\ dir[i].size <= diskUsage
    BY <1>2, UsageOfOpen
  <2>5. SizeOf(dir', DOMAIN dir') = diskUsage + (p.len + 1)
    <3> DEFINE e == dir'
               n == p.len + 1
    <3>1. Sized(dir, DOMAIN dir) /\ n \in Nat
      BY <1>1, DirSized DEF SpaceInv, QueueInv
    <3>2. /\ DOMAIN e = DOMAIN dir \cup {tail}
          /\ \A i \in DOMAIN dir \ {tail} : e[i].size = dir[i].size
          /\ e[tail].size \in Nat
          /\ e[tail].size = IF tail \in DOMAIN dir THEN dir[tail].size + n ELSE n
      BY <1>1, <2>1, <2>2, <2>3, <2>4
    <3> HIDE DEF e, n
    <3>3. SizeOf(e, DOMAIN e) = SizeOf(dir, DOMAIN dir) + n
      BY <3>1, <3>2, SpaceGrows
    <3> QED BY <2>4, <3>3 DEF e, n
  <2>6. \A i \in DOMAIN dir' : dir'[i].size <= MaxSize + 1
    <3> SUFFICES ASSUME NEW i \in DOMAIN dir' PROVE dir'[i].size <= MaxSize + 1
      OBVIOUS
    <3>1. CASE i = tail
      BY <1>1, <1>2, <2>1, <2>2, <2>3, <2>4, <3>1, SizeAssumption
    <3>2. CASE i # tail
      <4>1. i \in DOMAIN dir /\ dir'[i] = dir[i]
        BY <2>3, <3>2
      <4> QED BY <4>1 DEF SpaceInv, SpaceOf
    <3> QED BY <3>1, <3>2
  <2>7. SizeOf(dir', DOMAIN dir') <= MaxSize + 1 + footerSize
    BY <1>1, <1>2, <2>4, <2>5, SizeAssumption
  <2> QED BY <2>6, <2>7 DEF SpaceOf
<1>4. CASE AppendToNewSegment(p) \/ AppendTooLarge(p) \/ CrashInAppend(p)
  <2> DEFINE id == nextSegmentID(dir)
             f == AppendBlock(NewSegment, HintBlock(p))
  <2>1. /\ TailIsOpen /\ id <= MaxID
        /\ dir' = AddFile(dir, id, f) \/ dir' = AddFile(dir, id, NewSegment)
    BY <1>4 DEF AppendToNewSegment, AppendTooLarge, CrashInAppend, StopWith
  <2>2. id \notin DOMAIN dir
    BY <2>1, NextIDOK DEF SpaceInv
  <2>3. NewSegment.size = 1 /\ f.size = p.len + 2
    BY <1>1 DEF NewSegment, AppendBlock, BlockSize
  <2> HIDE DEF id, f
  <2> QED BY <1>1, <1>2, <2>1, <2>2, <2>3, AddedSpace
<1>5. CASE AppendNotOpen(p)
  BY <1>5 DEF AppendNotOpen, queueVars, SpaceInv
<1> QED BY <1>3, <1>4, <1>5

\* Removing files keeps the bounds.
LEMMA RemovedSpace ==
  ASSUME SpaceInv, NEW ids
  PROVE  SpaceOf(RemoveFiles(dir, ids))
<1> DEFINE e == RemoveFiles(dir, ids)
<1>1. DOMAIN e \subseteq DOMAIN dir /\ \A i \in DOMAIN e : e[i] = dir[i]
  BY DEF RemoveFiles
<1>2. Sized(dir, DOMAIN dir)
  BY DirSized DEF SpaceInv, QueueInv
<1> HIDE DEF e
<1>3. SpaceOf(e)
  BY <1>1, <1>2, SpaceShrinks DEF SpaceInv
<1> QED BY <1>3 DEF e

\* PurgeOlderThan adds a segment when at most one other file is left.
LEMMA PurgedSpace ==
  ASSUME SpaceInv, isOpen, NEW ids, NEW final, NEW id, DOMAIN dir \ ids \subseteq {final}
  PROVE  SpaceOf(AddFile(RemoveFiles(dir, ids), id, NewSegment))
<1> DEFINE r == RemoveFiles(dir, ids)
           e == AddFile(r, id, NewSegment)
<1>1. DOMAIN r \subseteq {final} /\ DOMAIN r \subseteq DOMAIN dir /\ \A i \in DOMAIN r : r[i] = dir[i]
  BY DEF RemoveFiles
<1>2. Sized(r, DOMAIN r)
  <2>1. Sized(dir, DOMAIN dir)
    BY DirSized DEF SpaceInv, QueueInv
  <2> HIDE DEF r
  <2> QED BY <1>1, <2>1, FS_Subset DEF Sized
<1>3. NewSegment.size = 1
  BY DEF NewSegment
<1> HIDE DEF r
<1>4. DOMAIN e = DOMAIN r \cup {id} /\ e[id] = NewSegment /\ \A i \in DOMAIN r \ {id} : e[i] = r[i]
  BY DEF AddFile
<1> HIDE DEF e
<1>5. CASE DOMAIN r \subseteq {id}
  <2>1. DOMAIN e = {id}
    BY <1>4, <1>5
  <2>2. SpaceOf(e)
    BY <1>4, <2>1, NewSegmentSpace
  <2> QED BY <2>2 DEF e, r
<1>6. CASE ~(DOMAIN r \subseteq {id})
  <2>1. DOMAIN r = {final} /\ final # id /\ final \in DOMAIN dir /\ r[final] = dir[final]
    BY <1>1, <1>6
  <2>2. r[final].size \in Nat /\ r[final].size <= MaxSize + 1
    BY <1>2, <2>1 DEF Sized, SpaceInv, SpaceOf
  <2>3. SizeOf(r, DOMAIN r) = r[final].size
    <3>1. SizeOf(r, DOMAIN r) = r[final].size + SizeOf(r, DOMAIN r \ {final})
      BY <1>2, <2>1, SizeOfPick
    <3>2. DOMAIN r \ {final} = {} /\ SizeOf(r, {}) = 0
      BY <1>2, <2>1, SizeOfNat
    <3> QED BY <2>2, <3>1, <3>2
  <2>4. SizeOf(e, DOMAIN e) = SizeOf(r, DOMAIN r) + 1
    <3>1. /\ id \notin DOMAIN r /\ e[id].size = 1
          /\ \A i \in DOMAIN r \ {id} : e[i].size = r[i].size
      BY <1>3, <1>4, <2>1
    <3> QED BY <1>2, <1>4, <3>1, SpaceGrows
  <2>5. \A i \in DOMAIN e : e[i].size <= MaxSize + 1
    BY <1>3, <1>4, <2>1, <2>2, SizeAssumption
  <2>6. SpaceOf(e)
    BY <2>2, <2>3, <2>4, <2>5, SizeAssumption DEF SpaceOf
  <2> QED BY <2>6 DEF e, r
<1> QED BY <1>5, <1>6

\* PurgeOlderThan keeps the bounds, interrupted by a crash or not.
LEMMA PurgeSpace ==
  ASSUME SpaceInv, PurgeOlderThan \/ CrashInPurge
  PROVE  SpaceOf(dir')
<1>1. PICK n \in OldPrefix :
        \/ dir' = RemoveFiles(dir, OldFiles(n))
        \/ /\ n = Len(segments)
           /\ \/ dir' = AddFile(RemoveFiles(dir, OldFiles(n)), segments[n] + 1, NewSegment)
              \/ dir' = AddFile(RemoveFiles(dir, OldFiles(n - 1)), segments[n] + 1, NewSegment)
  BY DEF PurgeOlderThan, CrashInPurge, StopWith
<1>2. isOpen
  BY DEF PurgeOlderThan, CrashInPurge, StopWith
<1>3. segments \in Seq(1 .. MaxID) /\ Range(segments) = DOMAIN dir
  BY <1>2 DEF SpaceInv, QueueInv, MemoryOK, Listed, ListOK
<1>4. ASSUME n = Len(segments), NEW m \in {n - 1, n}
      PROVE  DOMAIN dir \ OldFiles(m) \subseteq {segments[n]}
  <2> SUFFICES ASSUME NEW x \in DOMAIN dir, x \notin OldFiles(m) PROVE x = segments[n]
    OBVIOUS
  <2>1. PICK j \in 1 .. Len(segments) : segments[j] = x
    BY <1>3 DEF Range
  <2>2. j \notin 1 .. m
    BY <2>1 DEF OldFiles
  <2>3. j = n
    BY <1>3, <1>4, <2>2
  <2> QED BY <2>1, <2>3
<1>5. CASE dir' = RemoveFiles(dir, OldFiles(n))
  BY <1>5, RemovedSpace
<1>6. ASSUME n = Len(segments), NEW m \in {n - 1, n},
             dir' = AddFile(RemoveFiles(dir, OldFiles(m)), segments[n] + 1, NewSegment)
      PROVE  SpaceOf(dir')
  BY <1>2, <1>4, <1>6, PurgedSpace
<1> QED BY <1>1, <1>5, <1>6

\* The passing of time changes no size.
LEMMA TickSpace ==
  ASSUME SpaceInv, Tick
  PROVE  SpaceOf(dir')
<1>1. DOMAIN dir' = DOMAIN dir
  BY DEF Tick
<1>2. ASSUME NEW i \in DOMAIN dir' PROVE dir'[i].size = dir[i].size
  <2>1. SegmentOK(dir[i])
    BY <1>1 DEF SpaceInv, QueueInv, DirOK, FileOK
  <2>2. dir[i] = [blocks |-> dir[i].blocks, pos |-> dir[i].pos,
                  size |-> dir[i].size, age |-> dir[i].age]
    BY <2>1 DEF SegmentOK
  <2>3. \E a : dir'[i] = [dir[i] EXCEPT !.age = a]
    BY <1>1 DEF Tick
  <2> QED BY <2>2, <2>3
<1>3. Sized(dir, DOMAIN dir)
  BY DirSized DEF SpaceInv, QueueInv
<1>4. SpaceOf(dir)
  BY DEF SpaceInv
<1> QED BY <1>1, <1>2, <1>3, <1>4, SpaceShrinks

\* Every step keeps the bounds.
LEMMA SpaceInvStep == SpaceInv /\ [Next]_vars => SpaceInv'
<1> SUFFICES ASSUME SpaceInv, [Next]_vars PROVE SpaceInv'
  OBVIOUS
<1>1. QueueInv'
  BY QueueInvStep DEF SpaceInv
<1>2. SpaceOf(dir')
  <2>1. CASE Open
    BY <2>1, OpenSpace
  <2>2. CASE QueueAppend
    BY <2>2, AppendSpace DEF QueueAppend
  <2>3. CASE Advance \/ CrashInAdvance
    BY <2>3, AdvanceSpace
  <2>4. CASE PurgeOlderThan \/ CrashInPurge
    BY <2>4, PurgeSpace
  <2>5. CASE Tick
    BY <2>5, TickSpace
  <2>6. CASE Close \/ Crash \/ ReadCurrent \/ WriteSucceeds \/ WriteFails \/ UNCHANGED vars
    <3>1. dir' = dir
      BY <2>6 DEF Close, Crash, StopWith, ReadCurrent, WriteSucceeds, WriteFails, queueVars, vars
    <3> QED BY <3>1 DEF SpaceInv
  <2> QED BY <2>1, <2>2, <2>3, <2>4, <2>5, <2>6 DEF Next, SendWrite
<1> QED BY <1>1, <1>2 DEF SpaceInv

\* However appends, trims, purges, crashes and restarts follow each other, an open
\* queue's segments take at most maxSize, one length prefix and one footer (queue.Append,
\* queue.diskUsage).
THEOREM DiskSpaceIsBounded == Spec => []DiskBounded
<1>1. Init => SpaceInv
  BY QueueInvInit, SpaceInit DEF SpaceInv
<1>2. SpaceInv /\ [Next]_vars => SpaceInv'
  BY SpaceInvStep
<1>3. SpaceInv => DiskBounded
  BY SpaceInvSuffices
<1> QED BY <1>1, <1>2, <1>3, PTL DEF Spec

=============================================================================
