------------------------------ MODULE HHQueue ------------------------------
(***************************************************************************)
(* The disk-backed hinted-handoff queue of one target node                 *)
(* (services/hh/queue.go), driven the way its owner drives it              *)
(* (services/hh/node_processor.go): writers call WriteShard concurrently   *)
(* with the one sender goroutine, which reads the current block, sends it, *)
(* advances and, on a timer, purges old segments.                          *)
(*                                                                         *)
(* The n-th write that Append answers with nil is hint n, so hints are     *)
(* numbered in the order of their acknowledgement.  Sizes and offsets are  *)
(* counted in words of 8 bytes: the footer and a block's length prefix are *)
(* one word each, and payloads are a whole number of words.                *)
(***************************************************************************)
EXTENDS Integers, Sequences, FiniteSets, FiniteSetsExt

CONSTANTS
  Payloads,        \* what WriteShard may be given: [len : words, ok : BOOLEAN]
  MaxSegmentSize,  \* queue.maxSegmentSize, in words
  MaxSize,         \* queue.maxSize, in words
  MaxAge,          \* NodeProcessor.MaxAge, in ticks
  Horizon,         \* bound: the greatest segment age a run explores, in ticks
  StartID,         \* the segment a previous run left in the directory, 0 for none
  MaxID,           \* bound: the greatest segment file name
  MaxHints,        \* bound: number of writes
  MaxRestarts,     \* bound: number of times the process stops
  Nil

ASSUME PayloadsAssumption == Payloads \subseteq [len : Nat \ {0}, ok : BOOLEAN]
ASSUME SizeAssumption == MaxSegmentSize \in Nat /\ MaxSize \in Nat
ASSUME AgeAssumption == MaxAge \in Nat /\ Horizon \in Nat
ASSUME BoundAssumption == /\ MaxID \in 1 .. 99
                          /\ StartID \in 0 .. MaxID
                          /\ MaxHints \in Nat
                          /\ MaxRestarts \in Nat
ASSUME NilAssumption == Nil \notin Nat

VARIABLES
  dir,          \* the segment files on disk: file name -> [blocks, pos, size, age]
  segments,     \* queue.segments, the names of the open segments, head first
  tail,         \* queue.tail, Nil while the queue is closed
  currentSize,  \* segment.currentSize of every segment
  pc,           \* where the sender goroutine is in SendWrite
  buf,          \* the block SendWrite holds, Nil when it holds none
  restarts,     \* how often the process has stopped
  last,         \* the number of hints whose Append returned nil
  delivered,    \* hints the target node has applied at least once
  skipped,      \* hints SendWrite dropped because they do not unmarshal
  expired,      \* hints removed with a segment older than MaxAge
  swallowed     \* hints whose ErrNotOpen Append turned into nil

queueVars == <<dir, segments, tail, currentSize>>
senderVars == <<pc, buf>>
history == <<last, delivered, skipped, expired, swallowed>>
vars == <<dir, segments, tail, currentSize, pc, buf, restarts,
          last, delivered, skipped, expired, swallowed>>

-----------------------------------------------------------------------------
(* Segments *)

footerSize == 1

\* A segment file after newSegment created it: nothing but a footer.
NewSegment == [blocks |-> << >>, pos |-> 0, size |-> footerSize, age |-> 0]

End(f) == f.size - footerSize
AtEnd(f) == f.pos = End(f)

\* A block and the offset after it: an 8-byte length, then the body.
BlockSize(b) == b.len + 1

\* segment.append: the length prefix is not counted against the limit.
SegmentFull(f, b) == f.size + b.len > MaxSegmentSize

WithBlock(f, b) ==
  [o \in DOMAIN f.blocks \cup {End(f)} |-> IF o = End(f) THEN b ELSE f.blocks[o]]

AppendBlockResetPos(f, b) ==
  [blocks |-> WithBlock(f, b), pos |-> End(f), size |-> f.size + BlockSize(b), age |-> 0]

\* The block overwrites the footer, and a footer with the same position follows it.
AppendBlock(f, b) ==
  [blocks |-> WithBlock(f, b), pos |-> f.pos, size |-> f.size + BlockSize(b), age |-> 0]

CurrentSizeAfterAppendStale(cs, b) == b.len

\* segment.append remembers the size of the block only if it is the current one.
CurrentSizeAfterAppend(cs, b) == IF cs = 0 THEN b.len ELSE cs

\* The length word found at offset o, 0 at the end of the blocks.
SizeAt(f, o) == IF o \in DOMAIN f.blocks THEN f.blocks[o].len ELSE 0

AdvanceSegmentStays(f, cs) == [f EXCEPT !.age = 0]

AdvanceSegmentWraps(f, cs) ==
  IF f.pos + cs + 1 >= End(f)
  THEN [f EXCEPT !.pos = 0, !.age = 0]
  ELSE [f EXCEPT !.pos = @ + cs + 1, !.age = 0]

\* segment.advance moves the footer past the block whose size is remembered.
AdvanceSegment(f, cs) ==
  IF AtEnd(f) THEN f ELSE [f EXCEPT !.pos = @ + cs + 1, !.age = 0]

\* segment.open: the remembered size of a segment read back from disk.
OpenedSize(f) == IF f.pos < End(f) THEN SizeAt(f, f.pos) ELSE 0

-----------------------------------------------------------------------------
(* The queue's directory and its list of segments *)

isOpen == tail # Nil
head == segments[1]
TailIsOpen == tail \in Range(segments)

diskUsage == MapThenSumSet(LAMBDA s : dir[s].size, Range(segments))

nextSegmentIDByCount(d) == Cardinality(DOMAIN d) + 1

\* One more than the greatest file name in the directory.
nextSegmentID(d) == IF DOMAIN d = {} THEN 1 ELSE Max(DOMAIN d) + 1

NameBeforeUnsorted(a, b) == a # b

\* ioutil.ReadDir sorts by file name, and the names are decimal numbers
\* without padding; for the names 1 .. 99 that is the following order.
NameBefore(a, b) ==
  \/ (a < 10 <=> b < 10) /\ a < b
  \/ a < 10 /\ b >= 10 /\ a <= b \div 10
  \/ a >= 10 /\ b < 10 /\ a \div 10 < b

\* The list loadSegments builds from the files of the directory.
LoadOrders(ids) ==
  {s \in [1 .. Cardinality(ids) -> ids] :
     /\ Range(s) = ids
     /\ \A i, j \in DOMAIN s : i < j => NameBefore(s[i], s[j])}

AddFile(d, id, f) == [i \in DOMAIN d \cup {id} |-> IF i = id THEN f ELSE d[i]]
RemoveFiles(d, ids) == [i \in DOMAIN d \ ids |-> d[i]]

\* trimHead: the last segment is never trimmed.
Trimmed(segs) == IF Len(segs) > 1 THEN Tail(segs) ELSE segs

TrimmedFilesKept(d, segs) == d

TrimmedFiles(d, segs) == IF Len(segs) > 1 THEN RemoveFiles(d, {segs[1]}) ELSE d

HintsIn(f) == {f.blocks[o].hint : o \in DOMAIN f.blocks}
Unread(f) == {f.blocks[o].hint : o \in {p \in DOMAIN f.blocks : p >= f.pos}}

\* Hints that can still be read back, now or after a restart.
Pending == UNION {Unread(dir[i]) : i \in DOMAIN dir}

Handled == delivered \cup skipped \cup expired \cup swallowed

acked == 1 .. last

-----------------------------------------------------------------------------
(* Start and stop *)

Init ==
  /\ dir = IF StartID = 0 THEN << >> ELSE [i \in {StartID} |-> NewSegment]
  /\ segments = << >>
  /\ tail = Nil
  /\ currentSize = [i \in 1 .. MaxID |-> 0]
  /\ pc = "idle"
  /\ buf = Nil
  /\ restarts = 0
  /\ last = 0
  /\ delivered = {}
  /\ skipped = {}
  /\ expired = {}
  /\ swallowed = {}

\* queue.Open: load the segments, create one in an empty directory, and trim
\* the head if it has been read to its end.
Open ==
  /\ ~isOpen
  /\ LET d == IF DOMAIN dir = {} THEN [i \in {1} |-> NewSegment] ELSE dir
     IN  \E s \in LoadOrders(DOMAIN d) :
           /\ tail' = s[Len(s)]
           /\ currentSize' = [i \in 1 .. MaxID |->
                                IF i \in DOMAIN d THEN OpenedSize(d[i]) ELSE 0]
           /\ IF AtEnd(d[s[1]])
              THEN segments' = Trimmed(s) /\ dir' = TrimmedFiles(d, s)
              ELSE segments' = s /\ dir' = d
  /\ UNCHANGED <<senderVars, restarts, history>>

\* What a stopped process leaves behind: the directory d and nothing else.
StopWith(d) ==
  /\ isOpen
  /\ restarts < MaxRestarts
  /\ restarts' = restarts + 1
  /\ dir' = d
  /\ segments' = << >>
  /\ tail' = Nil
  /\ pc' = "idle"
  /\ buf' = Nil
  /\ UNCHANGED currentSize

\* NodeProcessor.Close waits for the sender before it closes the queue.
Close == pc = "idle" /\ StopWith(dir) /\ UNCHANGED history

\* The process dies between two operations of the queue.
Crash == StopWith(dir) /\ UNCHANGED history

-----------------------------------------------------------------------------
(* Append, called by NodeProcessor.WriteShard from any goroutine *)

AckUncounted ==
  /\ last < MaxHints
  /\ UNCHANGED <<last, delivered, skipped, expired>>

\* Append answers nil: the write becomes hint last + 1.
Ack ==
  /\ last < MaxHints
  /\ last' = last + 1
  /\ UNCHANGED <<delivered, skipped, expired>>

HintBlock(p) == [hint |-> last + 1, len |-> p.len, ok |-> p.ok]

MayAppendUnbounded(p) == isOpen

\* Neither ErrNotOpen nor ErrQueueFull, which change nothing, is returned.
MayAppend(p) == isOpen /\ diskUsage + p.len <= MaxSize

AppendToTail(p) ==
  /\ MayAppend(p)
  /\ TailIsOpen
  /\ ~SegmentFull(dir[tail], p)
  /\ Ack
  /\ dir' = [dir EXCEPT ![tail] = AppendBlock(@, HintBlock(p))]
  /\ currentSize' = [currentSize EXCEPT ![tail] = CurrentSizeAfterAppend(@, p)]
  /\ UNCHANGED <<segments, tail, senderVars, restarts, swallowed>>

\* ErrSegmentFull: a new segment becomes the tail and the append is retried.
AppendToNewSegment(p) ==
  /\ MayAppend(p)
  /\ TailIsOpen
  /\ SegmentFull(dir[tail], p)
  /\ ~SegmentFull(NewSegment, p)
  /\ nextSegmentID(dir) <= MaxID
  /\ Ack
  /\ LET id == nextSegmentID(dir)
     IN  /\ dir' = AddFile(dir, id, AppendBlock(NewSegment, HintBlock(p)))
         /\ segments' = Append(segments, id)
         /\ tail' = id
         /\ currentSize' = [currentSize EXCEPT ![id] = p.len]
  /\ UNCHANGED <<senderVars, restarts, swallowed>>

\* A block that no segment can hold: the retry fails with ErrSegmentFull, and
\* the new, empty segment stays.
AppendTooLarge(p) ==
  /\ MayAppend(p)
  /\ TailIsOpen
  /\ SegmentFull(NewSegment, p)
  /\ nextSegmentID(dir) <= MaxID
  /\ LET id == nextSegmentID(dir)
     IN  /\ dir' = AddFile(dir, id, NewSegment)
         /\ segments' = Append(segments, id)
         /\ tail' = id
         /\ currentSize' = [currentSize EXCEPT ![id] = 0]
  /\ UNCHANGED <<senderVars, restarts, history>>

\* The tail's file is closed: segment.append returns ErrNotOpen, and Append,
\* which looks for ErrSegmentFull only, returns nil.
AppendNotOpen(p) ==
  /\ MayAppend(p)
  /\ ~TailIsOpen
  /\ Ack
  /\ swallowed' = swallowed \cup {last + 1}
  /\ UNCHANGED <<queueVars, senderVars, restarts>>

\* The process dies after addSegment created the file and before the retry.
CrashInAppend(p) ==
  /\ MayAppend(p)
  /\ TailIsOpen
  /\ SegmentFull(dir[tail], p)
  /\ nextSegmentID(dir) <= MaxID
  /\ StopWith(AddFile(dir, nextSegmentID(dir), NewSegment))
  /\ UNCHANGED history

-----------------------------------------------------------------------------
(* SendWrite, called by the sender goroutine only *)

\* queue.Current and unmarshalWrite.  At the end of the head segment Current
\* returns io.EOF and nothing changes.
ReadCurrent ==
  /\ isOpen
  /\ pc = "idle"
  /\ ~AtEnd(dir[head])
  /\ LET b == dir[head].blocks[dir[head].pos]
     IN  /\ buf' = b
         /\ currentSize' = [currentSize EXCEPT ![head] = b.len]
         /\ IF b.ok
            THEN pc' = "sending" /\ UNCHANGED skipped
            ELSE pc' = "advancing" /\ skipped' = skipped \cup {b.hint}
  /\ UNCHANGED <<dir, segments, tail, restarts, last, delivered, expired, swallowed>>

\* The shard writer returned nil: the target node applied the points.
WriteSucceeds ==
  /\ pc = "sending"
  /\ pc' = "advancing"
  /\ delivered' = delivered \cup {buf.hint}
  /\ UNCHANGED <<queueVars, buf, restarts, last, skipped, expired, swallowed>>

\* The shard writer returned an error, which does not tell whether the target
\* node applied the points (a timeout, a connection lost before the answer).
WriteFails ==
  /\ pc = "sending"
  /\ pc' = "idle"
  /\ buf' = Nil
  /\ delivered' \in {delivered, delivered \cup {buf.hint}}
  /\ UNCHANGED <<queueVars, restarts, last, skipped, expired, swallowed>>

AdvancedHead == AdvanceSegment(dir[head], currentSize[head])

\* queue.Advance: a head segment read to its end is trimmed.
Advance ==
  /\ pc = "advancing"
  /\ pc' = "idle"
  /\ buf' = Nil
  /\ LET d == [dir EXCEPT ![head] = AdvancedHead]
     IN  IF AtEnd(AdvancedHead)
         THEN /\ segments' = Trimmed(segments)
              /\ dir' = TrimmedFiles(d, segments)
         ELSE /\ dir' = d
              /\ UNCHANGED segments
  /\ currentSize' = [currentSize EXCEPT ![head] = SizeAt(AdvancedHead, AdvancedHead.pos)]
  /\ UNCHANGED <<tail, restarts, history>>

\* The process dies after the footer is written and before os.Remove.
CrashInAdvance ==
  /\ pc = "advancing"
  /\ StopWith([dir EXCEPT ![head] = AdvancedHead])
  /\ UNCHANGED history

-----------------------------------------------------------------------------
(* PurgeOlderThan, called by the sender goroutine on its purge timer *)

TooOld(f) == f.age > MaxAge

\* The segments the loop trims: every one before the first that is young enough.
OldPrefix == {i \in DOMAIN segments : \A j \in 1 .. i : TooOld(dir[segments[j]])}

OldFiles(n) == {segments[i] : i \in 1 .. n}

Expire(ids) == expired' = expired \cup UNION {Unread(dir[i]) : i \in ids}

\* When every segment is too old a new one is added before the last is trimmed,
\* and queue.tail keeps pointing to the trimmed one.
PurgeOlderThan ==
  /\ isOpen
  /\ pc = "idle"
  /\ \E n \in OldPrefix :
       /\ n + 1 \notin OldPrefix
       /\ Expire(OldFiles(n))
       /\ \/ /\ n < Len(segments)
             /\ segments' = SubSeq(segments, n + 1, Len(segments))
             /\ dir' = RemoveFiles(dir, OldFiles(n))
             /\ UNCHANGED currentSize
          \/ /\ n = Len(segments)
             /\ segments[n] < MaxID
             /\ segments' = <<segments[n] + 1>>
             /\ dir' = AddFile(RemoveFiles(dir, OldFiles(n)), segments[n] + 1, NewSegment)
             /\ currentSize' = [currentSize EXCEPT ![segments[n] + 1] = 0]
  /\ UNCHANGED <<tail, senderVars, restarts, last, delivered, skipped, swallowed>>

\* The process dies after the loop trimmed the first n segments, or after it
\* added a segment in order to trim the last one.
CrashInPurge ==
  /\ pc = "idle"
  /\ \E n \in OldPrefix :
       \/ /\ n < Len(segments)
          /\ Expire(OldFiles(n))
          /\ StopWith(RemoveFiles(dir, OldFiles(n)))
       \/ /\ n = Len(segments)
          /\ segments[n] < MaxID
          /\ Expire(OldFiles(n - 1))
          /\ StopWith(AddFile(RemoveFiles(dir, OldFiles(n - 1)), segments[n] + 1, NewSegment))
  /\ UNCHANGED <<last, delivered, skipped, swallowed>>

\* Time passes; a segment's age is counted from its last modification.
Tick ==
  /\ dir' = [i \in DOMAIN dir |->
                [dir[i] EXCEPT !.age = IF @ < Horizon THEN @ + 1 ELSE @]]
  /\ UNCHANGED <<segments, tail, currentSize, senderVars, restarts, history>>

-----------------------------------------------------------------------------
QueueAppend ==
  \E p \in Payloads : \/ AppendToTail(p)
                      \/ AppendToNewSegment(p)
                      \/ AppendTooLarge(p)
                      \/ AppendNotOpen(p)
                      \/ CrashInAppend(p)

SendWrite == ReadCurrent \/ WriteSucceeds \/ WriteFails \/ Advance \/ CrashInAdvance

Next == Open \/ Close \/ Crash \/ QueueAppend \/ SendWrite
          \/ PurgeOlderThan \/ CrashInPurge \/ Tick

Spec == Init /\ [][Next]_vars

-----------------------------------------------------------------------------
(* Fairness: the sender's timer fires again and again, the process is started
   again after it stopped, and a target node that is retried forever
   eventually answers. *)
Fairness ==
  /\ WF_vars(Open)
  /\ WF_vars(ReadCurrent)
  /\ SF_vars(WriteSucceeds)
  /\ WF_vars(Advance)

FairSpec == Spec /\ Fairness

-----------------------------------------------------------------------------
(* Properties *)

Block == [hint : Nat, len : Nat, ok : BOOLEAN]

\* A segment file: blocks by offset, the footer's position, the size and the age.
SegmentOK(f) ==
  /\ f = [blocks |-> f.blocks, pos |-> f.pos, size |-> f.size, age |-> f.age]
  /\ f.pos \in Nat /\ f.size \in Nat /\ f.age \in Nat
  /\ f.blocks = [o \in DOMAIN f.blocks |-> f.blocks[o]]
  /\ DOMAIN f.blocks \subseteq Nat
  /\ \A o \in DOMAIN f.blocks : f.blocks[o] \in Block

\* Every variable of the queue and of its sender has its type.
TypeOK ==
  /\ DOMAIN dir \subseteq 1 .. MaxID
  /\ dir = [i \in DOMAIN dir |-> dir[i]]
  /\ \A i \in DOMAIN dir : SegmentOK(dir[i])
  /\ segments \in Seq(1 .. MaxID)
  /\ tail \in (1 .. MaxID) \cup {Nil}
  /\ currentSize \in [1 .. MaxID -> Nat]
  /\ pc \in {"idle", "sending", "advancing"}
  /\ buf \in Block \cup {Nil}
  /\ restarts \in Nat
  /\ last \in Nat
  /\ delivered \subseteq acked /\ skipped \subseteq acked
  /\ expired \subseteq acked /\ swallowed \subseteq acked

\* The blocks of a segment file lie back to back up to the footer, and the
\* footer's position is the start of a block or the end of the blocks.
Contiguous(f) ==
  /\ f.size >= footerSize
  /\ f.pos \in DOMAIN f.blocks \cup {End(f)}
  /\ \A o \in DOMAIN f.blocks :
       /\ f.blocks[o].len >= 1
       /\ o + BlockSize(f.blocks[o]) <= End(f)
       /\ o + BlockSize(f.blocks[o]) \in DOMAIN f.blocks \cup {End(f)}
       /\ \A p \in DOMAIN f.blocks : o < p => o + BlockSize(f.blocks[o]) <= p

\* Whatever the interleaving of appends, sends, purges and crashes, every
\* segment file on disk can be parsed from its footer (segment.open reads the
\* last word and follows it), and the sender's block is the one Advance skips.
FilesParse ==
  /\ \A i \in DOMAIN dir : Contiguous(dir[i])
  /\ buf # Nil => /\ ~AtEnd(dir[head])
                  /\ buf = dir[head].blocks[dir[head].pos]
                  /\ currentSize[head] = buf.len

\* The open segments are exactly the files of the directory: no segment is
\* dropped from the list with its file left behind, to come back on restart.
NoStrayFiles == isOpen => Range(segments) = DOMAIN dir

\* An acknowledged hint is never lost by the segment and footer arithmetic, a
\* trim, a restart or a crash: it has been applied by the target, dropped as
\* unreadable, aged out, swallowed by AppendNotOpen, or is still on disk.
NoOtherLoss == acked \subseteq Handled \cup Pending

\* The same without the swallowed hints: what "byte slices can be appended and
\* read back" (queue.go:28) promises.
AckedIsReadable == acked \subseteq (Handled \ swallowed) \cup Pending

\* Hints reach the target in the order of their acknowledgement: when one has
\* been applied, no earlier one is still waiting to be sent for the first time.
InOrder ==
  \A m \in acked, n \in delivered : m < n => m \in Handled

\* Once a hint has left the disk no restart brings it back.
NoResurrection == [][\A n \in acked : n \notin Pending => n \notin Pending']_vars

\* maxSize bounds the disk space up to the words Append does not count: the
\* length prefix and the footer of one new segment.
DiskBounded == isOpen => diskUsage <= MaxSize + 1 + footerSize

Log == INSTANCE HandoffLog
         WITH waiting <- Pending, done <- delivered \cup skipped

\* While no segment outlives MaxAge the queue, its files, its sender and its
\* restarts implement a first-in first-out log that loses nothing.
ImplementsLog == Log!LogSpec

\* The state in which Current returns io.EOF though a later segment holds hints.
HeadStuck == isOpen /\ AtEnd(dir[head]) /\ Pending # {}

\* Unless the head is stuck, every acknowledged hint is eventually applied,
\* dropped as unreadable, aged out or swallowed.
EventuallyHandled == \A n \in 1 .. MaxHints : n \in acked ~> (n \in Handled \/ HeadStuck)

\* The queue is not stuck for good: an acknowledged hint is eventually handled.
EventuallyDrained == \A n \in 1 .. MaxHints : n \in acked ~> n \in Handled

=============================================================================
