----------------------------- MODULE TSMEngine -----------------------------
(***************************************************************************)
(* The storage engine of one shard (tsdb/engine/tsm1): the cache, the      *)
(* write-ahead log, the TSM files with their tombstones, and the           *)
(* goroutines that move points between them while clients write, delete    *)
(* and read: the snapshot of the cache into a new TSM file and the         *)
(* compaction of TSM files.  A restart may come between any two steps and  *)
(* loses what was not fsynced.                                             *)
(*                                                                         *)
(* A key stands for one field of one series at one time; its value is the  *)
(* number of the write that stored it, 0 when it has none.  Every key has  *)
(* one client, whose operations follow one another: what a key should hold *)
(* is then always known, and all the concurrency that matters is between   *)
(* the clients, the reader, the snapshot, the compaction and the restart.  *)
(* The index, the field types and the cache's size limit are left out; one *)
(* compaction runs at a time.                                              *)
(***************************************************************************)
EXTENDS Integers, Sequences, FiniteSets

CONSTANTS
  Keys,
  Leftover,     \* the TSM files whose tombstone files an earlier run may have left behind
  MaxWrites,    \* bound: writes of a key
  MaxDeletes,   \* bound: deletes of a key
  MaxGen,       \* bound: no snapshot is written once the generation is that high
  MaxSeq,       \* bound: sequence number of a compacted file
  MaxRestarts   \* bound: restarts

ASSUME BoundsAssumption == /\ {MaxWrites, MaxDeletes, MaxGen, MaxRestarts} \subseteq Nat
                           /\ MaxSeq \in Nat \ {0}
\* No key is taken for bytes that cannot be decoded.
ASSUME KeysAssumption == "hole" \notin Keys
ASSUME LeftoverAssumption == Leftover \subseteq (1 .. MaxGen) \X (1 .. MaxSeq)

VARIABLES
  live,         \* Cache.store: key -> value
  snap,         \* Cache.snapshot.store: what is being written to a TSM file
  segs,         \* the WAL segment files in the order of their numbers
  open,         \* whether the last segment is the current one, open for writing
  written,      \* whether the current segment's writer has written (its size is not 0)
  synced,       \* number of entries of the last segment that are on disk for sure
  gap,          \* whether the writer's offset is beyond the end of its file
  tsm,          \* the TSM files on disk: name -> key -> value
  tomb,         \* the tombstone files on disk: name -> the keys deleted from the file
  active,       \* FileStore.files: the names of the TSM files in use
  gen,          \* FileStore.currentGeneration
  sw,           \* the WriteSnapshot in progress
  comp,         \* the compaction in progress
  op,           \* key -> the operation its client has begun
  rd,           \* the read in progress
  \* History:
  writes,       \* key -> number of writes begun
  deletes,      \* key -> number of deletes begun
  allowed,      \* key -> the values the operations that have ended allow it to have
  acc,          \* the values the key being read could have since the read began
  quiet,        \* keys last touched by a successful delete that no snapshot overlapped
  restarts      \* number of restarts

cache == <<live, snap>>
wal == <<segs, open, written, synced, gap>>
files == <<tsm, tomb, active, gen>>
reader == <<rd, acc>>
history == <<writes, deletes, allowed, quiet>>
vars == <<cache, wal, files, sw, comp, op, reader, history, restarts>>

Empty == [k \in Keys |-> 0]
Hole == [key |-> "hole", val |-> 0]    \* bytes that the segment reader cannot decode
NoOp == [kind |-> "none", stage |-> "none", todo |-> {}, found |-> FALSE, raced |-> FALSE, alone |-> FALSE]
NoName == <<0, 0>>
Idle == [stage |-> "idle", closed |-> 0, name |-> NoName]
NoComp == [stage |-> "idle", group |-> {}, new |-> NoName, data |-> Empty]
NoRead == [stage |-> "idle", key |-> CHOOSE k \in Keys : TRUE, val |-> 0]

Init ==
  /\ live = Empty /\ snap = Empty
  /\ segs = << >> /\ open = FALSE /\ written = FALSE /\ synced = 0 /\ gap = FALSE
  /\ tsm = << >> /\ active = {} /\ gen = 0
  /\ \E left \in SUBSET Leftover : tomb = [n \in left |-> Keys]
  /\ sw = Idle /\ comp = NoComp
  /\ op = [k \in Keys |-> NoOp]
  /\ rd = NoRead /\ acc = {}
  /\ writes = [k \in Keys |-> 0] /\ deletes = [k \in Keys |-> 0]
  /\ allowed = [k \in Keys |-> {0}] /\ quiet = {}
  /\ restarts = 0

-----------------------------------------------------------------------------
(* What the parts of the engine hold *)

Last(s) == s[Len(s)]

\* Names of TSM files are ordered by generation, then by sequence number.
After(m, n) == m[1] > n[1] \/ (m[1] = n[1] /\ m[2] > n[2])

Newest(names) == CHOOSE n \in names : \A m \in names \ {n} : After(n, m)

\* The tombstone file of TSM file n names k.
Hidden(n, k) == n \in DOMAIN tomb /\ k \in tomb[n]

\* The value of k in TSM file n: tombstoned keys are not in the reader's index.
InFile(n, k) == IF Hidden(n, k) THEN 0 ELSE tsm[n][k]

\* The value of k in a set of TSM files: the newest file that has one wins.
InFiles(names, k) ==
  LET having == {n \in names : InFile(n, k) # 0}
  IN  IF having = {} THEN 0 ELSE InFile(Newest(having), k)

\* The length of the readable part of a segment.
Readable(s) ==
  IF \E j \in 1 .. Len(s) : s[j] = Hole
  THEN (CHOOSE j \in 1 .. Len(s) : s[j] = Hole /\ \A i \in 1 .. j - 1 : s[i] # Hole) - 1
  ELSE Len(s)

\* What CacheLoader.Load puts into the cache for k when the last of the segments
\* ss has been cut to its first c entries.
Loaded(ss, c, k) ==
  LET length(i) == IF i = Len(ss) /\ c < Readable(ss[i]) THEN c ELSE Readable(ss[i])
      at == {p \in UNION {{i} \X (1 .. length(i)) : i \in 1 .. Len(ss)} : ss[p[1]][p[2]].key = k}
      p == CHOOSE p \in at : \A q \in at \ {p} : After(p, q)
  IN  IF at = {} THEN 0 ELSE ss[p[1]][p[2]].val

\* What k is after a restart that leaves c entries in the last segment.
Recovered(k, c) ==
  LET v == Loaded(segs, c, k)
  IN  IF v # 0 THEN v ELSE InFiles(DOMAIN tsm, k)

\* The number of entries that a restart may find in the last segment.
Cuts == IF segs = << >> THEN {0} ELSE (IF open THEN synced ELSE Len(Last(segs))) .. Len(Last(segs))

CacheValueLiveOnly(k) == live[k]

\* Cache.Values: the live store overrides the snapshot.
CacheValue(k) == IF live[k] # 0 THEN live[k] ELSE snap[k]

\* A restart may load a write of k from the log.
LogHolds(k) == \E c \in Cuts : Loaded(segs, c, k) # 0

AnyVersion(k) == 0 .. writes[k]

\* The values that k may have now: an operation in progress may show or not, and
\* an unfinished delete may have uncovered any older value.
Acceptable(k) ==
  allowed[k] \cup (CASE op[k].kind = "write" -> {writes[k]}
                     [] op[k].kind = "delete" -> AnyVersion(k)
                     [] OTHER -> {})

\* The key being read may have its new values, too.
Watch == acc' = IF rd.stage = "idle" THEN {} ELSE acc \cup Acceptable(rd.key)'

-----------------------------------------------------------------------------
(* The write-ahead log *)

\* What k may have once its operation succeeds.  The exceptions: its log entry is
\* behind bytes that cannot be read; a delete did not reach the points that a
\* snapshot held, or was not logged although the log still has the points.
Outcome(k) ==
  IF op[k].found /\ \E j \in 1 .. Len(Last(segs)) : Last(segs)[j] = Hole THEN AnyVersion(k)
  ELSE IF op[k].kind = "write" THEN {writes[k]}
  ELSE IF op[k].raced \/ (~op[k].found /\ LogHolds(k)) THEN AnyVersion(k)
  ELSE {0}

\* The operations of the keys in S return without an error.
Complete(S) ==
  /\ op' = [k \in Keys |-> IF k \in S THEN NoOp ELSE op[k]]
  /\ allowed' = [k \in Keys |-> IF k \in S THEN Outcome(k) ELSE allowed[k]]
  /\ quiet' = {k \in S : op[k].alone} \cup (quiet \ S)

Waiting == {k \in Keys : op[k].stage = "sync"}

\* WAL.sync in the background: fsync, then an answer to everyone who waits.
Sync ==
  /\ Waiting # {}
  /\ synced' = Len(Last(segs))
  /\ Complete(Waiting)
  /\ UNCHANGED <<cache, segs, open, written, gap, files, sw, comp, rd, writes, deletes, restarts>>
  /\ Watch

\* The entries that writing e adds to the current segment: a writer whose offset is
\* beyond the end of its file leaves a hole.
Written(e) == IF gap THEN <<Hole, e>> ELSE <<e>>

\* The current segment gets entry e; before that it may have to be opened.
LogEntry(k, e) ==
  /\ op' = [op EXCEPT ![k].stage = "sync", ![k].found = TRUE]
  /\ segs' = IF open
             THEN [segs EXCEPT ![Len(segs)] = @ \o Written(e)]
             ELSE Append(segs, <<e>>)
  /\ synced' = IF open THEN synced ELSE 0
  /\ open' = TRUE /\ written' = TRUE /\ gap' = FALSE
  /\ UNCHANGED <<allowed, quiet>>

\* rollSegment found the current segment too large: it is synced, which answers
\* everyone who waits, and closed, and the entry goes to a new one.
LogEntryInNewSegment(k, e) ==
  /\ open /\ written
  /\ LET done == Waiting
     IN  /\ op' = [j \in Keys |-> IF j = k THEN [op[k] EXCEPT !.stage = "sync", !.found = TRUE]
                                  ELSE IF j \in done THEN NoOp ELSE op[j]]
         /\ allowed' = [j \in Keys |-> IF j \in done THEN Outcome(j) ELSE allowed[j]]
         /\ quiet' = {j \in done : op[j].alone} \cup (quiet \ done)
  /\ segs' = Append(segs, <<e>>)
  /\ synced' = 0 /\ written' = TRUE /\ gap' = FALSE
  /\ UNCHANGED open

Log(k) ==
  /\ op[k].stage = "log"
  /\ LET e == [key |-> k, val |-> IF op[k].kind = "write" THEN writes[k] ELSE 0]
     IN  LogEntry(k, e) \/ LogEntryInNewSegment(k, e)
  /\ UNCHANGED <<cache, files, sw, comp, rd, writes, deletes, restarts>>
  /\ Watch

\* A tombstone, the log entry or its fsync fails: the error is returned and what
\* was done so far stays.
OpFails(k) ==
  /\ op[k].stage \in {"files", "log", "sync"}
  /\ op' = [op EXCEPT ![k] = NoOp]
  /\ allowed' = [allowed EXCEPT ![k] = Acceptable(k)]
  /\ quiet' = quiet \ {k}
  /\ UNCHANGED <<cache, wal, files, sw, comp, rd, writes, deletes, restarts>>
  /\ Watch

-----------------------------------------------------------------------------
(* The clients *)

\* WritePoints, with e.mu read-locked until it returns: the cache comes first.
WriteBegins(k) ==
  /\ op[k].kind = "none"
  /\ writes[k] < MaxWrites
  /\ writes' = [writes EXCEPT ![k] = @ + 1]
  /\ live' = [live EXCEPT ![k] = writes[k] + 1]
  /\ op' = [op EXCEPT ![k] = [NoOp EXCEPT !.kind = "write", !.stage = "log"]]
  /\ quiet' = quiet \ {k}
  /\ UNCHANGED <<snap, wal, files, sw, comp, rd, deletes, allowed, restarts>>
  /\ Watch

\* DeleteSeriesRange has stopped the compactions and, under the file store's read
\* lock, looks for the files that hold k.
DeleteBegins(k) ==
  /\ op[k].kind = "none"
  /\ comp.stage = "idle"
  /\ deletes[k] < MaxDeletes
  /\ deletes' = [deletes EXCEPT ![k] = @ + 1]
  /\ LET holding == {n \in active : InFile(n, k) # 0}
     IN  op' = [op EXCEPT ![k] = [NoOp EXCEPT !.kind = "delete", !.todo = holding, !.raced = snap[k] # 0,
                                              !.alone = sw.stage = "idle" /\ snap = Empty,
                                              !.stage = IF holding = {} THEN "scan" ELSE "files"]]
  /\ quiet' = quiet \ {k}
  /\ UNCHANGED <<cache, wal, files, sw, comp, rd, writes, allowed, restarts>>
  /\ Watch

\* The files are marked in parallel, each by replacing its tombstone file.
DeleteFromFile(k) ==
  /\ op[k].stage = "files"
  /\ \E n \in op[k].todo :
       /\ tomb' = [m \in DOMAIN tomb \cup {n} |->
                     IF m = n THEN {k} \cup (IF n \in DOMAIN tomb THEN tomb[n] ELSE {}) ELSE tomb[m]]
       /\ op' = [op EXCEPT ![k].todo = @ \ {n}, ![k].stage = IF op[k].todo = {n} THEN "scan" ELSE @]
  /\ UNCHANGED <<cache, wal, tsm, active, gen, sw, comp, reader, history, restarts>>

\* Only the live store is searched; without a match nothing is logged.
DeleteScans(k) ==
  /\ op[k].stage = "scan"
  /\ IF live[k] # 0
     THEN op' = [op EXCEPT ![k].stage = "cache"] /\ UNCHANGED <<allowed, quiet>>
     ELSE Complete({k})
  /\ UNCHANGED <<cache, wal, files, sw, comp, rd, writes, deletes, restarts>>
  /\ Watch

DeleteFromCache(k) ==
  /\ op[k].stage = "cache"
  /\ live' = [live EXCEPT ![k] = 0]
  /\ op' = [op EXCEPT ![k].stage = "log"]
  /\ UNCHANGED <<snap, wal, files, sw, comp, reader, history, restarts>>

\* The file store's lock is held for writing while compacted files are removed.
FilesLocked == comp.stage \in {"remove", "tombstone"}

\* A cursor takes the cached values first and looks at the files afterwards.
ReadCache(k) ==
  /\ rd.stage = "idle"
  /\ rd' = [stage |-> "files", key |-> k, val |-> CacheValue(k)]
  /\ acc' = Acceptable(k)
  /\ UNCHANGED <<cache, wal, files, sw, comp, op, history, restarts>>

ReadFiles ==
  /\ rd.stage = "files"
  /\ ~FilesLocked
  /\ rd' = [NoRead EXCEPT !.val = IF rd.val # 0 THEN rd.val ELSE InFiles(active, rd.key)]
  /\ acc' = {}
  /\ UNCHANGED <<cache, wal, files, sw, comp, op, history, restarts>>

-----------------------------------------------------------------------------
(* WriteSnapshot *)

\* The current segment is closed if its writer has written to it.
SegmentCloses == ~open \/ written

CloseSegment ==
  /\ segs' = IF SegmentCloses THEN Append(segs, << >>) ELSE segs
  /\ synced' = IF SegmentCloses THEN 0 ELSE synced
  /\ open' = TRUE
  /\ written' = FALSE
  /\ gap' = IF SegmentCloses THEN FALSE ELSE gap

\* The deletes that closing the segment answers.
Answered == IF SegmentCloses THEN Waiting ELSE {}

ClosedSegments == Len(segs') - 1

\* e.mu is write-locked: no write is between the cache and its answer, and no
\* other snapshot is being committed.
EngineIdle ==
  /\ \A k \in Keys : op[k].kind # "write"
  /\ sw.stage \in {"idle", "write"}

\* The segment is closed and the live store becomes the snapshot, unless an earlier
\* snapshot failed, which is then written again.  The code asks whether a cache has
\* the size 0; here it is asked for points.
SnapshotBegins ==
  /\ EngineIdle
  /\ sw.stage = "idle"
  /\ gen < MaxGen
  /\ snap # Empty \/ live # Empty
  /\ CloseSegment
  /\ sw' = [Idle EXCEPT !.stage = "write", !.closed = ClosedSegments]
  /\ LET retry == snap # Empty
         swept == {k \in Keys : live[k] # 0}
         stays(k) == IF k \in Answered THEN NoOp ELSE op[k]
     IN  /\ snap' = IF retry THEN snap ELSE live
         /\ live' = IF retry THEN live ELSE Empty
         /\ op' = [k \in Keys |-> [stays(k) EXCEPT !.alone = FALSE,
                                     !.raced = @ \/ (stays(k).kind = "delete" /\ ~retry /\ k \in swept)]]
         /\ allowed' = [k \in Keys |->
              (IF k \in Answered THEN Outcome(k) ELSE allowed[k])
                \cup (IF retry /\ k \in swept THEN AnyVersion(k) ELSE {})]
  /\ UNCHANGED <<files, comp, rd, writes, deletes, quiet, restarts>>
  /\ Watch

\* A backup asks for a snapshot while one is in progress or when the cache is
\* empty: only the segment is closed.
SnapshotWithoutEffect ==
  /\ EngineIdle
  /\ sw.stage = "write" \/ (snap = Empty /\ live = Empty)
  /\ SegmentCloses
  /\ CloseSegment
  /\ Complete(Answered)
  /\ UNCHANGED <<cache, files, sw, comp, rd, writes, deletes, restarts>>
  /\ Watch

SnapshotWrittenAndLogRemoved ==
  /\ sw.stage = "write"
  /\ gen < MaxGen
  /\ gen' = gen + 1
  /\ segs' = SubSeq(segs, sw.closed + 1, Len(segs))
  /\ sw' = [stage |-> "replace", closed |-> 0, name |-> <<gen + 1, 1>>]
  /\ UNCHANGED <<cache, open, written, synced, gap, tsm, tomb, active, comp, op, reader, history, restarts>>

\* Compactor.WriteSnapshot: a temporary file of the next generation.
SnapshotWritten ==
  /\ sw.stage = "write"
  /\ gen < MaxGen
  /\ gen' = gen + 1
  /\ sw' = [sw EXCEPT !.stage = "replace", !.name = <<gen + 1, 1>>]
  /\ UNCHANGED <<cache, wal, tsm, tomb, active, comp, op, reader, history, restarts>>

\* The file cannot be written or renamed, or snapshots were disabled meanwhile:
\* the snapshot stays in the cache for another try.  (Left out: an error of SyncDir
\* after the rename, which leaves the new file in the directory but not in use.)
SnapshotFails ==
  /\ sw.stage \in {"write", "replace"}
  /\ sw' = Idle
  /\ UNCHANGED <<cache, wal, files, comp, op, reader, history, restarts>>

\* FileStore.Replace renames the file, and under its lock takes it into use; both
\* are one step here.  The file is opened with the tombstone file of that
\* name if there is one, which hides what it names.
SnapshotReplaces ==
  /\ sw.stage = "replace"
  /\ ~FilesLocked
  /\ \A k \in Keys : op[k].stage # "files"
  /\ tsm' = [n \in DOMAIN tsm \cup {sw.name} |-> IF n = sw.name THEN snap ELSE tsm[n]]
  /\ active' = active \cup {sw.name}
  /\ allowed' = [k \in Keys |-> IF Hidden(sw.name, k) THEN AnyVersion(k) ELSE allowed[k]]
  /\ sw' = [sw EXCEPT !.stage = "clear"]
  /\ UNCHANGED <<cache, wal, tomb, gen, comp, op, rd, writes, deletes, quiet, restarts>>
  /\ Watch

SnapshotClears ==
  /\ sw.stage = "clear"
  /\ snap' = Empty
  /\ sw' = IF sw.closed = 0 THEN Idle ELSE [sw EXCEPT !.stage = "remove"]
  /\ UNCHANGED <<live, wal, files, comp, op, reader, history, restarts>>

\* WAL.Remove deletes the closed segments one by one, the oldest first.
SnapshotRemovesSegment ==
  /\ sw.stage = "remove"
  /\ segs' = Tail(segs)
  /\ sw' = IF sw.closed = 1 THEN Idle ELSE [sw EXCEPT !.closed = @ - 1]
  /\ UNCHANGED <<cache, open, written, synced, gap, files, comp, op, reader, history, restarts>>

-----------------------------------------------------------------------------
(* Compaction of TSM files *)

\* The files of neighbouring generations, or of a single one that has tombstones.
Groups ==
  {g \in SUBSET active :
     /\ g # {}
     /\ \A n \in active \ g : \/ \A m \in g : n[1] < m[1]
                             \/ \A m \in g : n[1] > m[1]
     /\ \/ Cardinality({n[1] : n \in g}) > 1
        \/ \E n \in g : n \in DOMAIN tomb}

\* The merged values; without any there is no new file.
CompactBegins ==
  /\ comp.stage = "idle"
  /\ \A k \in Keys : op[k].kind # "delete"
  /\ \E g \in Groups :
       LET data == [k \in Keys |-> InFiles(g, k)]
           last == Newest(g)
       IN  /\ last[2] < MaxSeq
           /\ comp' = [stage |-> "write", group |-> g, data |-> data,
                       new |-> IF data = Empty THEN NoName ELSE <<last[1], last[2] + 1>>]
  /\ UNCHANGED <<cache, wal, files, sw, op, reader, history, restarts>>

\* A delete or a shutdown interrupts the compaction.
CompactAborts ==
  /\ comp.stage = "write"
  /\ comp' = NoComp
  /\ UNCHANGED <<cache, wal, files, sw, op, reader, history, restarts>>

\* FileStore.Replace renames the new file; as for a snapshot, a tombstone file of that
\* name hides what it names.
CompactRenames ==
  /\ comp.stage = "write"
  /\ tsm' = IF comp.new = NoName THEN tsm
            ELSE [n \in DOMAIN tsm \cup {comp.new} |-> IF n = comp.new THEN comp.data ELSE tsm[n]]
  /\ allowed' = [k \in Keys |-> IF Hidden(comp.new, k) THEN AnyVersion(k) ELSE allowed[k]]
  /\ comp' = [comp EXCEPT !.stage = "remove"]
  /\ UNCHANGED <<cache, wal, tomb, active, gen, sw, op, rd, writes, deletes, quiet, restarts>>
  /\ Watch

Without(f, n) == [m \in DOMAIN f \ {n} |-> f[m]]

Oldest(names) == CHOOSE n \in names : \A m \in names \ {n} : After(m, n)

CompactRemovesTombstoneFirst ==
  /\ comp.stage = "remove"
  /\ tomb' = Without(tomb, Oldest(comp.group))
  /\ comp' = [comp EXCEPT !.stage = "tombstone"]
  /\ UNCHANGED <<cache, wal, tsm, active, gen, sw, op, reader, history, restarts>>

\* Under the file store's lock the old files go one by one: the TSM file first,
\* then its tombstones.
CompactRemovesFile ==
  /\ comp.stage = "remove"
  /\ tsm' = Without(tsm, Oldest(comp.group))
  /\ comp' = [comp EXCEPT !.stage = "tombstone"]
  /\ UNCHANGED <<cache, wal, tomb, active, gen, sw, op, reader, history, restarts>>

CompactRemovesTombstoneOnly ==
  /\ comp.stage = "tombstone"
  /\ LET n == Oldest(comp.group)
         left == comp.group \ {n}
         added == IF comp.new = NoName THEN {} ELSE {comp.new}
     IN  /\ tomb' = Without(tomb, n)
         /\ comp' = IF left = {} THEN NoComp ELSE [comp EXCEPT !.stage = "remove", !.group = left]
         /\ active' = active \cup added
  /\ UNCHANGED <<cache, wal, tsm, gen, sw, op, reader, history, restarts>>

CompactRemovesTombstone ==
  /\ comp.stage = "tombstone"
  /\ LET n == Oldest(comp.group)
         left == comp.group \ {n}
         added == IF comp.new = NoName THEN {} ELSE {comp.new}
     IN  /\ tomb' = Without(tomb, n)
         /\ comp' = IF left = {} THEN NoComp ELSE [comp EXCEPT !.stage = "remove", !.group = left]
         /\ active' = (active \ {n}) \cup added
  /\ UNCHANGED <<cache, wal, tsm, gen, sw, op, reader, history, restarts>>

-----------------------------------------------------------------------------
(* Restart *)

\* The process stops, with c entries in the last segment and perhaps a piece of the
\* next one; Open removes an empty last segment or goes on writing at its end, and
\* then loads the segments, cutting each off where it cannot be read.
Restart ==
  /\ restarts < MaxRestarts
  /\ restarts' = restarts + 1
  /\ \E c \in Cuts, torn \in BOOLEAN :
       LET n == Len(segs)
           cut == IF segs # << >> /\ open THEN [segs EXCEPT ![n] = SubSeq(@, 1, c)] ELSE segs
           empty == segs # << >> /\ cut[n] = << >> /\ ~torn
           kept == IF empty THEN SubSeq(cut, 1, n - 1) ELSE cut
       IN  /\ torn => segs # << >> /\ open /\ c < Len(segs[n])
           /\ segs' = [i \in 1 .. Len(kept) |-> SubSeq(kept[i], 1, Readable(kept[i]))]
           /\ open' = (segs # << >> /\ ~empty)
           /\ gap' = (open' /\ (torn \/ Readable(cut[n]) < Len(cut[n])))
           /\ synced' = IF segs' # << >> THEN Len(Last(segs')) ELSE 0
           /\ live' = [k \in Keys |-> Loaded(segs, c, k)]
           /\ allowed' = [k \in Keys |-> {Recovered(k, c)}]
  /\ written' = FALSE
  /\ snap' = Empty
  /\ active' = DOMAIN tsm
  /\ gen' = IF tsm = << >> THEN 0 ELSE Newest(DOMAIN tsm)[1] + 1
  /\ sw' = Idle /\ comp' = NoComp /\ rd' = NoRead /\ acc' = {}
  /\ op' = [k \in Keys |-> NoOp]
  /\ quiet' = quiet \ {k \in Keys : op[k].kind # "none"}
  /\ UNCHANGED <<tsm, tomb, writes, deletes>>

-----------------------------------------------------------------------------
Client(k) ==
  \/ WriteBegins(k) \/ DeleteBegins(k) \/ DeleteFromFile(k) \/ DeleteScans(k)
  \/ DeleteFromCache(k) \/ Log(k) \/ OpFails(k) \/ ReadCache(k)

Snapshot ==
  \/ SnapshotBegins \/ SnapshotWithoutEffect \/ SnapshotWritten \/ SnapshotFails
  \/ SnapshotReplaces \/ SnapshotClears \/ SnapshotRemovesSegment

Compaction ==
  \/ CompactBegins \/ CompactAborts \/ CompactRenames
  \/ CompactRemovesFile \/ CompactRemovesTombstone

Next ==
  \/ \E k \in Keys : Client(k)
  \/ Sync \/ ReadFiles \/ Snapshot \/ Compaction \/ Restart

Spec == Init /\ [][Next]_vars

-----------------------------------------------------------------------------
(* Properties *)

Values == 0 .. MaxWrites
Names == (1 .. MaxGen + 1) \X (1 .. MaxSeq)
Entries == [key : Keys, val : Values] \cup {Hole}
PartialFunctions(D, R) == UNION {[d -> R] : d \in SUBSET D}

\* Every variable has its type, and what refers to the log and the files refers to
\* what is there.
TypeOK ==
  /\ {live, snap} \subseteq [Keys -> Values]
  /\ segs \in Seq(Seq(Entries))
  /\ {open, written, gap} \subseteq BOOLEAN
  /\ open => segs # << >> /\ synced \in 0 .. Len(Last(segs))
  /\ sw.closed \in 0 .. Len(segs)
  /\ DOMAIN tsm \cup DOMAIN tomb \subseteq Names
  /\ active \subseteq DOMAIN tsm \cup comp.group
  /\ comp.group \subseteq active
  /\ \A k \in Keys : op[k].stage \in {"none", "files", "scan", "cache", "log", "sync"}

\* Whenever the process stops, whatever was not fsynced then is lost, Open finds for
\* every key what the operations that have ended allow: a write that was answered
\* with nil is there and the newest one wins, a deleted point is not there.  The
\* moves of a point from the cache and the log to a TSM file and from file to file
\* never leave it unprotected.  The exceptions are those of Outcome, SnapshotBegins,
\* SnapshotReplaces and CompactRenames.
AnsweredIsRecovered ==
  \A k \in Keys : \A c \in Cuts : Recovered(k, c) \in Acceptable(k)

\* A read, whose look at the cache and look at the files any number of steps may
\* separate, returns a value that the key could have while the read lasted.
ReadsAreCurrent ==
  [][rd.stage = "files" /\ rd'.stage = "idle" /\ restarts' = restarts => rd'.val \in acc]_vars

\* At no step of a compaction, with a restart to follow or not, do the TSM files say
\* anything else of a key than before.  The exception is a key that a tombstone file,
\* left by an earlier restart under the name of the new file, hides in it.
CompactionKeepsValues ==
  [][comp' # comp /\ restarts' = restarts =>
       \A k \in Keys : \/ Hidden(comp.new, k)
                       \/ InFiles(DOMAIN tsm, k)' = InFiles(DOMAIN tsm, k)]_vars

\* A delete that no snapshot overlapped is final: no restart brings the point back.
QuietDeletesAreFinal ==
  \A k \in quiet : op[k].kind = "none" => \A c \in Cuts : Recovered(k, c) = 0

=============================================================================
