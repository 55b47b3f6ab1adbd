# Verification of FreeTSDB

FreeTSDB (`src/freetsdb-0.1.2`) is a clustered time-series database: InfluxDB 1.8's storage
and query engines under a cluster layer of its own.  This project models in TLA+ the parts whose
correctness depends on concurrency and failure:

* the path a point takes from the coordinating node to its replicas - points writer, shard writer,
  connection pools, and the hinted-handoff service that keeps writes for unreachable nodes;
* the cluster's metadata - its commands, the meta servers that apply them, and the client that caches them;
* the storage engine of one shard - cache, write-ahead log, TSM files, tombstones.

Paths below are relative to `src/freetsdb-0.1.2`.  `PROJECT.json` holds the list of components,
the map from definitions to source lines, the hazards, the runs, the mutants and the theorems.

## The system

| Component | State | Operations | Interacts with |
|---|---|---|---|
| Points writer (`coordinator/points_writer.go`) | per request: one channel per shard, one per request, timers; `closing` | `WritePointsPrivileged`, `writeToShard`, `MapShards`, `Close` | meta client (shard groups), local store, shard writer, hinted handoff |
| Shard writer and pools (`coordinator/shard_writer.go`, `client_pool.go`, `pool.go`) | a pool of connections per node | `WriteShard`, `dial`, `Get`, `Close` | meta client (`ShardOwner`, `DataNode`), the remote RPC service |
| RPC service (`coordinator/service.go`, `rpc.go`) | none | `processWriteShardRequest`, remote query handlers | local store |
| Hinted-handoff service (`services/hh/service.go`) | map node -> processor, `closing`, a mutex | `Open`, `WriteShard`, `purgeInactiveProcessors`, `Close` | node processors |
| Node processor (`services/hh/node_processor.go`) | queue, `done`, a mutex, the `run` goroutine | `Open`, `WriteShard`, `run`, `SendWrite`, `Close`, `Purge` | queue, shard writer, meta client |
| Queue (`services/hh/queue.go`) | segment files, list of segments, head, tail, per segment `pos`, `size`, `currentSize` | `Open`, `Append`, `Current`, `Advance`, `PurgeOlderThan`, `Close` | the file system |
| Metadata (`services/meta/data.go`, `store_fsm.go`) | nodes, databases, retention policies, shard groups, owners, users | about forty commands of the replicated state machine | raft (vendored) |
| Meta store, handler, client (`services/meta/store.go`, `handler.go`, `client.go`) | raft state; the client's cached copy and its index | snapshot polling, `retryUntilExec`, `waitForIndex`, join and leave | all of the above |
| Retention, precreation (`services/retention`, `services/precreator`) | timers | delete expired shard groups and local shards; create shard groups ahead of time | meta client, store |
| Query side (`coordinator/statement_executor.go`, `shard_mapper.go`, `meta_executor.go`, `services/continuous_querier`) | none that is replicated | fan-out of queries and statements | meta client, RPC service |
| Storage engine (`tsdb/engine/tsm1`) | cache and its snapshot, WAL segments, TSM files, tombstones, a generation number | `WritePoints`, `DeleteSeriesRange`, `WriteSnapshot`, compactions, reads, `Open` | the file system; called by the local store |
| Others (subscriber, copier, snapshotter, input protocols, query engine, commands) | | | |

What is hard here: one request is served by a goroutine per shard and a goroutine per owner
that race a timer and a shutdown; an error from a remote write does not tell whether the points
were stored; the hinted-handoff queue is written by many goroutines, read by one, purged by a
timer and reopened after a crash; two mutexes, two wait groups and a map are shared by writers, run
loops, the purger and `Close`; the connection map's lock is held while a connection is dialled; the metadata a node
acts on may be older than the cluster's, a command may be applied although its answer was lost, and meta servers
must compute the same from the same commands; the storage engine moves points from the cache and the log to
files and from file to file while they are read, written and deleted, and may stop between any two steps.

What makes each component correct:

* points writer - a nil answer means that the consistency level was met on every shard; partial and
  failed are told apart; goroutines end; what was not written is written later;
* queue - an acknowledged hint stays on disk until it has been dealt with, across crashes; order is
  kept; nothing comes back; the files can always be parsed; the disk bound holds;
* service and processors - one queue per directory; a closed processor is quiet; calls return;
* connection pools - a connection has one user, an answer belongs to its request, the limit holds, goroutines do not
  stop one another;
* metadata - shard groups of a policy do not overlap, owners are existing nodes, identifiers are not reused, replicas of
  the state machine agree;
* meta client - what a caller is told agrees with the log, it finds its own write or a named step hid it, it returns;
* storage engine - what was answered is found again after a restart, a read returns a current value, a compaction
  changes none.

## Modules

| Module | Models | Used by |
|---|---|---|
| `HandoffLog` | the promise of hinted handoff: a first-in first-out log that loses nothing | refined by `HHQueue` |
| `HHQueue` | one queue with its files, its writers, its sender, crashes and restarts | `MCHHQueue`, `HHQueueProofs`, `HHQueueOrderProofs` |
| `HHService` | goroutines and locks of service and processors, for one node | `MCHHService`, `HHServiceProofs` |
| `PointsWriter` | one write request with its owners, collectors, timers, and hints | `MCPointsWriter`, `PointsWriterProofs` |
| `ClientPool` | the shard writer's connections: the map of pools, its lock, bounded pools, dialling | `MCClientPool`, `ClientPoolProofs` |
| `MetaData` | the metadata and its commands, as operators from metadata to metadata | extended by `MetaStore` |
| `MetaStore` | meta servers that apply the committed commands, each at its own pace, and restore snapshots | `MCMetaStore`, `MetaStoreProofs` |
| `MetaClient` | the client's cached copy, its poll, its callers, and the meta servers' handlers | its own `.cfg`, `MetaClientProofs` |
| `TSMEngine` | the storage engine of one shard, with restarts | `MCTSMEngine`, its own `.cfg`, `TSMEngineProofs` |
| `MC*` | payloads, shard maps, writers and file names of the small instances | the `.cfg` files |
| `*Proofs` | inductive invariants and theorems | |

`PointsWriter` sees of hinted handoff only what it may do to a hint: `Hint` queues it, and then it is delivered
(`Replay`), tried in vain (`ReplayFails`), lost (`HintLost`) or kept for ever, which nothing forbids.  `HHQueue` shows
inside one queue when each of these happens, and `HHService` shows the goroutines around it.  `ClientPool` is what lies below the remote
write of `PointsWriter`.  `MetaStore` is the cluster's metadata, and `MetaClient` the way from it to a data node: there
the metadata at an index is just the prefix of the log up to that index.  `TSMEngine` is the local store behind a
write that an owner applies.

### HHQueue

`dir` is the directory: a function from file names (numbers) to segment files
`[blocks, pos, size, age]`, where `blocks` maps offsets to blocks and `pos` is the footer's word.
`segments`, `tail` and `currentSize` are the fields of the same names; `queue.head` is always the first
of `segments`.  `pc` and `buf` are the sender's place in `SendWrite`.  Sizes are in words of 8 bytes:
the footer and the length prefix are one word each, and payloads are whole words, which keeps every
comparison the code makes.  Hints are numbered in the order in which `Append` answers nil; `last`,
`delivered`, `skipped`, `expired` and `swallowed` are history and influence nothing.

`Append` is one action per outcome (`AppendToTail`, `AppendToNewSegment`, `AppendTooLarge`,
`AppendNotOpen`), each under the queue's mutex; `ErrNotOpen` on a closed queue and `ErrQueueFull`
change nothing and are no step.  `SendWrite` is split where it leaves the queue's mutex
(`ReadCurrent`, `WriteSucceeds` or `WriteFails`, `Advance`), so that appends come in between.
`CrashInAppend`, `CrashInAdvance` and `CrashInPurge` stop the process between two file operations of one call,
`Crash` between calls.  `NameBefore` is the order of `ioutil.ReadDir` on the names 1 to 99, which is why
`MaxID` is at most 99.

### HHService

One target node.  Processors are numbered in the order of their creation, and processor i's run goroutine
is goroutine i.  `smu` and `nmu` are Go's `RWMutex` with writer preference (external, modelled
from its documentation and use).  A step under a lock that is released at once is one action; a lock that is
held while the goroutine waits (`wg.Wait`, a send) is held across actions.  `hints` counts the hints in the
directory; `old` says that its last modification is older than `MaxAge`.  `LookupErrors` says how the
metadata answers for a removed node: `meta.Client.DataNode` returns an error, which is `TRUE`; the code
of the service also provides for "no node, no error", which is `FALSE`, and the run svc_safety uses it so that
the removal of a processor is exercised.  Both timers of `run`'s `select` are made anew on every turn, so the shorter one
wins (`RetryTick`, `PurgeTick`).

### PointsWriter

A pair `<<s, o>>` is the write of shard s to its owner o; `task` is where its goroutine is, `answer` what it
sends.  `ch`, `received` and `ret` are the channel, the loop and the result of `writeToShard`; `reqCh`,
`reqGot` and `reqRet` those of `WritePointsPrivileged`.  `known` says whether the coordinating node's metadata still has the
shard's group, `stored` which shards the local store has created.  `applied`, `dropped`, `hinted` and
`refused` say what became of the points on each owner; `waiting` are the hints still in the queue.  A remote error may
come after the points were stored (`RemoteFails`, `ReplayFails`).  `NoOwnerIsForgotten` is what the points writer owes every
remote owner, also after an early answer; it ends where hinted handoff took the hint, since whether the hint arrives is up to the
queue, which may keep it behind a stuck head, let it age, or lose it.  The request has at least one shard: with none the collecting loop is empty.

### ClientPool

Goroutines inside `ShardWriter.WriteShard`, each at a place `pc`.  `pool` is the map from nodes to pools, `pools` all
pools ever made: one that `setPool` replaced stays, with its connections.  `readers` and `announced` are the
`RWMutex` of the map, with Go's writer preference.  `conn` holds the read lock during `Get`, and
`Get` may call `connFactory.dial`, which asks for it again in `size`.  `wire` holds the answers that are still to
come on a connection, so that an answer after the read deadline is not forgotten.  `MetaExecutor` has a
second pool that it uses in the same way.

### MetaData and MetaStore

A value of the metadata is a record; a command is an operator that returns its argument where the code returns an
error.  `DeleteDataNode` returns a set, because `newShardOwner` ranges over a Go map.  Shard groups are kept by ID, with
the policy they belong to; a group's shards map to sets of owners.  `RetentionAutoCreate` holds the settings of that name that meta servers
run with: one that has it makes a new database a policy, one that has not leaves the database without a default
(`NoPolicy`).  Each server applies a command with a setting of its own, because the configuration is not replicated.

Data and meta nodes may share any addresses.  A meta server that shares its ID with a data node and is then given another
address (`SetMetaNode`, `moved`) hands the ID out again to the data node there: TLC refutes `NodeIDsAreUnique` so.  `OnlyMovesShareIDs` says that this
is the only way to it.  A server is not followed beyond that point (the guard `UniqueIDs` of `Apply`, a bound of the model): two
nodes with one ID can both be given the same shard, and the model's sets of owners cannot hold an ID twice.

`MetaStore` gives every server a queue of committed commands.  `Apply` takes the first, `Restore` replaces a
server's metadata (and `moved`, which is history) by another's.  Raft is external: one order, nothing lost.  The `Commit` actions are the commands that clients
and meta servers send, with IDs they can have read from some server.

### MetaClient

`log` is the sequence of committed commands by caller; `applied` how far each server is.  A caller's place is `call[c].at`: it
tries a server, is accepted or refused there, waits for its index, and, when the wait is over and the lock is free, reads in the copy what
it has made (`ReadCopy`, as `CreateShardGroup` does), so that polls and local commits come in between.  `current` is the server that
`retryUntilExec` will try, `server` the one the request reached, which differs when `http.Post` followed the
redirect to the leader.  `cut` records that an attempt was separated from its outcome.  `cache` has two numbers, the index the
client believes and the index its content comes from, because commands on the copy alone (`client.go:774`) move the
first only.  `early` and `back` record what can hide a caller's command from it: the index was ahead of the content when the wait ended, or
an older snapshot was installed between the wait and the read.  `ReadsItsWrites` says that nothing else can.  `AfterIndex` is the long poll in `store.go`, `Restore` the state machine's Restore, which wakes nobody.

### TSMEngine

A key is one field of one series at one time, and a value the number of the write that stored it.  `live` and `snap` are
the cache and its snapshot, `segs` the log's files, `tsm` and `tomb` the files on disk, and `active` those the
file store uses.  `written` is the test that `CloseSegment` makes, `gap` that the writer's offset is behind a part that `CacheLoader`
cut off, `synced` how much is on disk for sure.  `WriteSnapshot`, a delete and a compaction are split where they
give up a lock or finish a file operation; `Restart` may come between any two steps and loses any part of the log that was not fsynced.
`allowed` is what the operations that ended allow a key to hold.

`AnsweredIsRecovered` has five exceptions, each written as a change of `allowed` or as a flag where it arises:

1. entries logged behind a hole: `WAL.Open` seeks to the end of a segment whose torn last entry
   `CacheLoader` cuts off afterwards (`wal.go:220`), and the next restart stops at the hole;
2. a delete that overlaps a snapshot with its key in it searches the live store and the existing files only;
3. a delete that found its key in files only is not logged (`engine.go:1546`), while a segment may still hold the point (the run tsm_undeleted);
4. a failed snapshot is retried with the segments closed by then, whose newer points are only in the live store;
5. a tombstone file left by a restart hides keys of a new file that gets the same name, a snapshot's or a compaction's.
   This is an exception of `CompactionKeepsValues`, too.

Without these the property is false, and with them everything else it says is checked.

Three details of a snapshot are simplified.  An error of `SyncDir` after the rename (`file_store.go:861`), which leaves a file in the directory
that the file store does not use until a restart, is not among the failures of `SnapshotFails`.  The rename (`file_store.go:738`), which
comes before the file store's lock, and the list's replacement under the lock are the one step `SnapshotReplaces`; a delete in between overlaps
the snapshot and is exempt already (exception 2).  And where the code asks whether the size of a cache or snapshot is 0 (`cache.go:403`,
`engine.go:1833`), `SnapshotBegins` asks whether it holds points.

`Leftover` are the names of tombstone files that may be there at the start.  A shard with a tombstone file and no TSM file
is what a restart leaves that comes after the last file of a compaction without a result was removed and before
its tombstones were (`reader.go:413`); generations start from 1 again then.

## Runs

Passing:

| Run | Checks | Bounds and why they are enough |
|---|---|---|
| queue_safety | `TypeOK`, `FilesParse`, `NoStrayFiles`, `NoOtherLoss`, `InOrder`, `DiskBounded`, `NoResurrection` | four hints of three sizes (one that fits twice, one unreadable, one larger than a segment), segments of 5 words, 12 words in all, names up to 5, one restart, ages 0 and 1 with `MaxAge` 0: segments fill, overflow, age, are purged to the last, the queue is full, and the process dies inside each operation |
| queue_log | `ImplementsLog`, `EventuallyHandled` | as above without ageing |
| pw_safety | `TypeOK`, `AckMeetsLevel`, `VerdictIsExact` | one shard, three owners (quorum is neither one nor all), four levels; several shards are the theorem's part |
| pw_live | `GoroutinesFinish`, `NoOwnerIsForgotten` | two owners, and a shard without owners |
| svc_safety | `TypeOK`, `OneQueuePerDirectory`, `ClosedIsQuiet`, `MapEntryIsUsable` | two writers, two processors, two hints: a processor is removed and made again while both writers are inside WriteShard |
| svc_live | `WritesReturn` | two writers, one processor, one hint |
| pool_safety | `TypeOK`, `OneUserPerConnection`, `AnswersMatchRequests`, `LimitExceededOnlyByRace`, `OnlyRecursiveReadLockBlocks` | three goroutines, one node, pools of one connection and no idle one: two race for the first pool while the third waits, times out, or is inside `Get`; six connections are never all open |
| meta_safety | `TypeOK`, `OnlyMovesShareIDs`, `LiveShardsAreOwned`, `LiveGroupsAreDisjoint`, `OwnersKeepTheirShards`, `IDsAreNotReused`, `NewGroupsAreSpread` | two servers that differ by one command, six commands, three data addresses of which two are also meta servers', retention-autocreate on and off, one database, two policies: nodes join, a meta node moves, a group is made, nodes leave until its shards lose all owners; or a policy is altered, renamed, dropped and made again around a group |
| client_safety | `TypeOK`, `NilMeansCommitted`, `ErrorsOnlyWhenCutOff`, `ReadsItsWrites`, `CallsReturn` | two servers, one caller with `maxRetries` 1 and any others' commands up to index 4, one failure, restored snapshots and one local commit: an attempt is lost after its command was committed and repeated at the other server, and the copy goes back between a wait and the read; each disjunct of `ReadsItsWrites` is needed at these bounds |
| tsm_safety | `TypeOK`, `AnsweredIsRecovered`, `ReadsAreCurrent`, `CompactionKeepsValues` | one key, two writes, two deletes, three generations, two sequence numbers, a stale tombstone file under the name of the first compacted file or none, one restart, while the property looks one restart further: snapshots overlap every operation, two files are compacted and their tombstones outlive them |

tsm_safety was also run on one key with two restarts (3.2 million states) and on two keys with one write and one
delete each (2.8 million); both pass, and neither showed a case that the smaller instance does not have.


What the properties say is stated above each of them in the modules.  Deadlock is checked in the queue's runs.  A request of
the points writer ends, and the service can come to rest (it is closed or hangs in `Close`); the goroutines of a pool can stop one
another (`OnlyRecursiveReadLockBlocks` says how), the metadata, the client and the engine have used up their bounds at some point: those
runs switch the check off.

Violated, each a disagreement between the code and a sentence of its own documentation (`findings` in
`PROJECT.json` quotes it):

| Run | Property | What happens |
|---|---|---|
| meta_diverge | `ServersAgree` | two meta servers apply the same `DeleteDataNode` and give an orphaned shard to different nodes |
| tsm_undeleted | `QuietDeletesAreFinal` | a segment that a restart reopened counts as empty, outlives the next snapshot, and brings a deleted point back at the restart after that |

### Known disagreements without a run

The modules state more promises of the code's comments and documentation, all refuted by TLC.  To
see the counterexample, run the module with the constants given here and the one property (`CHECK_DEADLOCK FALSE` where
the module's own `.cfg` says so).

| Property | Module | Constants and specification | What happens |
|---|---|---|---|
| `EventuallyDrained` | MCHHQueue | `Payloads <- PlainPayloads`, MaxSegmentSize 4, MaxSize 10, MaxAge 0, Horizon 0, StartID 0, MaxID 4, MaxHints 3, MaxRestarts 0; FairSpec | the head is read to its end while it is the only segment, and stays when the next append opens a new one: `Current` answers `io.EOF` from then on, until a restart |
| `AckedIsReadable` | MCHHQueue | as above, Horizon 1, MaxHints 2; Spec | after a purge of every segment the tail is a closed file; `Append` turns its error into nil |
| `InOrder` | MCHHQueue | as the first, StartID 9, MaxID 11, MaxHints 4, MaxRestarts 1; Spec | segment 10 is loaded before segment 9 |
| `OneMeansANodeWrote` | MCPointsWriter | those of `PointsWriter_safety.cfg` | a missing shard group counts as an acknowledgement |
| `CloseReturns` | MCHHService | `Writers <- OneWriter`, MaxProcs 1, MaxWrites 1, RetryInterval 1, RetryMaxInterval 2, PurgeInterval 3, LookupErrors TRUE; FairSpec | `NodeProcessor.Close` waits for `run` with the mutex that `run` waits for; `Service.Close` and the purger do the same with the service's mutex |
| `OldHintsArePurged` | MCHHService | the same | the purge timer is restarted before it can fire; with the default intervals `PurgeOlderThan` never runs, so the loss of `AckedIsReadable` needs a purge interval no longer than the retry interval |
| `FewerThanMaxCanGrow` | MCClientPool | those of `ClientPool_safety.cfg` | `put` closes a connection it has no room for without counting it off: a pool with nothing open may refuse to dial for ever |
| `NodeIDsAreUnique` | MCMetaStore | Servers {s1}, DataAddrs and MetaAddrs {a1, a2}, Databases, Users, PolicySpecs, Durations, ReplicaNs and Times {}, Policies {autogen}, AutoSGD 1, RetentionAutoCreate {TRUE}, MaxIndex 6, MaxLag 1; Spec | a meta node and a data node share an address and an ID (`data.go:77`: "these nodes are actually the same so re-use the existing ID"), `SetMetaNode` gives the only meta node another address (`data.go:298`; "hostnames can change", `store.go:470`), and a data node that joins there gets the same ID (`data.go:79`) |
| `CopyNeverGoesBack` | MetaClient | those of `MetaClient_safety.cfg`; FairSpec | the poll waits at a server that is behind; that server's next command wakes it, and the client installs the snapshot although it is older than its copy (`client.go:1315` compares nothing before the assignment; `store.go:181` speaks of "an updated snapshot") |

Others are visible in the actions, or were met in code next to what is modelled:

* `Close` of the points writer makes a request answer `ErrWriteFailed` although owners have stored the points
  (`RequestClosing`; `points_writer.go:61` says "returned when no writes succeeded"), a second `Close` panics (`points_writer.go:170`), and
  a failed local write is not handed to hinted handoff (`points_writer.go:446`);
* the processor of a removed node is never purged, because `meta.Client.DataNode` answers an error for it and the
  purger skips errors (`ToBeRemoved`; `service.go:237`);
* `LastModified` dereferences the file of a segment that a purge closed (`queue.go:624`);
* a replayed hint overwrites points written to the target after the hint was queued;
* `PrecreateShardGroups` returns after the first database (`client.go:887`), and `waitForIndex` never returns once the client is closed;
* the handler of remote iterators calls `Close` on a nil iterator when the request fails (`coordinator/service.go:317`).

### Fairness

* Queue: the sender's timer fires again and again, a stopped process is started again, and a target that is
  retried for ever answers some time (strong fairness of `WriteSucceeds`).  Nothing forces appends, purges or crashes.
* Points writer: goroutines are scheduled, a write to an owner ends because the connection has deadlines
  (`shard_writer.go:85`, `:92`), timers fire.  No write is forced to succeed and no hint to be delivered.
* Service: goroutines are scheduled; a mutex that is free again and again is granted, which `RWMutex` guarantees; a run
  loop whose `done` is closed takes that case of its select.  `Close`, node removal and ageing are left to chance.
* Meta client: the goroutines of the client and of the servers run; a server that fails comes back, elects or accepts a leader and
  applies what is committed, which is what raft provides while a majority lives.  No command is forced to be accepted, and `CallsReturn` is about
  those that were.

## Theorems

All are proved by TLAPS for every value of the constants that satisfies the named assumptions.

**HHQueueProofs.**  `QueueInv` is inductive and implies `TypeOK`, `FilesParse`, `NoStrayFiles` and
`NoOtherLoss`.  None of these is inductive alone: that Advance lands on a block boundary needs the blocks to lie
back to back and `currentSize` of the head to be the length of the block the sender holds (`SenderOK`); that
a trim removes nothing unread needs the list of segments to be the directory (`Listed`); that a new segment's
name is free needs the directory's names to be bounded and the list to be without repetition (`MemoryOK`).  One
lemma per action; the lemmas on adding, removing and rewriting a file carry the set arithmetic.

`DiskSpaceIsBounded` (`DiskBounded`) needs two things the property does not say: the bound must hold for the directory while the queue
is closed, because a restart takes what it finds, and no single file may exceed `MaxSize + 1`, because a crash inside a purge
leaves the last segment beside a new one.  That a file keeps to the second bound rests on the footer of the tail having been
counted when a segment is added.  `diskUsage` is a fold over a set, and the section on sums shows what it computes: the fold's equation has a
solution, which gives natural numbers, does not depend on the order of summation and grows with the set.  Each of these facts is an induction, written
as an argument about a counterexample of least cardinality, because the library's induction theorems take an operator that the provers
cannot instantiate, while `WFMin` (every nonempty set has a minimal element) takes a set.

**PointsWriterProofs.**  `AckIsHonest` (`AckMeetsLevel`) rests on `AckInv`: an answer nil is true (the owner stored the
points, dropped them or, at level ANY, queued them), answers do not change once given, `writeToShard` answers nil only
after it received enough of them, and the request counts only nils.  `applied` and `dropped` grow
later (replays), and the proof shows that no such change uncovers an owner.

**HHServiceProofs.**  `ServiceInv` says who holds `Service.mu` while a processor is closed, that only
the processor in the map has its queue open, and that a run goroutine lives exactly while its queue is open and sends
with its mutex held.  It implies `OneQueuePerDirectory`, `ClosedIsQuiet` and `TypeOK` (a hint is never sent from an
empty queue); with `UsableUnlessPurged` it implies `MapEntryIsUsable`.

**HHQueueOrderProofs.**  `NothingComesBack` (`NoResurrection`) follows from `QueueInv` and a lemma per action about
which hints stay unread.  `HintsAreSentInOrder` (`InOrder`) assumes `MaxID <= 9`: `loadSegments` takes the order of `ReadDir`, which sorts
names as strings, and with segment 10 the property is false (see above).  Its invariant
`OrderInv` adds that hints grow along the directory, within and across files, and that an open queue's tail is the last
of its segments, without which the next hint would not be the greatest.  `QueueImplementsLog` is the refinement of `HandoffLog`, action by
action: the initial states map to its initial state, and every step to one of its steps or to a stutter.  It also assumes `Horizon <= MaxAge`,
nothing ages out, since a purge is no step of the log; `Young` then says that `PurgeOlderThan` finds nothing.

**MetaClientProofs.**  `ClientInv` says that no server is ahead of the log, that the copy and a snapshot on its way come from the log, that
a server which accepted a command has applied it and answers with an index that covers it, and that a command which is sent while
it is in the log was cut off before.  `ReaderOK` is what a caller can rely on after its wait: a copy whose content was caught up then holds the
command at every later moment until the poll installs an older snapshot (`RecordKept` carries this over the steps of others).  It implies
`NilMeansCommitted`, `ErrorsOnlyWhenCutOff` and the action property `ReadsItsWrites`.  `MaxIndex >= 1` is assumed: a log
that can hold nothing is no log.

**ClientPoolProofs.**  `PoolInv` says what a goroutine holds at each place (a connection, the read lock, the announced write lock),
that an answer is on its way exactly on the connections somebody reads from, that a pool counts no fewer connections than it has open,
and that goroutines allowed to dial are counted before they dial.  It implies the run's five invariants; `OnlyDeadlockIsRecursive` shows that the recursive read lock of `dial` is the only way in which
goroutines of any number can stop one another.

**MetaStoreProofs.**  `StoreInv` says that every server's metadata is `MetadataOK`: IDs
are at most the greatest given so far, groups lie on multiples of their policy's shard-group duration (which is why two of them that
differ do not overlap), and every owner is a node; and that, on a server where no meta node has moved away from the data node whose ID it shares, a meta
and a data node with one ID have one address (`SharedIDsOK`, from which `OnlyMovesShareIDs` follows).  Nothing is assumed of the addresses or of retention-autocreate.  One lemma per command shows that it preserves `MetadataOK` and never hands out an ID again, and `CreateShardGroup`'s
round-robin is shown fair through the rank of each node among the next ones.

**TSMEngineProofs.**  `EngineInv` is inductive and implies `TypeOK`.  TypeOK alone is not: that `WAL.Remove` leaves the open segment needs the
snapshot to have closed fewer segments than there are, and that no rename overwrites a file needs the snapshot's generation to be greater than every
file's and the compaction's group to hold all files of its newest generation.  `CompOK` says which files exist at each stage of a
compaction, and that the group is a run of neighbours with the new file just after it; `MergeOK` that the new file has what the group had.
`CompactionsKeepValues` compares the winning file before and after each file operation: after the rename the winner is the same file or, when
it was in the group, the new one; a removed file is never the winner, because the new file comes after it and has every key it has.

`AnsweredOperationsAreRecovered` (`AnsweredIsRecovered`) and `ReadsReturnCurrentValues` (`ReadsAreCurrent`) rest on `RecoveryInv`.  What a restart would find
now, `LogView`, is not kept by itself, because each stage of a snapshot moves values from the log to the files.  The invariant therefore holds four views
of a key to the values it may have: what a restart finds now; what it finds once the snapshot's file is in place and the segments it stands for are
removed (`KeptView`); what a read finds (`CacheView`); and what it finds once the snapshot, now a file, has left the cache (`ClearedView`).  Each step of `WriteSnapshot` turns one
view into another.  `Progress` says how far an operation has come: its entry is in the current segment while it waits for the fsync, a write is in the cache before
it is logged, and a delete has emptied the cache and marked the files unless a snapshot holds the key.  `VersionsOK` says that nothing is newer than
the last write, so that a key about which the model gives up its claim (the exceptions above) still has only values that were written.  `ReaderOK`
follows a read between its look at the cache and its look at the files: what it missed in the cache may be a file by then, so the values now in the
cache must be acceptable to it as well.  Every view is shown for every value the files may show, which
covers the steps of a compaction through `CompactionsKeepValues`.  `RecoveryInv` was checked by TLC at the bounds of tsm_safety (2.6 million states) before it was proved.

Sets of names and positions get their newest element from a least-counterexample argument (`WFMin`), in place of an induction.  `MaxSeq >= 1` is
assumed, since snapshots are written with sequence number 1, and `KeysAssumption`: the mark of a torn log entry is no key.

Looking for the invariant of `TSMEngine` showed that `CompactionKeepsValues` had held for its bounds only: with a stale tombstone file under the name of a
compacted file a key vanishes at the rename.  The model now starts with such files (`Leftover`), and the exception is named.

Only model-checked: the liveness properties `EventuallyHandled`, `GoroutinesFinish`, `NoOwnerIsForgotten`, `WritesReturn` and `CallsReturn`, which rest on
fairness and `ENABLED`, beyond this prover.  Every invariant, action property and refinement of a passing run is stated by a theorem;
`InOrder` and `ImplementsLog` with the assumptions named above.

## Not modelled

* Torn appends and I/O errors inside the hinted-handoff queue: an append that dies between its three writes leaves payload where
  the footer is expected.  `queue.SetMaxSegmentSize` and `queue.Remove` are called by tests only.
* The values of points in the write path, so a replayed hint that overwrites newer points is not visible there.
* `MapShards`, subscribers, the timers of retention and precreation (their effects are commands of `MetaData`), continuous queries,
  the remote query handlers.
* Metadata: continuous queries, subscriptions, password hashes, the admin flag, `SetData`, commands of servers before 0.10.  `UpdateRetentionPolicy`
  drops the shard-group duration in the state machine (`store_fsm.go:320`), so groups cannot overlap by that route.
* Raft itself, joining and leaving the raft group, leases, authentication.
* Storage engine: the series indexes, field types, the cache's size limit, several compactions at once, the contents and sizes of blocks,
  backups.  A key has one client at a time.
* The query engine and languages, input protocols, HTTP, commands: evaluation and parsing without shared state.  They are most of the
  repository's lines.  `src/influxdb-1.8.4` is the upstream release kept for comparison and not part of the program.

## Plan

1. `HandoffLog`, `HHQueue`, `PointsWriter`, `HHService` with runs and proofs (done).
2. `MetaData`, `MetaStore`, `MetaClient`, `ClientPool`, `TSMEngine` with runs (done).
3. Theorems about `ClientPool`, `MetaClient`, `MetaStore`, `TSMEngine`, the order of hints and the refinement of `HandoffLog` (done).
4. Theorems about recovery and reads of `TSMEngine` and about the queue's space on disk (done).
5. Torn appends in `HHQueue`; retention and precreation on top of `MetaData`; `MapShards` in front of `PointsWriter`.
