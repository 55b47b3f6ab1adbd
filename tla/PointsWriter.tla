---------------------------- MODULE PointsWriter ----------------------------
(***************************************************************************)
(* One WritePoints request on the coordinating node                        *)
(* (coordinator/points_writer.go), from the moment MapShards has split the *)
(* points by shard.  WritePointsPrivileged starts one goroutine per shard, *)
(* writeToShard starts one per owner of the shard, and both collect the    *)
(* answers from a buffered channel, racing a timer and Close.  Owners are  *)
(* written locally (tsdb.Store) or remotely (coordinator/shard_writer.go); *)
(* a remote failure is handed to hinted handoff, which may deliver the     *)
(* hint (Replay, ReplayFails), lose it (HintLost) or keep it for ever:     *)
(* HHQueue shows when.                                                     *)
(*                                                                         *)
(* A write to one owner of one shard is a pair <<s, o>>.                   *)
(***************************************************************************)
EXTENDS Integers, Sequences, FiniteSets

CONSTANTS
  Nodes,      \* the data nodes
  Local,      \* the node that coordinates the request
  Shards,     \* the shards the points were mapped to; with none WritePoints returns at once
  Owners,     \* shard -> the nodes that own it
  Levels      \* the consistency levels a client may ask for

ASSUME ClusterAssumption == /\ IsFiniteSet(Nodes) /\ IsFiniteSet(Shards) /\ Shards # {}
                            /\ Owners \in [Shards -> SUBSET Nodes]
ASSUME LevelsAssumption == Levels \subseteq {"any", "one", "quorum", "all"}

VARIABLES
  level,      \* the consistency level of the request
  known,      \* shard -> whether the metadata still holds its shard group
  stored,     \* the shards the local store has created
  task,       \* pair -> where the owner's goroutine is
  answer,     \* pair -> what the owner's goroutine sends: "nil" or "error"
  ch,         \* shard -> the answers in the channel of writeToShard
  received,   \* shard -> the owners whose answer writeToShard has received
  ret,        \* shard -> what writeToShard returned, "none" before
  reqCh,      \* the shards whose writeToShard result WritePoints has not received
  reqGot,     \* the shards whose result WritePoints has received
  reqRet,     \* what WritePoints returned, "none" before
  closing,    \* whether PointsWriter.Close was called
  applied,    \* pairs whose points the owner has stored
  dropped,    \* pairs discarded because the shard's group is gone
  hinted,     \* pairs hinted handoff has taken, whatever became of them since
  waiting,    \* pairs whose hint is in the queue
  refused     \* pairs a node rejected for good or hinted handoff did not take

fate == <<applied, dropped, hinted, waiting, refused>>
vars == <<level, known, stored, task, answer, ch, received, ret,
          reqCh, reqGot, reqRet, closing, applied, dropped, hinted, waiting, refused>>

Pairs == {p \in Shards \X Nodes : p[2] \in Owners[p[1]]}
IsLocal(p) == p[2] = Local

\* The number of owners that must answer nil, of n owners.
Required(n) ==
  IF level \in {"any", "one"} THEN 1 ELSE IF level = "quorum" THEN n \div 2 + 1 ELSE n

-----------------------------------------------------------------------------
Init ==
  /\ level \in Levels
  /\ known = [s \in Shards |-> TRUE]
  /\ stored \in SUBSET {s \in Shards : Local \in Owners[s]}
  /\ task = [p \in Pairs |-> "write"]
  /\ answer = [p \in Pairs |-> "none"]
  /\ ch = [s \in Shards |-> << >>]
  /\ received = [s \in Shards |-> {}]
  /\ ret = [s \in Shards |-> "none"]
  /\ reqCh = << >>
  /\ reqGot = {}
  /\ reqRet = "none"
  /\ closing = FALSE
  /\ applied = {} /\ dropped = {} /\ hinted = {} /\ waiting = {} /\ refused = {}

\* The goroutine of pair p has its answer and goes on to send it.
Answer(p, a) ==
  /\ answer' = [answer EXCEPT ![p] = a]
  /\ task' = [task EXCEPT ![p] = "send"]

collectors == <<level, ch, received, ret, reqCh, reqGot, reqRet, closing>>

-----------------------------------------------------------------------------
(* The goroutine of an owner that is the coordinating node *)

LocalWrite(p) ==
  /\ task[p] \in {"write", "rewrite"} /\ IsLocal(p)
  /\ p[1] \in stored
  /\ applied' = applied \cup {p}
  /\ Answer(p, "nil")
  /\ UNCHANGED <<collectors, known, stored, dropped, hinted, waiting, refused>>

\* ErrShardNotFound on the first attempt: create the shard and try again.
LocalMissing(p) ==
  /\ task[p] = "write" /\ IsLocal(p)
  /\ p[1] \notin stored
  /\ task' = [task EXCEPT ![p] = "create"]
  /\ UNCHANGED <<collectors, known, stored, answer, fate>>

LocalCreate(p) ==
  /\ task[p] = "create"
  /\ stored' = stored \cup {p[1]}
  /\ task' = [task EXCEPT ![p] = "rewrite"]
  /\ UNCHANGED <<collectors, known, answer, fate>>

\* CreateShard or WriteToShard fails, or the shard vanished again: the error is
\* the answer, and a local failure is never handed to hinted handoff.
LocalFails(p) ==
  /\ task[p] \in {"write", "create", "rewrite"} /\ IsLocal(p)
  /\ refused' = refused \cup {p}
  /\ Answer(p, "error")
  /\ UNCHANGED <<collectors, known, stored, applied, dropped, hinted, waiting>>

-----------------------------------------------------------------------------
(* The goroutine of a remote owner: ShardWriter.WriteShard, then hinted handoff *)

\* The remote node stored the points and its answer arrived.
RemoteWrite(p) ==
  /\ task[p] = "write" /\ ~IsLocal(p)
  /\ known[p[1]]
  /\ applied' = applied \cup {p}
  /\ Answer(p, "nil")
  /\ UNCHANGED <<collectors, known, stored, dropped, hinted, waiting, refused>>

\* ShardOwner does not find the shard's group: the request is dropped, with nil.
RemoteDropped(p) ==
  /\ task[p] = "write" /\ ~IsLocal(p)
  /\ ~known[p[1]]
  /\ dropped' = dropped \cup {p}
  /\ Answer(p, "nil")
  /\ UNCHANGED <<collectors, known, stored, applied, hinted, waiting, refused>>

\* A retryable error: no connection, a timeout, a remote failure.  The points may
\* have been stored before the answer was lost.
RemoteFails(p) ==
  /\ task[p] = "write" /\ ~IsLocal(p)
  /\ \/ UNCHANGED applied
     \/ known[p[1]] /\ applied' = applied \cup {p}
  /\ task' = [task EXCEPT ![p] = "hint"]
  /\ UNCHANGED <<collectors, known, stored, answer, dropped, hinted, waiting, refused>>

\* A field type conflict, which tsdb.IsRetryable excludes from hinted handoff.
RemoteRejects(p) ==
  /\ task[p] = "write" /\ ~IsLocal(p)
  /\ known[p[1]]
  /\ refused' = refused \cup {p}
  /\ Answer(p, "error")
  /\ UNCHANGED <<collectors, known, stored, applied, dropped, hinted, waiting>>

HintAnswerAlwaysNil == "nil"

HintAnswerOfItsOwn == "hinted"

\* Only at consistency level ANY does a queued hint count as a write.
HintAnswer == IF level = "any" THEN "nil" ELSE "error"

HintWhileAwaited(p) ==
  /\ task[p] = "hint"
  /\ IF ret[p[1]] = "none"
     THEN hinted' = hinted \cup {p} /\ waiting' = waiting \cup {p}
     ELSE UNCHANGED <<hinted, waiting>>
  /\ Answer(p, HintAnswer)
  /\ UNCHANGED <<collectors, known, stored, applied, dropped, refused>>

Hint(p) ==
  /\ task[p] = "hint"
  /\ hinted' = hinted \cup {p}
  /\ waiting' = waiting \cup {p}
  /\ Answer(p, HintAnswer)
  /\ UNCHANGED <<collectors, known, stored, applied, dropped, refused>>

\* Hinted handoff is disabled, full or closed: its error is the answer.
HintRefused(p) ==
  /\ task[p] = "hint"
  /\ refused' = refused \cup {p}
  /\ Answer(p, "error")
  /\ UNCHANGED <<collectors, known, stored, applied, dropped, hinted, waiting>>

ChannelCapOne(s) == 1

ChannelCap(s) == Cardinality(Owners[s])

\* The answer goes into the channel of writeToShard, which has room for one
\* answer per owner, whether or not anybody still receives.
SendAnswer(p) ==
  /\ task[p] = "send"
  /\ Len(ch[p[1]]) < ChannelCap(p[1])
  /\ ch' = [ch EXCEPT ![p[1]] = Append(@, p)]
  /\ task' = [task EXCEPT ![p] = "done"]
  /\ UNCHANGED <<level, known, stored, answer, received, ret, reqCh, reqGot,
                 reqRet, closing, fate>>

-----------------------------------------------------------------------------
(* writeToShard collects the owners' answers *)

Wrote(s, got) == {o \in got : answer[<<s, o>>] = "nil"}

\* The goroutine of shard s ends writeToShard with r and sends r to WritePoints.
ReturnShard(s, r) ==
  /\ ret' = [ret EXCEPT ![s] = r]
  /\ reqCh' = Append(reqCh, s)

FinalResultNeverPartial(s, got) == "error"

\* What writeToShard returns when every owner answered and too few wrote.
FinalResult(s, got) == IF Wrote(s, got) # {} THEN "partial" ELSE "error"

taskVars == <<known, stored, task, answer, fate>>

Receive(s) ==
  /\ ret[s] = "none"
  /\ ch[s] # << >>
  /\ ch' = [ch EXCEPT ![s] = Tail(@)]
  /\ LET o   == Head(ch[s])[2]
         got == received[s] \cup {o}
     IN  /\ received' = [received EXCEPT ![s] = got]
         /\ IF answer[<<s, o>>] = "nil" /\ Cardinality(Wrote(s, got)) >= Required(Cardinality(Owners[s]))
            THEN ReturnShard(s, "nil")
            ELSE IF got = Owners[s]
                 THEN ReturnShard(s, FinalResult(s, got))
                 ELSE UNCHANGED <<ret, reqCh>>
  /\ UNCHANGED <<level, taskVars, reqGot, reqRet, closing>>

\* A shard without owners: there is nothing to wait for.
NoOwners(s) ==
  /\ ret[s] = "none"
  /\ Owners[s] = {}
  /\ ReturnShard(s, "failed")
  /\ UNCHANGED <<level, taskVars, ch, received, reqGot, reqRet, closing>>

ShardTimeout(s) ==
  /\ ret[s] = "none"
  /\ Owners[s] # {}
  /\ ReturnShard(s, "timeout")
  /\ UNCHANGED <<level, taskVars, ch, received, reqGot, reqRet, closing>>

ShardClosing(s) ==
  /\ ret[s] = "none"
  /\ Owners[s] # {}
  /\ closing
  /\ ReturnShard(s, "failed")
  /\ UNCHANGED <<level, taskVars, ch, received, reqGot, reqRet, closing>>

-----------------------------------------------------------------------------
(* WritePointsPrivileged collects the shards' results *)

\* The first error is returned at once; after the last shard WritePoints returns
\* nil, or the error for points that MapShards left out as beyond the retention
\* policy.
ReceiveShard ==
  /\ reqRet = "none"
  /\ reqCh # << >>
  /\ reqCh' = Tail(reqCh)
  /\ LET s == Head(reqCh)
     IN  /\ reqGot' = reqGot \cup {s}
         /\ IF ret[s] # "nil"
            THEN reqRet' = ret[s]
            ELSE IF reqGot' = Shards THEN reqRet' \in {"nil", "beyond"} ELSE UNCHANGED reqRet
  /\ UNCHANGED <<level, taskVars, ch, received, ret, closing>>

RequestTimeout ==
  /\ reqRet = "none"
  /\ reqRet' = "timeout"
  /\ UNCHANGED <<level, taskVars, ch, received, ret, reqCh, reqGot, closing>>

RequestClosing ==
  /\ reqRet = "none"
  /\ closing
  /\ reqRet' = "failed"
  /\ UNCHANGED <<level, taskVars, ch, received, ret, reqCh, reqGot, closing>>

-----------------------------------------------------------------------------
(* The rest of the node, and the hinted-handoff service *)

Close ==
  /\ ~closing
  /\ closing' = TRUE
  /\ UNCHANGED <<level, taskVars, ch, received, ret, reqCh, reqGot, reqRet>>

\* The shard's group is deleted from the metadata this node holds.
DeleteShardGroup(s) ==
  /\ known[s]
  /\ known' = [known EXCEPT ![s] = FALSE]
  /\ UNCHANGED <<collectors, stored, task, answer, fate>>

\* The retention service then removes the shard from the local store.
DeleteShard(s) ==
  /\ ~known[s] /\ s \in stored
  /\ stored' = stored \ {s}
  /\ UNCHANGED <<collectors, known, task, answer, fate>>

\* Hinted handoff sends the hint and goes on to the next one; ShardWriter drops
\* the points, with nil, if the group is gone.
Replay(p) ==
  /\ p \in waiting
  /\ waiting' = waiting \ {p}
  /\ IF known[p[1]]
     THEN applied' = applied \cup {p} /\ UNCHANGED dropped
     ELSE dropped' = dropped \cup {p} /\ UNCHANGED applied
  /\ UNCHANGED <<collectors, known, stored, task, answer, hinted, refused>>

\* The replay ends with an error, of whatever kind: the hint stays at the head of
\* the queue, although the node may have stored the points.
ReplayFails(p) ==
  /\ p \in waiting
  /\ known[p[1]]
  /\ applied' = applied \cup {p}
  /\ UNCHANGED <<collectors, known, stored, task, answer, dropped, hinted, waiting, refused>>

\* The hint leaves the queue undelivered: it grew older than MaxAge, went into the
\* closed tail, could not be unmarshalled, or its node's processor was purged.
HintLost(p) ==
  /\ p \in waiting
  /\ waiting' = waiting \ {p}
  /\ UNCHANGED <<collectors, known, stored, task, answer, applied, dropped, hinted, refused>>

-----------------------------------------------------------------------------
OwnerTask(p) ==
  \/ LocalWrite(p) \/ LocalMissing(p) \/ LocalCreate(p) \/ LocalFails(p)
  \/ RemoteWrite(p) \/ RemoteDropped(p) \/ RemoteFails(p) \/ RemoteRejects(p)
  \/ Hint(p) \/ HintRefused(p) \/ SendAnswer(p)

Collect(s) == Receive(s) \/ NoOwners(s) \/ ShardTimeout(s) \/ ShardClosing(s)

Handoff(p) == Replay(p) \/ ReplayFails(p) \/ HintLost(p)

Request == ReceiveShard \/ RequestTimeout \/ RequestClosing

Next ==
  \/ \E p \in Pairs : OwnerTask(p) \/ Handoff(p)
  \/ \E s \in Shards : Collect(s) \/ DeleteShardGroup(s) \/ DeleteShard(s)
  \/ Request
  \/ Close

Spec == Init /\ [][Next]_vars

(* Fairness: goroutines are scheduled, every write to an owner ends because the
   connection has read and write deadlines, and timers fire.  Nothing forces a
   write to succeed, an answer to arrive before the timers, or a hint to be
   delivered. *)
Fairness ==
  /\ \A p \in Pairs : WF_vars(OwnerTask(p))
  /\ \A s \in Shards : WF_vars(Collect(s))
  /\ WF_vars(Request)

FairSpec == Spec /\ Fairness

-----------------------------------------------------------------------------
(* Properties *)

Results == {"none", "nil", "partial", "error", "failed", "timeout"}

\* Every variable has its type.
TypeOK ==
  /\ level \in Levels /\ closing \in BOOLEAN
  /\ known \in [Shards -> BOOLEAN]
  /\ stored \subseteq Shards
  /\ task \in [Pairs -> {"write", "create", "rewrite", "hint", "send", "done"}]
  /\ answer \in [Pairs -> {"none", "nil", "error"}]
  /\ ch \in [Shards -> Seq(Pairs)]
  /\ received \in [Shards -> SUBSET Nodes]
  /\ ret \in [Shards -> Results]
  /\ reqCh \in Seq(Shards) /\ reqGot \subseteq Shards
  /\ reqRet \in Results \cup {"beyond"}
  /\ applied \subseteq Pairs /\ dropped \subseteq Pairs
  /\ hinted \subseteq Pairs /\ waiting \subseteq hinted /\ refused \subseteq Pairs

\* The owners of s that really hold the points, had them queued by hinted handoff,
\* or have no shard to hold them in any more.
Covered(s, queued) ==
  {o \in Owners[s] : <<s, o>> \in applied \cup dropped \cup (IF queued THEN hinted ELSE {})}

\* What the consistency levels mean for k of n owners (points_writer.go:40-50).
LevelMet(k, n) ==
  /\ level \in {"any", "one"} => k >= 1
  /\ level = "quorum" => 2 * k > n
  /\ level = "all" => k = n

\* A request answered with nil has met its consistency level on EVERY shard:
\* that many owners stored the points (or dropped them with their shard), and
\* only at level ANY do hints count, from when they were queued.
AckMeetsLevel ==
  reqRet \in {"nil", "beyond"} =>
    \A s \in Shards :
      LevelMet(Cardinality(Covered(s, level = "any")), Cardinality(Owners[s]))

\* writeToShard reports a partial write, or a failed one, only when every owner
\* answered, and the two are told apart by whether anyone wrote.
VerdictIsExact ==
  \A s \in Shards :
    LET answered == {o \in Owners[s] : answer[<<s, o>>] # "none"}
        wrote    == Cardinality(Wrote(s, Owners[s]))
    IN  /\ ret[s] \in {"partial", "error"} => answered = Owners[s]
        /\ ret[s] = "partial" => 0 < wrote /\ ~LevelMet(wrote, Cardinality(Owners[s]))
        /\ ret[s] = "error" => wrote = 0

\* "ConsistencyLevelOne requires at least one data node acknowledged a write"
\* (points_writer.go:43): a node, and not the sender's own metadata.
OneMeansANodeWrote ==
  (reqRet = "nil" /\ level = "one") => \A s \in Shards : \E o \in Owners[s] : <<s, o>> \in applied

\* No goroutine outlives its write: after a timeout or Close nobody receives any
\* more, and the owners' goroutines still finish.
GoroutinesFinish == <>[](\A p \in Pairs : task[p] = "done")

\* No remote owner is forgotten: also of a request that was answered early, with a
\* timeout or with an error, every remote owner's write is in the end stored,
\* dropped with its shard, refused by the node or by hinted handoff, or it was handed
\* to hinted handoff.  What hinted handoff then does with it is HHQueue's part.
NoOwnerIsForgotten ==
  <>[](\A p \in Pairs : ~IsLocal(p) => p \in applied \cup dropped \cup refused \cup hinted)

=============================================================================
