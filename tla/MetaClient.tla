----------------------------- MODULE MetaClient -----------------------------
(***************************************************************************)
(* The meta client of a data node and the handlers it talks to             *)
(* (services/meta/client.go, handler.go, store.go).  The client keeps a    *)
(* copy of the metadata, which one goroutine refreshes by long polling     *)
(* (pollForUpdates), while callers send commands to the meta servers and   *)
(* wait until the copy has caught up with them (retryUntilExec); then they *)
(* read in it what they have made.                                         *)
(*                                                                         *)
(* What a command does is abstracted: the metadata at an index is the      *)
(* prefix of the raft log up to it.  Each caller has one command, which    *)
(* fails when it is applied a second time (CreateDataNode, CreateUser).    *)
(* Commands of other clients are made by the caller Other.                 *)
(***************************************************************************)
EXTENDS Naturals, Sequences, FiniteSets

CONSTANTS
    N,         \* number of meta servers; metaServers lists 1 .. N
    Callers,   \* goroutines inside retryUntilExec
    Other,     \* everybody else's commands
    MaxIndex,  \* bound on the raft index
    maxRetries,
    MaxFails,  \* bound on failures of servers
    MaxLocal   \* bound on commits to the copy alone

ASSUME MetaClientAssumption ==
    /\ N \in Nat \ {0} /\ MaxIndex \in Nat \ {0} /\ maxRetries \in Nat
    /\ MaxFails \in Nat /\ MaxLocal \in Nat
    /\ IsFiniteSet(Callers) /\ Other \notin Callers

Servers == 1 .. N
None == 0

VARIABLES
    log,     \* committed commands, by caller; log[i] has index i + 1
    applied, \* server -> store.data.Index
    up,      \* servers that answer
    leader,  \* the raft leader, or None
    fails,   \* failures so far
    restored,\* servers that raft gave a snapshot while they ran
    cache,   \* cacheData: its Index, and the index of the snapshot it came from
    local,   \* commits to the copy so far
    poll,    \* the request of pollForUpdates
    call,    \* caller -> where it is in retryUntilExec, and (history) whether an
             \* attempt was cut off from its outcome, whether the copy held local
             \* commits when the wait ended, and whether it went back after that
    closed   \* Client.closing

servers == <<log, applied, up, leader, fails, restored>>
vars == <<servers, cache, local, poll, call, closed>>

Committed == Len(log) + 1
InCopy(c) == \E i \in 1 .. cache.base - 1 : log[i] = c
InLog(c) == \E i \in DOMAIN log : log[i] = c
NextServer(s) == IF s = N THEN 1 ELSE s + 1

Init ==
    /\ log = <<>>
    /\ applied = [s \in Servers |-> 1]
    /\ up = Servers
    /\ leader = 1
    /\ fails = 0
    /\ restored = {}
    /\ cache = [index |-> 1, base |-> 1]
    /\ local = 0
    /\ poll = [at |-> "idle", server |-> 1, index |-> 1, snapshot |-> None]
    /\ call = [c \in Callers |->
                  [at |-> "idle", current |-> 1, server |-> 1, tries |-> 0,
                   index |-> None, cut |-> FALSE, early |-> FALSE, back |-> FALSE]]
    /\ closed = FALSE

-----------------------------------------------------------------------------
(* Meta servers                                                            *)

SignalNobody(s) == UNCHANGED poll

\* storeFSM.Apply closes dataChanged: a poll that waits here is answered.
Signal(s) ==
    poll' = IF poll.at = "waiting" /\ poll.server = s
            THEN [poll EXCEPT !.at = "signalled"] ELSE poll

Apply(s) ==
    /\ s \in up
    /\ applied[s] < Committed
    /\ applied' = [applied EXCEPT ![s] = @ + 1]
    /\ Signal(s)
    /\ UNCHANGED <<log, up, leader, fails, restored, cache, local, call, closed>>

\* storeFSM.Restore, in a server that is running: nobody is told.
Restore(s) ==
    /\ s \in up
    /\ applied[s] < Committed
    /\ applied' = [applied EXCEPT ![s] = Committed]
    /\ restored' = restored \cup {s}
    /\ UNCHANGED <<log, up, leader, fails, cache, local, poll, call, closed>>

\* raft: the leader commits a command of another client.
CommitOther ==
    /\ leader # None /\ applied[leader] = Committed /\ Committed < MaxIndex
    /\ log' = Append(log, Other)
    /\ applied' = [applied EXCEPT ![leader] = @ + 1]
    /\ Signal(leader)
    /\ UNCHANGED <<up, leader, fails, restored, cache, local, call, closed>>

Fail(s) ==
    /\ s \in up
    /\ fails < MaxFails
    /\ up' = up \ {s}
    /\ leader' = IF leader = s THEN None ELSE leader
    /\ fails' = fails + 1
    /\ UNCHANGED <<log, applied, restored, cache, local, poll, call, closed>>

Recover(s) ==
    /\ s \notin up
    /\ up' = up \cup {s}
    /\ UNCHANGED <<log, applied, leader, fails, restored, cache, local, poll, call, closed>>

Elect(s) ==
    /\ leader = None
    /\ s \in up
    /\ leader' = s
    /\ UNCHANGED <<log, applied, up, fails, restored, cache, local, poll, call, closed>>

-----------------------------------------------------------------------------
(* pollForUpdates, retryUntilSnapshot, serveSnapshot                       *)

\* Every poll starts with the first server, and with the index of the copy.
Poll ==
    /\ poll.at = "idle"
    /\ poll' = IF closed THEN [poll EXCEPT !.at = "off"]
               ELSE [at |-> "asking", server |-> 1, index |-> cache.index, snapshot |-> None]
    /\ UNCHANGED <<servers, cache, local, call, closed>>

\* afterIndex: a client that is behind is answered at once.
AfterIndex ==
    /\ poll.at = "asking"
    /\ poll.server \in up
    /\ poll' = [poll EXCEPT !.at = IF poll.index < applied[poll.server]
                                   THEN "signalled" ELSE "waiting"]
    /\ UNCHANGED <<servers, cache, local, call, closed>>

\* serveSnapshot takes the snapshot after it was signalled.
ServeSnapshot ==
    /\ poll.at = "signalled"
    /\ poll.server \in up
    /\ poll' = [poll EXCEPT !.at = "answered", !.snapshot = applied[poll.server]]
    /\ UNCHANGED <<servers, cache, local, call, closed>>

\* The server does not answer: the next one is asked, unless the client is closed.
PollFails ==
    /\ poll.at \in {"asking", "waiting", "signalled"}
    /\ poll.server \notin up
    /\ poll' = IF closed THEN [poll EXCEPT !.at = "off"]
               ELSE [poll EXCEPT !.at = "asking", !.server = NextServer(@)]
    /\ UNCHANGED <<servers, cache, local, call, closed>>

\* The snapshot replaces the copy, whatever the index of either.
CacheUpdate(snapshot) == cache' = [index |-> snapshot, base |-> snapshot]

\* A server that is behind the client is signalled, and answers, before it has
\* caught up.
GoesBack == poll.snapshot < cache.base

Update ==
    /\ poll.at = "answered"
    /\ CacheUpdate(poll.snapshot)
    /\ poll' = [poll EXCEPT !.at = "idle", !.snapshot = None]
    /\ call' = [c \in Callers |->
                   [call[c] EXCEPT !.back = @ \/ (call[c].at = "read" /\ GoesBack)]]
    /\ UNCHANGED <<servers, local, closed>>

\* commit, for DropShard, TruncateShardGroups and PruneShardGroups: the copy
\* changes and its index moves, but no meta server hears of it.
CommitLocally ==
    /\ local < MaxLocal
    /\ local' = local + 1
    /\ cache' = [cache EXCEPT !.index = @ + 1]
    /\ UNCHANGED <<servers, poll, call, closed>>

Close ==
    /\ ~closed
    /\ closed' = TRUE
    /\ UNCHANGED <<servers, cache, local, poll, call>>

-----------------------------------------------------------------------------
(* retryUntilExec, exec, serveExec                                         *)

Begin(c) ==
    /\ call[c].at = "idle"
    /\ call' = [call EXCEPT ![c].at = "try"]
    /\ UNCHANGED <<servers, cache, local, poll, closed>>

\* A closed client answers nil.
GiveUp(c) ==
    /\ call[c].at = "try"
    /\ closed
    /\ call' = [call EXCEPT ![c].at = "read"]
    /\ UNCHANGED <<servers, cache, local, poll, closed>>

Send(c) ==
    /\ call[c].at = "try"
    /\ ~closed
    /\ call' = [call EXCEPT ![c].at = "sent"]
    /\ UNCHANGED <<servers, cache, local, poll, closed>>

RetriedForEver(k) ==
    LET next == NextServer(k.current)
    IN  [k EXCEPT !.tries = @ + 1, !.current = next, !.server = next, !.at = "try"]

\* An attempt ended with an error other than errCommand: on to the server that
\* follows the last one in metaServers, not the one redirected to.
Retried(k) ==
    LET next == NextServer(k.current)
    IN  [k EXCEPT !.tries = @ + 1, !.current = next, !.server = next,
                  !.at = IF k.tries + 1 > maxRetries THEN "failed" ELSE "try"]

\* The server is down or knows no leader.
ExecFails(c) ==
    /\ call[c].at = "sent"
    /\ call[c].server \notin up \/ leader = None
    /\ call' = [call EXCEPT ![c] = Retried(@)]
    /\ UNCHANGED <<servers, cache, local, poll, closed>>

\* The server answers with a redirection to the leader, which http.Post follows,
\* body and all, without the client's knowing (so errRedirect is never seen).
ExecRedirected(c) ==
    /\ call[c].at = "sent"
    /\ call[c].server \in up
    /\ leader \notin {None, call[c].server}
    /\ call' = [call EXCEPT ![c].server = leader]
    /\ UNCHANGED <<servers, cache, local, poll, closed>>

\* The leader commits and applies the command.
ExecApplied(c) ==
    /\ call[c].at = "sent"
    /\ call[c].server \in up /\ leader = call[c].server
    /\ applied[leader] = Committed /\ Committed < MaxIndex
    /\ log' = Append(log, c)
    /\ applied' = [applied EXCEPT ![leader] = @ + 1]
    /\ Signal(leader)
    /\ call' = [call EXCEPT ![c].at = IF InLog(c) THEN "refused" ELSE "accepted"]
    /\ UNCHANGED <<up, leader, fails, restored, cache, local, closed>>

ExecLeadershipLostUnnoticed(c) ==
    /\ call[c].at = "sent"
    /\ call[c].server \in up /\ leader = call[c].server
    /\ fails < MaxFails /\ Committed < MaxIndex
    /\ fails' = fails + 1
    /\ leader' = None
    /\ log' \in {log, Append(log, c)}
    /\ call' = [call EXCEPT ![c].at = "accepted"]
    /\ UNCHANGED <<applied, up, restored, cache, local, poll, closed>>

\* The leader loses its leadership while it waits for the commit, which may
\* still happen; that error is passed to the client as the command's own.
ExecLeadershipLost(c) ==
    /\ call[c].at = "sent"
    /\ call[c].server \in up /\ leader = call[c].server
    /\ fails < MaxFails /\ Committed < MaxIndex
    /\ fails' = fails + 1
    /\ leader' = None
    /\ log' \in {log, Append(log, c)}
    /\ call' = [call EXCEPT ![c].at = "error", ![c].cut = TRUE]
    /\ UNCHANGED <<applied, up, restored, cache, local, poll, closed>>

IndexBefore(s) == applied[s] - 1
IndexNow(s) == applied[s]

\* The answer carries the index the server has by then.
Answer(c) ==
    /\ call[c].at = "accepted"
    /\ call[c].server \in up
    /\ call' = [call EXCEPT ![c].at = "wait", ![c].index = IndexNow(call[c].server)]
    /\ UNCHANGED <<servers, cache, local, poll, closed>>

AnswerError(c) ==
    /\ call[c].at = "refused"
    /\ call[c].server \in up
    /\ call' = [call EXCEPT ![c].at = "error"]
    /\ UNCHANGED <<servers, cache, local, poll, closed>>

\* The connection breaks first.
AnswerLost(c) ==
    /\ call[c].at \in {"accepted", "refused"}
    /\ call[c].server \notin up
    /\ call' = [call EXCEPT ![c] = [Retried(@) EXCEPT !.cut = TRUE]]
    /\ UNCHANGED <<servers, cache, local, poll, closed>>

\* waitForIndex: woken by every change of the copy, done when the index is there.
CaughtUp(c) == cache.index >= call[c].index

WaitForIndexAndRetry(c) ==
    /\ call[c].at = "wait"
    /\ CaughtUp(c)
    /\ call' = [call EXCEPT ![c].at = "try"]
    /\ UNCHANGED <<servers, cache, local, poll, closed>>

WaitForIndex(c) ==
    /\ call[c].at = "wait"
    /\ CaughtUp(c)
    /\ call' = [call EXCEPT ![c].at = "read", ![c].early = cache.index > cache.base]
    /\ UNCHANGED <<servers, cache, local, poll, closed>>

\* retryUntilExec has returned nil and the lock is free: the caller takes it again
\* and reads in the copy what it has made (CreateShardGroup, CreateDataNode).
ReadCopy(c) ==
    /\ call[c].at = "read"
    /\ call' = [call EXCEPT ![c].at = "ok"]
    /\ UNCHANGED <<servers, cache, local, poll, closed>>

-----------------------------------------------------------------------------
ServerSteps == \E s \in Servers : Apply(s) \/ Restore(s) \/ Fail(s) \/ Recover(s) \/ Elect(s)
PollSteps == Poll \/ AfterIndex \/ ServeSnapshot \/ PollFails \/ Update
CallSteps(c) ==
    \/ GiveUp(c) \/ Send(c) \/ ExecFails(c) \/ ExecRedirected(c) \/ ExecApplied(c)
    \/ ExecLeadershipLost(c) \/ Answer(c) \/ AnswerError(c) \/ AnswerLost(c)
    \/ WaitForIndex(c) \/ ReadCopy(c)

Next ==
    \/ ServerSteps
    \/ CommitOther
    \/ PollSteps
    \/ CommitLocally
    \/ Close
    \/ \E c \in Callers : Begin(c) \/ CallSteps(c)

Spec == Init /\ [][Next]_vars

\* Goroutines run, servers that fail come back, elect a leader and catch up.
Fairness ==
    /\ WF_vars(PollSteps)
    /\ \A c \in Callers : WF_vars(CallSteps(c))
    /\ \A s \in Servers : WF_vars(Apply(s)) /\ WF_vars(Recover(s)) /\ WF_vars(Elect(s))

FairSpec == Spec /\ Fairness

-----------------------------------------------------------------------------
TypeOK ==
    /\ log \in Seq(Callers \cup {Other}) /\ Committed <= MaxIndex
    /\ applied \in [Servers -> 1 .. Committed]
    /\ up \subseteq Servers /\ leader \in up \cup {None}
    /\ cache.base \in 1 .. Committed /\ cache.index >= cache.base
    /\ poll.server \in Servers /\ poll.snapshot \in 0 .. Committed
    /\ \A c \in Callers :
          /\ call[c].tries \in 0 .. maxRetries + 1
          /\ call[c].at = "wait" => call[c].index \in 2 .. Committed

\* A caller that is told nil has had its command committed, on this attempt or
\* on an earlier one; only a client that is closed says nil without it
\* (retryUntilExec).
NilMeansCommitted ==
    \A c \in Callers : call[c].at \in {"wait", "read", "ok"} => InLog(c) \/ closed

\* The first caller of a command is told that it failed only if an attempt was
\* cut off from its outcome: the answer was lost and the command was sent
\* again, or the leader stepped down (retryUntilExec, serveExec).
ErrorsOnlyWhenCutOff ==
    \A c \in Callers :
        /\ call[c].at \in {"refused", "error"} => call[c].cut
        /\ call[c].at = "refused" => InLog(c)

\* A caller that waited for its command finds it in the copy when it reads, after
\* the lock was free for the poll to take (CreateShardGroup returns the group it
\* made).  Two things of the code's own making can hide it: a commit to the copy
\* alone had moved the index past the content when the wait ended (waitForIndex),
\* or the poll has since put an older snapshot in the place of the copy
\* (pollForUpdates).  A caller that was never answered is that of a closed client.
ReadsItsWrites ==
    [][\A c \in Callers :
        ReadCopy(c) => InCopy(c) \/ call[c].early \/ call[c].back \/ call[c].index = None]_vars

\* The poll waits at a server that has newer metadata than the client: only
\* Restore brings that about.
Unsignalled ==
    /\ poll.at = "waiting"
    /\ poll.server \in up \cap restored
    /\ poll.index < applied[poll.server]

\* A caller whose command was accepted returns, whichever servers fail and
\* whichever of them the client polls, unless the client is closed, or polls a
\* server that was given a snapshot by raft and told nobody.
CallsReturn ==
    \A c \in Callers : call[c].at = "wait" ~> call[c].at = "ok" \/ closed \/ Unsignalled

\* What store.go says of afterIndex: a client is answered when an updated snapshot
\* is available; the one that replaces its copy is at least not an older one
\* (pollForUpdates).
CopyNeverGoesBack == [][Update => ~GoesBack]_vars
=============================================================================
