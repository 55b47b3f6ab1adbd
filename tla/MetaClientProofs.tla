-------------------------- MODULE MetaClientProofs --------------------------
(* Proofs about the meta client, for any number of meta servers and callers, any log
   and any number of failures, retries and local commits. *)
EXTENDS MetaClient, TLAPS

Places == {"idle", "try", "sent", "accepted", "refused", "wait", "read", "ok", "error",
           "failed"}
PollPlaces == {"idle", "asking", "waiting", "signalled", "answered", "off"}

-----------------------------------------------------------------------------
(* The inductive invariant *)

\* The meta servers: none is ahead of the log.
ServersOK ==
  /\ log \in Seq(Callers \cup {Other}) /\ Committed <= MaxIndex
  /\ applied \in [Servers -> 1 .. Committed]
  /\ up \subseteq Servers /\ leader \in up \cup {None}
  /\ fails \in Nat /\ restored \subseteq Servers

\* The copy and the snapshot that is on its way come from the log.
CopyOK ==
  /\ cache \in [index : Nat, base : Nat] /\ local \in Nat /\ closed \in BOOLEAN
  /\ cache.base \in 1 .. Committed /\ cache.index >= cache.base
  /\ poll \in [at : PollPlaces, server : Servers, index : Nat, snapshot : Nat]
  /\ poll.snapshot <= Committed
  /\ poll.at = "answered" => poll.snapshot >= 1

CallRecords ==
  [at : Places, current : Servers, server : Servers, tries : Nat, index : Nat, cut : BOOLEAN,
   early : BOOLEAN, back : BOOLEAN]

CallsTyped == call \in [Callers -> CallRecords]

\* The command of c is among those that metadata of index n contains.
Within(c, n) == \E i \in 1 .. n - 1 : i <= Len(log) /\ log[i] = c

\* Attempts end after maxRetries.
TriesBounded(c) ==
  /\ call[c].tries <= maxRetries + 1
  /\ call[c].at # "failed" => call[c].tries <= maxRetries

\* The server that accepted a command has applied it, and the index it answers
\* with covers the command.
AcceptedIsApplied(c) ==
  /\ call[c].at = "accepted" => Within(c, applied[call[c].server])
  /\ call[c].at = "wait" => call[c].index <= Committed /\ Within(c, call[c].index)
  /\ call[c].at \in {"read", "ok"} => InLog(c) \/ closed

\* A command that is sent while it is in the log was cut off before.
RepeatedIsCut(c) ==
  /\ call[c].at = "idle" => ~InLog(c)
  /\ call[c].at \in {"try", "sent", "failed"} /\ InLog(c) => call[c].cut
  /\ call[c].at = "refused" => InLog(c)
  /\ call[c].at \in {"refused", "error"} => call[c].cut

\* Between the end of the wait and the read, a copy that was caught up by its content
\* and has not gone back holds what the index covers.
ReaderOK(c) ==
  /\ call[c].at \notin {"wait", "read", "ok"} => call[c].index = None
  /\ call[c].at = "read" /\ call[c].index # None /\ ~call[c].early /\ ~call[c].back =>
        Within(c, call[c].index) /\ cache.base >= call[c].index

CallerOK(c) == TriesBounded(c) /\ AcceptedIsApplied(c) /\ RepeatedIsCut(c) /\ ReaderOK(c)

ClientInv == ServersOK /\ CopyOK /\ CallsTyped /\ \A c \in Callers : CallerOK(c)

-----------------------------------------------------------------------------
(* What the operators do *)

\* The list of meta servers is a ring.
LEMMA NextServerIsServer ==
  ASSUME NEW s \in Servers
  PROVE  NextServer(s) \in Servers
  BY MetaClientAssumption DEF NextServer, Servers

\* A committed command is in the log, and what was in the log stays there.
LEMMA LogGrows ==
  ASSUME NEW l \in Seq(Callers \cup {Other}), NEW d \in Callers \cup {Other}
  PROVE  /\ Append(l, d) \in Seq(Callers \cup {Other})
         /\ Len(Append(l, d)) = Len(l) + 1
         /\ Append(l, d)[Len(l) + 1] = d
         /\ \A i \in 1 .. Len(l) : Append(l, d)[i] = l[i]
  OBVIOUS

\* Being in the log, by position.
LEMMA InLogByPosition ==
  ASSUME ServersOK, NEW c
  PROVE  InLog(c) <=> \E i \in 1 .. Len(log) : log[i] = c
  BY DEF ServersOK, InLog

\* The changes that steps make to a caller's record.
LEMMA RecordUpdates ==
  ASSUME NEW k \in CallRecords, NEW a \in Places, NEW n \in Nat, NEW s \in Servers
  PROVE  /\ [k EXCEPT !.at = a] \in CallRecords
         /\ [k EXCEPT !.server = s] \in CallRecords
         /\ [k EXCEPT !.cut = TRUE] \in CallRecords
         /\ [k EXCEPT !.at = a, !.cut = TRUE] \in CallRecords
         /\ [k EXCEPT !.at = a, !.index = n] \in CallRecords
         /\ \A b \in BOOLEAN : /\ [k EXCEPT !.at = a, !.early = b] \in CallRecords
                              /\ [k EXCEPT !.back = b] \in CallRecords
         /\ [k EXCEPT !.tries = n, !.current = s, !.server = s, !.at = a] \in CallRecords
  BY DEF CallRecords

\* serveSnapshot answers the poll.
LEMMA SnapshotTaken ==
  ASSUME CopyOK, NEW n \in Nat
  PROVE  [poll EXCEPT !.at = "answered", !.snapshot = n]
            \in [at : PollPlaces, server : Servers, index : Nat, snapshot : Nat]
<1>1. "answered" \in PollPlaces
  BY DEF PollPlaces
<1> QED BY <1>1 DEF CopyOK

\* The client starts right.
LEMMA ClientInit == Init => ClientInv
<1> SUFFICES ASSUME Init PROVE ClientInv
  OBVIOUS
<1>1. Committed = 1 /\ 1 \in Servers
  BY MetaClientAssumption DEF Init, Committed, Servers
<1>2. ServersOK
  BY <1>1, MetaClientAssumption DEF Init, ServersOK
<1>3. CopyOK
  <2>1. cache \in [index : Nat, base : Nat] /\ cache.base = 1 /\ cache.index = 1
    BY DEF Init
  <2>2. /\ poll \in [at : PollPlaces, server : Servers, index : Nat, snapshot : Nat]
        /\ poll.snapshot = 0 /\ poll.at = "idle"
    BY <1>1 DEF Init, PollPlaces, None
  <2>3. closed \in BOOLEAN /\ local \in Nat
    BY DEF Init
  <2> QED BY <1>1, <2>1, <2>2, <2>3 DEF CopyOK
<1>4. CallsTyped
  BY <1>1 DEF Init, CallsTyped, CallRecords, Places, None
<1>5. ASSUME NEW c \in Callers PROVE CallerOK(c)
  BY MetaClientAssumption DEF Init, CallerOK, TriesBounded, AcceptedIsApplied, RepeatedIsCut,
                              ReaderOK, InLog
<1> QED BY <1>2, <1>3, <1>4, <1>5 DEF ClientInv

-----------------------------------------------------------------------------
(* Steps of the meta servers *)

\* The log stays or gets one command more.
LogStep(d) == log' = log \/ log' = Append(log, d)

\* The record of c stays, but for the note that the copy has gone back; and it is
\* noted when c is about to read.
RecordKept(c) ==
  /\ call'[c].at = call[c].at /\ call'[c].server = call[c].server
  /\ call'[c].tries = call[c].tries /\ call'[c].index = call[c].index
  /\ call'[c].cut = call[c].cut /\ call'[c].early = call[c].early
  /\ call[c].back => call'[c].back
  /\ cache'.base >= cache.base \/ (call[c].at = "read" => call'[c].back)

\* A caller that does not move keeps what it has, whoever else commits and whatever
\* the poll installs.
LEMMA CallerKept ==
  ASSUME ClientInv, ServersOK', CopyOK', NEW c \in Callers, RecordKept(c),
         NEW d \in Callers \cup {Other}, d # c, LogStep(d),
         \A s \in Servers : applied'[s] >= applied[s],
         closed => closed'
  PROVE  CallerOK(c)'
<1> USE DEF ClientInv
<1>1. /\ Len(log') >= Len(log)
      /\ \A i \in 1 .. Len(log) : log'[i] = log[i]
      /\ \A i \in 1 .. Len(log') : log'[i] = c => i \in 1 .. Len(log)
  <2>1. log \in Seq(Callers \cup {Other})
    BY DEF ServersOK
  <2>2. CASE log' = log
    BY <2>1, <2>2
  <2>3. CASE log' = Append(log, d)
    <3>1. /\ Len(log') = Len(log) + 1 /\ log'[Len(log) + 1] = d
          /\ \A i \in 1 .. Len(log) : log'[i] = log[i]
      BY <2>1, <2>3, LogGrows
    <3> QED BY <2>1, <3>1
  <2> QED BY <2>2, <2>3 DEF LogStep
<1>2. InLog(c)' <=> InLog(c)
  <2>1. InLog(c) <=> \E i \in 1 .. Len(log) : log[i] = c
    BY InLogByPosition
  <2>2. InLog(c)' <=> \E i \in 1 .. Len(log') : log'[i] = c
    BY DEF ServersOK, InLog
  <2>3. Len(log) \in Nat /\ Len(log') \in Nat
    BY DEF ServersOK
  <2> QED BY <1>1, <2>1, <2>2, <2>3
<1>3. ASSUME NEW m \in Nat, NEW n \in Nat, n >= m, Within(c, m) PROVE Within(c, n)'
  <2>1. Len(log) \in Nat /\ Len(log') \in Nat
    BY DEF ServersOK
  <2> QED BY <1>1, <1>3, <2>1 DEF Within
<1>4. /\ call[c].server \in Servers /\ call[c].index \in Nat
      /\ applied[call[c].server] \in Nat /\ applied'[call[c].server] \in Nat
      /\ applied'[call[c].server] >= applied[call[c].server]
  <2>1. call[c].server \in Servers /\ call[c].index \in Nat
    BY DEF CallsTyped, CallRecords
  <2>2. applied \in [Servers -> 1 .. Committed] /\ Committed \in Nat
    BY DEF ServersOK, Committed
  <2>3. applied' \in [Servers -> 1 .. Committed'] /\ Committed' \in Nat
    BY DEF ServersOK, Committed
  <2> QED BY <2>1, <2>2, <2>3
<1>5. TriesBounded(c)' /\ RepeatedIsCut(c)'
  BY <1>2 DEF CallerOK, TriesBounded, RepeatedIsCut, RecordKept
<1>6. Committed' >= Committed /\ Committed \in Nat /\ Committed' \in Nat
  BY <1>1 DEF ServersOK, Committed
<1>7. AcceptedIsApplied(c)'
  <2>1. CASE call[c].at = "accepted"
    BY <2>1, <1>3, <1>4 DEF CallerOK, AcceptedIsApplied, RecordKept
  <2>2. CASE call[c].at = "wait"
    <3>1. Within(c, call[c].index)'
      BY <2>2, <1>3, <1>4 DEF CallerOK, AcceptedIsApplied, RecordKept
    <3> QED BY <2>2, <3>1, <1>4, <1>6 DEF CallerOK, AcceptedIsApplied, RecordKept
  <2> QED BY <2>1, <2>2, <1>2 DEF CallerOK, AcceptedIsApplied, RecordKept
<1>8. ReaderOK(c)'
  <2>1. call[c].at \notin {"wait", "read", "ok"} => call'[c].index = None
    BY DEF CallerOK, ReaderOK, RecordKept
  <2>2. ASSUME call[c].at = "read", call[c].index # None, ~call[c].early, ~call'[c].back
        PROVE  Within(c, call[c].index)' /\ cache'.base >= call[c].index
    <3>1. Within(c, call[c].index) /\ cache.base >= call[c].index
      BY <2>2 DEF CallerOK, ReaderOK, RecordKept
    <3>2. Within(c, call[c].index)'
      <4>1. ASSUME NEW m \in Nat, Within(c, m) PROVE Within(c, m)'
        BY <1>3, <4>1
      <4>2. PICK m \in Nat : m = call[c].index
        BY <1>4
      <4>3. Within(c, m)'
        BY <3>1, <4>1, <4>2
      <4>4. m' = call[c].index /\ call'[c].index = m
        BY <4>2 DEF RecordKept
      <4> QED BY <4>3, <4>4, <4>2 DEF Within
    <3>3. cache'.base >= cache.base /\ cache'.base \in Nat /\ cache.base \in Nat
      BY <2>2 DEF CopyOK, RecordKept
    <3> QED BY <1>4, <3>1, <3>2, <3>3
  <2> QED BY <2>1, <2>2 DEF ReaderOK, RecordKept, Within
<1> QED BY <1>5, <1>7, <1>8 DEF CallerOK

\* A step of the servers or of another caller.
LEMMA OthersKeep ==
  ASSUME ClientInv, ServersOK', CopyOK', NEW c \in Callers, call'[c] = call[c], cache' = cache,
         NEW d \in Callers \cup {Other}, d # c, LogStep(d),
         \A s \in Servers : applied'[s] >= applied[s],
         closed => closed'
  PROVE  CallerOK(c)'
<1>1. RecordKept(c)
  BY DEF ClientInv, CopyOK, RecordKept
<1> QED BY <1>1, CallerKept

\* What a signal does to the poll: at most its place changes.
LEMMA SignalKeeps ==
  ASSUME CopyOK, NEW s, Signal(s)
  PROVE  /\ poll' \in [at : PollPlaces, server : Servers, index : Nat, snapshot : Nat]
         /\ poll'.snapshot = poll.snapshot
         /\ poll'.at = "answered" => poll.at = "answered"
  BY DEF CopyOK, Signal, PollPlaces

\* Meta servers apply, are restored, fail, recover, elect, and commit for others.
LEMMA ServerStep ==
  ASSUME ClientInv, ServerSteps \/ CommitOther
  PROVE  ClientInv'
<1> USE DEF ClientInv
<1>0. Committed \in Nat /\ Len(log) \in Nat /\ Other \in Callers \cup {Other}
  BY DEF ServersOK, Committed
<1>1. ASSUME NEW s \in Servers, Apply(s) PROVE ClientInv'
  <2>1. ServersOK'
    BY <1>1, <1>0 DEF Apply, ServersOK, Committed
  <2>2. CopyOK'
    BY <1>1, SignalKeeps DEF Apply, CopyOK, Committed
  <2>3. ASSUME NEW c \in Callers PROVE CallerOK(c)'
    <3>1. \A r \in Servers : applied'[r] >= applied[r]
      BY <1>1 DEF Apply, ServersOK, Committed
    <3> QED BY <1>1, <2>1, <2>2, <3>1, OthersKeep, MetaClientAssumption DEF Apply, LogStep
  <2> QED BY <1>1, <2>1, <2>2, <2>3 DEF Apply, CallsTyped
<1>2. ASSUME NEW s \in Servers, Restore(s) PROVE ClientInv'
  <2>1. ServersOK'
    BY <1>2, <1>0 DEF Restore, ServersOK, Committed
  <2>2. CopyOK'
    BY <1>2 DEF Restore, CopyOK, Committed
  <2>3. ASSUME NEW c \in Callers PROVE CallerOK(c)'
    <3>1. \A r \in Servers : applied'[r] >= applied[r]
      BY <1>2 DEF Restore, ServersOK, Committed
    <3> QED BY <1>2, <2>1, <2>2, <3>1, OthersKeep, MetaClientAssumption DEF Restore, LogStep
  <2> QED BY <1>2, <2>1, <2>2, <2>3 DEF Restore, CallsTyped
<1>3. ASSUME NEW s \in Servers, Fail(s) \/ Recover(s) \/ Elect(s) PROVE ClientInv'
  <2>1. ServersOK'
    BY <1>3, <1>0 DEF Fail, Recover, Elect, ServersOK, Committed
  <2>2. CopyOK'
    BY <1>3 DEF Fail, Recover, Elect, CopyOK, Committed
  <2>3. ASSUME NEW c \in Callers PROVE CallerOK(c)'
    <3>1. \A r \in Servers : applied'[r] >= applied[r]
      BY <1>3 DEF Fail, Recover, Elect, ServersOK, Committed
    <3> QED BY <1>3, <2>1, <2>2, <3>1, OthersKeep, MetaClientAssumption DEF Fail, Recover, Elect, LogStep
  <2> QED BY <1>3, <2>1, <2>2, <2>3 DEF Fail, Recover, Elect, CallsTyped
<1>4. CASE CommitOther
  <2>0. leader \in Servers
    BY <1>4 DEF CommitOther, ServersOK
  <2>1. ServersOK'
    <3>1. /\ log' \in Seq(Callers \cup {Other}) /\ Len(log') = Len(log) + 1
      BY <1>4, LogGrows DEF CommitOther, ServersOK
    <3>2. Committed' = Committed + 1 /\ Committed' <= MaxIndex
      BY <1>0, <1>4, <3>1, MetaClientAssumption DEF CommitOther, Committed
    <3>3. applied' \in [Servers -> 1 .. Committed']
      BY <1>0, <1>4, <2>0, <3>2 DEF CommitOther, ServersOK
    <3> QED BY <1>4, <3>1, <3>2, <3>3 DEF CommitOther, ServersOK
  <2>2. CopyOK'
    BY <1>4, <1>0, LogGrows, SignalKeeps DEF CommitOther, CopyOK, Committed, ServersOK
  <2>3. ASSUME NEW c \in Callers PROVE CallerOK(c)'
    <3>1. \A r \in Servers : applied'[r] >= applied[r]
      BY <1>4, <2>0 DEF CommitOther, ServersOK, Committed
    <3> QED BY <1>4, <2>1, <2>2, <3>1, OthersKeep, MetaClientAssumption DEF CommitOther, LogStep
  <2> QED BY <1>4, <2>1, <2>2, <2>3 DEF CommitOther, CallsTyped
<1> QED BY <1>1, <1>2, <1>3, <1>4 DEF ServerSteps

-----------------------------------------------------------------------------
(* Steps of the poll, local commits and Close *)

\* What neither the servers nor the callers do leaves the callers as they were.
LEMMA ClientStep ==
  ASSUME ClientInv, PollSteps \/ CommitLocally \/ Close
  PROVE  ClientInv'
<1> USE DEF ClientInv
<1>0. UNCHANGED servers /\ (closed => closed')
  BY DEF PollSteps, Poll, AfterIndex, ServeSnapshot, PollFails, Update, CommitLocally, Close
<1>1. ServersOK' /\ Committed' = Committed
  BY <1>0 DEF ServersOK, Committed, servers
<1>2. CopyOK'
  <2> USE DEF CopyOK
  <2>1. CASE Poll
    <3>1. 1 \in Servers
      BY MetaClientAssumption DEF Servers
    <3>2. poll' \in [at : PollPlaces, server : Servers, index : Nat, snapshot : Nat]
      BY <2>1, <3>1 DEF Poll, PollPlaces, None
    <3>3. poll'.snapshot <= Committed /\ poll'.at # "answered"
      BY <2>1 DEF Poll, None, Committed, ServersOK
    <3> QED BY <1>1, <2>1, <3>2, <3>3 DEF Poll
  <2>2. CASE AfterIndex
    BY <1>1, <2>2 DEF AfterIndex, PollPlaces
  <2>3. CASE ServeSnapshot
    <3>1. applied[poll.server] \in 1 .. Committed /\ Committed \in Nat
      BY DEF ServersOK, Committed
    <3>2. poll' \in [at : PollPlaces, server : Servers, index : Nat, snapshot : Nat]
      <4>1. applied[poll.server] \in Nat
        BY <3>1
      <4>2. poll' = [poll EXCEPT !.at = "answered", !.snapshot = applied[poll.server]]
        BY <2>3 DEF ServeSnapshot
      <4> HIDE DEF CopyOK
      <4> QED BY <4>1, <4>2, SnapshotTaken
    <3>3. poll'.snapshot = applied[poll.server]
      BY <2>3 DEF ServeSnapshot
    <3>4. UNCHANGED <<cache, local, closed>>
      BY <2>3 DEF ServeSnapshot
    <3> QED BY <1>1, <3>1, <3>2, <3>3, <3>4
  <2>4. CASE PollFails
    BY <1>1, <2>4, NextServerIsServer DEF PollFails, PollPlaces
  <2>5. CASE Update
    <3>1. /\ cache' = [index |-> poll.snapshot, base |-> poll.snapshot]
          /\ poll.snapshot \in 1 .. Committed
      BY <2>5 DEF Update, CacheUpdate, Committed, ServersOK
    <3>2. /\ poll' \in [at : PollPlaces, server : Servers, index : Nat, snapshot : Nat]
          /\ poll'.snapshot = 0 /\ poll'.at = "idle"
      BY <2>5 DEF Update, PollPlaces, None
    <3>3. UNCHANGED <<local, closed>>
      BY <2>5 DEF Update
    <3>4. Committed \in Nat
      BY DEF Committed, ServersOK
    <3> QED BY <1>1, <3>1, <3>2, <3>3, <3>4
  <2>6. CASE CommitLocally
    BY <1>1, <2>6 DEF CommitLocally
  <2>7. CASE Close
    BY <1>1, <2>7 DEF Close
  <2> QED BY <2>1, <2>2, <2>3, <2>4, <2>5, <2>6, <2>7 DEF PollSteps
<1>3. CallsTyped' /\ \A c \in Callers : RecordKept(c)
  <2>1. CASE Update
    <3>1. call' = [c \in Callers |->
                     [call[c] EXCEPT !.back = @ \/ (call[c].at = "read" /\ GoesBack)]]
      BY <2>1 DEF Update
    <3>2. /\ cache'.base = poll.snapshot /\ poll.snapshot \in Nat /\ cache.base \in Nat
          /\ GoesBack <=> poll.snapshot < cache.base
      BY <2>1 DEF Update, CacheUpdate, CopyOK, GoesBack
    <3>3. ASSUME NEW c \in Callers
          PROVE  call'[c] \in CallRecords /\ RecordKept(c)
      <4>0. call[c] \in CallRecords /\ call[c].back \in BOOLEAN
        BY DEF CallsTyped, CallRecords
      <4>1. CASE call[c].back \/ (call[c].at = "read" /\ GoesBack)
        <5>1. call'[c] = [call[c] EXCEPT !.back = TRUE]
          BY <3>1, <4>0, <4>1
        <5> QED BY <4>0, <5>1 DEF CallRecords, RecordKept
      <4>2. CASE ~(call[c].back \/ (call[c].at = "read" /\ GoesBack))
        <5>1. call'[c] = [call[c] EXCEPT !.back = FALSE]
          BY <3>1, <4>0, <4>2
        <5>2. call'[c] = call[c]
          BY <4>0, <4>2, <5>1 DEF CallRecords
        <5>3. cache'.base >= cache.base \/ call[c].at # "read"
          BY <3>2, <4>2
        <5> QED BY <4>0, <5>2, <5>3 DEF RecordKept
      <4> QED BY <4>1, <4>2
    <3>4. CallsTyped'
      BY <3>1, <3>3 DEF CallsTyped
    <3> QED BY <3>3, <3>4
  <2>2. CASE ~Update
    <3>1. call' = call /\ (cache' = cache \/ CommitLocally)
      BY <2>2 DEF PollSteps, Poll, AfterIndex, ServeSnapshot, PollFails, CommitLocally, Close
    <3>2. cache'.base = cache.base /\ cache.base \in Nat
      BY <3>1 DEF CommitLocally, CopyOK
    <3> QED BY <3>1, <3>2 DEF CallsTyped, RecordKept
  <2> QED BY <2>1, <2>2
<1>4. ASSUME NEW c \in Callers PROVE CallerOK(c)'
  <2>1. \A s \in Servers : applied'[s] >= applied[s]
    BY <1>0 DEF servers, ServersOK, Committed
  <2> QED BY <1>0, <1>1, <1>2, <1>3, <2>1, CallerKept, MetaClientAssumption DEF LogStep, servers
<1> QED BY <1>1, <1>2, <1>3, <1>4

-----------------------------------------------------------------------------
(* Steps of a caller *)

\* A step of caller c that commits nothing: what is left to show is about c.
LEMMA CallerMoves ==
  ASSUME ClientInv, NEW c \in Callers, UNCHANGED <<servers, cache, local, poll, closed>>,
         NEW k \in CallRecords,
         call' = [call EXCEPT ![c] = k],
         CallerOK(c)'
  PROVE  ClientInv'
<1> USE DEF ClientInv
<1>1. ServersOK' /\ CopyOK'
  BY DEF ServersOK, CopyOK, Committed, servers
<1>2. CallsTyped' /\ \A d \in Callers \ {c} : call'[d] = call[d]
  BY DEF CallsTyped
<1>3. ASSUME NEW d \in Callers, d # c PROVE CallerOK(d)'
  <2>1. \A s \in Servers : applied'[s] >= applied[s]
    BY DEF servers, ServersOK, Committed
  <2> QED BY <1>1, <1>2, <1>3, <2>1, OthersKeep DEF LogStep, servers
<1> QED BY <1>1, <1>2, <1>3

\* The state of caller c after a step that leaves the servers alone.
LEMMA SameLog ==
  ASSUME NEW c, NEW n, UNCHANGED <<servers, cache, local, poll, closed>>
  PROVE  /\ InLog(c)' <=> InLog(c)
         /\ Within(c, n)' <=> Within(c, n)
         /\ Committed' = Committed
  BY DEF servers, InLog, Within, Committed

\* An attempt that failed leaves a caller that tries again, or has failed.
LEMMA RetriedOK ==
  ASSUME ClientInv, NEW c \in Callers, call[c].at # "failed"
  PROVE  LET k == Retried(call[c]) IN
         /\ k \in CallRecords
         /\ k.at \in {"try", "failed"} /\ k.cut = call[c].cut /\ k.index = call[c].index
         /\ k.tries <= maxRetries + 1
         /\ k.at = "try" => k.tries <= maxRetries
<1>1. /\ call[c] \in CallRecords
      /\ call[c].tries <= maxRetries
  BY DEF ClientInv, CallsTyped, CallerOK, TriesBounded
<1>2. NextServer(call[c].current) \in Servers
  BY <1>1, NextServerIsServer DEF CallRecords
<1> DEFINE next == NextServer(call[c].current)
           place == IF call[c].tries + 1 > maxRetries THEN "failed" ELSE "try"
           k == [call[c] EXCEPT !.tries = @ + 1, !.current = next, !.server = next, !.at = place]
<1>3. Retried(call[c]) = k
  BY DEF Retried
<1>4. call[c].tries \in Nat /\ place \in Places
  BY <1>1 DEF CallRecords, Places
<1>5. k \in CallRecords
  <2> HIDE DEF next, place
  <2>1. call[c].tries + 1 \in Nat
    BY <1>4
  <2> HIDE DEF next, place
  <2>2. next \in Servers
    BY <1>2 DEF next
  <2> QED BY <1>1, <1>4, <2>1, <2>2, RecordUpdates
<1>6. /\ k.at = place /\ k.cut = call[c].cut /\ k.tries = call[c].tries + 1
      /\ k.index = call[c].index
  BY <1>1 DEF CallRecords
<1> QED BY <1>1, <1>3, <1>4, <1>5, <1>6, MetaClientAssumption

\* The leader applies the command, or loses its leadership with the command in
\* the log or not.
LEMMA ExecStep ==
  ASSUME ClientInv, NEW c \in Callers, ExecApplied(c) \/ ExecLeadershipLost(c)
  PROVE  ClientInv'
<1> USE DEF ClientInv
<1>0. /\ leader \in Servers /\ leader = call[c].server /\ Committed \in Nat
      /\ Committed < MaxIndex /\ log \in Seq(Callers \cup {Other}) /\ Len(log) \in Nat
      /\ call[c].at = "sent"
  BY DEF ExecApplied, ExecLeadershipLost, ServersOK, Committed
<1>1. LogStep(c)
  BY DEF ExecApplied, ExecLeadershipLost, LogStep
<1>2. /\ log' \in Seq(Callers \cup {Other})
      /\ Committed' \in {Committed, Committed + 1} /\ Committed' <= MaxIndex
  <2>1. CASE log' = log
    BY <1>0, <2>1, MetaClientAssumption DEF Committed
  <2>2. CASE log' = Append(log, c)
    BY <1>0, <2>2, LogGrows, MetaClientAssumption DEF Committed
  <2> QED BY <1>1, <2>1, <2>2 DEF LogStep
<1>3. /\ applied' \in [Servers -> 1 .. Committed']
      /\ \A s \in Servers : applied'[s] >= applied[s]
  <2>1. CASE ExecApplied(c)
    <3>1. Committed' = Committed + 1
      BY <1>0, <2>1, LogGrows DEF ExecApplied, Committed
    <3> QED BY <1>0, <2>1, <3>1 DEF ExecApplied, ServersOK
  <2>2. CASE ExecLeadershipLost(c)
    BY <1>0, <1>2, <2>2 DEF ExecLeadershipLost, ServersOK
  <2> QED BY <2>1, <2>2
<1>4. ServersOK'
  BY <1>0, <1>2, <1>3 DEF ExecApplied, ExecLeadershipLost, ServersOK
<1>5. CopyOK'
  <2>1. CASE ExecApplied(c)
    BY <1>0, <1>2, <2>1, SignalKeeps DEF ExecApplied, CopyOK
  <2>2. CASE ExecLeadershipLost(c)
    BY <1>0, <1>2, <2>2 DEF ExecLeadershipLost, CopyOK
  <2> QED BY <2>1, <2>2
<1>6. CallsTyped' /\ \A d \in Callers \ {c} : call'[d] = call[d]
  <2>1. PICK k \in CallRecords : call' = [call EXCEPT ![c] = k]
    <3>1. CASE ExecApplied(c)
      <4> DEFINE a == IF InLog(c) THEN "refused" ELSE "accepted"
      <4>1. a \in Places
        BY DEF Places
      <4>2. call' = [call EXCEPT ![c] = [call[c] EXCEPT !.at = a]]
        BY <3>1 DEF ExecApplied, CallsTyped
      <4> HIDE DEF a
      <4> QED BY <1>0, <4>1, <4>2, RecordUpdates DEF CallsTyped
    <3>2. CASE ExecLeadershipLost(c)
      <4>1. "error" \in Places
        BY DEF Places
      <4>2. call' = [call EXCEPT ![c] = [call[c] EXCEPT !.at = "error", !.cut = TRUE]]
        BY <3>2 DEF ExecLeadershipLost, CallsTyped
      <4> QED BY <1>0, <4>1, <4>2, RecordUpdates DEF CallsTyped
    <3> QED BY <3>1, <3>2
  <2> QED BY <2>1 DEF CallsTyped
<1>7. ASSUME NEW d \in Callers, d # c PROVE CallerOK(d)'
  BY <1>1, <1>3, <1>4, <1>5, <1>6, <1>7, OthersKeep DEF ExecApplied, ExecLeadershipLost
<1>8. TriesBounded(c)'
  BY <1>0 DEF ExecApplied, ExecLeadershipLost, TriesBounded, CallerOK, CallsTyped, CallRecords
<1>a. ReaderOK(c)'
  <2>1. call[c].index = None
    BY <1>0 DEF CallerOK, ReaderOK
  <2>2. call'[c].at \in {"accepted", "refused", "error"} /\ call'[c].index = call[c].index
    BY DEF ExecApplied, ExecLeadershipLost, CallsTyped, CallRecords
  <2> QED BY <2>1, <2>2 DEF ReaderOK
<1>9. CASE ExecLeadershipLost(c)
  <2>1. call'[c].at = "error" /\ call'[c].cut
    BY <1>9 DEF ExecLeadershipLost, CallsTyped
  <2> QED BY <1>4, <1>5, <1>6, <1>7, <1>8, <1>a, <2>1 DEF CallerOK, AcceptedIsApplied, RepeatedIsCut
<1>10. CASE ExecApplied(c)
  <2>1. /\ call'[c].server = leader /\ call'[c].cut = call[c].cut
        /\ call'[c].at = IF InLog(c) THEN "refused" ELSE "accepted"
    BY <1>0, <1>10 DEF ExecApplied, CallsTyped
  <2>2. /\ Len(log') = Len(log) + 1 /\ log'[Len(log) + 1] = c
        /\ applied'[leader] = Len(log) + 2
    BY <1>0, <1>10, LogGrows DEF ExecApplied, Committed, ServersOK
  <2>3. Within(c, applied[leader])'
    <3>1. leader' = leader
      BY <1>10 DEF ExecApplied
    <3> QED BY <1>0, <2>2, <3>1 DEF Within
  <2>4. InLog(c)'
    BY <1>0, <1>2, <2>2 DEF InLog
  <2>5. InLog(c) => call[c].cut
    BY <1>0 DEF CallerOK, RepeatedIsCut
  <2>6. AcceptedIsApplied(c)'
    BY <2>1, <2>3, <1>10 DEF AcceptedIsApplied, ExecApplied
  <2>7. RepeatedIsCut(c)'
    BY <2>1, <2>4, <2>5 DEF RepeatedIsCut
  <2> QED BY <1>4, <1>5, <1>6, <1>7, <1>8, <1>a, <2>6, <2>7 DEF CallerOK
<1> QED BY <1>9, <1>10

\* Every other step of a caller.
LEMMA CallStep ==
  ASSUME ClientInv, NEW c \in Callers, Begin(c) \/ CallSteps(c)
  PROVE  ClientInv'
<1> USE DEF ClientInv
<1>0. call[c] \in CallRecords /\ call \in [Callers -> CallRecords]
  BY DEF CallsTyped
<1>1. CASE Begin(c) \/ GiveUp(c) \/ Send(c) \/ ExecRedirected(c) \/ AnswerError(c) \/ ReadCopy(c)
  <2> DEFINE k == call'[c]
  <2>1. UNCHANGED <<servers, cache, local, poll, closed>>
    BY <1>1 DEF Begin, GiveUp, Send, ExecRedirected, AnswerError, ReadCopy
  <2>2. k \in CallRecords /\ call' = [call EXCEPT ![c] = k]
    <3>1. {"try", "read", "ok", "sent", "error"} \subseteq Places
      BY DEF Places
    <3>2. CASE ExecRedirected(c)
      <4>1. leader \in Servers /\ call' = [call EXCEPT ![c] = [call[c] EXCEPT !.server = leader]]
        BY <1>0, <3>2 DEF ExecRedirected, ServersOK
      <4> QED BY <1>0, <3>1, <4>1, RecordUpdates
    <3>3. CASE ~ExecRedirected(c)
      <4>1. PICK a \in {"try", "read", "ok", "sent", "error"} :
              call' = [call EXCEPT ![c] = [call[c] EXCEPT !.at = a]]
        BY <1>0, <1>1, <3>3 DEF Begin, GiveUp, Send, AnswerError, ReadCopy
      <4>2. [call[c] EXCEPT !.at = a] \in CallRecords
        <5>1. call[c].server \in Servers /\ call[c].tries \in Nat /\ a \in Places
          BY <1>0, <3>1 DEF CallRecords
        <5> QED BY <1>0, <5>1, RecordUpdates
      <4> QED BY <1>0, <4>1, <4>2
    <3> QED BY <3>2, <3>3
  <2>3. CallerOK(c)'
    <3>1. InLog(c)' <=> InLog(c)
      BY <2>1, SameLog
    <3>2. TriesBounded(c)'
      BY <1>0, <1>1 DEF Begin, GiveUp, Send, ExecRedirected, AnswerError, ReadCopy,
                        CallerOK, TriesBounded, CallRecords
    <3>3. AcceptedIsApplied(c)'
      <4>1. call[c].at = "read" => InLog(c) \/ closed
        BY DEF CallerOK, AcceptedIsApplied
      <4>2. /\ k.at \notin {"accepted", "wait"}
            /\ k.at \in {"read", "ok"} => call[c].at = "read" \/ closed
        BY <1>0, <1>1 DEF Begin, GiveUp, Send, ExecRedirected, AnswerError, ReadCopy, CallRecords
      <4> QED BY <2>1, <3>1, <4>1, <4>2 DEF AcceptedIsApplied
    <3>4. RepeatedIsCut(c)'
      BY <1>0, <1>1, <3>1 DEF Begin, GiveUp, Send, ExecRedirected, AnswerError, ReadCopy,
                              CallerOK, RepeatedIsCut, CallRecords
    <3>5. ReaderOK(c)'
      <4>1. k.at \notin {"wait", "ok"} => call[c].index = None
        BY <1>0, <1>1 DEF Begin, GiveUp, Send, ExecRedirected, AnswerError, ReadCopy,
                          CallerOK, ReaderOK, CallRecords
      <4>2. k.index = call[c].index
        BY <1>0, <1>1 DEF Begin, GiveUp, Send, ExecRedirected, AnswerError, ReadCopy, CallRecords
      <4> QED BY <4>1, <4>2 DEF ReaderOK
    <3> QED BY <3>2, <3>3, <3>4, <3>5 DEF CallerOK
  <2> QED BY <2>1, <2>2, <2>3, CallerMoves
<1>2. CASE ExecFails(c)
  <2> DEFINE k == Retried(call[c])
  <2>1. /\ UNCHANGED <<servers, cache, local, poll, closed>>
        /\ call' = [call EXCEPT ![c] = k] /\ call[c].at = "sent"
    BY <1>2 DEF ExecFails
  <2>2. /\ k \in CallRecords /\ k.at \in {"try", "failed"} /\ k.cut = call[c].cut
        /\ k.index = None /\ k.tries <= maxRetries + 1 /\ (k.at = "try" => k.tries <= maxRetries)
    BY <2>1, RetriedOK DEF CallerOK, ReaderOK
  <2> HIDE DEF k
  <2>3. call'[c] = k
    BY <1>0, <2>1
  <2>4. CallerOK(c)'
    BY <2>1, <2>2, <2>3, SameLog
    DEF CallerOK, TriesBounded, AcceptedIsApplied, RepeatedIsCut, ReaderOK
  <2> QED BY <2>1, <2>2, <2>4, CallerMoves
<1>3. CASE AnswerLost(c)
  <2> DEFINE k == [Retried(call[c]) EXCEPT !.cut = TRUE]
  <2>1. /\ UNCHANGED <<servers, cache, local, poll, closed>>
        /\ call' = [call EXCEPT ![c] = k] /\ call[c].at \in {"accepted", "refused"}
    BY <1>3 DEF AnswerLost
  <2>2. /\ k \in CallRecords /\ k.at \in {"try", "failed"} /\ k.cut = TRUE
        /\ k.index = None /\ k.tries <= maxRetries + 1 /\ (k.at = "try" => k.tries <= maxRetries)
    <3> HIDE DEF k
    <3>1. /\ Retried(call[c]) \in CallRecords /\ Retried(call[c]).at \in {"try", "failed"}
          /\ Retried(call[c]).index = None
          /\ Retried(call[c]).tries <= maxRetries + 1
          /\ Retried(call[c]).at = "try" => Retried(call[c]).tries <= maxRetries
      BY <2>1, RetriedOK DEF CallerOK, ReaderOK
    <3> QED BY <3>1, RecordUpdates DEF k, CallRecords
  <2> HIDE DEF k
  <2>3. call'[c] = k
    BY <1>0, <2>1
  <2>4. CallerOK(c)'
    BY <2>1, <2>2, <2>3, SameLog
    DEF CallerOK, TriesBounded, AcceptedIsApplied, RepeatedIsCut, ReaderOK
  <2> QED BY <2>1, <2>2, <2>4, CallerMoves
<1>4. CASE Answer(c)
  <2> DEFINE k == [call[c] EXCEPT !.at = "wait", !.index = applied[call[c].server]]
  <2>1. /\ UNCHANGED <<servers, cache, local, poll, closed>>
        /\ call' = [call EXCEPT ![c] = k] /\ call[c].at = "accepted"
    BY <1>0, <1>4 DEF Answer, IndexNow
  <2>2. applied[call[c].server] \in 1 .. Committed /\ Committed \in Nat
    BY <1>0 DEF ServersOK, Committed, CallRecords
  <2>3. /\ k \in CallRecords /\ k.at = "wait" /\ k.index = applied[call[c].server]
        /\ k.tries = call[c].tries
    <3>1. "wait" \in Places /\ call[c].server \in Servers
      BY <1>0 DEF Places, CallRecords
    <3>2. applied[call[c].server] \in Nat
      BY <2>2
    <3>3. k \in CallRecords
      BY <1>0, <3>1, <3>2, RecordUpdates
    <3> QED BY <1>0, <3>3 DEF CallRecords
  <2> HIDE DEF k
  <2>4. call'[c] = k
    BY <1>0, <2>1
  <2>5. Within(c, applied[call[c].server]) /\ call[c].tries <= maxRetries
    BY <2>1 DEF CallerOK, AcceptedIsApplied, TriesBounded
  <2>6. CallerOK(c)'
    <3>1. TriesBounded(c)'
      BY <1>0, <2>3, <2>4, <2>5, MetaClientAssumption DEF TriesBounded, CallRecords
    <3>2. AcceptedIsApplied(c)'
      <4>1. Within(c, call[c].index)'
        BY <2>1, <2>3, <2>4, <2>5 DEF Within, servers
      <4>2. call'[c].index <= Committed'
        BY <2>1, <2>2, <2>3, <2>4 DEF Committed, servers
      <4> QED BY <2>3, <2>4, <4>1, <4>2 DEF AcceptedIsApplied
    <3>3. RepeatedIsCut(c)'
      BY <2>3, <2>4 DEF RepeatedIsCut
    <3>4. ReaderOK(c)'
      BY <2>3, <2>4 DEF ReaderOK
    <3> QED BY <3>1, <3>2, <3>3, <3>4 DEF CallerOK
  <2> QED BY <2>1, <2>3, <2>6, CallerMoves
<1>5. CASE WaitForIndex(c)
  <2> DEFINE b == cache.index > cache.base
             k == [call[c] EXCEPT !.at = "read", !.early = b]
  <2>1. /\ UNCHANGED <<servers, cache, local, poll, closed>>
        /\ call' = [call EXCEPT ![c] = k] /\ call[c].at = "wait" /\ CaughtUp(c)
    BY <1>5 DEF WaitForIndex
  <2>2. /\ k.at = "read" /\ k.early = b /\ k.index = call[c].index
        /\ k.tries = call[c].tries /\ k.back = call[c].back
    BY <1>0 DEF CallRecords
  <2>3. k \in CallRecords
    <3>1. "read" \in Places /\ b \in BOOLEAN /\ call[c].server \in Servers /\ call[c].tries \in Nat
      BY <1>0 DEF Places, CallRecords
    <3> HIDE DEF b
    <3> QED BY <1>0, <3>1, RecordUpdates
  <2> HIDE DEF k
  <2>4. call'[c] = k
    BY <1>0, <2>1
  <2>5. /\ Within(c, call[c].index) /\ InLog(c) /\ call[c].tries <= maxRetries
        /\ call[c].index \in Nat /\ cache.index >= call[c].index
    BY <1>0, <2>1 DEF CallerOK, AcceptedIsApplied, TriesBounded, Within, InLog, ServersOK,
                      CaughtUp, CallRecords
  <2>6. CallerOK(c)'
    <3>1. TriesBounded(c)'
      BY <1>0, <2>2, <2>4, <2>5, MetaClientAssumption DEF TriesBounded, CallRecords
    <3>2. AcceptedIsApplied(c)' /\ RepeatedIsCut(c)'
      BY <2>1, <2>2, <2>4, <2>5, SameLog DEF AcceptedIsApplied, RepeatedIsCut
    <3>3. ~b => cache.base >= call[c].index
      BY <2>5 DEF CopyOK
    <3>4. Within(c, call[c].index)'
      BY <2>1, <2>2, <2>4, <2>5 DEF Within, servers
    <3> HIDE DEF b
    <3>5. ReaderOK(c)'
      BY <2>1, <2>2, <2>4, <3>3, <3>4 DEF ReaderOK
    <3> QED BY <3>1, <3>2, <3>5 DEF CallerOK
  <2> QED BY <2>1, <2>3, <2>6, CallerMoves
<1> QED BY <1>1, <1>2, <1>3, <1>4, <1>5, ExecStep DEF CallSteps

-----------------------------------------------------------------------------
(* Results *)

\* Every step keeps the invariant.
LEMMA ClientInvStep == ClientInv /\ [Next]_vars => ClientInv'
<1> SUFFICES ASSUME ClientInv, [Next]_vars PROVE ClientInv'
  OBVIOUS
<1>1. CASE UNCHANGED vars
  BY <1>1 DEF vars, servers, ClientInv, ServersOK, CopyOK, CallsTyped, CallerOK, TriesBounded,
     AcceptedIsApplied, RepeatedIsCut, ReaderOK, Within, InLog, Committed
<1> QED BY <1>1, ServerStep, ClientStep, CallStep DEF Next

\* The servers, the copy, the snapshot on its way and the callers stay consistent
\* with the log in every reachable state.
THEOREM ClientInvariant == Spec => []ClientInv
  BY ClientInit, ClientInvStep, PTL DEF Spec

\* Every variable of client and servers has its type, and no index is ahead of the
\* log.
THEOREM ClientTypeCorrect == Spec => []TypeOK
<1>1. ClientInv => TypeOK
  <2> SUFFICES ASSUME ClientInv PROVE TypeOK
    OBVIOUS
  <2>1. ASSUME NEW c \in Callers
        PROVE  /\ call[c].tries \in 0 .. maxRetries + 1
               /\ call[c].at = "wait" => call[c].index \in 2 .. Committed
    BY MetaClientAssumption
    DEF ClientInv, CallsTyped, CallerOK, TriesBounded, AcceptedIsApplied, Within, CallRecords
  <2> QED BY <2>1 DEF ClientInv, ServersOK, CopyOK, TypeOK
<1> QED BY <1>1, ClientInvariant, PTL

\* A caller that was told nil has had its command committed, however many attempts
\* were lost (retryUntilExec); only a closed client says nil without it.
THEOREM NilIsHonest == Spec => []NilMeansCommitted
<1>1. ClientInv => NilMeansCommitted
  BY DEF ClientInv, NilMeansCommitted, CallerOK, AcceptedIsApplied, Within, InLog, ServersOK
<1> QED BY <1>1, ClientInvariant, PTL

\* A caller is told that its command failed only after it was cut off from an
\* outcome (retryUntilExec, serveExec).
THEOREM ErrorsAreCutOff == Spec => []ErrorsOnlyWhenCutOff
<1>1. ClientInv => ErrorsOnlyWhenCutOff
  BY DEF ClientInv, ErrorsOnlyWhenCutOff, CallerOK, RepeatedIsCut
<1> QED BY <1>1, ClientInvariant, PTL

\* A caller that has waited finds its command in the copy when it reads, whatever was
\* installed in between, unless a local commit had moved the copy's index ahead of
\* its content when the wait ended (waitForIndex), the poll has since replaced the
\* copy by an older one (pollForUpdates), or the client was closed first.
THEOREM CallerReadsItsWrite == Spec => ReadsItsWrites
<1>1. ASSUME ClientInv, NEW c \in Callers, ReadCopy(c), call[c].index # None,
             ~call[c].early, ~call[c].back
      PROVE  InCopy(c)
  <2>1. /\ Within(c, call[c].index) /\ call[c].index \in Nat
        /\ cache.base >= call[c].index /\ cache.base \in Nat
    BY <1>1 DEF ClientInv, CopyOK, CallsTyped, CallerOK, ReaderOK, ReadCopy, CallRecords
  <2> QED BY <2>1 DEF Within, InCopy
<1>2. ClientInv /\ [Next]_vars =>
        [\A c \in Callers :
            ReadCopy(c) => InCopy(c) \/ call[c].early \/ call[c].back \/ call[c].index = None]_vars
  BY <1>1
<1> QED BY <1>2, ClientInvariant, PTL DEF Spec, ReadsItsWrites
=============================================================================
