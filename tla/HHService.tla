----------------------------- MODULE HHService -----------------------------
(***************************************************************************)
(* The goroutines and locks of the hinted-handoff service                  *)
(* (services/hh/service.go, services/hh/node_processor.go) as they concern *)
(* one target node: goroutines that call WriteShard, the run goroutine of  *)
(* every NodeProcessor made for the node, the purgeInactiveProcessors      *)
(* goroutine, and one call of Service.Close.                               *)
(*                                                                         *)
(* NodeProcessors are numbered 1, 2, ... in the order of their creation;   *)
(* the number also names the processor's run goroutine.  The queue is a    *)
(* count of hints here (HHQueue is about its insides), and both mutexes    *)
(* are Go's RWMutex: a waiting writer keeps new readers out.               *)
(***************************************************************************)
EXTENDS Integers, FiniteSets

CONSTANTS
  Writers,           \* goroutines that call Service.WriteShard
  Purger, Closer,    \* the purgeInactiveProcessors goroutine, the caller of Close
  MaxProcs,          \* bound: number of NodeProcessors created
  MaxWrites,         \* bound: no WriteShard is called after so many accepted hints
  RetryInterval, RetryMaxInterval, PurgeInterval,
  LookupErrors,      \* whether DataNode answers an error for a node that was removed
  Nil

ASSUME ThreadsAssumption == /\ IsFiniteSet(Writers)
                            /\ Purger \notin Writers /\ Closer \notin Writers
                            /\ Purger # Closer
ASSUME NumbersAssumption == /\ MaxProcs \in Nat \ {0} /\ MaxWrites \in Nat
                            /\ RetryInterval \in Nat \ {0}
                            /\ RetryMaxInterval \in Nat \ {0}
                            /\ PurgeInterval \in Nat \ {0}
ASSUME LookupAssumption == LookupErrors \in BOOLEAN

VARIABLES
  smu,        \* Service.mu
  nmu,        \* processor -> NodeProcessor.mu
  pc,         \* goroutine -> where it is
  done,       \* processor -> "none", or its done channel: "open", "closed", "nil"
  current,    \* the entry of Service.processors for the node, 0 if there is none
  target,     \* writer -> the processor it looked up
  svcClosed,  \* whether the closing channel of the service is closed
  interval,   \* processor -> currInterval of its run loop
  removed,    \* whether the node was removed from the cluster
  hints,      \* the number of hints in the node's directory
  old,        \* whether the directory was last written more than MaxAge ago
  writes,     \* the number of hints accepted so far
  ioFailed    \* whether closing the queue or removing the directory ever failed

vars == <<smu, nmu, pc, done, current, target, svcClosed, interval, removed,
          hints, old, writes, ioFailed>>

Procs == 1 .. MaxProcs
Threads == Writers \cup {Purger, Closer} \cup Procs

ASSUME NamesAssumption == /\ Nil \notin Threads /\ 0 \notin Threads
                          /\ Procs \cap (Writers \cup {Purger, Closer}) = {}

-----------------------------------------------------------------------------
(* sync.RWMutex *)

Unlocked == [writer |-> Nil, readers |-> {}, waiting |-> {}]

CanRLock(l) == l.writer = Nil /\ l.waiting = {}
RLock(l, t) == [l EXCEPT !.readers = @ \cup {t}]
RUnlock(l, t) == [l EXCEPT !.readers = @ \ {t}]

WantLock(l, t) == [l EXCEPT !.waiting = @ \cup {t}]
CanLock(l, t) == t \in l.waiting /\ l.writer = Nil /\ l.readers = {}
Lock(l, t) == [l EXCEPT !.writer = t, !.waiting = @ \ {t}]
Unlock(l) == [l EXCEPT !.writer = Nil]

Goto(t, label) == pc' = [pc EXCEPT ![t] = label]

-----------------------------------------------------------------------------
FirstInterval == IF RetryInterval > RetryMaxInterval THEN RetryMaxInterval ELSE RetryInterval

\* The state Service.Open leaves: a processor is open for the node if an earlier
\* process left a directory of hints for it, and the purger runs.
Init ==
  /\ smu = Unlocked
  /\ nmu = [i \in Procs |-> Unlocked]
  /\ current \in {0, 1}
  /\ pc = [t \in Threads |-> IF t = Purger \/ t = current THEN "select"
                             ELSE IF t \in Procs THEN "unborn" ELSE "idle"]
  /\ done = [i \in Procs |-> IF i = current THEN "open" ELSE "none"]
  /\ target = [w \in Writers |-> 0]
  /\ svcClosed = FALSE
  /\ interval = [i \in Procs |-> IF i = current THEN FirstInterval ELSE 0]
  /\ removed = FALSE
  /\ hints = current
  /\ old = FALSE
  /\ writes = 0
  /\ ioFailed = FALSE

dirVars == <<hints, old, writes, ioFailed>>

-----------------------------------------------------------------------------
(* Service.WriteShard *)

\* The lookup under the read lock, which is released before a miss goes on.
Lookup(w) ==
  /\ pc[w] = "idle"
  /\ writes < MaxWrites
  /\ CanRLock(smu)
  /\ target' = [target EXCEPT ![w] = current]
  /\ Goto(w, IF current # 0 THEN "append" ELSE "missed")
  /\ UNCHANGED <<smu, nmu, done, current, svcClosed, interval, removed, dirVars>>

\* After a miss the writer asks for the write lock.
Missed(w) ==
  /\ pc[w] = "missed"
  /\ smu' = WantLock(smu, w)
  /\ Goto(w, "create")
  /\ UNCHANGED <<nmu, done, current, target, svcClosed, interval, removed, dirVars>>

\* The processors that were never created.
Unborn == {i \in Procs : done[i] = "none"}

\* NodeProcessor.Open: a new directory with a new segment, and a run goroutine.
OpenNewUnchecked(w) ==
  \E i \in Unborn :
    /\ \A j \in Unborn : i <= j
    /\ done' = [done EXCEPT ![i] = "open"]
    /\ pc' = [pc EXCEPT ![w] = "append", ![i] = "select"]
    /\ interval' = [interval EXCEPT ![i] = FirstInterval]
    /\ current' = i
    /\ target' = [target EXCEPT ![w] = i]
    /\ old' = FALSE

\* Under the write lock the map is checked again before a processor is opened.
OpenIfAbsent(w) ==
  IF current # 0
  THEN /\ target' = [target EXCEPT ![w] = current]
       /\ Goto(w, "append")
       /\ UNCHANGED <<done, interval, current, old>>
  ELSE OpenNewUnchecked(w)

Create(w) ==
  /\ pc[w] = "create"
  /\ CanLock(smu, w)
  /\ smu' = Unlock(Lock(smu, w))
  /\ OpenIfAbsent(w)
  /\ UNCHANGED <<nmu, svcClosed, removed, hints, writes, ioFailed>>

\* NodeProcessor.Open fails: its error is returned and the map stays as it is.
CreateFails(w) ==
  /\ pc[w] = "create"
  /\ CanLock(smu, w)
  /\ current = 0
  /\ smu' = Unlock(Lock(smu, w))
  /\ Goto(w, "idle")
  /\ UNCHANGED <<nmu, done, current, target, svcClosed, interval, removed, dirVars>>

\* NodeProcessor.WriteShard: refused with an error once the processor is closed.
AppendHint(w) ==
  /\ pc[w] = "append"
  /\ CanRLock(nmu[target[w]])
  /\ Goto(w, "idle")
  /\ IF done[target[w]] # "nil"
     THEN hints' = hints + 1 /\ writes' = writes + 1 /\ old' = FALSE
     ELSE UNCHANGED <<hints, writes, old>>
  /\ UNCHANGED <<smu, nmu, done, current, target, svcClosed, interval, removed, ioFailed>>

-----------------------------------------------------------------------------
(* NodeProcessor.run and SendWrite *)

\* Both timers of the select are started anew on every turn of the loop, so the
\* shorter one always wins.
RetryTick(i) ==
  /\ pc[i] = "select"
  /\ interval[i] <= PurgeInterval
  /\ Goto(i, "rlock")
  /\ UNCHANGED <<smu, nmu, done, current, target, svcClosed, interval, removed, dirVars>>

\* PurgeOlderThan takes the queue's own lock only.
PurgeTick(i) ==
  /\ pc[i] = "select"
  /\ PurgeInterval <= interval[i]
  /\ IF old THEN hints' = 0 /\ old' = FALSE ELSE UNCHANGED <<hints, old>>
  /\ UNCHANGED <<smu, nmu, pc, done, current, target, svcClosed, interval, removed,
                 writes, ioFailed>>

RunReturns(i) ==
  /\ pc[i] = "select"
  /\ done[i] = "closed"
  /\ Goto(i, "exited")
  /\ UNCHANGED <<smu, nmu, done, current, target, svcClosed, interval, removed, dirVars>>

Backoff(i) == IF interval[i] * 2 > RetryMaxInterval THEN RetryMaxInterval ELSE interval[i] * 2

\* SendWrite returns at once: Active fails, the node is inactive, or the queue
\* is empty.  The last two are io.EOF and end the back-off.
SendNothing(i) ==
  /\ pc[i] = "rlock"
  /\ CanRLock(nmu[i])
  /\ removed \/ hints = 0
  /\ interval' = [interval EXCEPT ![i] = IF removed /\ LookupErrors
                                         THEN Backoff(i) ELSE RetryInterval]
  /\ Goto(i, "select")
  /\ UNCHANGED <<smu, nmu, done, current, target, svcClosed, removed, dirVars>>

SendBeginsOnEmpty(i) ==
  /\ pc[i] = "rlock"
  /\ CanRLock(nmu[i])
  /\ ~removed
  /\ nmu' = [nmu EXCEPT ![i] = RLock(@, i)]
  /\ Goto(i, "sending")
  /\ UNCHANGED <<smu, done, current, target, svcClosed, interval, removed, dirVars>>

\* The queue has a hint: it is sent with n.mu held for reading.
SendBegins(i) ==
  /\ pc[i] = "rlock"
  /\ CanRLock(nmu[i])
  /\ ~removed
  /\ hints > 0
  /\ nmu' = [nmu EXCEPT ![i] = RLock(@, i)]
  /\ Goto(i, "sending")
  /\ UNCHANGED <<smu, done, current, target, svcClosed, interval, removed, dirVars>>

\* The hint was written and the queue advanced; the next one follows at once.
SendSucceeds(i) ==
  /\ pc[i] = "sending"
  /\ nmu' = [nmu EXCEPT ![i] = RUnlock(@, i)]
  /\ hints' = hints - 1
  /\ old' = FALSE
  /\ interval' = [interval EXCEPT ![i] = RetryInterval]
  /\ Goto(i, "rlock")
  /\ UNCHANGED <<smu, done, current, target, svcClosed, removed, writes, ioFailed>>

SendFails(i) ==
  /\ pc[i] = "sending"
  /\ nmu' = [nmu EXCEPT ![i] = RUnlock(@, i)]
  /\ interval' = [interval EXCEPT ![i] = Backoff(i)]
  /\ Goto(i, "select")
  /\ UNCHANGED <<smu, done, current, target, svcClosed, removed, dirVars>>

\* The hint does not unmarshal: the queue advances past it all the same.
SendSkips(i) ==
  /\ pc[i] = "sending"
  /\ nmu' = [nmu EXCEPT ![i] = RUnlock(@, i)]
  /\ hints' = hints - 1
  /\ old' = FALSE
  /\ interval' = [interval EXCEPT ![i] = Backoff(i)]
  /\ Goto(i, "select")
  /\ UNCHANGED <<smu, done, current, target, svcClosed, removed, writes, ioFailed>>

-----------------------------------------------------------------------------
(* NodeProcessor.Close, called by t with Service.mu held *)

\* close(n.done) under n.mu, unless the processor is closed already.
CloseDone(t) ==
  /\ pc[t] = "closeProc"
  /\ CanLock(nmu[current], t)
  /\ IF done[current] = "nil"
     THEN /\ nmu' = [nmu EXCEPT ![current] = Unlock(Lock(@, t))]
          /\ Goto(t, "procClosed")
          /\ UNCHANGED done
     ELSE /\ nmu' = [nmu EXCEPT ![current] = Lock(@, t)]
          /\ done' = [done EXCEPT ![current] = "closed"]
          /\ Goto(t, "waitRun")
  /\ UNCHANGED <<smu, current, target, svcClosed, interval, removed, dirVars>>

RunIsOverUnchecked(i) == TRUE

\* What n.wg.Wait() waits for.
RunIsOver(i) == pc[i] = "exited"

\* n.wg.Wait() with n.mu held.
RunEnded(t) ==
  /\ pc[t] = "waitRun"
  /\ RunIsOver(current)
  /\ done' = [done EXCEPT ![current] = "nil"]
  /\ nmu' = [nmu EXCEPT ![current] = Unlock(@)]
  /\ UNCHANGED <<current, target, svcClosed, interval, removed, hints, old, writes>>

\* The queue is closed.
WaitRun(t) == RunEnded(t) /\ Goto(t, "procClosed") /\ UNCHANGED <<smu, ioFailed>>

\* The file of a segment cannot be closed: Service.Close returns that error, and the
\* purger goes on without removing anything.
WaitRunFails(t) ==
  /\ RunEnded(t)
  /\ smu' = Unlock(smu)
  /\ Goto(t, IF t = Purger THEN "select" ELSE "returned")
  /\ ioFailed' = TRUE

-----------------------------------------------------------------------------
(* Service.purgeInactiveProcessors *)

PurgerTick ==
  /\ pc[Purger] = "select"
  /\ smu' = WantLock(smu, Purger)
  /\ Goto(Purger, "svcLock")
  /\ UNCHANGED <<nmu, done, current, target, svcClosed, interval, removed, dirVars>>

PurgerReturns ==
  /\ pc[Purger] = "select"
  /\ svcClosed
  /\ Goto(Purger, "exited")
  /\ UNCHANGED <<smu, nmu, done, current, target, svcClosed, interval, removed, dirVars>>

\* The processor is to be removed: its node is inactive, which Active reports
\* without an error, and its data is old (LastModified of a closed queue is the
\* zero time).
ToBeRemoved == /\ current # 0 /\ removed /\ ~LookupErrors
               /\ old \/ done[current] = "nil"

PurgerScansKeepingLock ==
  /\ pc[Purger] = "svcLock"
  /\ CanLock(smu, Purger)
  /\ smu' = Lock(smu, Purger)
  /\ Goto(Purger, "select")
  /\ UNCHANGED <<nmu, done, current, target, svcClosed, interval, removed, dirVars>>

PurgerScans ==
  /\ pc[Purger] = "svcLock"
  /\ CanLock(smu, Purger)
  /\ IF ToBeRemoved
     THEN /\ smu' = Lock(smu, Purger)
          /\ nmu' = [nmu EXCEPT ![current] = WantLock(@, Purger)]
          /\ Goto(Purger, "closeProc")
     ELSE /\ smu' = Unlock(Lock(smu, Purger))
          /\ Goto(Purger, "select")
          /\ UNCHANGED nmu
  /\ UNCHANGED <<done, current, target, svcClosed, interval, removed, dirVars>>

PurgerRemovesKeepingEntry ==
  /\ pc[Purger] = "procClosed"
  /\ nmu[current].readers = {}
  /\ hints' = 0
  /\ smu' = Unlock(smu)
  /\ Goto(Purger, "select")
  /\ UNCHANGED <<nmu, done, current, target, svcClosed, interval, removed, old, writes, ioFailed>>

\* NodeProcessor.Purge removes the directory and the entry is deleted.
PurgerRemoves ==
  /\ pc[Purger] = "procClosed"
  /\ nmu[current].readers = {}
  /\ hints' = 0
  /\ current' = 0
  /\ smu' = Unlock(smu)
  /\ Goto(Purger, "select")
  /\ UNCHANGED <<nmu, done, target, svcClosed, interval, removed, old, writes, ioFailed>>

\* os.RemoveAll fails: the closed processor stays in the map.
PurgerRemoveFails ==
  /\ pc[Purger] = "procClosed"
  /\ nmu[current].readers = {}
  /\ ioFailed' = TRUE
  /\ smu' = Unlock(smu)
  /\ Goto(Purger, "select")
  /\ UNCHANGED <<nmu, done, current, target, svcClosed, interval, removed, hints, old, writes>>

-----------------------------------------------------------------------------
(* Service.Close *)

CloseCalled ==
  /\ pc[Closer] = "idle"
  /\ smu' = WantLock(smu, Closer)
  /\ Goto(Closer, "svcLock")
  /\ UNCHANGED <<nmu, done, current, target, svcClosed, interval, removed, dirVars>>

CloserLocks ==
  /\ pc[Closer] = "svcLock"
  /\ CanLock(smu, Closer)
  /\ smu' = Lock(smu, Closer)
  /\ IF current # 0
     THEN /\ nmu' = [nmu EXCEPT ![current] = WantLock(@, Closer)]
          /\ Goto(Closer, "closeProc")
     ELSE Goto(Closer, "procClosed") /\ UNCHANGED nmu
  /\ UNCHANGED <<done, current, target, svcClosed, interval, removed, dirVars>>

CloserSignals ==
  /\ pc[Closer] = "procClosed"
  /\ svcClosed' = TRUE
  /\ Goto(Closer, "waitPurger")
  /\ UNCHANGED <<smu, nmu, done, current, target, interval, removed, dirVars>>

\* s.wg.Wait() with s.mu held.
CloserReturns ==
  /\ pc[Closer] = "waitPurger"
  /\ pc[Purger] = "exited"
  /\ smu' = Unlock(smu)
  /\ Goto(Closer, "returned")
  /\ UNCHANGED <<nmu, done, current, target, svcClosed, interval, removed, dirVars>>

-----------------------------------------------------------------------------
(* The cluster and the clock *)

RemoveNode ==
  /\ ~removed
  /\ removed' = TRUE
  /\ UNCHANGED <<smu, nmu, pc, done, current, target, svcClosed, interval, dirVars>>

GrowOld ==
  /\ ~old
  /\ old' = TRUE
  /\ UNCHANGED <<smu, nmu, pc, done, current, target, svcClosed, interval, removed,
                 hints, writes, ioFailed>>

-----------------------------------------------------------------------------
WriteShard(w) == Lookup(w) \/ Missed(w) \/ Create(w) \/ CreateFails(w) \/ AppendHint(w)

SendWrite(i) == \/ SendNothing(i) \/ SendBegins(i)
                \/ SendSucceeds(i) \/ SendFails(i) \/ SendSkips(i)

Run(i) == RetryTick(i) \/ PurgeTick(i) \/ RunReturns(i) \/ SendWrite(i)

CloseProcessor(t) == CloseDone(t) \/ WaitRun(t) \/ WaitRunFails(t)

PurgeInactive == PurgerTick \/ PurgerReturns \/ PurgerScans \/ PurgerRemoves
                   \/ PurgerRemoveFails \/ CloseProcessor(Purger)

ServiceClose == CloserLocks \/ CloserSignals \/ CloserReturns \/ CloseProcessor(Closer)

Next ==
  \/ \E w \in Writers : WriteShard(w)
  \/ \E i \in Procs : Run(i)
  \/ PurgeInactive
  \/ CloseCalled \/ ServiceClose
  \/ RemoveNode \/ GrowOld

Spec == Init /\ [][Next]_vars

(* Fairness: every goroutine that can run does, a mutex that becomes free again
   and again is eventually granted (Go's RWMutex starves nobody), and a run
   loop whose done channel is closed eventually picks that case of its select.
   A new WriteShard, Close, the removal of the node and the growing age of the
   directory are left to chance. *)
Fairness ==
  /\ \A w \in Writers : /\ WF_vars(Missed(w)) /\ SF_vars(Create(w) \/ CreateFails(w))
                        /\ SF_vars(AppendHint(w))
  /\ \A i \in Procs : /\ WF_vars(Run(i)) /\ SF_vars(RunReturns(i))
                      /\ SF_vars(SendWrite(i))
  /\ SF_vars(PurgeInactive) /\ SF_vars(PurgerReturns) /\ SF_vars(PurgerScans)
  /\ SF_vars(ServiceClose)

FairSpec == Spec /\ Fairness

-----------------------------------------------------------------------------
(* Properties *)

Locks == [writer : Threads \cup {Nil}, readers : SUBSET Threads, waiting : SUBSET Threads]

\* Every variable has its type.
TypeOK ==
  /\ smu \in Locks /\ nmu \in [Procs -> Locks]
  /\ pc \in [Threads -> {"idle", "missed", "create", "append", "unborn", "select", "rlock", "sending",
                         "exited", "svcLock", "closeProc", "waitRun", "procClosed",
                         "waitPurger", "returned"}]
  /\ done \in [Procs -> {"none", "open", "closed", "nil"}]
  /\ current \in Procs \cup {0}
  /\ target \in [Writers -> Procs \cup {0}]
  /\ svcClosed \in BOOLEAN /\ removed \in BOOLEAN /\ old \in BOOLEAN /\ ioFailed \in BOOLEAN
  /\ interval \in [Procs -> Nat]
  /\ hints \in Nat /\ writes \in Nat

QueueIsOpen(i) == done[i] \in {"open", "closed"}

\* Two processors never have the node's directory open at the same time, however
\* the writers that found no processor race each other and the purger.
OneQueuePerDirectory ==
  \A i, j \in Procs : QueueIsOpen(i) /\ QueueIsOpen(j) => i = j

\* A closed processor is quiet: its run goroutine has ended, so that nothing
\* sends from a closed queue.
ClosedIsQuiet ==
  \A i \in Procs : /\ done[i] = "nil" => pc[i] = "exited"
                   /\ pc[i] = "sending" => done[i] = "open"

\* Until Close is called, a writer that finds a processor in the map can use it;
\* a closed one is only ever left there by a failure to close its queue or to remove
\* its directory.
MapEntryIsUsable ==
  (current # 0 /\ smu.writer = Nil /\ pc[Closer] = "idle" /\ ~ioFailed) => done[current] = "open"

\* Somebody waits for another goroutine with a mutex held (node_processor.go:109,
\* service.go:145).
ClosingWaits == \E t \in {Purger, Closer} : pc[t] \in {"waitRun", "waitPurger"}

\* A WriteShard call returns: nothing keeps it waiting for ever except a Close that waits
\* with a mutex held.
WritesReturn ==
  \A w \in Writers : pc[w] # "idle" ~> (pc[w] = "idle" \/ ClosingWaits)

\* "Close closes the hinted handoff service" (service.go:126): a Close that was called
\* comes to its end.
CloseReturns == pc[Closer] # "idle" ~> pc[Closer] = "returned"

\* "It also purges any hinted handoff data older than the configured time"
\* (node_processor.go:154).
OldHintsArePurged ==
  (old /\ hints > 0) ~> (~old \/ hints = 0 \/ pc[Closer] # "idle")

=============================================================================
