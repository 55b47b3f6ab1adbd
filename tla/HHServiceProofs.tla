-------------------------- MODULE HHServiceProofs --------------------------
(* Proofs about the locks of the hinted-handoff service, for any number of writers,
   processors and writes. *)
EXTENDS HHService, TLAPS

\* The goroutines that close a processor.
Closers == {Purger, Closer}

-----------------------------------------------------------------------------
(* Type correctness *)

\* The operations of a mutex return a mutex.
LEMMA LockTypes ==
  ASSUME NEW l \in Locks, NEW t \in Threads
  PROVE  /\ RLock(l, t) \in Locks /\ RUnlock(l, t) \in Locks /\ WantLock(l, t) \in Locks
         /\ Lock(l, t) \in Locks /\ Unlock(l) \in Locks
  BY DEF Locks, RLock, RUnlock, WantLock, Lock, Unlock

\* What the operations of a mutex do to its holder and its readers.
LEMMA LockParts ==
  ASSUME NEW l \in Locks, NEW t
  PROVE  /\ RLock(l, t).writer = l.writer /\ RLock(l, t).readers = l.readers \cup {t}
         /\ RUnlock(l, t).writer = l.writer /\ RUnlock(l, t).readers = l.readers \ {t}
         /\ WantLock(l, t).writer = l.writer /\ WantLock(l, t).readers = l.readers
         /\ Lock(l, t).writer = t /\ Lock(l, t).readers = l.readers
         /\ Unlock(l).writer = Nil /\ Unlock(l).readers = l.readers
         /\ Unlock(Lock(l, t)).writer = Nil /\ Unlock(Lock(l, t)).readers = l.readers
  BY DEF Locks, RLock, RUnlock, WantLock, Lock, Unlock

\* The goroutines are distinct.
LEMMA ThreadFacts ==
  /\ Purger \in Threads /\ Closer \in Threads /\ Purger # Closer
  /\ Purger \notin Procs /\ Closer \notin Procs
  /\ \A i \in Procs : i \in Threads /\ i # 0
  /\ \A w \in Writers : w \in Threads /\ w \notin Procs /\ w # Purger /\ w # Closer
  /\ \A t \in Threads : t # Nil /\ t # 0
  BY ThreadsAssumption, NumbersAssumption, NamesAssumption DEF Threads, Procs

Labels == {"idle", "missed", "create", "append", "unborn", "select", "rlock", "sending",
           "exited", "svcLock", "closeProc", "waitRun", "procClosed", "waitPurger", "returned"}

\* The initial state is well typed.
LEMMA TypeInit == Init => TypeOK
<1> SUFFICES ASSUME Init PROVE TypeOK
  OBVIOUS
<1>1. Unlocked \in Locks
  BY DEF Unlocked, Locks
<1>2. smu \in Locks /\ nmu \in [Procs -> Locks]
  BY <1>1 DEF Init
<1>3. current \in Procs \cup {0} /\ current \in Nat
  BY NumbersAssumption DEF Init, Procs
<1>4. interval \in [Procs -> Nat]
  BY NumbersAssumption DEF Init, FirstInterval
<1>5. /\ pc \in [Threads -> Labels] /\ done \in [Procs -> {"none", "open", "closed", "nil"}]
      /\ target \in [Writers -> Procs \cup {0}]
  BY DEF Init, Labels
<1> QED BY <1>2, <1>3, <1>4, <1>5 DEF Init, TypeOK, Labels

\* A writer's step is well typed.
LEMMA TypeWriter ==
  ASSUME TypeOK, NEW w \in Writers, WriteShard(w)
  PROVE  TypeOK'
<1> USE DEF TypeOK, Goto, dirVars
<1>1. w \in Threads
  BY ThreadFacts
<1>2. CASE Lookup(w)
  BY <1>1, <1>2 DEF Lookup
<1>3. CASE Missed(w)
  BY <1>1, <1>3, LockTypes DEF Missed
<1>4. CASE Create(w)
  <2>1. smu' \in Locks
    BY <1>1, <1>4, LockTypes DEF Create
  <2>2. CASE current # 0
    BY <1>1, <1>4, <2>1, <2>2 DEF Create, OpenIfAbsent
  <2>3. CASE current = 0
    <3>1. FirstInterval \in Nat
      BY NumbersAssumption DEF FirstInterval
    <3>2. PICK i \in Procs :
            /\ done' = [done EXCEPT ![i] = "open"]
            /\ pc' = [pc EXCEPT ![w] = "append", ![i] = "select"]
            /\ interval' = [interval EXCEPT ![i] = FirstInterval]
            /\ current' = i
            /\ target' = [target EXCEPT ![w] = i]
            /\ old' = FALSE
      BY <1>4, <2>3 DEF Create, OpenIfAbsent, OpenNewUnchecked, Unborn
    <3> QED BY <1>1, <1>4, <2>1, <3>1, <3>2 DEF Create
  <2> QED BY <2>2, <2>3
<1>5. CASE AppendHint(w)
  <2>1. pc' \in [Threads -> Labels]
    BY <1>1, <1>5 DEF AppendHint, Labels
  <2>2. /\ hints' = hints + 1 \/ hints' = hints
        /\ writes' = writes + 1 \/ writes' = writes
        /\ old' = FALSE \/ old' = old
    BY <1>5, Zenon DEF AppendHint
  <2>3. hints' \in Nat /\ writes' \in Nat
    BY <2>2
  <2>4. old' \in BOOLEAN
    BY <2>2, Zenon
  <2> QED BY <1>5, <2>1, <2>3, <2>4 DEF AppendHint, Labels
<1>6. CASE CreateFails(w)
  BY <1>1, <1>6, LockTypes DEF CreateFails
<1> QED BY <1>2, <1>3, <1>4, <1>5, <1>6 DEF WriteShard

\* A step of a run goroutine is well typed, given that a hint is counted while it is sent.
LEMMA TypeRun ==
  ASSUME TypeOK, NEW i \in Procs, Run(i), pc[i] = "sending" => hints > 0
  PROVE  TypeOK'
<1> USE DEF TypeOK, Goto, dirVars
<1>1. i \in Threads
  BY ThreadFacts
<1>2. Backoff(i) \in Nat /\ RetryInterval \in Nat
  BY NumbersAssumption DEF Backoff
<1>3. RLock(nmu[i], i) \in Locks /\ RUnlock(nmu[i], i) \in Locks
  BY <1>1, LockTypes
<1>4. CASE RetryTick(i) \/ RunReturns(i)
  BY <1>1, <1>4 DEF RetryTick, RunReturns
<1>9. CASE PurgeTick(i)
  <2>1. (hints' = 0 \/ hints' = hints) /\ (old' = FALSE \/ old' = old)
    BY <1>9, Zenon DEF PurgeTick
  <2>2. hints' \in Nat
    BY <2>1
  <2>3. old' \in BOOLEAN
    BY <2>1, Zenon
  <2> QED BY <1>9, <2>2, <2>3 DEF PurgeTick
<1>5. CASE SendNothing(i)
  BY <1>1, <1>2, <1>5 DEF SendNothing
<1>6. CASE SendBegins(i)
  BY <1>1, <1>3, <1>6 DEF SendBegins
<1>7. CASE SendSucceeds(i)
  <2>1. hints' \in Nat
    BY <1>7 DEF SendSucceeds
  <2>2. /\ pc' \in [Threads -> Labels] /\ nmu' \in [Procs -> Locks]
        /\ interval' \in [Procs -> Nat]
    BY <1>1, <1>2, <1>3, <1>7 DEF SendSucceeds, Labels
  <2> QED BY <1>7, <2>1, <2>2 DEF SendSucceeds, Labels
<1>8. CASE SendFails(i)
  BY <1>1, <1>2, <1>3, <1>8 DEF SendFails
<1>10. CASE SendSkips(i)
  <2>1. hints' \in Nat
    BY <1>10 DEF SendSkips
  <2>2. /\ pc' \in [Threads -> Labels] /\ nmu' \in [Procs -> Locks]
        /\ interval' \in [Procs -> Nat]
    BY <1>1, <1>2, <1>3, <1>10 DEF SendSkips, Labels
  <2> QED BY <1>10, <2>1, <2>2 DEF SendSkips, Labels
<1> QED BY <1>4, <1>5, <1>6, <1>7, <1>8, <1>9, <1>10 DEF Run, SendWrite

\* A step of a goroutine that closes processors is well typed, given that it has a
\* processor to close.
LEMMA TypeClose ==
  ASSUME TypeOK, NEW t \in Closers, CloseProcessor(t), current # 0
  PROVE  TypeOK'
<1> USE DEF TypeOK, Goto, dirVars, Closers
<1>1. t \in Threads /\ current \in Procs
  BY ThreadFacts
<1>2. /\ Lock(nmu[current], t) \in Locks /\ Unlock(nmu[current]) \in Locks
      /\ Unlock(Lock(nmu[current], t)) \in Locks
  BY <1>1, LockTypes
<1>3. CASE CloseDone(t)
  BY <1>1, <1>2, <1>3 DEF CloseDone
<1>4. CASE WaitRun(t)
  BY <1>1, <1>2, <1>4 DEF WaitRun, RunEnded
<1>5. CASE WaitRunFails(t)
  BY <1>1, <1>2, <1>5, LockTypes DEF WaitRunFails, RunEnded
<1> QED BY <1>3, <1>4, <1>5 DEF CloseProcessor

\* The other steps of the purger, of Close and of the environment are well typed.
LEMMA TypeOther ==
  ASSUME TypeOK,
         \/ PurgerTick \/ PurgerReturns \/ PurgerScans \/ PurgerRemoves \/ PurgerRemoveFails
         \/ CloseCalled \/ CloserLocks \/ CloserSignals \/ CloserReturns
         \/ RemoveNode \/ GrowOld
  PROVE  TypeOK'
<1> USE DEF TypeOK, Goto, dirVars
<1>1. ASSUME NEW t \in Closers
      PROVE  /\ t \in Threads
             /\ WantLock(smu, t) \in Locks /\ Lock(smu, t) \in Locks /\ Unlock(smu) \in Locks
             /\ Unlock(Lock(smu, t)) \in Locks
             /\ \A i \in Procs : WantLock(nmu[i], t) \in Locks
  BY ThreadFacts, LockTypes DEF Closers
<1>2. CASE PurgerTick \/ PurgerReturns \/ CloseCalled \/ CloserSignals
  BY <1>1, <1>2 DEF PurgerTick, PurgerReturns, CloseCalled, CloserSignals, Closers
<1>3. CASE PurgerScans
  <2>1. CASE ToBeRemoved
    BY <1>1, <1>3, <2>1 DEF PurgerScans, ToBeRemoved, Closers
  <2>2. CASE ~ToBeRemoved
    BY <1>1, <1>3, <2>2 DEF PurgerScans, Closers
  <2> QED BY <2>1, <2>2
<1>4. CASE PurgerRemoves
  BY <1>1, <1>4 DEF PurgerRemoves, Closers
<1>5. CASE PurgerRemoveFails
  BY <1>1, <1>5 DEF PurgerRemoveFails, Closers
<1>6. CASE CloserLocks
  BY <1>1, <1>6 DEF CloserLocks, Closers
<1>7. CASE CloserReturns
  BY <1>1, <1>7 DEF CloserReturns, Closers
<1>8. CASE RemoveNode \/ GrowOld
  BY <1>8 DEF RemoveNode, GrowOld
<1> QED BY <1>2, <1>3, <1>4, <1>5, <1>6, <1>7, <1>8

-----------------------------------------------------------------------------
(* The inductive invariant: who holds Service.mu, and what the holder has done to the
   processor in the map *)

\* Purger and Close hold Service.mu while they close a processor.
HoldsServiceLock ==
  /\ \A t \in Closers : pc[t] \in {"closeProc", "waitRun", "procClosed"} => smu.writer = t
  /\ pc[Closer] = "waitPurger" => smu.writer = Closer

\* What they close is in the map, and the purger removes it only when it is closed.
ClosesCurrent ==
  /\ \A t \in Closers : pc[t] \in {"closeProc", "waitRun"} => current # 0
  /\ \A t \in Closers : pc[t] = "waitRun" => /\ nmu[current].writer = t
                                             /\ done[current] = "closed"
  /\ pc[Purger] = "procClosed" => current # 0 /\ done[current] = "nil"

\* An open queue belongs to the processor in the map, and while its done channel is
\* closed its mutex is held.
OpenIsCurrent ==
  \A i \in Procs : /\ QueueIsOpen(i) => i = current
                   /\ done[i] = "closed" => nmu[i].writer # Nil

\* A run goroutine lives while its queue is open, and sends with its mutex held.
RunsWhileOpen ==
  \A i \in Procs : /\ done[i] = "none" => pc[i] = "unborn"
                   /\ done[i] = "nil" => pc[i] = "exited"
                   /\ pc[i] = "sending" => /\ done[i] = "open"
                                           /\ i \in nmu[i].readers
                                           /\ hints > 0

ServiceInv == TypeOK /\ HoldsServiceLock /\ ClosesCurrent /\ OpenIsCurrent /\ RunsWhileOpen

\* The invariant implies the properties.
LEMMA ServiceInvSuffices == ServiceInv => TypeOK /\ OneQueuePerDirectory /\ ClosedIsQuiet
  BY DEF ServiceInv, OpenIsCurrent, RunsWhileOpen, OneQueuePerDirectory, ClosedIsQuiet

\* The invariant holds after Service.Open.
LEMMA ServiceInvInit == Init => ServiceInv
<1> SUFFICES ASSUME Init PROVE ServiceInv
  OBVIOUS
<1>1. TypeOK
  BY TypeInit
<1>2. pc[Purger] = "select" /\ pc[Closer] = "idle"
  <2>1. Closer # current
    BY ThreadFacts, NumbersAssumption DEF Init, Procs
  <2> QED BY <2>1, ThreadFacts DEF Init
<1>3. HoldsServiceLock /\ ClosesCurrent
  BY <1>2 DEF HoldsServiceLock, ClosesCurrent, Closers
<1>4. OpenIsCurrent
  BY DEF Init, OpenIsCurrent, QueueIsOpen
<1>5. RunsWhileOpen
  BY ThreadFacts DEF Init, RunsWhileOpen
<1> QED BY <1>1, <1>3, <1>4, <1>5 DEF ServiceInv

\* A writer's step keeps the invariant: a processor is created under the write lock,
\* when nobody is closing and no queue is open.
LEMMA ServiceInvWriter ==
  ASSUME ServiceInv, NEW w \in Writers, WriteShard(w)
  PROVE  ServiceInv'
<1> USE DEF ServiceInv, Goto, dirVars
<1>1. TypeOK'
  BY TypeWriter
<1>2. w \in Threads /\ w \notin Procs /\ w # Purger /\ w # Closer
  BY ThreadFacts
<1>3. CASE Lookup(w)
  <2>1. pc'[Purger] = pc[Purger] /\ pc'[Closer] = pc[Closer] /\ \A i \in Procs : pc'[i] = pc[i]
    BY <1>2, <1>3 DEF Lookup, TypeOK
  <2> QED
    BY <1>1, <1>3, <2>1 DEF Lookup, HoldsServiceLock, ClosesCurrent, OpenIsCurrent, RunsWhileOpen,
                            QueueIsOpen, Closers
<1>4. CASE Missed(w)
  <2>1. pc'[Purger] = pc[Purger] /\ pc'[Closer] = pc[Closer] /\ \A i \in Procs : pc'[i] = pc[i]
    BY <1>2, <1>4 DEF Missed, TypeOK
  <2>2. smu'.writer = smu.writer
    BY <1>4, LockParts DEF Missed, TypeOK
  <2> QED
    BY <1>1, <1>4, <2>1, <2>2 DEF Missed, HoldsServiceLock, ClosesCurrent, OpenIsCurrent,
                                  RunsWhileOpen, QueueIsOpen, Closers
<1>5. CASE AppendHint(w)
  <2>1. pc'[Purger] = pc[Purger] /\ pc'[Closer] = pc[Closer] /\ \A i \in Procs : pc'[i] = pc[i]
    BY <1>2, <1>5 DEF AppendHint, TypeOK
  <2>4. hints' = hints + 1 \/ hints' = hints
    BY <1>5, Zenon DEF AppendHint
  <2>2. hints > 0 => hints' > 0
    BY <2>4 DEF TypeOK
  <2>3. UNCHANGED <<smu, nmu, done, current>>
    BY <1>5 DEF AppendHint
  <2> QED
    BY <1>1, <2>1, <2>2, <2>3 DEF HoldsServiceLock, ClosesCurrent, OpenIsCurrent,
                                  RunsWhileOpen, QueueIsOpen, Closers
<1>6. CASE Create(w)
  <2>1. smu.writer = Nil /\ smu'.writer = Nil
    BY <1>6, LockParts DEF Create, CanLock, TypeOK
  <2>2. /\ \A t \in Closers : pc[t] \notin {"closeProc", "waitRun", "procClosed"}
        /\ pc[Closer] # "waitPurger"
    BY <2>1, ThreadFacts DEF HoldsServiceLock, Closers
  <2>3. CASE current # 0
    <3>1. pc'[Purger] = pc[Purger] /\ pc'[Closer] = pc[Closer] /\ \A i \in Procs : pc'[i] = pc[i]
      <4>1. pc' = [pc EXCEPT ![w] = "append"]
        BY <1>6, <2>3 DEF Create, OpenIfAbsent
      <4> QED BY <1>2, <4>1, ThreadFacts DEF TypeOK
    <3>2. UNCHANGED <<nmu, done, current, hints>>
      BY <1>6, <2>3 DEF Create, OpenIfAbsent
    <3> HIDE DEF ServiceInv
    <3> QED
      BY <1>1, <2>1, <2>2, <3>1, <3>2 DEF ServiceInv, HoldsServiceLock, ClosesCurrent, OpenIsCurrent,
                                          RunsWhileOpen, QueueIsOpen, Closers
  <2>4. CASE current = 0
    <3>1. PICK i \in Procs :
            /\ done[i] = "none"
            /\ done' = [done EXCEPT ![i] = "open"]
            /\ pc' = [pc EXCEPT ![w] = "append", ![i] = "select"]
            /\ current' = i
      BY <1>6, <2>4 DEF Create, OpenIfAbsent, OpenNewUnchecked, Unborn
    <3>2. \A j \in Procs : done[j] \in {"none", "nil"}
      BY <2>4, ThreadFacts DEF OpenIsCurrent, QueueIsOpen, TypeOK
    <3>3. pc'[Purger] = pc[Purger] /\ pc'[Closer] = pc[Closer]
      BY <1>2, <3>1, ThreadFacts DEF TypeOK
    <3>4. /\ done'[i] = "open" /\ pc'[i] = "select"
          /\ \A j \in Procs : j # i => done'[j] = done[j] /\ pc'[j] = pc[j]
      BY <1>2, <3>1, ThreadFacts DEF TypeOK
    <3>5. UNCHANGED <<nmu, hints>>
      BY <1>6 DEF Create
    <3>6. HoldsServiceLock' /\ ClosesCurrent'
      BY <2>2, <3>3 DEF HoldsServiceLock, ClosesCurrent, Closers
    <3>7. OpenIsCurrent'
      BY <3>1, <3>2, <3>4 DEF OpenIsCurrent, QueueIsOpen
    <3>8. RunsWhileOpen'
      BY <3>2, <3>4, <3>5 DEF RunsWhileOpen
    <3> QED BY <1>1, <3>6, <3>7, <3>8
  <2> QED BY <2>3, <2>4
<1>7. CASE CreateFails(w)
  <2>1. pc'[Purger] = pc[Purger] /\ pc'[Closer] = pc[Closer] /\ \A i \in Procs : pc'[i] = pc[i]
    BY <1>2, <1>7 DEF CreateFails, TypeOK
  <2>2. smu'.writer = smu.writer
    BY <1>7, LockParts DEF CreateFails, CanLock, TypeOK
  <2> QED
    BY <1>1, <1>7, <2>1, <2>2 DEF CreateFails, HoldsServiceLock, ClosesCurrent, OpenIsCurrent,
                                  RunsWhileOpen, QueueIsOpen, Closers
<1> QED BY <1>3, <1>4, <1>5, <1>6, <1>7 DEF WriteShard

\* A processor whose run goroutine can still act has its queue open.
LEMMA LiveIsCurrent ==
  ASSUME ServiceInv, NEW i \in Procs, pc[i] \in {"select", "rlock", "sending"}
  PROVE  /\ i = current /\ i # 0
         /\ \A j \in Procs : pc[j] = "sending" => j = i
<1>1. done[i] \in {"open", "closed"}
  BY DEF ServiceInv, RunsWhileOpen, TypeOK
<1>2. i = current /\ i # 0
  BY <1>1, ThreadFacts DEF ServiceInv, OpenIsCurrent, QueueIsOpen
<1> QED BY <1>2 DEF ServiceInv, RunsWhileOpen, OpenIsCurrent, QueueIsOpen

\* A step of a run goroutine keeps the invariant: it touches nobody else's state, and
\* it is the only one that sends from the queue whose length it changes.
LEMMA ServiceInvRun ==
  ASSUME ServiceInv, NEW i \in Procs, Run(i)
  PROVE  ServiceInv'
<1> USE DEF ServiceInv, Goto, dirVars
<1>1. TypeOK'
  BY TypeRun DEF RunsWhileOpen
<1>2. i \in Threads /\ i # Purger /\ i # Closer
  BY ThreadFacts
<1>3. pc[i] \in {"select", "rlock", "sending"}
  BY DEF Run, SendWrite, RetryTick, PurgeTick, RunReturns, SendNothing, SendBegins, SendSucceeds,
         SendFails, SendSkips
<1>4. i = current /\ i # 0 /\ \A j \in Procs : pc[j] = "sending" => j = i
  BY <1>3, LiveIsCurrent
<1>5. UNCHANGED <<smu, done, current>>
  BY DEF Run, SendWrite, RetryTick, PurgeTick, RunReturns, SendNothing, SendBegins, SendSucceeds,
         SendFails, SendSkips
<1>6. \E l \in Labels : /\ pc' = [pc EXCEPT ![i] = l]
                        /\ l \notin {"unborn", "closeProc", "waitRun"}
                        /\ l = "exited" => done[i] = "closed"
  <2>1. pc = [pc EXCEPT ![i] = pc[i]]
    BY <1>2 DEF TypeOK
  <2>2. CASE PurgeTick(i)
    BY <1>3, <2>1, <2>2 DEF PurgeTick, Labels
  <2> QED
    BY <2>2 DEF Run, SendWrite, RetryTick, RunReturns, SendNothing, SendBegins, SendSucceeds,
                SendFails, SendSkips, Labels
<1>7. /\ pc'[Purger] = pc[Purger] /\ pc'[Closer] = pc[Closer]
      /\ \A j \in Procs : j # i => pc'[j] = pc[j]
      /\ pc'[i] # "unborn"
  BY <1>2, <1>6, ThreadFacts DEF TypeOK
<1>8. /\ \A j \in Procs : j # i => nmu'[j] = nmu[j]
      /\ nmu'[i].writer = nmu[i].writer
  BY LockParts DEF Run, SendWrite, RetryTick, PurgeTick, RunReturns, SendNothing, SendBegins,
                   SendSucceeds, SendFails, SendSkips, TypeOK
<1>9. HoldsServiceLock' /\ ClosesCurrent'
  BY <1>4, <1>5, <1>7, <1>8 DEF HoldsServiceLock, ClosesCurrent, Closers
<1>10. OpenIsCurrent'
  BY <1>5, <1>8 DEF OpenIsCurrent, QueueIsOpen
<1>11. RunsWhileOpen'
  <2>1. \A j \in Procs : j # i => pc'[j] # "sending"
    BY <1>4, <1>7
  <2>2. done[i] \in {"open", "closed"}
    BY <1>3 DEF RunsWhileOpen, TypeOK
  <2>3. pc'[i] = "sending" => done[i] = "open" /\ i \in nmu'[i].readers /\ hints' > 0
    <3> SUFFICES ASSUME pc'[i] = "sending" PROVE done[i] = "open" /\ i \in nmu'[i].readers /\ hints' > 0
      OBVIOUS
    <3>1. SendBegins(i)
      BY <1>2 DEF Run, SendWrite, RetryTick, PurgeTick, RunReturns, SendNothing, SendSucceeds,
                  SendFails, SendSkips, TypeOK
    <3>2. i \in nmu'[i].readers /\ hints' > 0
      BY <3>1, LockParts DEF SendBegins, TypeOK
    <3>3. done[i] # "closed"
      BY <3>1 DEF SendBegins, CanRLock, OpenIsCurrent
    <3> QED BY <2>2, <3>2, <3>3
  <2> QED BY <1>5, <1>7, <2>1, <2>2, <2>3 DEF RunsWhileOpen
<1> QED BY <1>1, <1>9, <1>10, <1>11

\* NodeProcessor.Close keeps the invariant: done is closed when nobody reads, and the
\* queue is closed when run has returned.
LEMMA ServiceInvClose ==
  ASSUME ServiceInv, NEW t \in Closers, CloseProcessor(t)
  PROVE  ServiceInv'
<1> USE DEF ServiceInv, Goto, dirVars
<1>1. current # 0 /\ current \in Procs
  BY DEF CloseProcessor, CloseDone, WaitRun, WaitRunFails, RunEnded, ClosesCurrent, TypeOK
<1>2. TypeOK'
  BY <1>1, TypeClose
<1>3. t \in Threads /\ t # Nil /\ t \notin Procs
  BY ThreadFacts DEF Closers
<1>4. smu.writer = t
  BY DEF CloseProcessor, CloseDone, WaitRun, WaitRunFails, RunEnded, HoldsServiceLock
<1>5. \A u \in Closers : u # t => pc[u] \notin {"closeProc", "waitRun", "procClosed"}
  BY <1>4 DEF HoldsServiceLock
<1>6. UNCHANGED <<current, hints>>
  BY DEF CloseProcessor, CloseDone, WaitRun, WaitRunFails, RunEnded
<1>7. /\ pc'[t] \in {"waitRun", "procClosed"} => smu' = smu
      /\ pc'[t] \in {"waitRun", "procClosed", "select", "returned"}
      /\ \A u \in Threads : u # t => pc'[u] = pc[u]
  <2>1. CASE CloseDone(t) \/ WaitRun(t)
    BY <1>3, <2>1 DEF CloseDone, WaitRun, RunEnded, TypeOK
  <2>2. CASE WaitRunFails(t)
    BY <1>3, <2>2 DEF WaitRunFails, RunEnded, TypeOK
  <2> QED BY <2>1, <2>2 DEF CloseProcessor
<1>8. \A i \in Procs : /\ pc'[i] = pc[i]
                       /\ i # current => done'[i] = done[i] /\ nmu'[i] = nmu[i]
  <2>1. \A i \in Procs : pc'[i] = pc[i]
    BY <1>3, <1>7, ThreadFacts
  <2>2. \A i \in Procs : i # current => done'[i] = done[i] /\ nmu'[i] = nmu[i]
    BY <1>1 DEF CloseProcessor, CloseDone, WaitRun, WaitRunFails, RunEnded, TypeOK
  <2> QED BY <2>1, <2>2
<1>9. HoldsServiceLock'
  <2>1. t = Purger => pc[Closer] # "waitPurger"
    BY <1>4, ThreadFacts DEF HoldsServiceLock
  <2> QED BY <1>4, <1>5, <1>7, <2>1, ThreadFacts DEF HoldsServiceLock, Closers
<1>10. \/ /\ pc'[t] = "waitRun" /\ nmu'[current].writer = t /\ done'[current] = "closed"
          /\ pc[current] # "sending" /\ done[current] # "nil"
       \/ /\ pc'[t] \in {"procClosed", "select", "returned"}
          /\ done'[current] = "nil" /\ pc[current] = "exited"
  <2>1. CASE CloseDone(t) /\ done[current] = "nil"
    BY <1>1, <1>3, <2>1 DEF CloseDone, RunsWhileOpen, TypeOK
  <2>2. CASE CloseDone(t) /\ done[current] # "nil"
    BY <1>1, <1>3, <2>2, LockParts DEF CloseDone, CanLock, RunsWhileOpen, TypeOK
  <2>3. CASE WaitRun(t)
    BY <1>1, <1>3, <2>3 DEF WaitRun, RunEnded, RunIsOver, TypeOK
  <2>4. CASE WaitRunFails(t)
    BY <1>1, <1>3, <2>4 DEF WaitRunFails, RunEnded, RunIsOver, TypeOK
  <2> QED BY <2>1, <2>2, <2>3, <2>4 DEF CloseProcessor
<1>11. ClosesCurrent'
  BY <1>1, <1>5, <1>6, <1>7, <1>10, ThreadFacts DEF ClosesCurrent, Closers
<1>12. OpenIsCurrent'
  BY <1>1, <1>3, <1>6, <1>8, <1>10 DEF OpenIsCurrent, QueueIsOpen
<1>13. RunsWhileOpen'
  BY <1>1, <1>6, <1>8, <1>10 DEF RunsWhileOpen
<1> QED BY <1>2, <1>9, <1>11, <1>12, <1>13

\* The other steps of the purger, of Service.Close and of the environment keep the
\* invariant: the purger removes the entry only of a processor that is closed.
LEMMA ServiceInvOther ==
  ASSUME ServiceInv,
         \/ PurgerTick \/ PurgerReturns \/ PurgerScans \/ PurgerRemoves \/ PurgerRemoveFails
         \/ CloseCalled \/ CloserLocks \/ CloserSignals \/ CloserReturns
         \/ RemoveNode \/ GrowOld
  PROVE  ServiceInv'
<1> USE DEF ServiceInv, Goto, dirVars
<1>1. TypeOK'
  BY TypeOther
<1>2. UNCHANGED done /\ \A i \in Procs : pc'[i] = pc[i]
  BY ThreadFacts DEF PurgerTick, PurgerReturns, PurgerScans, PurgerRemoves, PurgerRemoveFails,
    CloseCalled, CloserLocks, CloserSignals, CloserReturns, RemoveNode, GrowOld, TypeOK
<1>3. \A i \in Procs : nmu'[i].writer = nmu[i].writer /\ nmu'[i].readers = nmu[i].readers
  BY LockParts DEF PurgerTick, PurgerReturns, PurgerScans, ToBeRemoved, PurgerRemoves,
    PurgerRemoveFails, CloseCalled, CloserLocks, CloserSignals, CloserReturns, RemoveNode, GrowOld,
    TypeOK
<1>4. CASE PurgerRemoves
  <2>1. current \in Procs /\ done[current] = "nil" /\ smu.writer = Purger
    BY <1>4 DEF PurgerRemoves, ClosesCurrent, HoldsServiceLock, Closers, TypeOK
  <2>2. \A i \in Procs : ~QueueIsOpen(i)
    BY <2>1 DEF OpenIsCurrent, QueueIsOpen
  <2>3. /\ pc'[Purger] = "select" /\ pc'[Closer] = pc[Closer]
        /\ pc[Closer] \notin {"closeProc", "waitRun", "procClosed", "waitPurger"}
    BY <1>4, <2>1, ThreadFacts DEF PurgerRemoves, HoldsServiceLock, Closers, TypeOK
  <2>4. HoldsServiceLock' /\ ClosesCurrent'
    BY <2>3 DEF HoldsServiceLock, ClosesCurrent, Closers
  <2>5. OpenIsCurrent' /\ RunsWhileOpen'
    BY <1>2, <1>3, <2>2 DEF OpenIsCurrent, RunsWhileOpen, QueueIsOpen
  <2> QED BY <1>1, <2>4, <2>5
<1>5. CASE ~PurgerRemoves
  <2>1. UNCHANGED <<current, hints>>
    BY <1>5 DEF PurgerTick, PurgerReturns, PurgerScans, PurgerRemoveFails, CloseCalled,
      CloserLocks, CloserSignals, CloserReturns, RemoveNode, GrowOld
  <2>2. OpenIsCurrent' /\ RunsWhileOpen'
    BY <1>2, <1>3, <2>1 DEF OpenIsCurrent, RunsWhileOpen, QueueIsOpen
  <2>3. HoldsServiceLock' /\ ClosesCurrent'
    <3> USE <1>2, <1>3, <2>1, ThreadFacts, LockParts DEF HoldsServiceLock, ClosesCurrent, Closers
    <3>1. CASE PurgerTick \/ PurgerReturns
      BY <3>1 DEF PurgerTick, PurgerReturns, TypeOK
    <3>2. CASE PurgerScans
      BY <3>2 DEF PurgerScans, ToBeRemoved, CanLock, TypeOK
    <3>3. CASE PurgerRemoveFails
      BY <3>3 DEF PurgerRemoveFails, TypeOK
    <3>4. CASE CloseCalled \/ CloserSignals
      BY <3>4 DEF CloseCalled, CloserSignals, TypeOK
    <3>5. CASE CloserLocks
      BY <3>5 DEF CloserLocks, CanLock, TypeOK
    <3>6. CASE CloserReturns
      BY <3>6 DEF CloserReturns, TypeOK
    <3>7. CASE RemoveNode \/ GrowOld
      BY <3>7 DEF RemoveNode, GrowOld
    <3> QED BY <1>5, <3>1, <3>2, <3>3, <3>4, <3>5, <3>6, <3>7
  <2> QED BY <1>1, <2>2, <2>3
<1> QED BY <1>4, <1>5

\* Every step keeps the invariant.
LEMMA ServiceInvStep == ServiceInv /\ [Next]_vars => ServiceInv'
<1> SUFFICES ASSUME ServiceInv, [Next]_vars PROVE ServiceInv'
  OBVIOUS
<1>1. CASE UNCHANGED vars
  BY <1>1 DEF ServiceInv, TypeOK, HoldsServiceLock, ClosesCurrent, OpenIsCurrent, RunsWhileOpen,
              QueueIsOpen, vars, dirVars
<1>2. ASSUME NEW w \in Writers, WriteShard(w) PROVE ServiceInv'
  BY <1>2, ServiceInvWriter
<1>3. ASSUME NEW i \in Procs, Run(i) PROVE ServiceInv'
  BY <1>3, ServiceInvRun
<1>4. ASSUME NEW t \in Closers, CloseProcessor(t) PROVE ServiceInv'
  BY <1>4, ServiceInvClose
<1>5. CASE \/ PurgerTick \/ PurgerReturns \/ PurgerScans \/ PurgerRemoves \/ PurgerRemoveFails
           \/ CloseCalled \/ CloserLocks \/ CloserSignals \/ CloserReturns
           \/ RemoveNode \/ GrowOld
  BY <1>5, ServiceInvOther
<1> QED BY <1>1, <1>2, <1>3, <1>4, <1>5 DEF Next, PurgeInactive, ServiceClose, Closers

\* The invariant of the locks holds throughout: whoever closes a processor holds
\* Service.mu, and only the processor in the map has its queue open.
THEOREM ServiceInvariant == Spec => []ServiceInv
<1>1. Init => ServiceInv
  BY ServiceInvInit
<1>2. ServiceInv /\ [Next]_vars => ServiceInv'
  BY ServiceInvStep
<1> QED BY <1>1, <1>2, PTL DEF Spec

\* Every variable of the service keeps its type; in particular the queue never counts
\* fewer than no hints, however sends, purges and removals interleave.
THEOREM ServiceTypeCorrect == Spec => []TypeOK
<1>1. ServiceInv => TypeOK
  BY ServiceInvSuffices
<1> QED BY <1>1, ServiceInvariant, PTL

\* Service.WriteShard's second lookup under the write lock, together with the purger's
\* order of Close, Purge and delete, keeps two processors off one directory.
THEOREM DirectoryHasOneQueue == Spec => []OneQueuePerDirectory
<1>1. ServiceInv => OneQueuePerDirectory
  BY ServiceInvSuffices
<1> QED BY <1>1, ServiceInvariant, PTL

\* NodeProcessor.Close leaves no run goroutine behind, and none is sending once done
\* is closed.
THEOREM ClosedProcessorIsQuiet == Spec => []ClosedIsQuiet
<1>1. ServiceInv => ClosedIsQuiet
  BY ServiceInvSuffices
<1> QED BY <1>1, ServiceInvariant, PTL

-----------------------------------------------------------------------------
(* The entry of the map *)

\* Before Service.Close and before any failure to close or remove a queue, the processor in the map is open,
\* except while the purger is between closing it and deleting the entry.
UsableUnlessPurged ==
  (/\ current # 0 /\ ~ioFailed /\ pc[Closer] = "idle"
   /\ pc[Purger] \notin {"waitRun", "procClosed"}) => done[current] = "open"

\* It follows that an entry found with Service.mu free is usable.
LEMMA UsableSuffices == ServiceInv /\ UsableUnlessPurged => MapEntryIsUsable
  BY ThreadFacts DEF ServiceInv, HoldsServiceLock, UsableUnlessPurged, MapEntryIsUsable, Closers

\* It holds after Service.Open.
LEMMA UsableInit == Init => UsableUnlessPurged
  BY NumbersAssumption DEF Init, UsableUnlessPurged, Procs

\* Every step keeps it.
LEMMA UsableStep == ServiceInv /\ UsableUnlessPurged /\ [Next]_vars => UsableUnlessPurged'
<1> SUFFICES ASSUME ServiceInv, UsableUnlessPurged, [Next]_vars PROVE UsableUnlessPurged'
  OBVIOUS
<1> USE ThreadFacts DEF UsableUnlessPurged, Goto, dirVars
<1>0. TypeOK
  BY DEF ServiceInv
<1>1. CASE UNCHANGED vars
  BY <1>1 DEF vars
<1>2. ASSUME NEW w \in Writers, WriteShard(w) PROVE UsableUnlessPurged'
  <2>1. pc'[Purger] = pc[Purger] /\ pc'[Closer] = pc[Closer] /\ ioFailed' = ioFailed
    BY <1>0, <1>2 DEF WriteShard, Lookup, Missed, AppendHint, Create, CreateFails, OpenIfAbsent,
                      OpenNewUnchecked, Unborn, TypeOK
  <2>2. CASE Create(w) /\ current = 0
    BY <1>0, <2>2 DEF Create, OpenIfAbsent, OpenNewUnchecked, Unborn, TypeOK
  <2>3. CASE ~(Create(w) /\ current = 0)
    <3>1. UNCHANGED <<done, current>>
      BY <1>2, <2>3 DEF WriteShard, Lookup, Missed, AppendHint, Create, CreateFails, OpenIfAbsent
    <3> QED BY <2>1, <3>1
  <2> QED BY <2>2, <2>3
<1>3. ASSUME NEW i \in Procs, Run(i) PROVE UsableUnlessPurged'
  <2>1. pc'[Purger] = pc[Purger] /\ pc'[Closer] = pc[Closer]
    BY <1>0, <1>3 DEF Run, SendWrite, RetryTick, PurgeTick, RunReturns, SendNothing, SendBegins,
                      SendSucceeds, SendFails, SendSkips, TypeOK
  <2>2. UNCHANGED <<done, current, ioFailed>>
    BY <1>3 DEF Run, SendWrite, RetryTick, PurgeTick, RunReturns, SendNothing, SendBegins,
                SendSucceeds, SendFails, SendSkips
  <2> QED BY <2>1, <2>2
<1>4. ASSUME NEW t \in Closers, CloseProcessor(t) PROVE UsableUnlessPurged'
  <2>1. pc'[t] \in {"waitRun", "procClosed"} \/ ioFailed'
    BY <1>0, <1>4 DEF CloseProcessor, CloseDone, WaitRun, WaitRunFails, RunEnded, Closers, TypeOK
  <2> QED BY <2>1 DEF Closers
<1>5. CASE PurgerRemoves \/ PurgerRemoveFails
  BY <1>5 DEF PurgerRemoves, PurgerRemoveFails
<1>6. CASE CloseCalled \/ CloserLocks \/ CloserSignals \/ CloserReturns
  <2>1. pc'[Closer] # "idle"
    BY <1>0, <1>6 DEF CloseCalled, CloserLocks, CloserSignals, CloserReturns, TypeOK
  <2> QED BY <2>1
<1>7. CASE PurgerTick \/ PurgerReturns \/ PurgerScans \/ RemoveNode \/ GrowOld
  <2>1. UNCHANGED <<done, current, ioFailed>> /\ pc'[Closer] = pc[Closer]
    BY <1>0, <1>7 DEF PurgerTick, PurgerReturns, PurgerScans, RemoveNode, GrowOld, TypeOK
  <2>2. pc[Purger] \in {"waitRun", "procClosed"} => pc'[Purger] = pc[Purger]
    BY <1>0, <1>7 DEF PurgerTick, PurgerReturns, PurgerScans, RemoveNode, GrowOld, TypeOK
  <2> QED BY <2>1, <2>2
<1> QED BY <1>1, <1>2, <1>3, <1>4, <1>5, <1>6, <1>7 DEF Next, PurgeInactive, ServiceClose, Closers

\* A writer that finds the node in Service.processors finds an open processor, until Close
\* is called or closing or removing a queue fails.
THEOREM FoundProcessorIsUsable == Spec => []MapEntryIsUsable
<1>1. Init => UsableUnlessPurged
  BY UsableInit
<1>2. ServiceInv /\ UsableUnlessPurged /\ [Next]_vars => UsableUnlessPurged'
  BY UsableStep
<1>3. ServiceInv /\ UsableUnlessPurged => MapEntryIsUsable
  BY UsableSuffices
<1> QED BY <1>1, <1>2, <1>3, ServiceInvariant, PTL DEF Spec

=============================================================================
