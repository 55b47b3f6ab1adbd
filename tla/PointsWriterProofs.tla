------------------------- MODULE PointsWriterProofs -------------------------
(* Proofs about the PointsWriter, for every cluster, shard map and set of levels. *)
EXTENDS PointsWriter, FiniteSetTheorems, TLAPS

-----------------------------------------------------------------------------
(* Type correctness *)

\* Sending to a channel leaves a channel.
LEMMA AppendIsSeq ==
  ASSUME NEW S, NEW q \in Seq(S), NEW e \in S
  PROVE  Append(q, e) \in Seq(S)
  OBVIOUS

\* Receiving from a channel that is not empty.
LEMMA HeadAndTail ==
  ASSUME NEW S, NEW q \in Seq(S), q # << >>
  PROVE  Head(q) \in S /\ Tail(q) \in Seq(S)
  OBVIOUS

\* The shard and the owner of a pair.
LEMMA PairParts ==
  ASSUME NEW p \in Pairs
  PROVE  p[1] \in Shards /\ p[2] \in Owners[p[1]] /\ p[2] \in Nodes /\ p = <<p[1], p[2]>>
  BY ClusterAssumption DEF Pairs

\* An owner of a shard makes a pair.
LEMMA OwnerPair ==
  ASSUME NEW s \in Shards, NEW o \in Owners[s]
  PROVE  o \in Nodes /\ <<s, o>> \in Pairs
  BY ClusterAssumption DEF Pairs

\* The initial state is well typed.
LEMMA TypeInit == Init => TypeOK
<1> SUFFICES ASSUME Init PROVE TypeOK
  OBVIOUS
<1>1. ch \in [Shards -> Seq(Pairs)] /\ reqCh \in Seq(Shards)
  BY DEF Init
<1>2. task \in [Pairs -> {"write", "create", "rewrite", "hint", "send", "done"}]
  BY DEF Init
<1>3. answer \in [Pairs -> {"none", "nil", "error"}]
  BY DEF Init
<1> QED BY <1>1, <1>2, <1>3, ClusterAssumption DEF Init, TypeOK, Results

\* Every step keeps the types.
LEMMA TypeStep == TypeOK /\ [Next]_vars => TypeOK'
<1> SUFFICES ASSUME TypeOK, [Next]_vars PROVE TypeOK'
  OBVIOUS
<1> USE DEF TypeOK, Results, fate, collectors, taskVars
<1>1. ASSUME NEW p \in Pairs, LocalWrite(p) PROVE TypeOK'
  BY <1>1 DEF LocalWrite, Answer
<1>2. ASSUME NEW p \in Pairs, LocalMissing(p) PROVE TypeOK'
  BY <1>2 DEF LocalMissing
<1>3. ASSUME NEW p \in Pairs, LocalCreate(p) PROVE TypeOK'
  BY <1>3, PairParts DEF LocalCreate
<1>4. ASSUME NEW p \in Pairs, LocalFails(p) PROVE TypeOK'
  BY <1>4 DEF LocalFails, Answer
<1>5. ASSUME NEW p \in Pairs, RemoteWrite(p) PROVE TypeOK'
  BY <1>5 DEF RemoteWrite, Answer
<1>6. ASSUME NEW p \in Pairs, RemoteDropped(p) PROVE TypeOK'
  BY <1>6 DEF RemoteDropped, Answer
<1>7. ASSUME NEW p \in Pairs, RemoteFails(p) PROVE TypeOK'
  BY <1>7 DEF RemoteFails
<1>8. ASSUME NEW p \in Pairs, RemoteRejects(p) PROVE TypeOK'
  BY <1>8 DEF RemoteRejects, Answer
<1>9. ASSUME NEW p \in Pairs, Hint(p) PROVE TypeOK'
  BY <1>9 DEF Hint, HintAnswer, Answer
<1>10. ASSUME NEW p \in Pairs, HintRefused(p) PROVE TypeOK'
  BY <1>10 DEF HintRefused, Answer
<1>11. ASSUME NEW p \in Pairs, SendAnswer(p) PROVE TypeOK'
  BY <1>11, PairParts, AppendIsSeq DEF SendAnswer
<1>12. ASSUME NEW p \in Pairs, Handoff(p) PROVE TypeOK'
  BY <1>12 DEF Handoff, Replay, ReplayFails, HintLost
<1>13. ASSUME NEW s \in Shards, Receive(s) PROVE TypeOK'
  <2>1. /\ Tail(ch[s]) \in Seq(Pairs)
        /\ Head(ch[s])[2] \in Nodes
    BY <1>13, PairParts, HeadAndTail DEF Receive
  <2>2. ch' \in [Shards -> Seq(Pairs)] /\ received' \in [Shards -> SUBSET Nodes]
    BY <1>13, <2>1 DEF Receive
  <2>3. Append(reqCh, s) \in Seq(Shards)
    BY AppendIsSeq
  <2>4. ret' \in [Shards -> Results] /\ reqCh' \in Seq(Shards)
    BY <1>13, <2>3 DEF Receive, ReturnShard, FinalResult
  <2> QED BY <1>13, <2>2, <2>4 DEF Receive
<1>14. ASSUME NEW s \in Shards, NoOwners(s) \/ ShardTimeout(s) \/ ShardClosing(s) PROVE TypeOK'
  <2>1. Append(reqCh, s) \in Seq(Shards)
    BY AppendIsSeq
  <2> QED BY <1>14, <2>1 DEF NoOwners, ShardTimeout, ShardClosing, ReturnShard
<1>15. ASSUME NEW s \in Shards, DeleteShardGroup(s) \/ DeleteShard(s) PROVE TypeOK'
  BY <1>15 DEF DeleteShardGroup, DeleteShard
<1>16. CASE ReceiveShard
  BY <1>16, HeadAndTail DEF ReceiveShard
<1>17. CASE RequestTimeout \/ RequestClosing \/ Close
  BY <1>17 DEF RequestTimeout, RequestClosing, Close
<1>18. CASE UNCHANGED vars
  BY <1>18 DEF vars
<1> QED
  BY <1>1, <1>2, <1>3, <1>4, <1>5, <1>6, <1>7, <1>8, <1>9, <1>10, <1>11, <1>12, <1>13,
     <1>14, <1>15, <1>16, <1>17, <1>18
  DEF Next, OwnerTask, Collect, Request

\* Every variable of a request has its type in every reachable state.
THEOREM TypeCorrect == Spec => []TypeOK
  BY TypeInit, TypeStep, PTL DEF Spec

-----------------------------------------------------------------------------
(* A request that is answered with nil met its consistency level.  The strengthening
   follows an answer from the owner's goroutine to the client: it is true when it is
   given, never changes once it is in a channel, is counted for its own shard only,
   and a shard's nil is what the request counts. *)

\* Where an owner that answered nil has the points.
Reached == applied \cup dropped \cup (IF level = "any" THEN hinted ELSE {})

\* A goroutine that answered nil has reached its owner, or at ANY queued a hint.
AnswersAreTrue == \A p \in Pairs : answer[p] = "nil" => p \in Reached

\* An answer in a channel, or received, is from an owner of the shard and final.
AnswersAreFinal ==
  \A s \in Shards :
    /\ \A i \in 1 .. Len(ch[s]) : ch[s][i][1] = s /\ task[ch[s][i]] = "done"
    /\ received[s] \subseteq Owners[s]
    /\ \A o \in received[s] : task[<<s, o>>] = "done"

Enough(s) == Cardinality(Wrote(s, received[s])) >= Required(Cardinality(Owners[s]))

\* writeToShard returned nil only after enough of the answers were nil.
NilIsEarned == \A s \in Shards : ret[s] = "nil" => Enough(s)

\* WritePoints goes on, or returns nil, only after nothing but nil.
RequestCountsNils ==
  /\ \A i \in 1 .. Len(reqCh) : ret[reqCh[i]] # "none"
  /\ reqRet = "none" => \A s \in reqGot : ret[s] = "nil"
  /\ reqRet \in {"nil", "beyond"} => \A s \in Shards : ret[s] = "nil"

AckInv == AnswersAreTrue /\ AnswersAreFinal /\ NilIsEarned /\ RequestCountsNils

\* The invariant behind an acknowledgement holds before anyone has answered.
LEMMA AckInit == Init => AckInv
<1> SUFFICES ASSUME Init PROVE AckInv
  OBVIOUS
<1>1. AnswersAreTrue
  BY DEF Init, AnswersAreTrue
<1>2. AnswersAreFinal
  BY DEF Init, AnswersAreFinal
<1>3. NilIsEarned
  BY DEF Init, NilIsEarned
<1>4. RequestCountsNils
  BY DEF Init, RequestCountsNils
<1> QED BY <1>1, <1>2, <1>3, <1>4 DEF AckInv

\* A goroutine that has not sent its answer disturbs nothing that was counted.
LEMMA OwnerStepKeeps ==
  ASSUME TypeOK, AckInv, NEW p \in Pairs, task[p] # "done",
         NEW t, task' = [task EXCEPT ![p] = t],
         NEW a, answer' = [answer EXCEPT ![p] = a],
         UNCHANGED collectors
  PROVE  AnswersAreFinal' /\ NilIsEarned' /\ RequestCountsNils'
<1> USE DEF AckInv, collectors
<1>1. AnswersAreFinal'
  <2> SUFFICES ASSUME NEW s \in Shards
               PROVE  /\ \A i \in 1 .. Len(ch[s]) : ch[s][i][1] = s /\ task'[ch[s][i]] = "done"
                      /\ \A o \in received[s] : task'[<<s, o>>] = "done"
    BY DEF AnswersAreFinal
  <2>1. ASSUME NEW i \in 1 .. Len(ch[s]) PROVE ch[s][i][1] = s /\ task'[ch[s][i]] = "done"
    <3>1. ch[s][i] \in Pairs
      BY DEF TypeOK
    <3> QED BY <3>1 DEF AnswersAreFinal, TypeOK
  <2>2. ASSUME NEW o \in received[s] PROVE task'[<<s, o>>] = "done"
    <3>1. <<s, o>> \in Pairs
      BY OwnerPair DEF AnswersAreFinal
    <3> QED BY <3>1 DEF AnswersAreFinal, TypeOK
  <2> QED BY <2>1, <2>2
<1>2. ASSUME NEW s \in Shards PROVE Wrote(s, received[s])' = Wrote(s, received[s])
  <2>1. ASSUME NEW o \in received[s] PROVE answer'[<<s, o>>] = answer[<<s, o>>]
    <3>1. <<s, o>> \in Pairs /\ <<s, o>> # p
      BY OwnerPair DEF AnswersAreFinal
    <3> QED BY <3>1 DEF TypeOK
  <2> QED BY <2>1 DEF Wrote
<1>3. NilIsEarned'
  <2>1. \A n : Required(n)' = Required(n)
    BY DEF Required
  <2> QED BY <1>2, <2>1 DEF NilIsEarned, Enough
<1>4. RequestCountsNils'
  BY DEF RequestCountsNils
<1> QED BY <1>1, <1>3, <1>4

\* The result of a shard joins the ones WritePoints has to receive.
LEMMA ReturnIsCounted ==
  ASSUME TypeOK, RequestCountsNils, NEW s \in Shards, NEW r, r # "none",
         ret[s] = "none", ReturnShard(s, r), UNCHANGED <<reqGot, reqRet>>
  PROVE  RequestCountsNils'
<1>1. \A i \in 1 .. Len(reqCh') : ret'[reqCh'[i]] # "none"
  <2> SUFFICES ASSUME NEW i \in 1 .. Len(reqCh') PROVE ret'[reqCh'[i]] # "none"
    OBVIOUS
  <2>1. ret'[s] = r /\ \A z \in Shards : ret[z] # "none" => ret'[z] = ret[z]
    BY DEF ReturnShard, TypeOK
  <2>2. reqCh' = Append(reqCh, s) /\ reqCh \in Seq(Shards)
    BY DEF ReturnShard, TypeOK
  <2>3. CASE i \in 1 .. Len(reqCh)
    <3>1. reqCh'[i] = reqCh[i] /\ reqCh[i] \in Shards
      BY <2>2, <2>3
    <3> QED BY <2>1, <2>3, <3>1 DEF RequestCountsNils
  <2>4. CASE i \notin 1 .. Len(reqCh)
    <3>1. reqCh'[i] = s
      BY <2>2, <2>4
    <3> QED BY <2>1, <3>1
  <2> QED BY <2>3, <2>4
<1>2. \A z \in Shards : ret[z] = "nil" => ret'[z] = "nil"
  BY DEF ReturnShard, TypeOK
<1> QED BY <1>1, <1>2 DEF RequestCountsNils, TypeOK

\* Every step keeps the invariant behind an acknowledgement.
LEMMA AckStep == TypeOK /\ AckInv /\ [Next]_vars => AckInv'
<1> SUFFICES ASSUME TypeOK, AckInv, [Next]_vars PROVE AckInv'
  OBVIOUS
<1> USE DEF AckInv, fate, collectors, taskVars
<1>1. ASSUME NEW p \in Pairs, LocalWrite(p) PROVE AckInv'
  <2>1. AnswersAreTrue'
    BY <1>1 DEF LocalWrite, Answer, AnswersAreTrue, Reached, TypeOK
  <2> QED BY <1>1, <2>1, OwnerStepKeeps DEF LocalWrite, Answer
<1>2. ASSUME NEW p \in Pairs, LocalMissing(p) PROVE AckInv'
  <2>1. AnswersAreTrue'
    BY <1>2 DEF LocalMissing, AnswersAreTrue, Reached
  <2>2. answer' = [answer EXCEPT ![p] = answer[p]]
    BY <1>2 DEF LocalMissing, TypeOK
  <2> QED BY <1>2, <2>1, <2>2, OwnerStepKeeps DEF LocalMissing
<1>3. ASSUME NEW p \in Pairs, LocalCreate(p) PROVE AckInv'
  <2>1. AnswersAreTrue'
    BY <1>3 DEF LocalCreate, AnswersAreTrue, Reached
  <2>2. answer' = [answer EXCEPT ![p] = answer[p]]
    BY <1>3 DEF LocalCreate, TypeOK
  <2> QED BY <1>3, <2>1, <2>2, OwnerStepKeeps DEF LocalCreate
<1>4. ASSUME NEW p \in Pairs, LocalFails(p) PROVE AckInv'
  <2>1. AnswersAreTrue'
    BY <1>4 DEF LocalFails, Answer, AnswersAreTrue, Reached, TypeOK
  <2> QED BY <1>4, <2>1, OwnerStepKeeps DEF LocalFails, Answer
<1>5. ASSUME NEW p \in Pairs, RemoteWrite(p) PROVE AckInv'
  <2>1. AnswersAreTrue'
    BY <1>5 DEF RemoteWrite, Answer, AnswersAreTrue, Reached, TypeOK
  <2> QED BY <1>5, <2>1, OwnerStepKeeps DEF RemoteWrite, Answer
<1>6. ASSUME NEW p \in Pairs, RemoteDropped(p) PROVE AckInv'
  <2>1. AnswersAreTrue'
    BY <1>6 DEF RemoteDropped, Answer, AnswersAreTrue, Reached, TypeOK
  <2> QED BY <1>6, <2>1, OwnerStepKeeps DEF RemoteDropped, Answer
<1>7. ASSUME NEW p \in Pairs, RemoteFails(p) PROVE AckInv'
  <2>1. AnswersAreTrue'
    BY <1>7 DEF RemoteFails, AnswersAreTrue, Reached
  <2>2. answer' = [answer EXCEPT ![p] = answer[p]]
    BY <1>7 DEF RemoteFails, TypeOK
  <2> QED BY <1>7, <2>1, <2>2, OwnerStepKeeps DEF RemoteFails
<1>8. ASSUME NEW p \in Pairs, RemoteRejects(p) PROVE AckInv'
  <2>1. AnswersAreTrue'
    BY <1>8 DEF RemoteRejects, Answer, AnswersAreTrue, Reached, TypeOK
  <2> QED BY <1>8, <2>1, OwnerStepKeeps DEF RemoteRejects, Answer
<1>9. ASSUME NEW p \in Pairs, Hint(p) PROVE AckInv'
  <2>1. AnswersAreTrue'
    BY <1>9 DEF Hint, Answer, HintAnswer, AnswersAreTrue, Reached, TypeOK
  <2> QED BY <1>9, <2>1, OwnerStepKeeps DEF Hint, Answer
<1>10. ASSUME NEW p \in Pairs, HintRefused(p) PROVE AckInv'
  <2>1. AnswersAreTrue'
    BY <1>10 DEF HintRefused, Answer, AnswersAreTrue, Reached, TypeOK
  <2> QED BY <1>10, <2>1, OwnerStepKeeps DEF HintRefused, Answer
<1>11. ASSUME NEW p \in Pairs, SendAnswer(p) PROVE AckInv'
  <2>1. AnswersAreTrue' /\ RequestCountsNils'
    BY <1>11 DEF SendAnswer, AnswersAreTrue, Reached, RequestCountsNils
  <2>2. NilIsEarned'
    BY <1>11 DEF SendAnswer, NilIsEarned, Enough, Wrote, Required
  <2>3. AnswersAreFinal'
    <3> SUFFICES ASSUME NEW s \in Shards
                 PROVE  /\ \A i \in 1 .. Len(ch'[s]) : ch'[s][i][1] = s /\ task'[ch'[s][i]] = "done"
                        /\ \A o \in received[s] : task'[<<s, o>>] = "done"
      BY <1>11 DEF AnswersAreFinal, SendAnswer
    <3>1. ASSUME NEW o \in received[s] PROVE task'[<<s, o>>] = "done"
      <4>1. <<s, o>> \in Pairs
        BY OwnerPair DEF AnswersAreFinal
      <4> QED BY <1>11, <4>1 DEF AnswersAreFinal, TypeOK, SendAnswer
    <3>2. \A q \in Pairs : task[q] = "done" \/ q = p => task'[q] = "done"
      BY <1>11 DEF TypeOK, SendAnswer
    <3>3. ASSUME NEW i \in 1 .. Len(ch'[s]) PROVE ch'[s][i][1] = s /\ task'[ch'[s][i]] = "done"
      <4>1. CASE s = p[1]
        <5>1. ch'[s] = Append(ch[s], p) /\ ch[s] \in Seq(Pairs)
          BY <1>11, <4>1 DEF TypeOK, SendAnswer
        <5>2. CASE i \in 1 .. Len(ch[s])
          <6>1. ch'[s][i] = ch[s][i] /\ ch[s][i] \in Pairs
            BY <5>1, <5>2
          <6> QED BY <6>1, <5>2, <3>2 DEF AnswersAreFinal
        <5>3. CASE i \notin 1 .. Len(ch[s])
          <6>1. ch'[s][i] = p
            BY <5>1, <5>3
          <6> QED BY <6>1, <4>1, <3>2
        <5> QED BY <5>2, <5>3
      <4>2. CASE s # p[1]
        <5>1. ch'[s] = ch[s] /\ ch[s] \in Seq(Pairs)
          BY <1>11, <4>2 DEF TypeOK, SendAnswer
        <5>2. ch[s][i] \in Pairs
          BY <5>1
        <5> QED BY <5>1, <5>2, <3>2 DEF AnswersAreFinal
      <4> QED BY <4>1, <4>2
    <3> QED BY <3>1, <3>3
  <2> QED BY <2>1, <2>2, <2>3
<1>12. ASSUME NEW p \in Pairs, Handoff(p) PROVE AckInv'
  <2>1. AnswersAreTrue'
    BY <1>12 DEF Handoff, Replay, ReplayFails, HintLost, AnswersAreTrue, Reached
  <2>2. AnswersAreFinal' /\ RequestCountsNils'
    BY <1>12 DEF Handoff, Replay, ReplayFails, HintLost, AnswersAreFinal, RequestCountsNils
  <2>3. NilIsEarned'
    BY <1>12 DEF Handoff, Replay, ReplayFails, HintLost, NilIsEarned, Enough, Wrote, Required
  <2> QED BY <2>1, <2>2, <2>3
<1>13. ASSUME NEW s \in Shards, Receive(s) PROVE AckInv'
  <2> DEFINE p == Head(ch[s])
             o == p[2]
             got == received[s] \cup {o}
  <2>1. ch[s] \in Seq(Pairs) /\ ch[s] # << >> /\ p = ch[s][1] /\ 1 \in 1 .. Len(ch[s])
    BY <1>13 DEF Receive, TypeOK
  <2>2. p \in Pairs /\ p = <<s, o>> /\ o \in Owners[s] /\ task[p] = "done"
    BY <2>1, PairParts, HeadAndTail DEF AnswersAreFinal
  <2>3. /\ received' = [received EXCEPT ![s] = got]
        /\ ch' = [ch EXCEPT ![s] = Tail(ch[s])]
        /\ ret[s] = "none"
        /\ UNCHANGED <<level, known, stored, task, answer, fate, reqGot, reqRet>>
    BY <1>13 DEF Receive
  <2>4. \/ /\ Cardinality(Wrote(s, got)) >= Required(Cardinality(Owners[s]))
           /\ ret' = [ret EXCEPT ![s] = "nil"]
        \/ ret' = [ret EXCEPT ![s] = FinalResult(s, got)]
        \/ ret' = ret /\ reqCh' = reqCh
    BY <1>13 DEF Receive, ReturnShard
  <2>5. AnswersAreTrue'
    BY <2>3 DEF AnswersAreTrue, Reached
  <2>6. AnswersAreFinal'
    <3> SUFFICES ASSUME NEW z \in Shards
                 PROVE  /\ \A i \in 1 .. Len(ch'[z]) : ch'[z][i][1] = z /\ task[ch'[z][i]] = "done"
                        /\ received'[z] \subseteq Owners[z]
                        /\ \A x \in received'[z] : task[<<z, x>>] = "done"
      BY <2>3 DEF AnswersAreFinal
    <3>1. CASE z = s
      <4>1. received'[z] = got /\ ch'[z] = Tail(ch[s])
        BY <2>3, <3>1 DEF TypeOK
      <4>2. ASSUME NEW i \in 1 .. Len(ch'[z]) PROVE ch'[z][i][1] = z /\ task[ch'[z][i]] = "done"
        <5>1. i + 1 \in 1 .. Len(ch[s]) /\ ch'[z][i] = ch[s][i + 1]
          BY <2>1, <4>1
        <5> QED BY <5>1, <3>1 DEF AnswersAreFinal
      <4> QED BY <2>2, <3>1, <4>1, <4>2 DEF AnswersAreFinal
    <3>2. CASE z # s
      <4>1. ch'[z] = ch[z] /\ received'[z] = received[z]
        BY <2>3, <3>2 DEF TypeOK
      <4> QED BY <4>1 DEF AnswersAreFinal
    <3> QED BY <3>1, <3>2
  <2>7. NilIsEarned'
    <3> SUFFICES ASSUME NEW z \in Shards, ret'[z] = "nil"
                 PROVE  Cardinality(Wrote(z, received'[z])) >= Required(Cardinality(Owners[z]))
      BY <2>3 DEF NilIsEarned, Enough, Wrote, Required
    <3>1. CASE z = s
      <4>1. received'[z] = got
        BY <2>3, <3>1 DEF TypeOK
      <4> QED BY <2>3, <2>4, <3>1, <4>1 DEF FinalResult, TypeOK
    <3>2. CASE z # s
      <4>1. received'[z] = received[z] /\ ret[z] = "nil"
        BY <2>3, <2>4, <3>2 DEF TypeOK
      <4> QED BY <4>1 DEF NilIsEarned, Enough
    <3> QED BY <3>1, <3>2
  <2>8. RequestCountsNils'
    <3>1. CASE reqCh' = reqCh /\ ret' = ret
      BY <2>3, <3>1 DEF RequestCountsNils
    <3>2. CASE \E r \in {"nil", FinalResult(s, got)} : ReturnShard(s, r)
      <4> PICK r \in {"nil", FinalResult(s, got)} : ReturnShard(s, r)
        BY <3>2
      <4>1. r # "none"
        BY DEF FinalResult
      <4> QED BY <2>3, <4>1, ReturnIsCounted
    <3> QED BY <1>13, <3>1, <3>2 DEF Receive
  <2> QED BY <2>5, <2>6, <2>7, <2>8
<1>14. ASSUME NEW s \in Shards, NoOwners(s) \/ ShardTimeout(s) \/ ShardClosing(s) PROVE AckInv'
  <2>1. /\ ret[s] = "none"
        /\ \E r \in {"failed", "timeout"} :
             ret' = [ret EXCEPT ![s] = r] /\ ReturnShard(s, r)
        /\ UNCHANGED <<level, taskVars, ch, received, reqGot, reqRet>>
    BY <1>14 DEF NoOwners, ShardTimeout, ShardClosing, ReturnShard
  <2>2. AnswersAreTrue' /\ AnswersAreFinal'
    BY <2>1 DEF AnswersAreTrue, Reached, AnswersAreFinal
  <2>3. \A z \in Shards : (ret'[z] = "nil") = (ret[z] = "nil")
    BY <2>1 DEF TypeOK
  <2>4. NilIsEarned'
    BY <2>1, <2>3 DEF NilIsEarned, Enough, Wrote, Required
  <2>5. RequestCountsNils'
    BY <2>1, ReturnIsCounted
  <2> QED BY <2>2, <2>4, <2>5
<1>15. ASSUME NEW s \in Shards, DeleteShardGroup(s) \/ DeleteShard(s) PROVE AckInv'
  <2>1. AnswersAreTrue' /\ AnswersAreFinal' /\ RequestCountsNils'
    BY <1>15 DEF DeleteShardGroup, DeleteShard, AnswersAreTrue, Reached, AnswersAreFinal,
                 RequestCountsNils
  <2>2. NilIsEarned'
    BY <1>15 DEF DeleteShardGroup, DeleteShard, NilIsEarned, Enough, Wrote, Required
  <2> QED BY <2>1, <2>2
<1>16. CASE ReceiveShard
  <2>1. AnswersAreTrue' /\ AnswersAreFinal'
    BY <1>16 DEF ReceiveShard, AnswersAreTrue, Reached, AnswersAreFinal
  <2>2. NilIsEarned'
    BY <1>16 DEF ReceiveShard, NilIsEarned, Enough, Wrote, Required
  <2> DEFINE s == Head(reqCh)
  <2>3. reqCh \in Seq(Shards) /\ reqCh # << >> /\ s = reqCh[1] /\ 1 \in 1 .. Len(reqCh)
    BY <1>16 DEF ReceiveShard, TypeOK
  <2>4. s \in Shards /\ ret[s] # "none" /\ ret[s] # "beyond"
    <3>1. s \in Shards
      BY <2>3, HeadAndTail
    <3>2. ret[s] # "none"
      BY <2>3 DEF RequestCountsNils
    <3>3. ret[s] \in Results
      BY <3>1 DEF TypeOK
    <3> QED BY <3>1, <3>2, <3>3 DEF Results
  <2>5. \A i \in 1 .. Len(reqCh') : ret'[reqCh'[i]] # "none"
    <3> SUFFICES ASSUME NEW i \in 1 .. Len(reqCh') PROVE ret[reqCh'[i]] # "none"
      BY <1>16 DEF ReceiveShard
    <3>1. i + 1 \in 1 .. Len(reqCh) /\ reqCh'[i] = reqCh[i + 1]
      BY <1>16, <2>3 DEF ReceiveShard
    <3> QED BY <3>1 DEF RequestCountsNils
  <2>6. RequestCountsNils'
    BY <1>16, <2>4, <2>5 DEF ReceiveShard, RequestCountsNils
  <2> QED BY <2>1, <2>2, <2>6
<1>17. CASE RequestTimeout \/ RequestClosing \/ Close \/ UNCHANGED vars
  <2>1. AnswersAreTrue' /\ AnswersAreFinal'
    BY <1>17 DEF RequestTimeout, RequestClosing, Close, vars, AnswersAreTrue, Reached,
                 AnswersAreFinal
  <2>2. NilIsEarned'
    BY <1>17 DEF RequestTimeout, RequestClosing, Close, vars, NilIsEarned, Enough, Wrote,
                 Required
  <2>3. RequestCountsNils'
    BY <1>17 DEF RequestTimeout, RequestClosing, Close, vars, RequestCountsNils
  <2> QED BY <2>1, <2>2, <2>3
<1> QED
  BY <1>1, <1>2, <1>3, <1>4, <1>5, <1>6, <1>7, <1>8, <1>9, <1>10, <1>11, <1>12, <1>13,
     <1>14, <1>15, <1>16, <1>17
  DEF Next, OwnerTask, Collect, Request

\* The arithmetic of the levels: what the collector requires is what they mean.
LEMMA EnoughIsMet ==
  ASSUME NEW w \in Nat, NEW k \in Nat, NEW n \in Nat, w <= k, k <= n, w >= Required(n),
         level \in {"any", "one", "quorum", "all"}
  PROVE  LevelMet(k, n)
  BY DEF Required, LevelMet

\* The invariant implies that an acknowledged request has met its level.
LEMMA AckInvSuffices == TypeOK /\ AckInv => AckMeetsLevel
<1> SUFFICES ASSUME TypeOK, AckInv, reqRet \in {"nil", "beyond"}, NEW s \in Shards
             PROVE  LevelMet(Cardinality(Covered(s, level = "any")), Cardinality(Owners[s]))
  BY DEF AckMeetsLevel
<1> DEFINE wrote == Wrote(s, received[s])
           covered == Covered(s, level = "any")
<1>1. IsFiniteSet(Owners[s]) /\ covered \subseteq Owners[s]
  BY ClusterAssumption, FS_Subset DEF Covered
<1>2. wrote \subseteq covered
  <2> SUFFICES ASSUME NEW o \in wrote PROVE o \in covered
    OBVIOUS
  <2>1. o \in Owners[s] /\ <<s, o>> \in Pairs /\ answer[<<s, o>>] = "nil"
    BY OwnerPair DEF AckInv, AnswersAreFinal, Wrote
  <2>2. <<s, o>> \in Reached
    BY <2>1 DEF AckInv, AnswersAreTrue
  <2> QED BY <2>1, <2>2 DEF Covered, Reached
<1>3. /\ Cardinality(wrote) <= Cardinality(covered)
      /\ Cardinality(covered) <= Cardinality(Owners[s])
      /\ Cardinality(wrote) \in Nat /\ Cardinality(covered) \in Nat
      /\ Cardinality(Owners[s]) \in Nat
  BY <1>1, <1>2, FS_Subset, FS_CardinalityType
<1>4. Cardinality(wrote) >= Required(Cardinality(Owners[s]))
  BY DEF AckInv, RequestCountsNils, NilIsEarned, Enough
<1>5. level \in {"any", "one", "quorum", "all"}
  BY LevelsAssumption DEF TypeOK
<1> QED BY <1>3, <1>4, <1>5, EnoughIsMet

\* WritePoints never answers nil unless every shard's owners met the request's
\* consistency level, in any cluster and under any interleaving of the goroutines,
\* timers, deletions and replays (points_writer.go, writeToShard).
THEOREM AckIsHonest == Spec => []AckMeetsLevel
  BY TypeInit, TypeStep, AckInit, AckStep, AckInvSuffices, PTL DEF Spec

-----------------------------------------------------------------------------
(* A partial write and a failed one.  That the verdict is exact needs the count while
   the collector still waits: no answer so far has been the one that was enough. *)

\* A goroutine that is about to send, or has sent, has an answer.
SentIsAnswered == \A p \in Pairs : task[p] \in {"send", "done"} => answer[p] # "none"

TooFew(s, got) == Cardinality(Wrote(s, got)) < Required(Cardinality(Owners[s]))

\* Before writeToShard returns too few owners have written; when it reports so, all
\* have answered.
VerdictOf(s) ==
  /\ ret[s] = "none" /\ Owners[s] # {} => TooFew(s, received[s])
  /\ ret[s] \in {"partial", "error"} => /\ received[s] = Owners[s] /\ TooFew(s, Owners[s])
                                        /\ ret[s] = "partial" <=> Wrote(s, Owners[s]) # {}

VerdictInv == SentIsAnswered /\ \A s \in Shards : VerdictOf(s)

\* Owners can be counted, and at least one of them must write.
LEMMA OwnersAreFinite ==
  ASSUME TypeOK, NEW s \in Shards
  PROVE  /\ IsFiniteSet(Owners[s]) /\ Cardinality(Owners[s]) \in Nat
         /\ \A got \in SUBSET Owners[s] : /\ Cardinality(Wrote(s, got)) \in Nat
                                         /\ IsFiniteSet(Wrote(s, got))
         /\ Owners[s] # {} => Cardinality(Owners[s]) >= 1 /\ Required(Cardinality(Owners[s])) >= 1
         /\ Required(Cardinality(Owners[s])) \in Nat
<1>1. IsFiniteSet(Owners[s]) /\ Cardinality(Owners[s]) \in Nat
  BY ClusterAssumption, FS_Subset, FS_CardinalityType
<1>2. ASSUME NEW got \in SUBSET Owners[s]
      PROVE  Cardinality(Wrote(s, got)) \in Nat /\ IsFiniteSet(Wrote(s, got))
  <2>1. Wrote(s, got) \subseteq Owners[s]
    BY DEF Wrote
  <2> QED BY <1>1, <2>1, FS_Subset, FS_CardinalityType
<1>3. Owners[s] # {} => Cardinality(Owners[s]) # 0
  BY <1>1, FS_EmptySet
<1> QED BY <1>1, <1>2, <1>3 DEF Required

LEMMA VerdictInit == Init => VerdictInv
<1> SUFFICES ASSUME Init PROVE VerdictInv
  OBVIOUS
<1>1. SentIsAnswered
  BY DEF Init, SentIsAnswered
<1>2. ASSUME NEW s \in Shards PROVE VerdictOf(s)
  <2>1. ret[s] = "none" /\ received[s] = {}
    BY DEF Init
  <2>2. Wrote(s, {}) = {} /\ Cardinality(Wrote(s, {})) = 0
    <3>1. Wrote(s, {}) = {}
      BY DEF Wrote
    <3> QED BY <3>1, FS_EmptySet
  <2> QED BY <2>1, <2>2, TypeInit, OwnersAreFinite DEF VerdictOf, TooFew
<1> QED BY <1>1, <1>2 DEF VerdictInv

\* What the collector of a shard counted stays as long as it receives nothing.
LEMMA VerdictStays ==
  ASSUME TypeOK, AckInv, NEW s \in Shards, VerdictOf(s), level' = level,
         received'[s] = received[s], ret'[s] = ret[s] \/ ret'[s] \in {"nil", "failed", "timeout"},
         \A p \in Pairs : task[p] = "done" => answer'[p] = answer[p]
  PROVE  VerdictOf(s)'
<1>1. \A n : Required(n)' = Required(n)
  BY DEF Required
<1>2. \A o \in received[s] : answer'[<<s, o>>] = answer[<<s, o>>]
  BY OwnerPair DEF AckInv, AnswersAreFinal
<1>3. Wrote(s, received[s])' = Wrote(s, received[s])
  BY <1>2 DEF Wrote
<1>4. TooFew(s, received[s])' <=> TooFew(s, received[s])
  BY <1>1, <1>3 DEF TooFew
<1>5. CASE ret'[s] \in {"nil", "failed", "timeout"}
  BY <1>5 DEF VerdictOf
<1>6. CASE ret'[s] = ret[s]
  <2>1. ret[s] = "none" /\ Owners[s] # {} => TooFew(s, received[s])'
    BY <1>4 DEF VerdictOf
  <2>2. ret[s] \in {"partial", "error"} =>
          /\ received'[s] = Owners[s] /\ TooFew(s, received[s])'
          /\ ret[s] = "partial" <=> Wrote(s, received[s])' # {}
    BY <1>3, <1>4 DEF VerdictOf
  <2>3. received'[s] = Owners[s] => /\ TooFew(s, received[s])' <=> TooFew(s, Owners[s])'
                                    /\ Wrote(s, received[s])' = Wrote(s, Owners[s])'
    BY DEF TooFew, Wrote
  <2> QED BY <1>6, <2>1, <2>2, <2>3 DEF VerdictOf
<1> QED BY <1>5, <1>6

\* The collector of s receives an answer.
LEMMA VerdictReceives ==
  ASSUME TypeOK, AckInv, NEW s \in Shards, VerdictOf(s), Receive(s)
  PROVE  VerdictOf(s)'
<1>p. PICK o \in Owners[s] : o = Head(ch[s])[2] /\ Owners[s] # {}
  <2>1. ch[s] \in Seq(Pairs) /\ ch[s] # << >> /\ Head(ch[s]) = ch[s][1] /\ 1 \in 1 .. Len(ch[s])
    BY DEF Receive, TypeOK
  <2>2. Head(ch[s]) \in Pairs /\ Head(ch[s])[1] = s
    BY <2>1, HeadAndTail DEF AckInv, AnswersAreFinal
  <2> QED BY <2>2, PairParts
<1>g. PICK got \in SUBSET Owners[s] : got = received[s] \cup {o}
  BY DEF AckInv, AnswersAreFinal
<1>1. /\ ret[s] = "none" /\ received'[s] = got
      /\ UNCHANGED <<level, answer>> /\ TooFew(s, received[s])
      /\ \/ /\ answer[<<s, o>>] = "nil" /\ Cardinality(Wrote(s, got)) >= Required(Cardinality(Owners[s]))
            /\ ret'[s] = "nil"
         \/ /\ ~(answer[<<s, o>>] = "nil" /\ Cardinality(Wrote(s, got)) >= Required(Cardinality(Owners[s])))
            /\ \/ got = Owners[s] /\ ret'[s] = FinalResult(s, got)
               \/ got # Owners[s] /\ ret'[s] = ret[s]
  BY <1>p, <1>g DEF Receive, ReturnShard, VerdictOf, TypeOK, taskVars
<1>2. /\ \A n : Required(n)' = Required(n)
      /\ \A S : Wrote(s, S)' = Wrote(s, S)
  BY <1>1 DEF Required, Wrote
<1>3. \A S : TooFew(s, S)' <=> TooFew(s, S)
  BY <1>2 DEF TooFew
<1>4. CASE ret'[s] = "nil"
  BY <1>4 DEF VerdictOf
<1>5. CASE ~(answer[<<s, o>>] = "nil" /\ Cardinality(Wrote(s, got)) >= Required(Cardinality(Owners[s])))
  <2>1. TooFew(s, got)
    <3>1. CASE answer[<<s, o>>] = "nil"
      BY <1>5, <3>1, OwnersAreFinite DEF TooFew
    <3>2. CASE answer[<<s, o>>] # "nil"
      <4>1. Wrote(s, got) = Wrote(s, received[s])
        BY <1>g, <3>2 DEF Wrote
      <4> QED BY <1>1, <4>1 DEF TooFew
    <3> QED BY <3>1, <3>2
  <2>2. CASE got = Owners[s] /\ ret'[s] = FinalResult(s, got)
    <3>1. ret'[s] = "partial" <=> Wrote(s, Owners[s]) # {}
      BY <2>2 DEF FinalResult
    <3>2. ret'[s] # "none"
      BY <2>2 DEF FinalResult
    <3>3. received'[s] = Owners[s] /\ TooFew(s, Owners[s])' /\ Wrote(s, Owners[s])' = Wrote(s, Owners[s])
      BY <1>1, <1>2, <1>3, <2>1, <2>2
    <3> QED BY <3>1, <3>2, <3>3 DEF VerdictOf
  <2>3. CASE got # Owners[s] /\ ret'[s] = ret[s]
    <3>1. TooFew(s, received[s])' <=> TooFew(s, got)'
      BY <1>1 DEF TooFew, Wrote
    <3> QED BY <1>1, <1>3, <2>1, <2>3, <3>1 DEF VerdictOf
  <2> QED BY <1>1, <1>4, <1>5, <2>2, <2>3
<1> QED BY <1>1, <1>4, <1>5

LEMMA VerdictStep == TypeOK /\ AckInv /\ VerdictInv /\ [Next]_vars => VerdictInv'
<1> SUFFICES ASSUME TypeOK, AckInv, VerdictInv, [Next]_vars PROVE VerdictInv'
  OBVIOUS
<1> USE DEF fate, collectors, taskVars
<1>1. ASSUME NEW p \in Pairs, OwnerTask(p)
      PROVE  /\ task[p] # "done" /\ UNCHANGED <<level, received, ret>>
             /\ \E a \in {"none", "nil", "error"} : answer' = [answer EXCEPT ![p] = a]
             /\ \E t : task' = [task EXCEPT ![p] = t]
             /\ task'[p] \in {"send", "done"} => answer'[p] # "none"
  <2>1. CASE LocalWrite(p) \/ LocalFails(p) \/ RemoteWrite(p) \/ RemoteDropped(p) \/ RemoteRejects(p)
             \/ HintRefused(p)
    BY <2>1 DEF LocalWrite, LocalFails, RemoteWrite, RemoteDropped, RemoteRejects, HintRefused, Answer,
       TypeOK
  <2>2. CASE Hint(p)
    <3>1. HintAnswer \in {"nil", "error"}
      BY DEF HintAnswer
    <3> QED BY <2>2, <3>1 DEF Hint, Answer, TypeOK
  <2>3. CASE LocalMissing(p) \/ LocalCreate(p) \/ RemoteFails(p)
    <3>1. answer' = [answer EXCEPT ![p] = answer[p]] /\ answer[p] \in {"none", "nil", "error"}
      BY <2>3 DEF LocalMissing, LocalCreate, RemoteFails, TypeOK
    <3> QED BY <2>3, <3>1 DEF LocalMissing, LocalCreate, RemoteFails, TypeOK
  <2>4. CASE SendAnswer(p)
    <3>1. answer' = [answer EXCEPT ![p] = answer[p]] /\ answer[p] \in {"none", "nil", "error"}
      BY <2>4 DEF SendAnswer, TypeOK
    <3>2. answer[p] # "none"
      BY <2>4 DEF SendAnswer, VerdictInv, SentIsAnswered
    <3> QED BY <2>4, <3>1, <3>2 DEF SendAnswer, TypeOK
  <2> QED BY <1>1, <2>1, <2>2, <2>3, <2>4 DEF OwnerTask
<1>2. CASE \E p \in Pairs : OwnerTask(p)
  <2> PICK p \in Pairs : OwnerTask(p)
    BY <1>2
  <2>1. \A q \in Pairs : q # p => answer'[q] = answer[q] /\ task'[q] = task[q]
    BY <1>1 DEF TypeOK
  <2>2. SentIsAnswered'
    BY <1>1, <2>1 DEF VerdictInv, SentIsAnswered
  <2>3. ASSUME NEW s \in Shards PROVE VerdictOf(s)'
    <3>1. /\ received'[s] = received[s] /\ ret'[s] = ret[s] /\ level' = level
          /\ \A q \in Pairs : task[q] = "done" => answer'[q] = answer[q]
      BY <1>1, <2>1
    <3> QED BY <3>1, VerdictStays DEF VerdictInv
  <2> QED BY <2>2, <2>3 DEF VerdictInv
<1>3. CASE \E z \in Shards : Receive(z)
  <2> PICK z \in Shards : Receive(z)
    BY <1>3
  <2>1. /\ UNCHANGED <<level, task, answer>>
        /\ \A s \in Shards : s # z => received'[s] = received[s] /\ ret'[s] = ret[s]
    BY DEF Receive, ReturnShard, TypeOK
  <2>2. SentIsAnswered'
    BY <2>1 DEF VerdictInv, SentIsAnswered
  <2>3. ASSUME NEW s \in Shards PROVE VerdictOf(s)'
    <3>1. CASE s = z
      BY <3>1, VerdictReceives DEF VerdictInv
    <3>2. CASE s # z
      BY <2>1, <3>2, VerdictStays DEF VerdictInv
    <3> QED BY <3>1, <3>2
  <2> QED BY <2>2, <2>3 DEF VerdictInv
<1>4. CASE \/ \E p \in Pairs : Handoff(p)
           \/ \E z \in Shards : \/ NoOwners(z) \/ ShardTimeout(z) \/ ShardClosing(z)
                               \/ DeleteShardGroup(z) \/ DeleteShard(z)
           \/ Request \/ Close \/ UNCHANGED vars
  <2>1. /\ UNCHANGED <<level, task, answer, received>>
        /\ \A s \in Shards : ret'[s] = ret[s] \/ ret'[s] \in {"nil", "failed", "timeout"}
    BY <1>4 DEF Handoff, Replay, ReplayFails, HintLost, NoOwners, ShardTimeout, ShardClosing, ReturnShard,
       DeleteShardGroup, DeleteShard,
       Request, ReceiveShard, RequestTimeout, RequestClosing, Close, vars, TypeOK
  <2>2. SentIsAnswered'
    BY <2>1 DEF VerdictInv, SentIsAnswered
  <2>3. ASSUME NEW s \in Shards PROVE VerdictOf(s)'
    BY <2>1, VerdictStays DEF VerdictInv
  <2> QED BY <2>2, <2>3 DEF VerdictInv
<1> QED BY <1>2, <1>3, <1>4 DEF Next, Collect

\* The arithmetic of the levels, the other way round.
LEMMA TooFewIsNotMet ==
  ASSUME NEW w \in Nat, NEW n \in Nat, w < Required(n), level \in {"any", "one", "quorum", "all"}
  PROVE  ~LevelMet(w, n)
  BY DEF Required, LevelMet

LEMMA VerdictSuffices == TypeOK /\ AckInv /\ VerdictInv => VerdictIsExact
<1> SUFFICES ASSUME TypeOK, AckInv, VerdictInv, NEW s \in Shards, ret[s] \in {"partial", "error"}
             PROVE  /\ {o \in Owners[s] : answer[<<s, o>>] # "none"} = Owners[s]
                    /\ ret[s] = "partial" => /\ 0 < Cardinality(Wrote(s, Owners[s]))
                                             /\ ~LevelMet(Cardinality(Wrote(s, Owners[s])),
                                                           Cardinality(Owners[s]))
                    /\ ret[s] = "error" => Cardinality(Wrote(s, Owners[s])) = 0
  BY DEF VerdictIsExact
<1>1. /\ received[s] = Owners[s] /\ TooFew(s, Owners[s])
      /\ ret[s] = "partial" <=> Wrote(s, Owners[s]) # {}
  BY DEF VerdictInv, VerdictOf
<1>2. \A o \in Owners[s] : answer[<<s, o>>] # "none"
  BY <1>1, OwnerPair DEF AckInv, AnswersAreFinal, VerdictInv, SentIsAnswered
<1>3. /\ Cardinality(Wrote(s, Owners[s])) \in Nat /\ Cardinality(Owners[s]) \in Nat
      /\ Cardinality(Wrote(s, Owners[s])) = 0 <=> Wrote(s, Owners[s]) = {}
  BY OwnersAreFinite, FS_EmptySet
<1>4. ~LevelMet(Cardinality(Wrote(s, Owners[s])), Cardinality(Owners[s]))
  <2>1. level \in {"any", "one", "quorum", "all"}
    BY LevelsAssumption DEF TypeOK
  <2> QED BY <1>1, <1>3, <2>1, TooFewIsNotMet DEF TooFew
<1> QED BY <1>1, <1>2, <1>3, <1>4

\* writeToShard calls a write partial or failed only after every owner has answered,
\* and the one or the other by whether anyone wrote; it never gives up a level that was
\* met, in whatever order the answers arrive (points_writer.go, writeToShard).
THEOREM VerdictIsHonest == Spec => []VerdictIsExact
  BY TypeInit, TypeStep, AckInit, AckStep, VerdictInit, VerdictStep, VerdictSuffices, PTL DEF Spec

=============================================================================
