----------------------- MODULE ClientRefinement_proofs -----------------------
(***************************************************************************)
(* The SDK client implements Submission: the proof.  The invariant         *)
(* ClientInv is what makes an effect of the chain a permitted one: the     *)
(* transaction at the head of the queue was broadcast by a call that was   *)
(* made (OnlySentIsOrdered), and is in no block yet (IdsCommitOnce).       *)
(***************************************************************************)
EXTENDS ClientRefinement, ChannelClient_proofs, SequenceTheorems

\* The mapped variables, as functions of the state.
Answers  == [c \in Calls |-> AnswerOf(c)]
Made     == [c \in Calls |-> call[c].writes]
Applied  == [c \in Calls |-> {n \in Attempts : Decided(<<c, n>>, TRUE, Len(log))}]
Worlds   == [i \in 1..Len(log) |-> log[i].world]

\* The network before the first call, whatever its ledger holds by then, is an
\* initial state of Submission.
LEMMA RefinesInit ==
  ASSUME NEW w \in World, ClientInit(w)
  PROVE  Sub!Init
<1>1. Answers = [c \in Calls |-> "none"]
  <2>1. \A c \in Calls : call[c].pc = "none"
    BY DEF ClientInit, Idle
  <2> QED
    BY <2>1 DEF Answers, AnswerOf, Active
<1>2. Made = [c \in Calls |-> Sub!None]
  BY DEF Made, ClientInit, Idle, NoWrites, Sub!None
<1>3. Len(log) = 1 /\ log[1].world = w
  BY DEF ClientInit, Genesis
<1>4. Applied = [c \in Calls |-> {}]
  BY <1>3 DEF Applied, Decided
<1>5. Worlds = <<w>>
  BY <1>3 DEF Worlds
<1>6. w \in [Keys -> Values \cup {Missing}]
  BY DEF World
<1> QED
  BY <1>1, <1>2, <1>4, <1>5, <1>6 DEF Sub!Init, Answers, Made, Applied, Worlds

\* While the chain stands still, so do its effects.
LEMMA NoBlock ==
  ASSUME log' = log
  PROVE  Applied' = Applied /\ Worlds' = Worlds
BY DEF Applied, Worlds, Decided

\* Submitting a call makes it in Submission.
LEMMA RefinesSubmit ==
  ASSUME ClientInv, NEW c \in Calls, NEW w \in WriteSet, Submit(c, w)
  PROVE  Sub!Next
<1>1. call \in [Calls -> CallState]
  BY DEF ClientInv, ClientTypes, ClientTypeOK
<1>2. Answers[c] = "none" /\ Answers' = [Answers EXCEPT ![c] = "open"]
  BY <1>1 DEF Submit, Answers, AnswerOf, Active
<1>3. w \in Sub!Requests /\ Made' = [Made EXCEPT ![c] = w]
  BY <1>1 DEF Submit, Made, Sub!Requests, WriteSet
<1>4. Applied' = Applied /\ Worlds' = Worlds
  BY NoBlock DEF Submit, networkVars
<1>5. Sub!Make(c)
  BY <1>2, <1>3, <1>4 DEF Sub!Make, Answers, Made, Applied, Worlds
<1> QED
  BY <1>5 DEF Sub!Next

\* A goroutine's step is an answer or nothing to its caller.
LEMMA RefinesCallStep ==
  ASSUME ClientInv, NEW c \in Calls, CallStep(c)
  PROVE  Sub!Next \/ UNCHANGED Sub!submissionVars
<1>1. CallEffect(c) /\ call \in [Calls -> CallState] /\ call' \in [Calls -> CallState]
  BY CallStepEffect, CallStepTypes DEF ClientInv, ClientTypes, ClientTypeOK
<1>2. Applied' = Applied /\ Worlds' = Worlds
  BY <1>1, NoBlock DEF CallEffect
<1>3. Made' = Made
  BY <1>1 DEF CallEffect, Made
<1>4. Answers[c] = "open" /\ \A d \in Calls \ {c} : Answers'[d] = Answers[d]
  BY <1>1 DEF CallEffect, Answers, AnswerOf, Active
<1>5. CASE call'[c].pc \in Active
  <2>1. Answers' = Answers
    BY <1>1, <1>4, <1>5 DEF Answers, AnswerOf, Active
  <2> QED
    BY <1>2, <1>3, <2>1 DEF Sub!submissionVars, Answers, Made, Applied, Worlds
<1>6. CASE call'[c].pc = "ok"
  <2>1. Answers' = [Answers EXCEPT ![c] = "ok"]
    BY <1>4, <1>6 DEF Answers, AnswerOf, Active
  <2>2. Applied[c] # {}
    <3>1. ClientInv'
      BY CallStepInv
    <3>2. PICK p \in Peers : Decided(<<c, call'[c].txid>>, TRUE, height[p])
      BY <1>1, <1>6 DEF CallEffect
    <3>3. PICK i \in 2..height[p] : log[i].tx = <<c, call'[c].txid>> /\ log[i].valid = TRUE
      BY <3>2 DEF Decided
    <3>4. i \in 2..Len(log)
      BY <3>3 DEF ClientInv, ClientTypes, ClientTypeOK
    <3>5. log[i].tx \in TxIds
      BY <3>4 DEF ClientInv, OnlySentIsOrdered
    <3>6. call'[c].txid \in Attempts
      BY <3>3, <3>5 DEF TxIds
    <3>7. Decided(<<c, call'[c].txid>>, TRUE, Len(log))
      BY <3>3, <3>4 DEF Decided
    <3> QED
      BY <3>6, <3>7 DEF Applied
  <2>3. Sub!Succeed(c)
    BY <1>2, <1>3, <1>4, <2>1, <2>2 DEF Sub!Succeed, Answers, Made, Applied, Worlds
  <2> QED
    BY <2>3 DEF Sub!Next
<1>7. CASE call'[c].pc = "failed"
  <2>1. Answers' = [d \in Calls |-> IF d \in {c} THEN "failed" ELSE Answers[d]]
    BY <1>4, <1>7 DEF Answers, AnswerOf, Active
  <2>2. Sub!GiveUp({c})
    BY <1>2, <1>3, <1>4, <2>1 DEF Sub!GiveUp, Answers, Made, Applied, Worlds
  <2> QED
    BY <2>2 DEF Sub!Next
<1> QED
  BY <1>1, <1>5, <1>6, <1>7 DEF CallEffect, Active

\* The death of the process gives up every call that is open.
LEMMA RefinesCrash ==
  ASSUME ClientInv, Crash
  PROVE  Sub!Next
<1> DEFINE C == {c \in Calls : call[c].pc \in Active}
<1>1. call \in [Calls -> CallState]
  BY DEF ClientInv, ClientTypes, ClientTypeOK
<1>2. Applied' = Applied /\ Worlds' = Worlds
  BY NoBlock DEF Crash, networkVars
<1>3. Made' = Made
  BY <1>1 DEF Crash, Abandon, Made, CallState
<1>4. \A c \in C : Answers[c] = "open"
  BY DEF Answers, AnswerOf, Active
<1>5. Answers' = [c \in Calls |-> IF c \in C THEN "failed" ELSE Answers[c]]
  BY <1>1 DEF Crash, Abandon, Answers, AnswerOf, Active, CallState
<1>6. Sub!GiveUp(C)
  BY <1>2, <1>3, <1>4, <1>5 DEF Sub!GiveUp, Answers, Made, Applied, Worlds
<1> QED
  BY <1>6 DEF Sub!Next

\* A valid block is one more attempt of its call taking effect.
LEMMA RefinesCommit ==
  ASSUME ClientInv, Commit
  PROVE  Sub!Next
<1>1. /\ queue \in Seq(TxIds) /\ queue # <<>> /\ log \in Seq(Entry)
      /\ Len(log) \in Nat /\ Len(log) >= 1 /\ call \in [Calls -> CallState]
  BY EntryTypes DEF Commit, ClientInv, ClientTypes, ClientTypeOK
<1>2. PICK t \in TxIds : t = Head(queue)
  BY <1>1
<1>3. t = queue[1] /\ 1 \in 1..Len(queue)
  BY <1>1, <1>2
<1>4. PICK c \in Calls, n \in Attempts : t = <<c, n>>
  BY DEF TxIds
<1>5. call[c].pc # "none"
  <2>1. Sent(t)
    BY <1>3 DEF ClientInv, OnlySentIsOrdered
  <2>2. call[c].pc = "none" => call[c].attempt = 0
    BY DEF ClientInv, ClientTypes, Started
  <2> QED
    BY <1>4, <2>1, <2>2 DEF Sent, Attempts
<1>6. \A j \in 2..Len(log) : log[j].tx # t
  BY <1>3 DEF ClientInv, IdsCommitOnce
<1>7. PICK valid \in BOOLEAN :
        log' = Append(log,
          [tx |-> t, valid |-> valid,
           world |-> IF valid THEN Overwrite(Top, call[c].writes) ELSE Top])
  BY <1>2, <1>4 DEF Commit
<1>8. /\ Len(log') = Len(log) + 1
      /\ \A i \in 1..Len(log) : log'[i] = log[i]
      /\ log'[Len(log) + 1].tx = t
      /\ log'[Len(log) + 1].valid = valid
      /\ log'[Len(log) + 1].world = IF valid THEN Overwrite(Top, call[c].writes) ELSE Top
  BY <1>1, <1>7
<1>9. Answers' = Answers /\ Made' = Made
  BY DEF Commit, Answers, Made, AnswerOf
<1>10. Worlds' = Append(Worlds, log'[Len(log) + 1].world)
  <2> DEFINE x == log'[Len(log) + 1].world
             S == {log[i].world : i \in 1..Len(log)} \cup {x}
  <2>1. Worlds \in Seq(S) /\ Len(Worlds) = Len(log) /\ x \in S
    BY <1>1 DEF Worlds
  <2>2. Worlds' = [i \in 1..(Len(log) + 1) |-> IF i = Len(log) + 1 THEN x ELSE Worlds[i]]
    BY <1>1, <1>8 DEF Worlds
  <2>3. Worlds' \in Seq(S) /\ Len(Worlds') = Len(log) + 1
    <3>0. \A i \in 1..Len(log) : Worlds[i] \in S
      BY DEF Worlds
    <3> HIDE DEF x, S
    <3>1. \A i \in 1..(Len(log) + 1) : Worlds'[i] \in S
      BY <1>1, <2>1, <2>2, <3>0
    <3>2. Worlds' \in [1..(Len(log) + 1) -> S]
      BY <2>2, <3>1
    <3>3. Len(log) + 1 \in Nat
      BY <1>1
    <3> QED
      BY <3>2, <3>3
  <2> HIDE DEF x, S
  <2>4. Append(Worlds, x) \in Seq(S) /\ Len(Append(Worlds, x)) = Len(log) + 1
    BY <2>1, AppendProperties
  <2>5. ASSUME NEW i \in 1..Len(Worlds')
        PROVE  Worlds'[i] = Append(Worlds, x)[i]
    <3>1. i \in 1..Len(Worlds) \/ i = Len(Worlds) + 1
      BY <1>1, <2>1, <2>3
    <3>2. Worlds'[i] = IF i = Len(log) + 1 THEN x ELSE Worlds[i]
      BY <2>2, <2>3
    <3> QED
      BY <1>1, <2>1, <3>1, <3>2, AppendProperties
  <2>6. Worlds' = Append(Worlds, x)
    BY <2>3, <2>4, <2>5, SeqEqual
  <2> QED
    BY <2>6 DEF x
<1>11. Worlds[Len(Worlds)] = Top /\ Len(Worlds) = Len(log)
  BY <1>1 DEF Worlds, Top
<1>12. \A d \in Calls, m \in Attempts :
         Decided(<<d, m>>, TRUE, Len(log))' <=>
           Decided(<<d, m>>, TRUE, Len(log)) \/ (valid /\ <<d, m>> = t)
  <2> SUFFICES ASSUME NEW d \in Calls, NEW m \in Attempts
               PROVE  (\E i \in 2..Len(log') : log'[i].tx = <<d, m>> /\ log'[i].valid = TRUE)
                      <=> \/ \E i \in 2..Len(log) : log[i].tx = <<d, m>> /\ log[i].valid = TRUE
                          \/ valid /\ <<d, m>> = t
    BY DEF Decided
  <2>1. /\ 2..Len(log') = 2..Len(log) \cup {Len(log) + 1}
        /\ \A i \in 2..Len(log) : log'[i] = log[i]
    BY <1>1, <1>8
  <2> DEFINE Here(i) == log'[i].tx = <<d, m>> /\ log'[i].valid = TRUE
             Before(i) == log[i].tx = <<d, m>> /\ log[i].valid = TRUE
  <2>2. (\E i \in 2..Len(log') : Here(i)) <=>
          (\E i \in 2..Len(log) : Here(i)) \/ Here(Len(log) + 1)
    BY <2>1, Zenon
  <2>3. \A i \in 2..Len(log) : Here(i) <=> Before(i)
    BY <2>1
  <2>4. Here(Len(log) + 1) <=> valid /\ <<d, m>> = t
    BY <1>8
  <2> QED
    BY <2>2, <2>3, <2>4
<1>13. CASE valid
  <2>1. n \notin Applied[c]
    BY <1>4, <1>6 DEF Applied, Decided
  <2>2. Applied' = [Applied EXCEPT ![c] = @ \cup {n}]
    BY <1>4, <1>12, <1>13 DEF Applied
  <2>3. Worlds' = Append(Worlds, Sub!Update(Worlds[Len(Worlds)], Made[c]))
    BY <1>8, <1>10, <1>11, <1>13 DEF Sub!Update, Overwrite, Made
  <2>4. Answers[c] # "none"
    BY <1>5 DEF Answers, AnswerOf
  <2>5. n \in Sub!Attempts
    BY DEF Attempts, Sub!Attempts
  <2>6. Sub!Apply(c)
    BY <1>9, <2>1, <2>2, <2>3, <2>4, <2>5
    DEF Sub!Apply, Sub!Current, Answers, Made, Applied, Worlds
  <2> QED
    BY <2>6 DEF Sub!Next
<1>14. CASE ~valid
  <2>1. Applied' = Applied
    BY <1>12, <1>14 DEF Applied
  <2>2. Worlds' = Append(Worlds, Worlds[Len(Worlds)])
    BY <1>8, <1>10, <1>11, <1>14
  <2>3. Sub!EmptyBlock
    BY <1>9, <2>1, <2>2
    DEF Sub!EmptyBlock, Sub!Current, Answers, Made, Applied, Worlds
  <2> QED
    BY <2>3 DEF Sub!Next
<1> QED
  BY <1>13, <1>14

\* The caller sees nothing of what the orderer and the peers do otherwise.
LEMMA RefinesNetwork ==
  ASSUME ClientInv, Network
  PROVE  Sub!Next \/ UNCHANGED Sub!submissionVars
<1>1. ASSUME log' = log, call' = call
      PROVE  UNCHANGED Sub!submissionVars
  <2>1. Answers' = Answers /\ Made' = Made
    BY <1>1 DEF Answers, Made, AnswerOf
  <2> QED
    BY <1>1, <2>1, NoBlock DEF Sub!submissionVars, Answers, Made, Applied, Worlds
<1>2. CASE \E t \in wire : Accept(t)
  BY <1>1, <1>2 DEF Accept
<1>3. CASE Commit
  BY <1>3, RefinesCommit
<1>4. CASE \E p \in Peers : CatchUp(p)
  BY <1>1, <1>4 DEF CatchUp
<1> QED
  BY <1>2, <1>3, <1>4 DEF Network

\* Nothing of the client or the network moves.
LEMMA RefinesStutter ==
  ASSUME UNCHANGED clientVars
  PROVE  UNCHANGED Sub!submissionVars
<1>1. Answers' = Answers /\ Made' = Made /\ Applied' = Applied /\ Worlds' = Worlds
  BY NoBlock DEF clientVars, networkVars, Answers, Made, AnswerOf
<1> QED
  BY <1>1 DEF Sub!submissionVars, Answers, Made, Applied, Worlds

\* The SDK's Execute with its retries and the network below it (chclient.go
\* Execute, invoke/txnhandler.go, retry.go) give every caller what Submission
\* promises, for any number of calls, peers, keys and retries.
THEOREM ClientImplementsSubmission == ClientSpec => ImplementsSubmission
<1>1. ASSUME ClientInit([k \in Keys |-> Missing])
      PROVE  ClientInv
  BY <1>1, ClientInitInv DEF World
<1>2. ASSUME ClientInv, [ClientNext]_clientVars
      PROVE  ClientInv'
  BY <1>2, SubmitInv, CallStepInv, NetworkInv, AbandonInv, ClientStutterInv
  DEF ClientNext, Crash
<1>3. ASSUME ClientInit([k \in Keys |-> Missing])
      PROVE  Sub!Init
  BY <1>3, RefinesInit DEF World
<1>4. ASSUME ClientInv, [ClientNext]_clientVars
      PROVE  Sub!Next \/ UNCHANGED Sub!submissionVars
  BY <1>4, RefinesSubmit, RefinesCallStep, RefinesNetwork, RefinesCrash, RefinesStutter
  DEF ClientNext
<1> QED
  BY <1>1, <1>2, <1>3, <1>4, PTL DEF ClientSpec, ImplementsSubmission, Sub!Spec
=============================================================================
