------------------------ MODULE ChannelClient_proofs ------------------------
(***************************************************************************)
(* Proofs about ChannelClient.  The lemmas speak of its actions, not of    *)
(* its next-state relation, so that Gateway, which takes the same actions  *)
(* inside its own, can use them as they are.                               *)
(***************************************************************************)
EXTENDS ChannelClient, TLAPS

\* A call that has been made is in one of its permitted attempts.
Started ==
  \A c \in Calls : IF call[c].pc = "none" THEN call[c].attempt = 0
                                          ELSE call[c].attempt \in Attempts

ClientTypes == ClientTypeOK /\ Started

\* Applying a write set to a ledger state gives a ledger state.
LEMMA OverwriteType ==
  ASSUME NEW w \in World, NEW writes \in WriteSet
  PROVE  Overwrite(w, writes) \in World
BY DEF Overwrite, World, WriteSet

\* The empty write set is a write set.
LEMMA NoWritesType == NoWrites \in WriteSet
<1>1. NoWrites \in [{} -> Values]
  BY DEF NoWrites
<1> QED
  BY <1>1 DEF WriteSet

\* Each block has the type of its parts.
LEMMA EntryTypes ==
  ASSUME ClientTypeOK
  PROVE  /\ \A i \in 1..Len(log) :
              log[i] \in Entry /\ log[i].world \in World /\ log[i].valid \in BOOLEAN
         /\ Len(log) \in 1..Len(log)
         /\ Len(log) \in Nat
<1>1. \A i \in 1..Len(log) : log[i] \in Entry
  BY DEF ClientTypeOK
<1>2. \A e \in Entry : e.world \in World /\ e.valid \in BOOLEAN
  BY DEF Entry
<1> QED
  BY <1>1, <1>2 DEF ClientTypeOK

\* Before any call, every variable has its type.
LEMMA ClientInitTypes ==
  ASSUME NEW w \in World, ClientInit(w)
  PROVE  ClientTypes
<1>1. Idle \in CallState
  BY NoWritesType, ClientAssumption DEF Idle, CallState
<1>2. Genesis(w) \in Entry
  BY DEF Genesis, Entry
<1>3. log \in Seq(Entry) /\ Len(log) = 1
  BY <1>2 DEF ClientInit
<1>4. ClientTypeOK
  BY <1>1, <1>3 DEF ClientInit, ClientTypeOK
<1>5. Started
  BY DEF ClientInit, Started, Idle
<1> QED
  BY <1>4, <1>5 DEF ClientTypes

\* The end of an attempt leaves the call in a state of its type.
LEMMA FailTypes ==
  ASSUME ClientTypes, NEW c \in Calls, call[c].pc \in Active,
         NEW n \in 0..(MaxRetries + 1), NEW transient \in BOOLEAN,
         Fail(c, n, transient), UNCHANGED networkVars
  PROVE  ClientTypes'
<1>1. call[c] \in CallState /\ call[c].attempt \in Attempts
  BY DEF ClientTypes, ClientTypeOK, Started, Active
<1>2. CASE transient /\ call[c].attempt <= MaxRetries
  <2>1. call[c].attempt + 1 \in Attempts
    BY <1>1, <1>2, ClientAssumption DEF Attempts
  <2>2. call' = [call EXCEPT ![c].pc = "endorse", ![c].attempt = @ + 1, ![c].txid = 0]
    BY <1>2 DEF Fail
  <2>3. [pc |-> "endorse", attempt |-> call[c].attempt + 1, txid |-> 0,
         writes |-> call[c].writes] \in CallState
    BY <1>1, <2>1, ClientAssumption DEF CallState, Attempts, Active
  <2> QED
    BY <1>1, <2>1, <2>2, <2>3
    DEF ClientTypes, ClientTypeOK, Started, CallState, networkVars
<1>3. CASE ~(transient /\ call[c].attempt <= MaxRetries)
  <2>1. call' = [call EXCEPT ![c].pc = "failed", ![c].txid = n]
    BY <1>3 DEF Fail
  <2> QED
    BY <1>1, <2>1
    DEF ClientTypes, ClientTypeOK, Started, CallState, Returned, networkVars
<1> QED
  BY <1>2, <1>3

\* A step of a goroutine keeps the types.
LEMMA CallStepTypes ==
  ASSUME ClientTypes, NEW c \in Calls, CallStep(c)
  PROVE  ClientTypes'
<1> USE ClientAssumption
<1>0. call[c] \in CallState
  BY DEF ClientTypes, ClientTypeOK
<1>1. CASE Endorse(c)
  BY <1>1, <1>0 DEF Endorse, ClientTypes, ClientTypeOK, Started, CallState, Active, networkVars
<1>2. CASE EndorseFails(c)
  <2>1. PICK n \in {0, call[c].attempt}, transient \in BOOLEAN : Fail(c, n, transient)
    BY <1>2 DEF EndorseFails
  <2>2. n \in 0..(MaxRetries + 1)
    BY <1>0 DEF CallState
  <2> QED
    BY <1>2, <2>1, <2>2, FailTypes DEF EndorseFails, Active
<1>3. CASE Broadcast(c)
  <2>1. Tx(c) \in TxIds
    BY <1>3 DEF Broadcast, Tx, TxIds, ClientTypes, Started
  <2> QED
    BY <1>3, <1>0, <2>1
    DEF Broadcast, ClientTypes, ClientTypeOK, Started, CallState, Active
<1>4. CASE Ack(c)
  BY <1>4, <1>0 DEF Ack, ClientTypes, ClientTypeOK, Started, CallState, Active, networkVars
<1>5. CASE BroadcastFails(c)
  <2>1. PICK transient \in BOOLEAN : Fail(c, call[c].attempt, transient)
    BY <1>5 DEF BroadcastFails
  <2>2. call[c].attempt \in 0..(MaxRetries + 1)
    BY <1>0 DEF CallState
  <2> QED
    BY <1>5, <2>1, <2>2, FailTypes DEF BroadcastFails, Active
<1>6. CASE TxStatus(c)
  <2>1. CASE \E transient \in BOOLEAN : Fail(c, call[c].attempt, transient)
    <3>1. PICK transient \in BOOLEAN : Fail(c, call[c].attempt, transient)
      BY <2>1
    <3>2. call[c].attempt \in 0..(MaxRetries + 1)
      BY <1>0 DEF CallState
    <3> QED
      BY <1>6, <3>1, <3>2, FailTypes DEF TxStatus, Active
  <2>2. CASE call' = [call EXCEPT ![c].pc = "ok", ![c].txid = call[c].attempt]
    BY <1>6, <1>0, <2>2
    DEF TxStatus, ClientTypes, ClientTypeOK, Started, CallState, Returned, networkVars
  <2> QED
    BY <1>6, <2>1, <2>2 DEF TxStatus
<1>7. CASE Timeout(c)
  <2>1. 0 \in 0..(MaxRetries + 1) /\ call[c].attempt \in 0..(MaxRetries + 1)
    BY <1>0 DEF CallState
  <2>2. PICK n \in {0, call[c].attempt} :
          call' = [call EXCEPT ![c].pc = "failed", ![c].txid = n]
    BY <1>7 DEF Timeout
  <2> QED
    BY <1>7, <1>0, <2>1, <2>2
    DEF Timeout, ClientTypes, ClientTypeOK, Started, CallState, Active, Returned, networkVars
<1> QED
  BY <1>1, <1>2, <1>3, <1>4, <1>5, <1>6, <1>7 DEF CallStep

\* A new call keeps the types.
LEMMA SubmitTypes ==
  ASSUME ClientTypes, NEW c \in Calls, NEW w \in WriteSet, Submit(c, w)
  PROVE  ClientTypes'
<1>1. [pc |-> "endorse", attempt |-> 1, txid |-> 0, writes |-> w] \in CallState
        /\ 1 \in Attempts
  BY ClientAssumption DEF CallState, Active, Attempts
<1> QED
  BY <1>1 DEF Submit, ClientTypes, ClientTypeOK, Started, networkVars

\* The death of the process keeps the types.
LEMMA AbandonTypes ==
  ASSUME ClientTypes, NEW C, Abandon(C), UNCHANGED networkVars
  PROVE  ClientTypes'
BY DEF Abandon, ClientTypes, ClientTypeOK, Started, CallState, Active, networkVars

\* Orderer and peers keep the types: a block overwrites a world with a write set.
LEMMA NetworkTypes ==
  ASSUME ClientTypes, Network
  PROVE  ClientTypes'
<1> USE DEF ClientTypes, ClientTypeOK
<1>1. ASSUME NEW t \in wire, Accept(t)
      PROVE  ClientTypes'
  BY <1>1 DEF Accept, Started
<1>2. CASE Commit
  <2>1. Head(queue) \in TxIds /\ Tail(queue) \in Seq(TxIds)
    BY <1>2 DEF Commit
  <2>2. Top \in World
    BY EntryTypes DEF Top
  <2>3. call[Head(queue)[1]].writes \in WriteSet
    BY <2>1 DEF TxIds, CallState
  <2>4. Overwrite(Top, call[Head(queue)[1]].writes) \in World
    BY <2>2, <2>3, OverwriteType
  <2>5. PICK valid \in BOOLEAN :
          log' = Append(log,
            [tx |-> Head(queue), valid |-> valid,
             world |-> IF valid THEN Overwrite(Top, call[Head(queue)[1]].writes)
                                ELSE Top])
    BY <1>2 DEF Commit
  <2>6. log' \in Seq(Entry)
          /\ Len(log') = Len(log) + 1
    BY <2>1, <2>2, <2>4, <2>5 DEF Entry
  <2>7. height \in [Peers -> 1..Len(log')]
    BY <2>6
  <2> QED
    BY <1>2, <2>1, <2>6, <2>7 DEF Commit, Started
<1>3. ASSUME NEW p \in Peers, CatchUp(p)
      PROVE  ClientTypes'
  BY <1>3 DEF CatchUp, Started
<1> QED
  BY <1>1, <1>2, <1>3 DEF Network

(***************************************************************************)
(* The order of events.  An id that is anywhere in the network is one its  *)
(* call has broadcast (OnlySentIsOrdered); a call broadcasts only an id it *)
(* has not broadcast yet, so that no id is in two places (IdsCommitOnce);  *)
(* and what a peer has committed stays committed (OkIsCommitted).          *)
(***************************************************************************)
ClientInv ==
  /\ ClientTypes
  /\ OnlySentIsOrdered
  /\ IdsCommitOnce
  /\ OkIsCommitted

\* Before any call, the invariant holds: nothing is sent and nothing ordered.
LEMMA ClientInitInv ==
  ASSUME NEW w \in World, ClientInit(w)
  PROVE  ClientInv
<1>1. ClientTypes
  BY ClientInitTypes
<1>2. 1..Len(queue) = {} /\ 2..Len(log) = {} /\ wire = {}
  BY DEF ClientInit
<1>3. OnlySentIsOrdered /\ IdsCommitOnce
  BY <1>2 DEF OnlySentIsOrdered, IdsCommitOnce
<1>4. OkIsCommitted
  BY DEF ClientInit, OkIsCommitted, Idle
<1> QED
  BY <1>1, <1>3, <1>4 DEF ClientInv

\* All that a step of the goroutine of c can do: it goes on within its attempt,
\* towards the network only from "send", or it starts the next one.
CallEffect(c) ==
  /\ call[c].pc \in Active
  /\ \A d \in Calls \ {c} : call'[d] = call[d]
  /\ call'[c].writes = call[c].writes
  /\ \/ /\ call'[c].attempt = call[c].attempt
        /\ call'[c].pc \in {"send", "sent", "wait", "ok", "failed"}
        /\ call'[c].pc = "send" => call[c].pc = "endorse"
     \/ call'[c].attempt = call[c].attempt + 1 /\ call'[c].pc = "endorse"
  /\ call'[c].pc = "ok" =>
       \E p \in Peers : Decided(<<c, call'[c].txid>>, TRUE, height[p])
  /\ \/ wire' = wire
     \/ /\ call[c].pc = "send" /\ call'[c].pc = "sent"
        /\ call'[c].attempt = call[c].attempt
        /\ wire' = wire \cup {Tx(c)}
  /\ UNCHANGED <<queue, log, height>>

\* A failed attempt ends its call or moves it to the next attempt; it sends nothing.
LEMMA FailEffect ==
  ASSUME ClientTypes, NEW c \in Calls, call[c].pc \in Active,
         NEW n, NEW transient \in BOOLEAN,
         Fail(c, n, transient), UNCHANGED networkVars
  PROVE  CallEffect(c)
<1>1. call \in [Calls -> CallState] /\ call[c] \in CallState
  BY DEF ClientTypes, ClientTypeOK
<1>2. CASE transient /\ call[c].attempt <= MaxRetries
  <2>1. call' = [call EXCEPT ![c].pc = "endorse", ![c].attempt = @ + 1, ![c].txid = 0]
    BY <1>2 DEF Fail
  <2> QED
    BY <1>1, <2>1 DEF CallEffect, CallState, networkVars
<1>3. CASE ~(transient /\ call[c].attempt <= MaxRetries)
  <2>1. call' = [call EXCEPT ![c].pc = "failed", ![c].txid = n]
    BY <1>3 DEF Fail
  <2> QED
    BY <1>1, <2>1 DEF CallEffect, CallState, networkVars
<1> QED
  BY <1>2, <1>3

\* What a step of a call can do to the attempt, the wire and the answer.
LEMMA CallStepEffect ==
  ASSUME ClientTypes, NEW c \in Calls, CallStep(c)
  PROVE  CallEffect(c)
<1>0. call \in [Calls -> CallState] /\ call[c] \in CallState
  BY DEF ClientTypes, ClientTypeOK
<1>1. CASE Endorse(c)
  BY <1>1, <1>0 DEF Endorse, CallEffect, CallState, Active, networkVars
<1>2. CASE EndorseFails(c)
  BY <1>2, FailEffect DEF EndorseFails, Active
<1>3. CASE Broadcast(c)
  BY <1>3, <1>0 DEF Broadcast, CallEffect, CallState, Active
<1>4. CASE Ack(c)
  BY <1>4, <1>0 DEF Ack, CallEffect, CallState, Active, networkVars
<1>5. CASE BroadcastFails(c)
  BY <1>5, FailEffect DEF BroadcastFails, Active
<1>6. CASE TxStatus(c)
  <2>1. CASE \E transient \in BOOLEAN : Fail(c, call[c].attempt, transient)
    BY <1>6, <2>1, FailEffect DEF TxStatus, Active
  <2>2. ASSUME NEW p \in Peers, Decided(Tx(c), TRUE, height[p]),
               call' = [call EXCEPT ![c].pc = "ok", ![c].txid = call[c].attempt]
        PROVE  CallEffect(c)
    <3>1. call'[c].txid = call[c].attempt
      BY <1>0, <2>2 DEF CallState
    <3>2. Decided(<<c, call'[c].txid>>, TRUE, height[p])
      BY <2>2, <3>1 DEF Tx
    <3> QED
      BY <1>6, <1>0, <2>2, <3>2 DEF TxStatus, CallEffect, CallState, Active, networkVars
  <2> QED
    BY <1>6, <2>1, <2>2 DEF TxStatus
<1>7. CASE Timeout(c)
  <2>1. PICK n : call' = [call EXCEPT ![c].pc = "failed", ![c].txid = n]
    BY <1>7 DEF Timeout
  <2> QED
    BY <1>7, <1>0, <2>1 DEF Timeout, CallEffect, CallState, networkVars
<1> QED
  BY <1>1, <1>2, <1>3, <1>4, <1>5, <1>6, <1>7 DEF CallStep

\* What has been broadcast stays broadcast through a step of a goroutine.
LEMMA SentStays ==
  ASSUME ClientTypes, NEW c \in Calls, CallEffect(c), NEW t \in TxIds, Sent(t)
  PROVE  Sent(t)'
<1>1. /\ t[1] \in Calls
      /\ t[2] \in Nat
      /\ call[t[1]].attempt \in Nat
  BY ClientAssumption DEF ClientTypes, ClientTypeOK, TxIds, Attempts, CallState
<1> QED
  BY <1>1 DEF Sent, CallEffect, Active

\* A step of a call keeps the invariant.
LEMMA CallStepInv ==
  ASSUME ClientInv, NEW c \in Calls, CallStep(c)
  PROVE  ClientInv'
<1>1. ClientTypes'
  BY CallStepTypes DEF ClientInv
<1>2. CallEffect(c)
  BY CallStepEffect DEF ClientInv
<1>3. /\ queue' = queue /\ log' = log /\ height' = height
      /\ wire \subseteq TxIds /\ queue \in Seq(TxIds)
      /\ \A t \in TxIds : Sent(t) => Sent(t)'
  BY <1>2, SentStays DEF CallEffect, ClientInv, ClientTypes, ClientTypeOK
<1>4. OkIsCommitted'
  <2>1. ASSUME NEW d \in Calls, call'[d].pc = "ok"
        PROVE  \E p \in Peers : Decided(<<d, call'[d].txid>>, TRUE, height[p])
    BY <1>2, <2>1 DEF CallEffect, ClientInv, OkIsCommitted
  <2> QED
    BY <1>3, <2>1 DEF OkIsCommitted, Decided
<1>5. CASE wire' = wire
  <2>1. OnlySentIsOrdered'
    BY <1>3, <1>5 DEF ClientInv, OnlySentIsOrdered
  <2>2. IdsCommitOnce'
    BY <1>3, <1>5 DEF ClientInv, IdsCommitOnce
  <2> QED
    BY <1>1, <1>4, <2>1, <2>2 DEF ClientInv
<1>6. CASE /\ call[c].pc = "send" /\ call'[c].pc = "sent"
           /\ call'[c].attempt = call[c].attempt
           /\ wire' = wire \cup {Tx(c)}
  <2>1. PICK t \in TxIds : t = Tx(c)
    BY <1>6 DEF Tx, TxIds, ClientInv, ClientTypes, Started
  <2>2. t[1] = c /\ t[2] = call[c].attempt /\ t[2] \in Nat
    BY <2>1, ClientAssumption DEF Tx, TxIds, Attempts
  <2>3. ~Sent(t) /\ Sent(t)'
    BY <1>6, <2>2 DEF Sent
  <2>4. OnlySentIsOrdered'
    BY <1>3, <1>6, <2>1, <2>3 DEF ClientInv, OnlySentIsOrdered
  <2>5. /\ \A i \in 1..Len(queue) : queue[i] # t
        /\ \A i \in 2..Len(log) : log[i].tx # t
    BY <2>3 DEF ClientInv, OnlySentIsOrdered
  <2>6. IdsCommitOnce'
    BY <1>3, <1>6, <2>1, <2>5 DEF ClientInv, IdsCommitOnce
  <2> QED
    BY <1>1, <1>4, <2>4, <2>6 DEF ClientInv
<1> QED
  BY <1>2, <1>5, <1>6 DEF CallEffect

\* A new call keeps the invariant: it had sent nothing before.
LEMMA SubmitInv ==
  ASSUME ClientInv, NEW c \in Calls, NEW w \in WriteSet, Submit(c, w)
  PROVE  ClientInv'
<1>1. ClientTypes'
  BY SubmitTypes DEF ClientInv
<1>2. /\ call[c].pc = "none" /\ call[c].attempt = 0
      /\ call'[c].pc = "endorse"
      /\ \A d \in Calls \ {c} : call'[d] = call[d]
      /\ wire' = wire /\ queue' = queue /\ log' = log /\ height' = height
  BY DEF Submit, ClientInv, ClientTypes, ClientTypeOK, Started, networkVars
<1>3. ASSUME NEW t \in TxIds, Sent(t)
      PROVE  Sent(t)'
  <2>1. t[1] \in Calls /\ t[2] \in Nat /\ t[2] > 0
    BY ClientAssumption DEF TxIds, Attempts
  <2>2. t[1] # c
    BY <1>2, <1>3, <2>1 DEF Sent
  <2> QED
    BY <1>2, <1>3, <2>1, <2>2 DEF Sent
<1>4. wire \subseteq TxIds /\ queue \in Seq(TxIds)
  BY DEF ClientInv, ClientTypes, ClientTypeOK
<1>5. OnlySentIsOrdered'
  BY <1>2, <1>3, <1>4 DEF ClientInv, OnlySentIsOrdered
<1>6. IdsCommitOnce'
  BY <1>2 DEF ClientInv, IdsCommitOnce
<1>7. OkIsCommitted'
  <2> SUFFICES ASSUME NEW d \in Calls, call'[d].pc = "ok"
               PROVE  \E p \in Peers : Decided(<<d, call[d].txid>>, TRUE, height[p])'
    BY DEF OkIsCommitted
  <2>1. d # c /\ call'[d] = call[d]
    BY <1>2
  <2>2. PICK p \in Peers : Decided(<<d, call[d].txid>>, TRUE, height[p])
    BY <2>1 DEF ClientInv, OkIsCommitted
  <2> QED
    BY <1>2, <2>1, <2>2 DEF Decided
<1> QED
  BY <1>1, <1>5, <1>6, <1>7 DEF ClientInv

\* The death of the process keeps the invariant: what was sent stays sent.
LEMMA AbandonInv ==
  ASSUME ClientInv, NEW C, Abandon(C), UNCHANGED networkVars
  PROVE  ClientInv'
<1>1. ClientTypes'
  BY AbandonTypes DEF ClientInv
<1>2. /\ wire' = wire /\ queue' = queue /\ log' = log /\ height' = height
      /\ wire \subseteq TxIds /\ queue \in Seq(TxIds)
  BY DEF networkVars, ClientInv, ClientTypes, ClientTypeOK
<1>3. \A d \in Calls : /\ call'[d].attempt = call[d].attempt
                        /\ call'[d].txid = call[d].txid
                        /\ call'[d].pc \in {call[d].pc, "dead"}
  BY DEF Abandon, ClientInv, ClientTypes, ClientTypeOK, CallState
<1>4. ASSUME NEW t \in TxIds, Sent(t)
      PROVE  Sent(t)'
  <2>1. PICK d \in Calls : d = t[1]
    BY DEF TxIds
  <2>2. call'[d].attempt = call[d].attempt
          /\ call'[d].pc \in {call[d].pc, "dead"}
    BY <1>3
  <2> QED
    BY <1>4, <2>1, <2>2 DEF Sent
<1>5. OnlySentIsOrdered'
  BY <1>2, <1>4 DEF ClientInv, OnlySentIsOrdered
<1>6. IdsCommitOnce'
  BY <1>2 DEF ClientInv, IdsCommitOnce
<1>7. OkIsCommitted'
  BY <1>2, <1>3 DEF ClientInv, OkIsCommitted, Decided
<1> QED
  BY <1>1, <1>5, <1>6, <1>7 DEF ClientInv

\* The network moves ids that have been broadcast, each to one new place.
LEMMA NetworkInv ==
  ASSUME ClientInv, Network
  PROVE  ClientInv'
<1>0. ClientTypes'
  BY NetworkTypes DEF ClientInv
<1>1. ASSUME NEW t \in wire, Accept(t)
      PROVE  ClientInv'
  <2>1. /\ wire' = wire \ {t} /\ queue' = Append(queue, t)
        /\ call' = call /\ log' = log /\ height' = height
        /\ queue \in Seq(TxIds) /\ t \in TxIds
    BY <1>1 DEF Accept, ClientInv, ClientTypes, ClientTypeOK
  <2>2. /\ Len(queue') = Len(queue) + 1 /\ Len(queue) \in Nat
        /\ \A i \in 1..Len(queue) : queue'[i] = queue[i]
        /\ queue'[Len(queue) + 1] = t
    BY <2>1
  <2>3. OnlySentIsOrdered'
    <3>1. \A i \in 1..Len(queue') : i \in 1..Len(queue) \/ i = Len(queue) + 1
      BY <2>2
    <3>2. \A i \in 1..Len(queue') : Sent(queue'[i])
      BY <2>1, <2>2, <3>1 DEF ClientInv, OnlySentIsOrdered
    <3> QED
      BY <2>1, <3>2 DEF ClientInv, OnlySentIsOrdered, Sent
  <2>4. IdsCommitOnce'
    BY <2>1, <2>2 DEF ClientInv, IdsCommitOnce
  <2>5. OkIsCommitted'
    BY <2>1 DEF ClientInv, OkIsCommitted, Decided
  <2> QED
    BY <1>0, <2>3, <2>4, <2>5 DEF ClientInv
<1>2. CASE Commit
  <2>1. PICK b : log' = Append(log, b) /\ b.tx = Head(queue)
    BY <1>2 DEF Commit
  <2>2. /\ queue \in Seq(TxIds) /\ queue # <<>> /\ queue' = Tail(queue)
        /\ wire' = wire /\ call' = call /\ height' = height
        /\ log \in Seq(Entry) /\ Len(log) >= 1 /\ height \in [Peers -> 1..Len(log)]
    BY <1>2 DEF Commit, ClientInv, ClientTypes, ClientTypeOK
  <2>3. /\ Len(queue) \in Nat /\ Len(queue) >= 1 /\ Len(queue') = Len(queue) - 1
        /\ \A i \in 1..Len(queue') : queue'[i] = queue[i + 1]
        /\ Head(queue) = queue[1] /\ queue[1] \in TxIds
    BY <2>2
  <2>4. /\ Len(log') = Len(log) + 1 /\ Len(log) \in Nat
        /\ \A i \in 1..Len(log) : log'[i] = log[i]
        /\ log'[Len(log) + 1].tx = queue[1]
    BY <2>1, <2>2, <2>3
  <2>5. OnlySentIsOrdered'
    <3>1. 1 \in 1..Len(queue)
      BY <2>3
    <3>2. \A i \in 1..Len(queue') : i + 1 \in 1..Len(queue)
      BY <2>3
    <3>3. \A i \in 2..Len(log') : i \in 2..Len(log) \/ i = Len(log) + 1
      BY <2>4
    <3>4. \A i \in 1..Len(queue') : Sent(queue'[i])
      BY <2>3, <3>2 DEF ClientInv, OnlySentIsOrdered
    <3>5. \A i \in 2..Len(log') : log'[i].tx \in TxIds /\ Sent(log'[i].tx)
      BY <2>3, <2>4, <3>1, <3>3 DEF ClientInv, OnlySentIsOrdered
    <3> QED
      BY <2>2, <3>4, <3>5 DEF ClientInv, OnlySentIsOrdered, Sent
  <2>6. IdsCommitOnce'
    <3>1. /\ 1 \in 1..Len(queue)
          /\ \A i \in 1..Len(queue') : i + 1 \in 1..Len(queue) /\ queue'[i] = queue[i + 1]
          /\ \A i \in 2..Len(log') :
               \/ i \in 2..Len(log) /\ log'[i].tx = log[i].tx
               \/ i = Len(log) + 1 /\ log'[i].tx = queue[1]
      <4>1. /\ 1 \in 1..Len(queue)
            /\ \A i \in 1..Len(queue') : i + 1 \in 1..Len(queue)
        BY <2>3
      <4>2. ASSUME NEW i \in 2..Len(log')
            PROVE  \/ i \in 2..Len(log) /\ i \in 1..Len(log)
                   \/ i = Len(log) + 1
        BY <2>4
      <4> QED
        BY <2>3, <2>4, <4>1, <4>2
    <3>2. \A i, j \in 1..Len(queue') : queue'[i] = queue'[j] => i = j
      BY <2>3, <3>1 DEF ClientInv, IdsCommitOnce
    <3>3. \A i, j \in 2..Len(log') : log'[i].tx = log'[j].tx => i = j
      BY <3>1 DEF ClientInv, IdsCommitOnce
    <3>4. \A i \in 1..Len(queue') :
            queue'[i] \notin wire /\ \A j \in 2..Len(log') : log'[j].tx # queue'[i]
      <4> SUFFICES ASSUME NEW i \in 1..Len(queue')
                   PROVE  queue'[i] \notin wire
                            /\ \A j \in 2..Len(log') : log'[j].tx # queue'[i]
        OBVIOUS
      <4>1. i + 1 \in 1..Len(queue) /\ i + 1 # 1 /\ queue'[i] = queue[i + 1]
        BY <2>3, <3>1
      <4>2. queue[i + 1] # queue[1]
        BY <3>1, <4>1 DEF ClientInv, IdsCommitOnce
      <4> QED
        BY <3>1, <4>1, <4>2 DEF ClientInv, IdsCommitOnce
    <3>5. \A j \in 2..Len(log') : log'[j].tx \notin wire
      BY <3>1 DEF ClientInv, IdsCommitOnce
    <3> QED
      BY <2>2, <3>2, <3>3, <3>4, <3>5 DEF IdsCommitOnce
  <2>7. OkIsCommitted'
    <3>1. ASSUME NEW p \in Peers, NEW t, Decided(t, TRUE, height[p])
          PROVE  Decided(t, TRUE, height[p])'
      <4>1. height[p] \in 1..Len(log)
        BY <2>2
      <4> QED
        BY <2>2, <2>4, <3>1, <4>1 DEF Decided
    <3> QED
      BY <2>2, <3>1 DEF ClientInv, OkIsCommitted
  <2> QED
    BY <1>0, <2>5, <2>6, <2>7 DEF ClientInv
<1>3. ASSUME NEW p \in Peers, CatchUp(p)
      PROVE  ClientInv'
  <2>1. /\ wire' = wire /\ queue' = queue /\ call' = call /\ log' = log
        /\ height \in [Peers -> 1..Len(log)] /\ Len(log) \in Nat
        /\ \A q \in Peers : height'[q] \in Nat /\ height'[q] >= height[q]
    BY <1>3 DEF CatchUp, ClientInv, ClientTypes, ClientTypeOK
  <2>2. OnlySentIsOrdered' /\ IdsCommitOnce'
    BY <2>1 DEF ClientInv, OnlySentIsOrdered, IdsCommitOnce, Sent
  <2>3. OkIsCommitted'
    <3>1. ASSUME NEW q \in Peers, NEW t, Decided(t, TRUE, height[q])
          PROVE  Decided(t, TRUE, height[q])'
      <4>1. PICK i \in 2..height[q] : log[i].tx = t /\ log[i].valid = TRUE
        BY <3>1 DEF Decided
      <4>2. i \in 2..height'[q]
        BY <2>1
      <4> QED
        BY <2>1, <4>1, <4>2 DEF Decided
    <3> QED
      BY <2>1, <3>1 DEF ClientInv, OkIsCommitted
  <2> QED
    BY <1>0, <2>2, <2>3 DEF ClientInv
<1> QED
  BY <1>1, <1>2, <1>3 DEF Network

\* The invariant is about the client's variables alone.
LEMMA ClientStutterInv ==
  ASSUME ClientInv, UNCHANGED clientVars
  PROVE  ClientInv'
BY DEF clientVars, networkVars, ClientInv, ClientTypes, ClientTypeOK, Started,
       OnlySentIsOrdered, Sent, IdsCommitOnce, OkIsCommitted, Decided

\* The client on its own, whose calls may begin at any time, keeps the invariant.
LEMMA ClientInvariant == ClientSpec => []ClientInv
<1>1. ClientInit([k \in Keys |-> Missing]) => ClientInv
  <2>1. [k \in Keys |-> Missing] \in World
    BY DEF World
  <2> QED
    BY <2>1, ClientInitInv
<1>2. ClientInv /\ [ClientNext]_clientVars => ClientInv'
  <2> SUFFICES ASSUME ClientInv, [ClientNext]_clientVars
               PROVE  ClientInv'
    OBVIOUS
  <2>1. ASSUME NEW c \in Calls, NEW w \in WriteSet, Submit(c, w)
        PROVE  ClientInv'
    BY <2>1, SubmitInv
  <2>2. ASSUME NEW c \in Calls, CallStep(c)
        PROVE  ClientInv'
    BY <2>2, CallStepInv
  <2>3. CASE Network
    BY <2>3, NetworkInv
  <2>4. CASE Crash
    BY <2>4, AbandonInv DEF Crash
  <2>5. CASE UNCHANGED clientVars
    BY <2>5, ClientStutterInv
  <2> QED
    BY <2>1, <2>2, <2>3, <2>4, <2>5 DEF ClientNext
<1> QED
  BY <1>1, <1>2, PTL DEF ClientSpec

\* The whole: the client on its own keeps its types, never orders or commits an
\* id twice or ahead of its call, and reports success only for what a peer has
\* committed as valid, for any number of calls, peers, keys and retries.
THEOREM ClientCorrect ==
  ClientSpec => [](ClientTypeOK /\ OnlySentIsOrdered /\ IdsCommitOnce /\ OkIsCommitted)
<1>1. ClientInv => ClientTypeOK /\ OnlySentIsOrdered /\ IdsCommitOnce /\ OkIsCommitted
  BY DEF ClientInv, ClientTypes
<1> QED
  BY <1>1, ClientInvariant, PTL

\* Every variable keeps its type; in particular no call makes more attempts than
\* its retry options permit (retry.go:74-87).
THEOREM ClientTyped == ClientSpec => []ClientTypeOK
BY ClientCorrect, PTL

\* Whatever is on a stream, at the orderer or on the chain, its call has sent: late
\* envelopes are never of an attempt that is still to come (txnhandler.go:167-195).
THEOREM OnlyTheSentIsOrdered == ClientSpec => []OnlySentIsOrdered
BY ClientCorrect, PTL

\* However often a call is repeated, one transaction id is on the chain once.
THEOREM NoIdTwice == ClientSpec => []IdsCommitOnce
BY ClientCorrect, PTL

(***************************************************************************)
(* The work of a call.                                                     *)
(***************************************************************************)

\* A call under way has a step left, and one that has ended has none.
LEMMA StepsLeftRange ==
  ASSUME ClientTypes, NEW c \in Calls
  PROVE  /\ StepsLeft(c) \in Nat
         /\ call[c].pc \in Active => StepsLeft(c) >= 1
<1>1. /\ call[c].pc \in Active => call[c].attempt \in Attempts
      /\ call[c] \in CallState
  BY DEF ClientTypes, ClientTypeOK, Started, Active
<1> QED
  BY <1>1, ClientAssumption DEF StepsLeft, Attempts, Active

\* A failed attempt leaves only the steps of the attempts after it.
LEMMA FailLeavesLess ==
  ASSUME ClientTypes, NEW c \in Calls, call[c].pc \in Active,
         NEW n, NEW transient \in BOOLEAN, Fail(c, n, transient)
  PROVE  StepsLeft(c)' \in 0..(StepsLeft(c) - 1)
<1>1. /\ call \in [Calls -> CallState] /\ call[c] \in CallState
      /\ call[c].attempt \in Attempts
  BY DEF ClientTypes, ClientTypeOK, Started, Active
<1>2. StepsLeft(c) \in Nat /\ StepsLeft(c) >= 1
  BY StepsLeftRange
<1>3. CASE transient /\ call[c].attempt <= MaxRetries
  <2>1. call' = [call EXCEPT ![c].pc = "endorse", ![c].attempt = @ + 1, ![c].txid = 0]
    BY <1>3 DEF Fail
  <2>2. call'[c].pc = "endorse" /\ call'[c].attempt = call[c].attempt + 1
    BY <1>1, <2>1 DEF CallState
  <2>3. StepsLeft(c)' = 4 * (MaxRetries + 1 - (call[c].attempt + 1)) + 4
    BY <2>2 DEF StepsLeft, Active
  <2>4. StepsLeft(c) >= 4 * (MaxRetries + 1 - call[c].attempt) + 1
    BY <1>1, ClientAssumption DEF StepsLeft, Active, Attempts
  <2> QED
    BY <1>1, <1>2, <1>3, <2>3, <2>4, ClientAssumption DEF Attempts
<1>4. CASE ~(transient /\ call[c].attempt <= MaxRetries)
  <2>1. call' = [call EXCEPT ![c].pc = "failed", ![c].txid = n]
    BY <1>4 DEF Fail
  <2>2. StepsLeft(c)' = 0
    BY <1>1, <2>1 DEF CallState, StepsLeft, Active
  <2> QED
    BY <1>2, <2>2
<1> QED
  BY <1>3, <1>4

\* Every step of a call leaves it less to do.
LEMMA CallStepLeavesLess ==
  ASSUME ClientTypes, NEW c \in Calls, CallStep(c)
  PROVE  StepsLeft(c)' \in 0..(StepsLeft(c) - 1)
<1>1. call \in [Calls -> CallState] /\ call[c] \in CallState
  BY DEF ClientTypes, ClientTypeOK
<1>2. StepsLeft(c) \in Nat /\ (call[c].pc \in Active => StepsLeft(c) >= 1)
  BY StepsLeftRange
<1>3. CASE EndorseFails(c) \/ BroadcastFails(c)
  <2>1. PICK n \in {0, call[c].attempt}, transient \in BOOLEAN :
          Fail(c, n, transient) /\ call[c].pc \in Active
    BY <1>3 DEF EndorseFails, BroadcastFails, Active
  <2> QED
    BY <2>1, FailLeavesLess
<1>4. ASSUME call[c].pc \in Active, call'[c].pc \in Returned
      PROVE  StepsLeft(c)' \in 0..(StepsLeft(c) - 1)
  <2>1. StepsLeft(c)' = 0
    BY <1>4 DEF StepsLeft, Active, Returned
  <2> QED
    BY <1>2, <1>4, <2>1
<1>5. CASE TxStatus(c)
  <2>1. CASE \E transient \in BOOLEAN : Fail(c, call[c].attempt, transient)
    BY <1>5, <2>1, FailLeavesLess DEF TxStatus, Active
  <2>2. CASE call' = [call EXCEPT ![c].pc = "ok", ![c].txid = call[c].attempt]
    BY <1>1, <1>4, <1>5, <2>2 DEF TxStatus, Active, Returned, CallState
  <2> QED
    BY <1>5, <2>1, <2>2 DEF TxStatus
<1>6. CASE Timeout(c)
  BY <1>1, <1>4, <1>6 DEF Timeout, Returned, CallState
<1>7. CASE Endorse(c) \/ Broadcast(c) \/ Ack(c)
  <2>1. /\ \/ call[c].pc = "endorse" /\ call'[c].pc = "send"
           \/ call[c].pc = "send" /\ call'[c].pc = "sent"
           \/ call[c].pc = "sent" /\ call'[c].pc = "wait"
        /\ call'[c].attempt = call[c].attempt
    BY <1>1, <1>7 DEF Endorse, Broadcast, Ack, CallState
  <2>2. call[c].attempt \in Attempts
    BY <2>1 DEF ClientTypes, Started
  <2> QED
    BY <2>1, <2>2, ClientAssumption DEF StepsLeft, Active, Attempts
<1> QED
  BY <1>3, <1>5, <1>6, <1>7 DEF CallStep

\* Only its own goroutine or the death of its process changes a call under way.
LEMMA OthersLeaveCall ==
  ASSUME ClientTypes, [ClientNext]_clientVars, NEW c \in Calls, call[c].pc \in Active,
         call'[c] # call[c], ~CallStep(c)
  PROVE  call'[c].pc = "dead"
<1>1. call \in [Calls -> CallState] /\ call[c] \in CallState
  BY DEF ClientTypes, ClientTypeOK
<1>2. ASSUME NEW d \in Calls, NEW w, Submit(d, w)
      PROVE  FALSE
  BY <1>1, <1>2 DEF Submit, Active
<1>3. ASSUME NEW d \in Calls, CallStep(d)
      PROVE  FALSE
  <2>1. CallEffect(d)
    BY <1>3, CallStepEffect
  <2> QED
    BY <1>3, <2>1 DEF CallEffect
<1>4. CASE Network
  BY <1>4 DEF Network, Accept, Commit, CatchUp
<1>5. CASE Crash
  BY <1>1, <1>5 DEF Crash, Abandon, CallState
<1>6. CASE UNCHANGED clientVars
  BY <1>6 DEF clientVars
<1> QED
  BY <1>2, <1>3, <1>4, <1>5, <1>6 DEF ClientNext

\* A call takes at most four steps for each of its permitted attempts, whatever the
\* network does with them: the safety half of CallsReturn, for any retry limit.
THEOREM CallsDoBoundedWork == ClientSpec => CallsAreBounded
<1>1. ClientTypes /\ [ClientNext]_clientVars =>
        \A c \in Calls : call[c].pc \in Active /\ call'[c] # call[c] =>
          StepsLeft(c)' \in 0..(StepsLeft(c) - 1)
  <2> SUFFICES ASSUME ClientTypes, [ClientNext]_clientVars, NEW c \in Calls,
                      call[c].pc \in Active, call'[c] # call[c]
               PROVE  StepsLeft(c)' \in 0..(StepsLeft(c) - 1)
    OBVIOUS
  <2>1. CASE CallStep(c)
    BY <2>1, CallStepLeavesLess
  <2>2. CASE ~CallStep(c)
    <3>1. call'[c].pc = "dead"
      BY <2>2, OthersLeaveCall
    <3>2. StepsLeft(c)' = 0
      BY <3>1 DEF StepsLeft, Active
    <3> QED
      BY <3>2, StepsLeftRange
  <2> QED
    BY <2>1, <2>2
<1>2. ClientSpec => []ClientTypes
  <2>1. ClientSpec => []ClientInv
    BY ClientInvariant
  <2>2. ClientInv => ClientTypes
    BY DEF ClientInv
  <2> QED
    BY <2>1, <2>2, PTL
<1> QED
  BY <1>1, <1>2, PTL DEF ClientSpec, CallsAreBounded
=============================================================================
