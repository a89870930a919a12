--------------------------- MODULE ChannelClient ---------------------------
(***************************************************************************)
(* channel.Client.Execute of the vendored fabric-sdk-go, as the gateway    *)
(* calls it for every write (service/base.go SetKeyData) and for the reset *)
(* of a restart (service/prepare.go resetCC), on top of the part of the    *)
(* Fabric network those calls meet.                                        *)
(*                                                                         *)
(* A call is one goroutine pair: InvokeHandler waits for either the end of *)
(* the retrying invoker or the deadline of the request.  The invoker runs  *)
(* the handler chain select-and-endorse, validate, commit; every attempt   *)
(* has a transaction id of its own.  Nothing in the SDK can take an        *)
(* envelope back once the orderer has accepted it, so an attempt that was  *)
(* given up may still be committed, after a later attempt or after the     *)
(* call has returned.                                                      *)
(*                                                                         *)
(* The orderer and the peers are not in the repository.  They are          *)
(* modelled by what the SDK relies on: one orderer (the fixtures run a     *)
(* solo one) takes envelopes off its streams in any order, late or never,  *)
(* and puts them on the chain in the order it took them; validation marks  *)
(* each valid or invalid; a peer holds a prefix of the chain.              *)
(***************************************************************************)
EXTENDS Integers, Sequences

CONSTANTS
  Calls,        \* identities of Execute calls; each is used once
  Peers,        \* the channel's peers
  Keys,         \* ledger keys the model follows
  Values,       \* values a transaction can write
  Missing,      \* what a peer holds under a key nobody has written
  MaxRetries    \* retry.Opts.Attempts of retry.DefaultChannelOpts (3)

ASSUME ClientAssumption ==
  /\ MaxRetries \in Nat
  /\ Missing \notin Values

VARIABLES
  call,      \* call[c]: the goroutine that runs Execute call c
  wire,      \* envelopes on a stream to the orderer
  queue,     \* envelopes the orderer has accepted and not yet put in a block
  log,       \* the chain, one transaction per block, with the state after it
  height     \* height[p]: the prefix of the chain peer p has committed

networkVars == <<wire, queue, log, height>>
clientVars  == <<call, networkVars>>

(***************************************************************************)
(* A transaction id is the call and the number of the attempt; number 0 in *)
(* a response is the empty TransactionID.                                  *)
(***************************************************************************)
Attempts == 1..(MaxRetries + 1)
TxIds    == Calls \X Attempts
World    == [Keys -> Values \cup {Missing}]
WriteSet == UNION {[K -> Values] : K \in SUBSET Keys}

Entry    == [tx : TxIds \cup {<<>>}, valid : BOOLEAN, world : World]

Active   == {"endorse", "send", "sent", "wait"}
Returned == {"ok", "failed"}

CallState ==
  [pc : {"none", "dead"} \cup Active \cup Returned,
   attempt : 0..(MaxRetries + 1),
   txid : 0..(MaxRetries + 1),
   writes : WriteSet]

NoWrites == [k \in {} |-> Missing]
Idle     == [pc |-> "none", attempt |-> 0, txid |-> 0, writes |-> NoWrites]

Overwrite(w, writes) ==
  [k \in Keys |-> IF k \in DOMAIN writes THEN writes[k] ELSE w[k]]

Top      == log[Len(log)].world
At(p)    == log[height[p]].world
Tx(c)    == <<c, call[c].attempt>>

\* The block of transaction t, validated as `valid`, is on the chain up to h.
Decided(t, valid, h) == \E i \in 2..h : log[i].tx = t /\ log[i].valid = valid

Genesis(w) == [tx |-> <<>>, valid |-> TRUE, world |-> w]

ClientInit(w) ==
  /\ call = [c \in Calls |-> Idle]
  /\ wire = {}
  /\ queue = <<>>
  /\ log = <<Genesis(w)>>
  /\ height = [p \in Peers |-> 1]

(***************************************************************************)
(* The goroutine of a call.                                                *)
(***************************************************************************)

\* InvokeHandler starts the invoker on a fresh request context.
Submit(c, writes) ==
  /\ call[c].pc = "none"
  /\ call' = [call EXCEPT ![c] =
       [pc |-> "endorse", attempt |-> 1, txid |-> 0, writes |-> writes]]
  /\ UNCHANGED networkVars

\* Mutants of Fail: one retry too many, and a retry under the old id.
FailOffByOne(c, n, transient) ==
  IF transient /\ call[c].attempt <= MaxRetries + 1
    THEN call' = [call EXCEPT
           ![c].pc = "endorse", ![c].attempt = @ + 1, ![c].txid = 0]
    ELSE call' = [call EXCEPT ![c].pc = "failed", ![c].txid = n]

FailKeepsId(c, n, transient) ==
  IF transient /\ call[c].attempt <= MaxRetries
    THEN call' = [call EXCEPT ![c].pc = "endorse", ![c].txid = 0]
    ELSE call' = [call EXCEPT ![c].pc = "failed", ![c].txid = n]

\* The handler chain ended with an error while the response carried
\* transaction id n.  A transient error is retried, with the response reset
\* and a new transaction id, until the handler has used up its attempts.
Fail(c, n, transient) ==
  IF transient /\ call[c].attempt <= MaxRetries
    THEN call' = [call EXCEPT
           ![c].pc = "endorse", ![c].attempt = @ + 1, ![c].txid = 0]
    ELSE call' = [call EXCEPT ![c].pc = "failed", ![c].txid = n]

\* Endorsers are selected, the proposal is sent and the endorsements agree.
Endorse(c) ==
  /\ call[c].pc = "endorse"
  /\ call' = [call EXCEPT ![c].pc = "send"]
  /\ UNCHANGED networkVars

\* No endorsers (no id in the response yet), or a failed endorsement.
EndorseFails(c) ==
  /\ call[c].pc = "endorse"
  /\ \E n \in {0, call[c].attempt}, transient \in BOOLEAN : Fail(c, n, transient)
  /\ UNCHANGED networkVars

\* The envelope goes out on the broadcast stream.
Broadcast(c) ==
  /\ call[c].pc = "send"
  /\ call' = [call EXCEPT ![c].pc = "sent"]
  /\ wire' = wire \cup {Tx(c)}
  /\ UNCHANGED <<queue, log, height>>

\* Mutant of Ack: success is reported without waiting for the commit.
AckIsEnough(c) ==
  /\ call[c].pc = "sent"
  /\ Tx(c) \notin wire
  /\ call' = [call EXCEPT ![c].pc = "ok", ![c].txid = call[c].attempt]
  /\ UNCHANGED networkVars

\* The orderer's success reply arrives: it has accepted the envelope.
Ack(c) ==
  /\ call[c].pc = "sent"
  /\ Tx(c) \notin wire
  /\ call' = [call EXCEPT ![c].pc = "wait"]
  /\ UNCHANGED networkVars

\* The broadcast fails: no connection ("send"), or an error or a broken stream
\* after the envelope has gone out ("sent"), which says nothing of its fate.
BroadcastFails(c) ==
  /\ call[c].pc \in {"send", "sent"}
  /\ \E transient \in BOOLEAN : Fail(c, call[c].attempt, transient)
  /\ UNCHANGED networkVars

\* Mutant of TxStatus: the validation code is not looked at.
TxStatusAnyCode(c) ==
  /\ call[c].pc = "wait"
  /\ \E p \in Peers, valid \in BOOLEAN : Decided(Tx(c), valid, height[p])
  /\ call' = [call EXCEPT ![c].pc = "ok", ![c].txid = call[c].attempt]
  /\ UNCHANGED networkVars

\* The transaction's status arrives from the peer the event client listens to.
TxStatus(c) ==
  /\ call[c].pc = "wait"
  /\ \E p \in Peers :
       \/ /\ Decided(Tx(c), TRUE, height[p])
          /\ call' = [call EXCEPT ![c].pc = "ok", ![c].txid = call[c].attempt]
       \/ /\ Decided(Tx(c), FALSE, height[p])
          /\ \E transient \in BOOLEAN : Fail(c, call[c].attempt, transient)
  /\ UNCHANGED networkVars

\* Mutant of Timeout: the wait for the block event has no deadline.
TimeoutBeforeWait(c) ==
  /\ call[c].pc \in Active \ {"wait"}
  /\ call' = [call EXCEPT ![c].pc = "failed", ![c].txid = 0]
  /\ UNCHANGED networkVars

\* The request's deadline.  InvokeHandler then returns an empty response;
\* when the commit handler notices the deadline first, its error comes with
\* the response, which names the transaction.
Timeout(c) ==
  /\ call[c].pc \in Active
  /\ \E n \in {0} \cup (IF call[c].pc = "wait" THEN {call[c].attempt} ELSE {}) :
       call' = [call EXCEPT ![c].pc = "failed", ![c].txid = n]
  /\ UNCHANGED networkVars

\* The process dies with these calls in flight.
Abandon(C) ==
  call' = [c \in Calls |->
             IF c \in C /\ call[c].pc \in Active
               THEN [call[c] EXCEPT !.pc = "dead"] ELSE call[c]]

(***************************************************************************)
(* The network.                                                            *)
(***************************************************************************)

\* The orderer takes an envelope off a stream.
Accept(t) ==
  /\ t \in wire
  /\ wire' = wire \ {t}
  /\ queue' = Append(queue, t)
  /\ UNCHANGED <<call, log, height>>

\* The oldest accepted transaction is validated and committed, in its own block.
Commit ==
  /\ queue # <<>>
  /\ \E valid \in BOOLEAN :
       log' = Append(log,
         [tx |-> Head(queue), valid |-> valid,
          world |-> IF valid THEN Overwrite(Top, call[Head(queue)[1]].writes)
                             ELSE Top])
  /\ queue' = Tail(queue)
  /\ UNCHANGED <<call, wire, height>>

\* A peer commits the next block.
CatchUp(p) ==
  /\ height[p] < Len(log)
  /\ height' = [height EXCEPT ![p] = @ + 1]
  /\ UNCHANGED <<call, wire, queue, log>>

CallStep(c) ==
  \/ Endorse(c) \/ EndorseFails(c) \/ Broadcast(c) \/ Ack(c)
  \/ BroadcastFails(c) \/ TxStatus(c) \/ Timeout(c)

Network ==
  \/ \E t \in wire : Accept(t)
  \/ Commit
  \/ \E p \in Peers : CatchUp(p)

\* The client on its own: any call may be made with any non-empty write set,
\* and the process that makes the calls may die.
Crash == Abandon(Calls) /\ UNCHANGED networkVars

ClientNext ==
  \/ \E c \in Calls, w \in WriteSet \ {NoWrites} : Submit(c, w)
  \/ \E c \in Calls : CallStep(c)
  \/ Network
  \/ Crash

ClientSpec ==
  ClientInit([k \in Keys |-> Missing]) /\ [][ClientNext]_clientVars

(***************************************************************************)
(* Every wait of a call is bounded by the request's deadline, so each      *)
(* goroutine keeps moving.  Nothing is assumed of the network.             *)
(***************************************************************************)
ClientFairSpec == ClientSpec /\ \A c \in Calls : WF_clientVars(CallStep(c))

-----------------------------------------------------------------------------
\* Every variable keeps its type (the goroutine, the chain and the peers'
\* prefixes of it).
ClientTypeOK ==
  /\ call \in [Calls -> CallState]
  /\ wire \subseteq TxIds
  /\ queue \in Seq(TxIds)
  /\ log \in Seq(Entry)
  /\ Len(log) >= 1
  /\ height \in [Peers -> 1..Len(log)]

\* Execute reports success only for a transaction that a peer has committed
\* as valid: CommitTxHandler returns without error on no other path.
OkIsCommitted ==
  \A c \in Calls : call[c].pc = "ok" =>
    \E p \in Peers : Decided(<<c, call[c].txid>>, TRUE, height[p])

\* Retries never run ahead of the network: an id on the wire, at the orderer or
\* on the chain is one its call has broadcast; ids still to come are unused.
Sent(t) ==
  \/ t[2] < call[t[1]].attempt
  \/ t[2] = call[t[1]].attempt /\ call[t[1]].pc \notin {"none", "endorse", "send"}

OnlySentIsOrdered ==
  /\ \A t \in wire : Sent(t)
  /\ \A i \in 1..Len(queue) : Sent(queue[i])
  /\ \A i \in 2..Len(log) : log[i].tx \in TxIds /\ Sent(log[i].tx)

\* Whatever is retried, one transaction id takes effect at most once: an id is
\* in one place only, on the wire, once in the orderer's queue or in one block.
IdsCommitOnce ==
  /\ \A i, j \in 1..Len(queue) : queue[i] = queue[j] => i = j
  /\ \A i, j \in 2..Len(log) : log[i].tx = log[j].tx => i = j
  /\ \A i \in 1..Len(queue) :
       queue[i] \notin wire /\ \A j \in 2..Len(log) : log[j].tx # queue[i]
  /\ \A j \in 2..Len(log) : log[j].tx \notin wire

\* base.go:527 calls Execute a "synchronous transaction": what a call has not
\* done by the time it returns, it will not do later.
SynchronousTransaction ==
  [][\A c \in Calls : call[c].pc \in Returned /\ Len(log') > Len(log)
         => ~(log'[Len(log')].valid /\ log'[Len(log')].tx[1] = c)]_clientVars

\* The steps a call has left at most: those of its attempt and of its retries.
StepsLeft(c) ==
  LET pc == call[c].pc IN
  IF pc \in Active
    THEN 4 * (MaxRetries + 1 - call[c].attempt)
           + (CASE pc = "endorse" -> 4 [] pc = "send" -> 3 [] pc = "sent" -> 2
                [] pc = "wait" -> 1)
    ELSE 0

\* A call does bounded work: each step it takes, a retry after a failed broadcast
\* or a block that marks it invalid included, leaves it fewer steps, and the last
\* step leaves none (retry.go:74-87, invoker.go:53-92).
CallsAreBounded ==
  [][\A c \in Calls : call[c].pc \in Active /\ call'[c] # call[c] =>
       StepsLeft(c)' \in 0..(StepsLeft(c) - 1)]_clientVars

\* Every Execute call returns, whatever the network does, unless its process dies.
CallsReturn ==
  \A c \in Calls : call[c].pc \in Active ~> call[c].pc \in Returned \cup {"dead"}
=============================================================================
