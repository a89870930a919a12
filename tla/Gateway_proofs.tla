--------------------------- MODULE Gateway_proofs ---------------------------
(***************************************************************************)
(* The gateway's type invariant, where a cached car can come from, and who *)
(* may replace a document, for any number of requests, restarts, peers,    *)
(* keys and retries.                                                       *)
(*                                                                         *)
(* CacheProvenance is not inductive: what PutCar and Fill write is decided *)
(* steps before they write it.  GatewayInv adds what has to be remembered  *)
(* in between: what each handler's local variables stand for (Handlers),   *)
(* and that a valid block holds the write set of its call (Effects).       *)
(***************************************************************************)
EXTENDS Gateway, ChannelClient_proofs

\* The local state of the goroutine of request r.
Handler(r) ==
  /\ req[r].pc = "idle" => req[r].op = "none"
  /\ req[r].pc \in {"execute", "put"} => req[r].op = "invoke"
  /\ req[r].pc \in {"get", "find", "fill"} => req[r].op = "query"
  /\ req[r].pc \in Busy => req[r].key \in Keys
  /\ req[r].pc \in {"idle", "execute", "put", "get"} => req[r].tries = 0
  /\ req[r].pc = "find" => req[r].tries < MaxFinds
  /\ req[r].op = "invoke" =>
       /\ call[r].pc # "none"
       /\ req[r].key \in Keys
       /\ call[r].writes = [x \in {req[r].key} |-> req[r].car]
  /\ req[r].pc = "put" => call[r].pc \in Returned
  /\ req[r].pc = "fill" => req[r].car \in {Missing} \cup OnLedger(req[r].key)

Handlers == \A r \in Reqs : Handler(r)

\* A valid block leaves the ledger with the writes of its transaction.
Effects ==
  \A i \in 2..Len(log) : log[i].valid =>
    \A k \in DOMAIN call[log[i].tx[1]].writes :
      log[i].world[k] = call[log[i].tx[1]].writes[k]

GatewayTypes ==
  /\ req \in [Reqs -> ReqState]
  /\ couch \in [Keys -> [rev : Nat, car : Values \cup {Missing}]]
  /\ db \in {"nil", "open"}
  /\ proc \in {"serving", "booting", "down"}
  /\ boot \in Boots \cup {Missing}

GatewayInv ==
  /\ ClientInv
  /\ GatewayTypes
  /\ Handlers
  /\ Effects
  /\ CacheProvenance

\* A gateway that has just started satisfies the invariant.
LEMMA GatewayInitInv == Init => GatewayInv
<1> SUFFICES ASSUME Init
             PROVE  GatewayInv
  OBVIOUS
<1> DEFINE w == Overwrite([k \in Keys |-> Missing], ResetWrites)
<1>1. w \in World
  <2>1. [k \in Keys |-> Missing] \in World
    BY DEF World
  <2> QED
    BY <2>1, OverwriteType, GatewayAssumption
<1>2. ClientInit(w)
  BY DEF Init
<1>3. ClientInv
  BY <1>1, <1>2, ClientInitInv
<1>4. 2..Len(log) = {}
  BY <1>2 DEF ClientInit
<1>5. NoRequest \in ReqState
  BY GatewayAssumption DEF NoRequest, ReqState
<1>6. GatewayTypes
  BY <1>5 DEF Init, InitCouchdb, GatewayTypes
<1>7. Handlers
  BY GatewayAssumption DEF Init, Handlers, Handler, NoRequest, Busy
<1>8. Effects /\ CacheProvenance
  BY <1>4 DEF Init, Effects, CacheProvenance
<1> QED
  BY <1>3, <1>6, <1>7, <1>8 DEF GatewayInv

(***************************************************************************)
(* Steps of one handler that leave the SDK and the process alone.          *)
(***************************************************************************)

\* What such a step owes the invariant: its own types and local state, an invoke
\* that keeps its identity, and a cached car of known origin.
LocalStep(r) ==
  /\ UNCHANGED <<clientVars, db, proc, boot>>
  /\ req' \in [Reqs -> ReqState]
  /\ \A q \in Reqs \ {r} : req'[q] = req[q]
  /\ Handler(r)'
  /\ req[r].op = "invoke" =>
       req'[r].op = "invoke" /\ req'[r].key = req[r].key /\ req'[r].car = req[r].car
  /\ couch' \in [Keys -> [rev : Nat, car : Values \cup {Missing}]]
  /\ \A k \in Keys : \/ couch'[k] = couch[k]
                     \/ couch'[k].car \in {ZeroCar} \cup OnLedger(k) \cup Failed(k)

\* A local step keeps the invariant.
LEMMA LocalStepInv ==
  ASSUME GatewayInv, NEW r \in Reqs, LocalStep(r)
  PROVE  GatewayInv'
<1>1. call' = call /\ log' = log
  BY DEF LocalStep, clientVars, networkVars
<1>2. ClientInv'
  BY ClientStutterInv DEF GatewayInv, LocalStep
<1>3. GatewayTypes'
  BY DEF LocalStep, GatewayInv, GatewayTypes
<1>4. ASSUME NEW q \in Reqs \ {r}
      PROVE  Handler(q)'
  <2>1. Handler(q) /\ req'[q] = req[q]
    BY DEF GatewayInv, Handlers, LocalStep
  <2> QED
    BY <1>1, <2>1 DEF Handler, OnLedger
<1>5. Handlers'
  BY <1>4 DEF Handlers, LocalStep
<1>6. Effects'
  BY <1>1 DEF GatewayInv, Effects
<1>7. CacheProvenance'
  <2>1. ASSUME NEW k \in Keys
        PROVE  OnLedger(k)' = OnLedger(k) /\ Failed(k) \subseteq Failed(k)'
    BY <1>1 DEF OnLedger, Failed, LocalStep
  <2> QED
    BY <2>1 DEF CacheProvenance, GatewayInv, LocalStep
<1> QED
  BY <1>2, <1>3, <1>5, <1>6, <1>7 DEF GatewayInv

\* One request changes, to another state of its type.
LEMMA ReqUpdate ==
  ASSUME req \in [Reqs -> ReqState], NEW r \in Reqs, NEW s \in ReqState,
         req' = [req EXCEPT ![r] = s]
  PROVE  /\ req' \in [Reqs -> ReqState]
         /\ req'[r] = s
         /\ \A q \in Reqs \ {r} : req'[q] = req[q]
OBVIOUS

\* The codes of a reply.
Codes == {200, 400, 500}

\* The states of a request that has been answered, served from the cache, looked
\* up once more, and accepted as a query.
LEMMA AnsweredType ==
  ASSUME NEW s \in ReqState, NEW status \in Codes
  PROVE  [s EXCEPT !.pc = "done", !.status = status] \in ReqState
<1> DEFINE t == [s EXCEPT !.pc = "done"]
<1>1. t \in ReqState
  BY DEF ReqState
<1>2. [t EXCEPT !.status = status] \in ReqState
  <2> HIDE DEF t
  <2> QED
    BY <1>1 DEF ReqState, Codes
<1>3. [s EXCEPT !.pc = "done", !.status = status] = [t EXCEPT !.status = status]
  OBVIOUS
<1> QED
  BY <1>2, <1>3

\* The state of a query that was answered from the cache.
LEMMA CachedType ==
  ASSUME NEW s \in ReqState, NEW v \in Values \cup {Missing}
  PROVE  [s EXCEPT !.pc = "done", !.status = 200, !.car = v] \in ReqState
<1> DEFINE t == [s EXCEPT !.pc = "done"]
           u == [t EXCEPT !.status = 200]
<1>1. t \in ReqState
  BY DEF ReqState
<1>2. u \in ReqState
  <2> HIDE DEF t
  <2> QED
    BY <1>1 DEF ReqState
<1>3. [u EXCEPT !.car = v] \in ReqState
  <2> HIDE DEF u
  <2> QED
    BY <1>2 DEF ReqState
<1>4. [s EXCEPT !.pc = "done", !.status = 200, !.car = v] = [u EXCEPT !.car = v]
  OBVIOUS
<1> QED
  BY <1>3, <1>4

\* The state of an invoke that has read a revision.
LEMMA ReadType ==
  ASSUME NEW s \in ReqState, NEW n \in Nat
  PROVE  [s EXCEPT !.pc = "put", !.rev = n] \in ReqState
<1> DEFINE t == [s EXCEPT !.pc = "put"]
<1>1. t \in ReqState
  BY DEF ReqState, Busy
<1>2. [t EXCEPT !.rev = n] \in ReqState
  <2> HIDE DEF t
  <2> QED
    BY <1>1 DEF ReqState
<1>3. [s EXCEPT !.pc = "put", !.rev = n] = [t EXCEPT !.rev = n]
  OBVIOUS
<1> QED
  BY <1>2, <1>3

\* The state of a query after a round of Find.
LEMMA FoundType ==
  ASSUME NEW s \in ReqState, NEW pc \in {"find", "fill"}, NEW n \in 0..MaxFinds,
         NEW v \in Values \cup {Missing}
  PROVE  [s EXCEPT !.pc = pc, !.tries = n, !.car = v] \in ReqState
<1> DEFINE t == [s EXCEPT !.pc = pc]
           u == [t EXCEPT !.tries = n]
<1>1. t \in ReqState
  BY DEF ReqState, Busy
<1>2. u \in ReqState
  <2> HIDE DEF t
  <2> QED
    BY <1>1 DEF ReqState
<1>3. [u EXCEPT !.car = v] \in ReqState
  <2> HIDE DEF u
  <2> QED
    BY <1>2 DEF ReqState
<1>4. [s EXCEPT !.pc = pc, !.tries = n, !.car = v] = [u EXCEPT !.car = v]
  OBVIOUS
<1> QED
  BY <1>3, <1>4

\* The state of a query that has arrived.
LEMMA AcceptedType ==
  ASSUME NEW s \in ReqState, NEW k \in Keys
  PROVE  [s EXCEPT !.pc = "get", !.op = "query", !.key = k] \in ReqState
<1> DEFINE t == [s EXCEPT !.pc = "get"]
           u == [t EXCEPT !.op = "query"]
<1>1. t \in ReqState
  BY DEF ReqState, Busy
<1>2. u \in ReqState
  <2> HIDE DEF t
  <2> QED
    BY <1>1 DEF ReqState
<1>3. [u EXCEPT !.key = k] \in ReqState
  <2> HIDE DEF u
  <2> QED
    BY <1>2 DEF ReqState
<1>4. [s EXCEPT !.pc = "get", !.op = "query", !.key = k] = [u EXCEPT !.key = k]
  OBVIOUS
<1> QED
  BY <1>3, <1>4

\* The state of an invoke that has arrived.
LEMMA InvokedType ==
  ASSUME NEW s \in ReqState, NEW k \in Keys, NEW car \in Values
  PROVE  [s EXCEPT !.pc = "execute", !.op = "invoke", !.key = k, !.car = car] \in ReqState
<1> DEFINE t == [s EXCEPT !.pc = "execute"]
           u == [t EXCEPT !.op = "invoke"]
           v == [u EXCEPT !.key = k]
<1>1. t \in ReqState
  BY DEF ReqState, Busy
<1>2. u \in ReqState
  <2> HIDE DEF t
  <2> QED
    BY <1>1 DEF ReqState
<1>3. v \in ReqState
  <2> HIDE DEF u
  <2> QED
    BY <1>2 DEF ReqState
<1>4. [v EXCEPT !.car = car] \in ReqState
  <2> HIDE DEF v
  <2> QED
    BY <1>3 DEF ReqState
<1>5. [s EXCEPT !.pc = "execute", !.op = "invoke", !.key = k, !.car = car]
        = [v EXCEPT !.car = car]
  OBVIOUS
<1> QED
  BY <1>4, <1>5

\* The state of a request whose process has died.
LEMMA LostType ==
  ASSUME NEW s \in ReqState
  PROVE  [s EXCEPT !.pc = "lost"] \in ReqState
BY DEF ReqState

\* The state of a request that has been answered.
LEMMA ReplyTypes ==
  ASSUME req \in [Reqs -> ReqState], NEW r \in Reqs, NEW status \in Codes,
         Reply(r, status)
  PROVE  req' \in [Reqs -> ReqState] /\ \A q \in Reqs \ {r} : req'[q] = req[q]
<1>1. req' = [req EXCEPT ![r] = [req[r] EXCEPT !.pc = "done", !.status = status]]
  BY DEF Reply
<1>2. req[r] \in ReqState
  OBVIOUS
<1>3. [req[r] EXCEPT !.pc = "done", !.status = status] \in ReqState
  BY <1>2, AnsweredType
<1> QED
  BY <1>1, <1>3, ReqUpdate

\* A reply ends the handler, and is all there is to show of it.
LEMMA ReplyLocal ==
  ASSUME GatewayInv, NEW r \in Reqs, NEW status \in Codes,
         req[r].pc \in Busy \cup {"idle"}, Reply(r, status),
         UNCHANGED <<clientVars, db, proc, boot>>,
         couch' \in [Keys -> [rev : Nat, car : Values \cup {Missing}]],
         \A k \in Keys : \/ couch'[k] = couch[k]
                         \/ couch'[k].car \in {ZeroCar} \cup OnLedger(k) \cup Failed(k)
  PROVE  LocalStep(r)
<1>1. req \in [Reqs -> ReqState] /\ req[r] \in ReqState /\ Handler(r)
  BY DEF GatewayInv, GatewayTypes, Handlers
<1>2. req' = [req EXCEPT ![r].pc = "done", ![r].status = status]
  BY DEF Reply
<1>3. req' \in [Reqs -> ReqState] /\ \A q \in Reqs \ {r} : req'[q] = req[q]
  BY <1>1, ReplyTypes
<1>4. /\ req'[r].pc = "done" /\ req'[r].op = req[r].op /\ req'[r].key = req[r].key
      /\ req'[r].car = req[r].car
  BY <1>1, <1>2 DEF ReqState
<1>5. Handler(r)'
  BY <1>1, <1>4 DEF Handler, Busy, clientVars
<1> QED
  BY <1>3, <1>4, <1>5 DEF LocalStep

\* A Put keeps the types and touches no other key.
LEMMA PutEffect ==
  ASSUME GatewayInv, NEW k \in Keys, NEW car \in Values \cup {Missing}, NEW rev \in Nat,
         Put(k, car, rev)
  PROVE  /\ couch' \in [Keys -> [rev : Nat, car : Values \cup {Missing}]]
         /\ \A x \in Keys : couch'[x] = couch[x] \/ (x = k /\ couch'[x].car = car)
         /\ \A x \in Keys : couch'[x] # couch[x] => couch[x].rev = rev
BY DEF GatewayInv, GatewayTypes, Put

\* Reading the revision is a local step: Execute has returned.
LEMMA ReadRevLocal ==
  ASSUME GatewayInv, NEW r \in Reqs, ReadRev(r)
  PROVE  LocalStep(r)
<1>1. /\ req \in [Reqs -> ReqState] /\ req[r] \in ReqState /\ Handler(r)
      /\ couch \in [Keys -> [rev : Nat, car : Values \cup {Missing}]]
      /\ req[r].pc = "execute" /\ call[r].pc \in Returned
      /\ UNCHANGED <<clientVars, couch, db, proc, boot>>
  BY DEF GatewayInv, GatewayTypes, Handlers, ReadRev
<1>2. CASE \E status \in {200, 500} : Reply(r, status)
  BY <1>1, <1>2, ReplyLocal DEF Busy, Codes
<1>3. CASE req' = [req EXCEPT ![r].pc = "put", ![r].rev = couch[req[r].key].rev]
  <2>1. req[r].key \in Keys
    BY <1>1 DEF Handler, Busy
  <2>2. couch[req[r].key].rev \in Nat
    BY <1>1, <2>1
  <2>3. req' \in [Reqs -> ReqState] /\ \A q \in Reqs \ {r} : req'[q] = req[q]
    <3> DEFINE s == [req[r] EXCEPT !.pc = "put", !.rev = couch[req[r].key].rev]
    <3>1. s \in ReqState
      BY <1>1, <2>2, ReadType
    <3>2. req' = [req EXCEPT ![r] = s]
      BY <1>1, <1>3
    <3> QED
      BY <1>1, <3>1, <3>2, ReqUpdate
  <2>4. /\ req'[r].pc = "put" /\ req'[r].op = req[r].op /\ req'[r].key = req[r].key
        /\ req'[r].car = req[r].car /\ req'[r].tries = req[r].tries
    BY <1>1, <1>3 DEF ReqState
  <2>5. call' = call /\ log' = log
    BY <1>1 DEF clientVars, networkVars
  <2>6. Handler(r)'
    BY <1>1, <2>1, <2>4, <2>5 DEF Handler, Busy
  <2> QED
    BY <1>1, <2>3, <2>4, <2>6 DEF LocalStep
<1> QED
  BY <1>2, <1>3 DEF ReadRev

\* Execute has returned: with success, and then a block of some attempt is valid
\* and shows the car on the ledger; or with failure.
LEMMA PutCarOrigin ==
  ASSUME GatewayInv, NEW r \in Reqs, req[r].pc = "put"
  PROVE  req[r].car \in OnLedger(req[r].key) \cup Failed(req[r].key)
<1>1. /\ req[r].op = "invoke" /\ call[r].pc \in Returned /\ r \in Calls
      /\ call[r].writes = [x \in {req[r].key} |-> req[r].car]
  BY GatewayAssumption DEF GatewayInv, Handlers, Handler
<1>2. CASE call[r].pc = "failed"
  BY <1>1, <1>2 DEF Failed
<1>3. CASE call[r].pc = "ok"
  <2>1. PICK p \in Peers : Decided(<<r, call[r].txid>>, TRUE, height[p])
    BY <1>1, <1>3 DEF GatewayInv, ClientInv, OkIsCommitted
  <2>2. PICK i \in 2..height[p] : log[i].tx = <<r, call[r].txid>> /\ log[i].valid
    BY <2>1 DEF Decided
  <2>3. i \in 2..Len(log) /\ i \in 1..Len(log)
    BY <2>2 DEF GatewayInv, ClientInv, ClientTypes, ClientTypeOK
  <2>4. log[i].world[req[r].key] = req[r].car
    BY <1>1, <2>2, <2>3 DEF GatewayInv, Effects
  <2> QED
    BY <2>3, <2>4 DEF OnLedger
<1> QED
  BY <1>1, <1>2, <1>3 DEF Returned

\* An invoke's Put is a local step: its car is on the ledger, or its Execute failed.
LEMMA PutCarLocal ==
  ASSUME GatewayInv, NEW r \in Reqs, PutCar(r)
  PROVE  LocalStep(r)
<1>1. /\ req[r] \in ReqState /\ Handler(r) /\ req[r].pc = "put"
      /\ Put(req[r].key, req[r].car, req[r].rev) /\ Reply(r, 200)
      /\ UNCHANGED <<clientVars, db, proc, boot>>
  BY DEF GatewayInv, GatewayTypes, Handlers, PutCar
<1>2. req[r].key \in Keys /\ req[r].car \in Values \cup {Missing} /\ req[r].rev \in Nat
  BY <1>1 DEF Handler, Busy, ReqState
<1>3. /\ couch' \in [Keys -> [rev : Nat, car : Values \cup {Missing}]]
      /\ \A x \in Keys : couch'[x] = couch[x] \/ (x = req[r].key /\ couch'[x].car = req[r].car)
  BY <1>1, <1>2, PutEffect
<1>4. req[r].car \in OnLedger(req[r].key) \cup Failed(req[r].key)
  BY <1>1, PutCarOrigin
<1> QED
  BY <1>1, <1>3, <1>4, ReplyLocal DEF Busy, Codes

\* A query's Put is a local step: its car was found on the ledger, or is Car{}.
LEMMA FillLocal ==
  ASSUME GatewayInv, NEW r \in Reqs, Fill(r)
  PROVE  LocalStep(r)
<1> DEFINE car == Message2Car(req[r].car)
<1>1. /\ req[r] \in ReqState /\ Handler(r) /\ req[r].pc = "fill"
      /\ Put(req[r].key, car, 0) /\ Reply(r, 200)
      /\ UNCHANGED <<clientVars, db, proc, boot>>
  BY DEF GatewayInv, GatewayTypes, Handlers, Fill
<1>2. req[r].key \in Keys /\ car \in Values \cup {Missing}
  BY <1>1, GatewayAssumption DEF Handler, Busy, ReqState, Message2Car
<1>3. car \in {ZeroCar} \cup OnLedger(req[r].key)
  BY <1>1 DEF Handler, Message2Car
<1> HIDE DEF car
<1>4. /\ couch' \in [Keys -> [rev : Nat, car : Values \cup {Missing}]]
      /\ \A x \in Keys : couch'[x] = couch[x] \/ (x = req[r].key /\ couch'[x].car = car)
  BY <1>1, <1>2, PutEffect
<1> QED
  BY <1>1, <1>3, <1>4, ReplyLocal DEF Busy, Codes

\* Answering from the cache is a local step.
LEMMA GetCachedLocal ==
  ASSUME GatewayInv, NEW r \in Reqs, GetCached(r)
  PROVE  LocalStep(r)
<1>1. /\ req \in [Reqs -> ReqState] /\ req[r] \in ReqState /\ Handler(r)
      /\ couch \in [Keys -> [rev : Nat, car : Values \cup {Missing}]]
      /\ req[r].pc = "get" /\ UNCHANGED <<clientVars, couch, db, proc, boot>>
  BY DEF GatewayInv, GatewayTypes, Handlers, GetCached
<1>2. req[r].op = "query" /\ req[r].key \in Keys
  BY <1>1 DEF Handler, Busy
<1>3. CASE Reply(r, 500)
  BY <1>1, <1>3, ReplyLocal DEF Busy, Codes
<1>4. CASE req' = [req EXCEPT ![r].pc = "done", ![r].status = 200,
                              ![r].car = couch[req[r].key].car]
  <2> DEFINE s == [req[r] EXCEPT !.pc = "done", !.status = 200, !.car = couch[req[r].key].car]
  <2>1. couch[req[r].key].car \in Values \cup {Missing}
    BY <1>1, <1>2
  <2>2. s \in ReqState
    BY <1>1, <2>1, CachedType, ZenonT(60)
  <2>3. req' = [req EXCEPT ![r] = s]
    BY <1>1, <1>4, ZenonT(60)
  <2>4. s.pc = "done" /\ s.op = "query"
    BY <1>1, <1>2 DEF ReqState
  <2> HIDE DEF s
  <2>5. req' \in [Reqs -> ReqState] /\ req'[r] = s /\ \A q \in Reqs \ {r} : req'[q] = req[q]
    BY <1>1, <2>2, <2>3, ReqUpdate
  <2>6. Handler(r)'
    BY <2>4, <2>5 DEF Handler, Busy
  <2> QED
    BY <1>1, <1>2, <2>5, <2>6 DEF LocalStep
<1>5. CASE req' = [req EXCEPT ![r].pc = "find"]
  <2> DEFINE s == [req[r] EXCEPT !.pc = "find"]
  <2>1. s \in ReqState
    BY <1>1 DEF ReqState, Busy
  <2>2. req' = [req EXCEPT ![r] = s]
    BY <1>1, <1>5
  <2>3. s.pc = "find" /\ s.op = "query" /\ s.key = req[r].key /\ s.tries = 0
    BY <1>1, <1>2 DEF ReqState, Handler
  <2> HIDE DEF s
  <2>4. req' \in [Reqs -> ReqState] /\ req'[r] = s /\ \A q \in Reqs \ {r} : req'[q] = req[q]
    BY <1>1, <2>1, <2>2, ReqUpdate
  <2>5. Handler(r)'
    BY <1>2, <2>3, <2>4, GatewayAssumption DEF Handler, Busy
  <2> QED
    BY <1>1, <1>2, <2>4, <2>5 DEF LocalStep
<1> QED
  BY <1>3, <1>4, <1>5 DEF GetCached

\* What a peer answers has been on the ledger: it holds a prefix of the chain.
LEMMA FoundOnLedger ==
  ASSUME GatewayInv, NEW k \in Keys, NEW v \in {At(p)[k] : p \in Peers} \cup {Missing}
  PROVE  v \in {Missing} \cup OnLedger(k) /\ v \in Values \cup {Missing}
<1>1. CASE v = Missing
  BY <1>1
<1>2. ASSUME NEW p \in Peers, v = At(p)[k]
      PROVE  v \in OnLedger(k) /\ v \in Values \cup {Missing}
  <2>1. height[p] \in 1..Len(log)
    BY DEF GatewayInv, ClientInv, ClientTypes, ClientTypeOK
  <2>2. log[height[p]].world \in World
    BY <2>1, EntryTypes DEF GatewayInv, ClientInv, ClientTypes
  <2> QED
    BY <1>2, <2>1, <2>2 DEF At, OnLedger, World
<1> QED
  BY <1>1, <1>2

\* A round of Find is a local step: a peer holds what the ledger has held.
LEMMA FindOnceLocal ==
  ASSUME GatewayInv, NEW r \in Reqs, FindOnce(r)
  PROVE  LocalStep(r)
<1>1. /\ req \in [Reqs -> ReqState] /\ req[r] \in ReqState /\ Handler(r)
      /\ couch \in [Keys -> [rev : Nat, car : Values \cup {Missing}]]
      /\ req[r].pc = "find" /\ UNCHANGED <<clientVars, couch, db, proc, boot>>
  BY DEF GatewayInv, GatewayTypes, Handlers, FindOnce
<1>2. /\ req[r].op = "query" /\ req[r].key \in Keys
      /\ req[r].tries \in Nat /\ req[r].tries < MaxFinds
  BY <1>1 DEF Handler, Busy, ReqState
<1>3. PICK v \in {At(p)[req[r].key] : p \in Peers} \cup {Missing} :
        req' = [req EXCEPT
          ![r].pc = IF v # Missing \/ req[r].tries + 1 = MaxFinds THEN "fill" ELSE "find",
          ![r].tries = @ + 1,
          ![r].car = v]
  BY DEF FindOnce
<1>4. v \in {Missing} \cup OnLedger(req[r].key) /\ v \in Values \cup {Missing}
  BY <1>2, FoundOnLedger
<1> DEFINE pc == IF v # Missing \/ req[r].tries + 1 = MaxFinds THEN "fill" ELSE "find"
           n  == req[r].tries + 1
           s  == [req[r] EXCEPT !.pc = pc, !.tries = n, !.car = v]
<1>5. n \in 0..MaxFinds /\ (pc = "find" => n < MaxFinds) /\ pc \in {"find", "fill"}
  BY <1>2, GatewayAssumption
<1>6. req' = [req EXCEPT ![r] = s]
  BY <1>1, <1>3
<1> HIDE DEF pc, n
<1>7. s \in ReqState
  BY <1>1, <1>4, <1>5, FoundType
<1>8. s.pc = pc /\ s.op = "query" /\ s.key = req[r].key /\ s.tries = n /\ s.car = v
  BY <1>1, <1>2 DEF ReqState
<1> HIDE DEF s
<1>9. req' \in [Reqs -> ReqState] /\ req'[r] = s /\ \A q \in Reqs \ {r} : req'[q] = req[q]
  BY <1>1, <1>6, <1>7, ReqUpdate
<1>10. Handler(r)'
  BY <1>1, <1>2, <1>4, <1>5, <1>8, <1>9 DEF Handler, Busy, OnLedger, clientVars, networkVars
<1> QED
  BY <1>1, <1>2, <1>9, <1>10 DEF LocalStep

\* Every step of a handler is local: see LocalStep.
LEMMA HandleLocal ==
  ASSUME GatewayInv, NEW r \in Reqs, Handle(r)
  PROVE  LocalStep(r)
BY ReadRevLocal, PutCarLocal, GetCachedLocal, FindOnceLocal, FillLocal DEF Handle

(***************************************************************************)
(* Arrivals.                                                               *)
(***************************************************************************)

\* Refusing a request is a local step.
LEMMA RefuseLocal ==
  ASSUME GatewayInv, NEW r \in Reqs, Refuse(r)
  PROVE  LocalStep(r)
<1>1. PICK status \in {400, 500} : Reply(r, status)
  BY DEF Refuse
<1>2. /\ req[r].pc = "idle" /\ UNCHANGED <<clientVars, couch, db, proc, boot>>
      /\ couch \in [Keys -> [rev : Nat, car : Values \cup {Missing}]]
  BY DEF Refuse, GatewayInv, GatewayTypes
<1> QED
  BY <1>1, <1>2, ReplyLocal DEF Codes

\* Accepting a query is a local step.
LEMMA QueryArrivesLocal ==
  ASSUME GatewayInv, NEW r \in Reqs, NEW k \in Keys, QueryArrives(r, k)
  PROVE  LocalStep(r)
<1>1. /\ req \in [Reqs -> ReqState] /\ req[r] \in ReqState /\ Handler(r)
      /\ couch \in [Keys -> [rev : Nat, car : Values \cup {Missing}]]
      /\ req[r].pc = "idle" /\ UNCHANGED <<clientVars, couch, db, proc, boot>>
  BY DEF GatewayInv, GatewayTypes, Handlers, QueryArrives
<1> DEFINE s == [req[r] EXCEPT !.pc = "get", !.op = "query", !.key = k]
<1>2. s \in ReqState
  BY <1>1, AcceptedType
<1>3. req' = [req EXCEPT ![r] = s]
  BY <1>1 DEF QueryArrives
<1>4. s.pc = "get" /\ s.op = "query" /\ s.key = k /\ s.tries = req[r].tries
  BY <1>1 DEF ReqState
<1> HIDE DEF s
<1>5. req' \in [Reqs -> ReqState] /\ req'[r] = s /\ \A q \in Reqs \ {r} : req'[q] = req[q]
  BY <1>1, <1>2, <1>3, ReqUpdate
<1>6. Handler(r)' /\ req[r].op = "none"
  BY <1>1, <1>4, <1>5 DEF Handler, Busy
<1> QED
  BY <1>1, <1>5, <1>6 DEF LocalStep

(***************************************************************************)
(* Steps that change the SDK's calls, the chain or the process.            *)
(***************************************************************************)

\* What such a step owes the invariant: the chain keeps what it has, the calls
\* keep their write sets once made and their results once returned, and the
\* cache and the local states stay as they are but for a new or lost handler.
OuterStep ==
  /\ ClientInv'
  /\ GatewayTypes'
  /\ UNCHANGED couch
  /\ Len(log) \in Nat /\ Len(log') \in Nat /\ Len(log) <= Len(log')
  /\ \A i \in 1..Len(log) : log'[i] = log[i]
  /\ \A c \in Calls : call[c].pc # "none" =>
       call'[c].pc # "none" /\ call'[c].writes = call[c].writes
  /\ \A c \in Calls : call[c].pc \in Returned => call'[c].pc = call[c].pc
  /\ \A r \in Reqs : \/ req'[r] = req[r]
                     \/ /\ req'[r].pc = "lost" /\ req'[r].op = req[r].op
                        /\ req'[r].key = req[r].key /\ req'[r].car = req[r].car
                     \/ req[r].pc = "idle" /\ Handler(r)'

\* A step that gives the invariant its due, and keeps the effects, keeps the invariant.
LEMMA OuterStepInv ==
  ASSUME GatewayInv, OuterStep, Effects'
  PROVE  GatewayInv'
<1>1. Reqs \subseteq Calls
  BY GatewayAssumption
<1>2. \A k : OnLedger(k) \subseteq OnLedger(k)'
  <2>1. \A i \in 1..Len(log) : i \in 1..Len(log') /\ log'[i] = log[i]
    BY DEF OuterStep
  <2> QED
    BY <2>1 DEF OnLedger
<1>3. ASSUME NEW r \in Reqs
      PROVE  Handler(r)'
  <2>1. Handler(r) /\ r \in Calls
    BY <1>1 DEF GatewayInv, Handlers
  <2>2. CASE req'[r] = req[r]
    <3>1. /\ call[r].pc # "none" => call'[r].pc # "none" /\ call'[r].writes = call[r].writes
          /\ call[r].pc \in Returned => call'[r].pc = call[r].pc
          /\ OnLedger(req[r].key) \subseteq OnLedger(req[r].key)'
      BY <2>1, <2>2, <1>2 DEF OuterStep, OnLedger
    <3> QED
      BY <2>1, <2>2, <3>1 DEF Handler
  <2>3. CASE /\ req'[r].pc = "lost" /\ req'[r].op = req[r].op
             /\ req'[r].key = req[r].key /\ req'[r].car = req[r].car
    BY <2>1, <2>3 DEF Handler, OuterStep, Busy
  <2> QED
    BY <2>2, <2>3 DEF OuterStep
<1>4. CacheProvenance'
  <2>1. ASSUME NEW k \in Keys, NEW car \in Failed(k)
        PROVE  car \in Failed(k)'
    <3>1. PICK r \in Reqs : /\ req[r].op = "invoke" /\ req[r].key = k
                            /\ call[r].pc = "failed" /\ car = req[r].car
      BY DEF Failed
    <3>2. call'[r].pc = "failed"
      BY <1>1, <3>1 DEF OuterStep, Returned
    <3>3. req[r].pc # "idle"
      BY <3>1 DEF GatewayInv, Handlers, Handler
    <3>4. req'[r].op = "invoke" /\ req'[r].key = k /\ req'[r].car = car
      BY <3>1, <3>3 DEF OuterStep
    <3> QED
      BY <3>2, <3>4 DEF Failed
  <2> QED
    BY <1>2, <2>1 DEF GatewayInv, CacheProvenance, OuterStep
<1> QED
  BY <1>3, <1>4 DEF OuterStep, GatewayInv, Handlers

\* While the chain stands still and made calls keep their write sets, so do the effects.
LEMMA EffectsStay ==
  ASSUME GatewayInv, log' = log,
         \A c \in Calls : call[c].pc # "none" => call'[c].writes = call[c].writes
  PROVE  Effects'
<1>1. ASSUME NEW i \in 2..Len(log)
      PROVE  call'[log[i].tx[1]].writes = call[log[i].tx[1]].writes
  <2>1. PICK t \in TxIds : t = log[i].tx /\ Sent(t)
    BY DEF GatewayInv, ClientInv, OnlySentIsOrdered
  <2>2. t[1] \in Calls /\ t[2] \in Attempts
    BY <2>1 DEF TxIds
  <2>3. call[t[1]].pc # "none"
    BY <2>1, <2>2 DEF Sent, GatewayInv, ClientInv, ClientTypes, Started, Attempts
  <2> QED
    BY <2>1, <2>2, <2>3
<1> QED
  BY <1>1 DEF GatewayInv, Effects

\* A new call disturbs no other.
LEMMA SubmitEffect ==
  ASSUME GatewayInv, NEW c \in Calls, NEW w \in WriteSet, Submit(c, w)
  PROVE  /\ ClientInv'
         /\ Effects'
         /\ log' = log /\ Len(log) \in Nat
         /\ call[c].pc = "none" /\ call'[c].pc = "endorse" /\ call'[c].writes = w
         /\ \A d \in Calls \ {c} : call'[d] = call[d]
<1>1. ClientInv'
  BY SubmitInv DEF GatewayInv
<1>2. /\ log' = log /\ call[c].pc = "none"
      /\ call \in [Calls -> CallState]
      /\ call' = [call EXCEPT ![c] =
           [pc |-> "endorse", attempt |-> 1, txid |-> 0, writes |-> w]]
  BY DEF Submit, networkVars, GatewayInv, ClientInv, ClientTypes, ClientTypeOK
<1>3. /\ call'[c].pc = "endorse" /\ call'[c].writes = w
      /\ \A d \in Calls \ {c} : call'[d] = call[d]
  BY <1>2
<1>4. Effects'
  BY <1>2, <1>3, EffectsStay
<1>5. Len(log) \in Nat
  BY EntryTypes DEF GatewayInv, ClientInv, ClientTypes
<1> QED
  BY <1>1, <1>2, <1>3, <1>4, <1>5

\* An invoke that arrives has a call of its own, which is new.
LEMMA InvokeArrivesOuter ==
  ASSUME GatewayInv, NEW r \in Reqs, NEW k \in Keys, NEW car \in Values,
         InvokeArrives(r, k, car)
  PROVE  OuterStep /\ Effects'
<1> DEFINE w == [x \in {k} |-> car]
<1>1. w \in WriteSet /\ r \in Calls
  <2>1. w \in [{k} -> Values] /\ {k} \in SUBSET Keys
    OBVIOUS
  <2> QED
    BY <2>1, GatewayAssumption DEF WriteSet
<1>2. Submit(r, w)
  BY DEF InvokeArrives
<1> HIDE DEF w
<1>3. /\ ClientInv' /\ Effects' /\ log' = log /\ Len(log) \in Nat
      /\ call[r].pc = "none" /\ call'[r].pc = "endorse" /\ call'[r].writes = w
      /\ \A d \in Calls \ {r} : call'[d] = call[d]
  BY <1>1, <1>2, SubmitEffect
<1>4. /\ req \in [Reqs -> ReqState] /\ req[r] \in ReqState /\ Handler(r)
      /\ req[r].pc = "idle" /\ UNCHANGED <<couch, db, proc, boot>>
  BY DEF GatewayInv, GatewayTypes, Handlers, InvokeArrives
<1> DEFINE s == [req[r] EXCEPT !.pc = "execute", !.op = "invoke", !.key = k, !.car = car]
<1>5. s \in ReqState
  BY <1>4, InvokedType
<1>6. req' = [req EXCEPT ![r] = s]
  BY <1>4 DEF InvokeArrives
<1>7. s.pc = "execute" /\ s.op = "invoke" /\ s.key = k /\ s.car = car /\ s.tries = req[r].tries
  BY <1>4 DEF ReqState
<1> HIDE DEF s
<1>8. req' \in [Reqs -> ReqState] /\ req'[r] = s /\ \A q \in Reqs \ {r} : req'[q] = req[q]
  BY <1>4, <1>5, <1>6, ReqUpdate
<1>9. Handler(r)'
  BY <1>3, <1>4, <1>7, <1>8 DEF Handler, Busy, w
<1>10. GatewayTypes'
  BY <1>4, <1>8 DEF GatewayInv, GatewayTypes
<1>11. OuterStep
  BY <1>1, <1>3, <1>4, <1>8, <1>9, <1>10 DEF OuterStep, Returned
<1> QED
  BY <1>3, <1>11

\* So has a restart: the reset.
LEMMA RestartOuter ==
  ASSUME GatewayInv, NEW b \in Boots, Restart(b)
  PROVE  OuterStep /\ Effects'
<1>1. ResetWrites \in WriteSet /\ b \in Calls
  BY GatewayAssumption
<1>2. /\ ClientInv' /\ Effects' /\ log' = log /\ Len(log) \in Nat
      /\ call[b].pc = "none" /\ call'[b].pc = "endorse"
      /\ \A d \in Calls \ {b} : call'[d] = call[d]
  BY <1>1, SubmitEffect DEF Restart
<1>3. UNCHANGED <<req, couch>> /\ GatewayTypes'
  BY DEF Restart, InitCouchdb, GatewayInv, GatewayTypes
<1>4. OuterStep
  BY <1>1, <1>2, <1>3 DEF OuterStep, Returned
<1> QED
  BY <1>2, <1>4

\* A step of an Execute call is its own, and what has returned stays.
LEMMA SdkStepOuter ==
  ASSUME GatewayInv, NEW c \in Calls, SdkStep(c)
  PROVE  OuterStep /\ Effects'
<1>1. CallEffect(c) /\ ClientInv'
  BY CallStepEffect, CallStepInv DEF SdkStep, GatewayInv, ClientInv
<1>2. /\ call[c].pc \in Active /\ call'[c].writes = call[c].writes
      /\ call'[c].pc \in {"endorse", "send", "sent", "wait", "ok", "failed"}
      /\ \A d \in Calls \ {c} : call'[d] = call[d]
      /\ log' = log
  BY <1>1 DEF CallEffect
<1>3. Len(log) \in Nat
  BY EntryTypes DEF GatewayInv, ClientInv, ClientTypes
<1>4. UNCHANGED <<req, couch>> /\ GatewayTypes'
  BY DEF SdkStep, gatewayVars, GatewayInv, GatewayTypes
<1>5. OuterStep
  BY <1>1, <1>2, <1>3, <1>4 DEF OuterStep, Returned, Active
<1>6. Effects'
  BY <1>2, EffectsStay
<1> QED
  BY <1>5, <1>6

\* Orderer and peers leave the gateway alone: the chain only grows.
LEMMA NetworkStepOuter ==
  ASSUME GatewayInv, Network, UNCHANGED gatewayVars
  PROVE  OuterStep /\ Effects'
<1>1. ClientInv' /\ GatewayTypes' /\ UNCHANGED <<req, couch, call>>
  BY NetworkInv DEF GatewayInv, GatewayTypes, gatewayVars, Network, Accept, Commit, CatchUp
<1>2. Len(log) \in Nat /\ log \in Seq(Entry)
  BY EntryTypes DEF GatewayInv, ClientInv, ClientTypes, ClientTypeOK
<1>3. CASE log' = log
  <2>1. Effects'
    BY <1>1, <1>3, EffectsStay
  <2>2. OuterStep
    BY <1>1, <1>2, <1>3 DEF OuterStep
  <2> QED
    BY <2>1, <2>2
<1>4. CASE Commit
  <2>1. PICK t \in TxIds : t = Head(queue)
    BY <1>4 DEF Commit, GatewayInv, ClientInv, ClientTypes, ClientTypeOK
  <2>2. PICK c \in Calls : c = t[1]
    BY <2>1 DEF TxIds
  <2>3. PICK b : /\ log' = Append(log, b) /\ b.tx = t
                 /\ b.valid => b.world = Overwrite(Top, call[c].writes)
    BY <1>4, <2>1, <2>2 DEF Commit
  <2>4. /\ Len(log') = Len(log) + 1
        /\ \A i \in 1..Len(log) : log'[i] = log[i]
        /\ log'[Len(log) + 1] = b
    BY <1>2, <2>3
  <2>5. call[c].writes \in WriteSet
    BY DEF GatewayInv, ClientInv, ClientTypes, ClientTypeOK, CallState
  <2>6. \A k \in DOMAIN call[c].writes : Overwrite(Top, call[c].writes)[k] = call[c].writes[k]
    BY <2>5 DEF WriteSet, Overwrite
  <2>7. \A i \in 2..Len(log') : i \in 2..Len(log) \/ i = Len(log) + 1
    BY <1>2, <2>4
  <2>8. ASSUME NEW i \in 2..Len(log'), log'[i].valid,
               NEW k \in DOMAIN call[log'[i].tx[1]].writes
        PROVE  log'[i].world[k] = call[log'[i].tx[1]].writes[k]
    <3>1. CASE i \in 2..Len(log)
      <4>1. log'[i] = log[i]
        BY <2>4, <3>1
      <4> QED
        BY <2>8, <3>1, <4>1 DEF GatewayInv, Effects
    <3>2. CASE i = Len(log) + 1
      BY <2>2, <2>3, <2>4, <2>6, <2>8, <3>2
    <3> QED
      BY <2>7, <3>1, <3>2
  <2>9. Effects'
    BY <1>1, <2>8 DEF Effects
  <2>10. OuterStep
    BY <1>1, <1>2, <2>4 DEF OuterStep
  <2> QED
    BY <2>9, <2>10
<1> QED
  BY <1>3, <1>4 DEF Network, Accept, CatchUp

\* Cache and chain outlive the death of the process, and so does what has returned.
LEMMA DieOuter ==
  ASSUME GatewayInv, Die
  PROVE  OuterStep /\ Effects'
<1>1. ClientInv'
  BY AbandonInv DEF Die, GatewayInv
<1>2. /\ log' = log /\ couch' = couch /\ Len(log) \in Nat
      /\ call \in [Calls -> CallState] /\ req \in [Reqs -> ReqState]
  BY EntryTypes DEF Die, networkVars, GatewayInv, GatewayTypes, ClientInv, ClientTypes, ClientTypeOK
<1>3. ASSUME NEW c \in Calls
      PROVE  /\ call'[c].writes = call[c].writes
             /\ call'[c].pc \in {call[c].pc, "dead"}
             /\ call[c].pc \notin Active => call'[c].pc = call[c].pc
  BY <1>2 DEF Die, Abandon, CallState
<1>4. \A r \in Reqs : req'[r] = req[r] \/ req'[r] = [req[r] EXCEPT !.pc = "lost"]
  BY DEF Die
<1>5. req' \in [Reqs -> ReqState]
  BY <1>2, <1>4, LostType DEF Die
<1>6. GatewayTypes'
  BY <1>2, <1>5 DEF Die, GatewayInv, GatewayTypes
<1>7. ASSUME NEW r \in Reqs
      PROVE  \/ req'[r] = req[r]
             \/ /\ req'[r].pc = "lost" /\ req'[r].op = req[r].op
                /\ req'[r].key = req[r].key /\ req'[r].car = req[r].car
  <2>1. req[r] \in ReqState
    BY <1>2
  <2>2. CASE req'[r] = [req[r] EXCEPT !.pc = "lost"]
    BY <2>1, <2>2 DEF ReqState
  <2> QED
    BY <1>4, <2>2
<1>8. OuterStep
  <2>1. \A c \in Calls : call[c].pc \in Returned => call'[c].pc = call[c].pc
    BY <1>3 DEF Returned, Active
  <2>2. \A c \in Calls : call[c].pc # "none" =>
          call'[c].pc # "none" /\ call'[c].writes = call[c].writes
    BY <1>3
  <2> QED
    BY <1>1, <1>2, <1>6, <1>7, <2>1, <2>2 DEF OuterStep
<1>9. Effects'
  <2>1. \A c \in Calls : call[c].pc # "none" => call'[c].writes = call[c].writes
    BY <1>3
  <2> QED
    BY <1>2, <2>1, EffectsStay
<1> QED
  BY <1>8, <1>9

\* A step that changes the process only.
LEMMA StillOuter ==
  ASSUME GatewayInv, UNCHANGED <<clientVars, req, couch>>, GatewayTypes'
  PROVE  OuterStep /\ Effects'
<1>1. ClientInv'
  BY ClientStutterInv DEF GatewayInv
<1>2. call' = call /\ log' = log /\ req' = req /\ couch' = couch
  BY DEF clientVars, networkVars
<1>3. Len(log) \in Nat
  BY EntryTypes DEF GatewayInv, ClientInv, ClientTypes
<1>4. OuterStep
  BY <1>1, <1>2, <1>3 DEF OuterStep
<1>5. Effects'
  BY <1>2 DEF GatewayInv, Effects
<1> QED
  BY <1>4, <1>5

\* Every step is one of a handler, or leaves the handlers but for a new or lost one.
LEMMA GatewayStep ==
  ASSUME GatewayInv, [Next]_vars
  PROVE  (\E r \in Reqs : LocalStep(r)) \/ (OuterStep /\ Effects')
<1>1. CASE \E r \in Reqs : Arrive(r)
  BY <1>1, RefuseLocal, QueryArrivesLocal, InvokeArrivesOuter DEF Arrive
<1>2. CASE \E r \in Reqs : Handle(r)
  BY <1>2, HandleLocal
<1>3. CASE \E c \in Calls : SdkStep(c)
  BY <1>3, SdkStepOuter
<1>4. CASE Network /\ UNCHANGED gatewayVars
  BY <1>4, NetworkStepOuter
<1>5. CASE Die
  BY <1>5, DieOuter
<1>6. CASE \E b \in Boots : Restart(b)
  BY <1>6, RestartOuter
<1>7. CASE Booted
  <2>1. GatewayTypes'
    BY <1>7 DEF Booted, GatewayInv, GatewayTypes
  <2> QED
    BY <1>7, <2>1, StillOuter DEF Booted
<1>8. CASE UNCHANGED vars
  <2>1. GatewayTypes'
    BY <1>8 DEF vars, gatewayVars, GatewayInv, GatewayTypes
  <2> QED
    BY <1>8, <2>1, StillOuter DEF vars, gatewayVars
<1> QED
  BY <1>1, <1>2, <1>3, <1>4, <1>5, <1>6, <1>7, <1>8 DEF Next

\* Every step of the gateway keeps the invariant.
LEMMA GatewayNextInv ==
  ASSUME GatewayInv, [Next]_vars
  PROVE  GatewayInv'
BY GatewayStep, LocalStepInv, OuterStepInv

\* The invariant holds in every state.
LEMMA GatewayInvariant == Spec => []GatewayInv
BY GatewayInitInv, GatewayNextInv, PTL DEF Spec

\* The gateway keeps its types, and its cache never holds a car that came from
\* nowhere (service/chain.go invoke and query): for every number of requests,
\* restarts and peers.
THEOREM GatewayCorrect == Spec => [](TypeOK /\ CacheProvenance)
<1>1. GatewayInv => TypeOK /\ CacheProvenance
  BY DEF GatewayInv, GatewayTypes, ClientInv, ClientTypes, TypeOK
<1> QED
  BY GatewayInvariant, <1>1, PTL

\* Every variable of the gateway keeps its type, through every kill and restart.
THEOREM GatewayTyped == Spec => []TypeOK
BY GatewayCorrect, PTL

\* A step that replaces a document is the Put of an invoke that had read its revision.
LEMMA ReplaceStep ==
  ASSUME GatewayInv, [Next]_vars, NEW k \in Keys, couch[k].rev > 0, couch'[k] # couch[k]
  PROVE  \E r \in Reqs :
           /\ req[r].op = "invoke" /\ req[r].key = k
           /\ req[r].pc = "put" /\ req'[r].pc = "done"
           /\ req[r].rev = couch[k].rev
           /\ couch'[k].car = req[r].car
<1>1. ASSUME NEW r \in Reqs, PutCar(r)
      PROVE  /\ req[r].op = "invoke" /\ req[r].key = k
             /\ req[r].pc = "put" /\ req'[r].pc = "done"
             /\ req[r].rev = couch[k].rev
             /\ couch'[k].car = req[r].car
  <2>1. /\ req \in [Reqs -> ReqState] /\ req[r] \in ReqState
        /\ Handler(r) /\ req[r].pc = "put"
        /\ Put(req[r].key, req[r].car, req[r].rev) /\ Reply(r, 200)
    BY <1>1 DEF GatewayInv, GatewayTypes, Handlers, PutCar
  <2>2. /\ req[r].op = "invoke" /\ req[r].key \in Keys
        /\ req[r].car \in Values \cup {Missing} /\ req[r].rev \in Nat
    BY <2>1 DEF Handler, Busy, ReqState
  <2>3. k = req[r].key /\ couch'[k].car = req[r].car /\ couch[k].rev = req[r].rev
    BY <2>1, <2>2, PutEffect
  <2>4. req'[r].pc = "done"
    BY <2>1 DEF Reply, ReqState
  <2> QED
    BY <2>1, <2>2, <2>3, <2>4
<1>2. ASSUME NEW r \in Reqs, Fill(r)
      PROVE  FALSE
  <2>1. req[r] \in ReqState /\ Handler(r) /\ req[r].pc = "fill"
    BY <1>2 DEF GatewayInv, GatewayTypes, Handlers, Fill
  <2>2. /\ req[r].key \in Keys /\ Message2Car(req[r].car) \in Values \cup {Missing}
        /\ Put(req[r].key, Message2Car(req[r].car), 0)
    BY <1>2, <2>1, GatewayAssumption DEF Handler, Busy, ReqState, Message2Car, Fill
  <2>3. couch[k].rev = 0
    BY <2>2, PutEffect
  <2> QED
    BY <2>3
<1>3. CASE \E r \in Reqs : Handle(r)
  BY <1>1, <1>2, <1>3 DEF Handle, ReadRev, GetCached, FindOnce
<1>4. ~ UNCHANGED couch
  OBVIOUS
<1>5. \A r \in Reqs : ~ Arrive(r)
  BY <1>4, ZenonT(60) DEF Arrive, Refuse, InvokeArrives, QueryArrives
<1>6. /\ \A c \in Calls : ~ SdkStep(c)
      /\ ~ (Network /\ UNCHANGED gatewayVars)
      /\ ~ UNCHANGED vars
  BY <1>4 DEF SdkStep, vars, gatewayVars
<1>7. ~ Die /\ ~ Booted /\ \A b \in Boots : ~ Restart(b)
  BY <1>4 DEF Die, Booted, Restart
<1> QED
  BY <1>3, <1>5, <1>6, <1>7 DEF Next

\* Whatever races, a document is replaced only by an invoke that had read the very
\* revision it replaces (chain.go:148-151), and never by a query (chain.go:211).
THEOREM GatewayReplacedByReader == Spec => ReplacedByReader
<1>1. GatewayInv /\ [Next]_vars =>
        [\A k \in Keys : couch[k].rev > 0 /\ couch'[k] # couch[k] =>
           \E r \in Reqs :
             /\ req[r].op = "invoke" /\ req[r].key = k
             /\ req[r].pc = "put" /\ req'[r].pc = "done"
             /\ req[r].rev = couch[k].rev
             /\ couch'[k].car = req[r].car]_vars
  BY ReplaceStep
<1> QED
  BY GatewayInvariant, <1>1, PTL DEF Spec, ReplacedByReader

-----------------------------------------------------------------------------
(***************************************************************************)
(* What requests are told.  An answer is given once and stays, while the   *)
(* chain, the cache and the calls go on: Told says what an answer rests    *)
(* on, and KeptStep that a step takes nothing of that away.                *)
(***************************************************************************)
Origins(k) == {ZeroCar} \cup OnLedger(k) \cup Failed(k)

Told(r) ==
  /\ req[r].pc # "done" => req[r].status # 200
  /\ req[r].op = "invoke" /\ req[r].status = 200 => call[r].pc \in Returned
  /\ req[r].op = "query" /\ req[r].status = 200 =>
       Message2Car(req[r].car) \in Origins(req[r].key)

\* The chain grows, what has failed has failed, and what has returned has returned.
LEMMA KeptStep ==
  ASSUME GatewayInv, [Next]_vars
  PROVE  /\ \A k : Origins(k) \subseteq Origins(k)'
         /\ \A c \in Calls : call[c].pc \in Returned => call'[c].pc = call[c].pc
<1>0. Reqs \subseteq Calls
  BY GatewayAssumption
<1>1. CASE \E r \in Reqs : LocalStep(r)
  <2>1. PICK r \in Reqs : LocalStep(r)
    BY <1>1
  <2>2. call' = call /\ log' = log
    BY <2>1 DEF LocalStep, clientVars, networkVars
  <2>3. \A q \in Reqs : req[q].op = "invoke" =>
          req'[q].op = "invoke" /\ req'[q].key = req[q].key /\ req'[q].car = req[q].car
    BY <2>1 DEF LocalStep
  <2>4. ASSUME NEW k
        PROVE  OnLedger(k)' = OnLedger(k) /\ Failed(k) \subseteq Failed(k)'
    BY <2>2, <2>3 DEF OnLedger, Failed
  <2> QED
    BY <2>2, <2>4 DEF Origins
<1>2. CASE OuterStep
  <2>1. \A c \in Calls : call[c].pc \in Returned => call'[c].pc = call[c].pc
    BY <1>2 DEF OuterStep
  <2>2. \A i \in 1..Len(log) : i \in 1..Len(log') /\ log'[i] = log[i]
    BY <1>2 DEF OuterStep
  <2>3. \A q \in Reqs : req[q].op = "invoke" =>
          req'[q].op = "invoke" /\ req'[q].key = req[q].key /\ req'[q].car = req[q].car
    BY <1>2 DEF OuterStep, GatewayInv, Handlers, Handler
  <2>4. ASSUME NEW k
        PROVE  OnLedger(k) \subseteq OnLedger(k)' /\ Failed(k) \subseteq Failed(k)'
    <3>1. OnLedger(k) \subseteq OnLedger(k)'
      BY <2>2 DEF OnLedger
    <3>2. Failed(k) \subseteq Failed(k)'
      BY <1>0, <2>1, <2>3 DEF Failed, Returned
    <3> QED
      BY <3>1, <3>2
  <2> QED
    BY <2>1, <2>4 DEF Origins
<1> QED
  BY <1>1, <1>2, GatewayStep

\* What a reply leaves alone.
LEMMA ReplyFields ==
  ASSUME req \in [Reqs -> ReqState], NEW r \in Reqs, NEW status, Reply(r, status)
  PROVE  /\ req'[r].status = status /\ req'[r].pc = "done" /\ req'[r].op = req[r].op
         /\ req'[r].key = req[r].key /\ req'[r].car = req[r].car
BY DEF Reply, ReqState

\* An answer of a handler is one it may give.
LEMMA HandleTells ==
  ASSUME GatewayInv, [Next]_vars, NEW r \in Reqs, Told(r), Handle(r)
  PROVE  Told(r)'
<1>1. /\ req \in [Reqs -> ReqState] /\ req[r] \in ReqState /\ Handler(r) /\ r \in Calls
      /\ couch \in [Keys -> [rev : Nat, car : Values \cup {Missing}]]
  BY GatewayAssumption DEF GatewayInv, GatewayTypes, Handlers
<1>2. /\ \A k : Origins(k) \subseteq Origins(k)'
      /\ call[r].pc \in Returned => call'[r].pc = call[r].pc
  BY <1>1, KeptStep
<1>3. CASE ReadRev(r)
  <2>1. req[r].pc = "execute" /\ call'[r].pc \in Returned /\ req[r].op = "invoke"
    BY <1>1, <1>2, <1>3 DEF ReadRev, Handler
  <2>2. CASE \E status \in {200, 500} : Reply(r, status)
    BY <1>1, <2>1, <2>2, ReplyFields DEF Told
  <2>3. CASE req' = [req EXCEPT ![r].pc = "put", ![r].rev = couch[req[r].key].rev]
    <3>1. req'[r].pc = "put" /\ req'[r].op = "invoke" /\ req'[r].status = req[r].status
      BY <1>1, <2>1, <2>3 DEF ReqState
    <3> QED
      BY <2>1, <3>1 DEF Told
  <2> QED
    BY <1>3, <2>2, <2>3 DEF ReadRev
<1>4. CASE PutCar(r)
  <2>1. req[r].op = "invoke" /\ call'[r].pc \in Returned /\ Reply(r, 200)
    BY <1>1, <1>2, <1>4 DEF PutCar, Handler
  <2> QED
    BY <1>1, <2>1, ReplyFields DEF Told
<1>5. CASE GetCached(r)
  <2>1. req[r].pc = "get" /\ req[r].op = "query" /\ req[r].key \in Keys
    BY <1>1, <1>5 DEF GetCached, Handler, Busy
  <2>2. CASE Reply(r, 500)
    BY <1>1, <2>1, <2>2, ReplyFields DEF Told
  <2>3. CASE req' = [req EXCEPT ![r].pc = "find"]
    <3>1. req'[r].pc = "find" /\ req'[r].op = "query" /\ req'[r].status = req[r].status
      BY <1>1, <2>1, <2>3 DEF ReqState
    <3> QED
      BY <2>1, <3>1 DEF Told
  <2>4. CASE /\ couch[req[r].key].rev > 0
             /\ req' = [req EXCEPT ![r].pc = "done", ![r].status = 200,
                                    ![r].car = couch[req[r].key].car]
    <3> DEFINE car == couch[req[r].key].car
               s   == [req[r] EXCEPT !.pc = "done", !.status = 200, !.car = car]
    <3>1. car \in Origins(req[r].key) \/ car = Missing
      BY <2>1, <2>4 DEF GatewayInv, CacheProvenance, Origins
    <3>2. Message2Car(car) \in Origins(req[r].key)
      BY <3>1 DEF Message2Car, Origins
    <3> HIDE DEF car
    <3>3. s.pc = "done" /\ s.op = "query" /\ s.key = req[r].key /\ s.car = car
      BY <1>1, <2>1 DEF ReqState
    <3>4. req' = [req EXCEPT ![r] = s]
      BY <2>4, ZenonT(60) DEF car
    <3> HIDE DEF s
    <3>5. req'[r] = s
      BY <1>1, <3>4
    <3>6. PICK k : k = req[r].key /\ req'[r].key = k
      BY <3>3, <3>5
    <3>7. Message2Car(car) \in Origins(k)'
      BY <1>2, <3>2, <3>6
    <3> QED
      BY <3>3, <3>5, <3>6, <3>7 DEF Told, Origins, Message2Car
  <2> QED
    BY <1>5, <2>2, <2>3, <2>4 DEF GetCached
<1>6. CASE FindOnce(r)
  <2>1. req[r].pc = "find" /\ req[r].op = "query"
    BY <1>1, <1>6 DEF FindOnce, Handler
  <2>2. req'[r].pc \in {"find", "fill"} /\ req'[r].op = "query" /\ req'[r].status = req[r].status
    BY <1>1, <1>6, <2>1 DEF FindOnce, ReqState
  <2> QED
    BY <2>1, <2>2 DEF Told
<1>7. CASE Fill(r)
  <2>1. /\ req[r].op = "query" /\ Reply(r, 200)
        /\ req[r].car \in {Missing} \cup OnLedger(req[r].key)
    BY <1>1, <1>7 DEF Fill, Handler
  <2>2. Message2Car(req[r].car) \in Origins(req[r].key)
    BY <2>1 DEF Message2Car, Origins
  <2>3. /\ req'[r].status = 200 /\ req'[r].pc = "done" /\ req'[r].op = "query"
        /\ req'[r].key = req[r].key /\ req'[r].car = req[r].car
    BY <1>1, <2>1, ReplyFields
  <2>4. PICK k : k = req[r].key /\ req'[r].key = k
    BY <2>3
  <2>5. Message2Car(req[r].car) \in Origins(k)'
    BY <1>2, <2>2, <2>4
  <2> QED
    BY <2>3, <2>4, <2>5 DEF Told, Origins, Message2Car
<1> QED
  BY <1>3, <1>4, <1>5, <1>6, <1>7 DEF Handle

\* A request that has just arrived, or is refused, is told nothing that could be wrong.
LEMMA ArriveTells ==
  ASSUME GatewayInv, NEW r \in Reqs, Told(r), Arrive(r)
  PROVE  Told(r)'
<1>1. /\ req \in [Reqs -> ReqState] /\ req[r] \in ReqState /\ req[r].pc = "idle"
      /\ req[r].op = "none" /\ req[r].status # 200
  BY DEF GatewayInv, GatewayTypes, Handlers, Handler, Told, Arrive, Refuse,
         InvokeArrives, QueryArrives
<1>2. CASE Refuse(r)
  <2>1. PICK status \in {400, 500} : Reply(r, status)
    BY <1>2 DEF Refuse
  <2> QED
    BY <1>1, <2>1, ReplyFields DEF Told
<1>3. ASSUME NEW k \in Keys, NEW car \in Values, InvokeArrives(r, k, car)
      PROVE  Told(r)'
  <2>1. req'[r].pc = "execute" /\ req'[r].status = req[r].status
    BY <1>1, <1>3 DEF InvokeArrives, ReqState
  <2> QED
    BY <1>1, <2>1 DEF Told
<1>4. ASSUME NEW k \in Keys, QueryArrives(r, k)
      PROVE  Told(r)'
  <2>1. req'[r].pc = "get" /\ req'[r].status = req[r].status
    BY <1>1, <1>4 DEF QueryArrives, ReqState
  <2> QED
    BY <1>1, <2>1 DEF Told
<1> QED
  BY <1>2, <1>3, <1>4 DEF Arrive

\* An answer that has been given stays what it was worth.
LEMMA ToldStays ==
  ASSUME GatewayInv, [Next]_vars, NEW r \in Reqs, Told(r),
         \/ req'[r] = req[r]
         \/ req'[r].pc = "lost" /\ req'[r].status = req[r].status /\ req[r].status # 200
  PROVE  Told(r)'
<1>1. /\ \A k : Origins(k) \subseteq Origins(k)'
      /\ call[r].pc \in Returned => call'[r].pc = call[r].pc
  BY KeptStep, GatewayAssumption
<1>2. CASE req'[r] = req[r]
  <2>1. req[r].op = "query" /\ req[r].status = 200 =>
          Message2Car(req[r].car) \in Origins(req[r].key)'
    BY <1>1 DEF Told
  <2> QED
    BY <1>1, <1>2, <2>1 DEF Told, Origins
<1>3. CASE req'[r].pc = "lost" /\ req'[r].status = req[r].status /\ req[r].status # 200
  BY <1>3 DEF Told
<1> QED
  BY <1>2, <1>3

\* Every step keeps what requests have been told.
LEMMA ToldNext ==
  ASSUME GatewayInv, [Next]_vars, \A r \in Reqs : Told(r)
  PROVE  \A r \in Reqs : Told(r)'
<1> SUFFICES ASSUME NEW r \in Reqs
             PROVE  Told(r)'
  OBVIOUS
<1>1. Told(r) /\ req \in [Reqs -> ReqState]
  BY DEF GatewayInv, GatewayTypes
<1>2. CASE Handle(r) \/ Arrive(r)
  BY <1>1, <1>2, HandleTells, ArriveTells
<1>3. CASE Die
  <2>1. req'[r] = IF req[r].pc \in Busy THEN [req[r] EXCEPT !.pc = "lost"] ELSE req[r]
    BY <1>3 DEF Die
  <2>2. req[r] \in ReqState
    BY <1>1
  <2>3. \/ req'[r] = req[r]
        \/ /\ req'[r].pc = "lost" /\ req'[r].status = req[r].status
           /\ req[r].status # 200
    BY <1>1, <2>1, <2>2 DEF ReqState, Busy, Told
  <2> QED
    BY <1>1, <2>3, ToldStays
<1>4. ASSUME NEW q \in Reqs, q # r, Handle(q) \/ Arrive(q)
      PROVE  Told(r)'
  <2>1. CASE Handle(q)
    BY <1>1, <1>4, <2>1, HandleLocal, ToldStays DEF LocalStep
  <2>2. CASE Arrive(q)
    <3>1. ASSUME NEW k \in Keys, NEW car \in Values, InvokeArrives(q, k, car)
          PROVE  req'[r] = req[r]
      BY <1>1, <1>4, <3>1 DEF InvokeArrives
    <3>2. req'[r] = req[r]
      BY <1>4, <2>2, <3>1, RefuseLocal, QueryArrivesLocal DEF Arrive, LocalStep
    <3> QED
      BY <1>1, <3>2, ToldStays
  <2> QED
    BY <1>4, <2>1, <2>2
<1>5. CASE req' = req
  BY <1>1, <1>5, ToldStays
<1>6. ~(\E q \in Reqs : Handle(q) \/ Arrive(q)) /\ ~Die => req' = req
  BY DEF Next, SdkStep, Restart, Booted, vars, gatewayVars
<1> QED
  BY <1>2, <1>3, <1>4, <1>5, <1>6

\* In every state, requests have been told what they may be told.
LEMMA ToldInvariant == Spec => [](\A r \in Reqs : Told(r))
<1>1. Init => \A r \in Reqs : Told(r)
  BY DEF Init, NoRequest, Told
<1>2. GatewayInv /\ [Next]_vars /\ (\A r \in Reqs : Told(r)) => (\A r \in Reqs : Told(r))'
  BY ToldNext
<1> QED
  BY <1>1, <1>2, GatewayInvariant, PTL DEF Spec

\* For any number of requests, restarts and peers: what a query is told has been on
\* the ledger, or is Car{}, or comes from an invoke whose Execute had failed.
THEOREM QueriesHaveOrigin == Spec => []AnswersHaveOrigin
<1>1. (\A r \in Reqs : Told(r)) => AnswersHaveOrigin
  BY DEF Told, AnswersHaveOrigin, Origins
<1> QED
  BY ToldInvariant, <1>1, PTL

\* For any number of retries: a success told to an invoke is false only when its
\* Execute had returned an error, which base.go:536 drops.
THEOREM FalseSuccessIsFailure == Spec => []SuccessIsCommittedOrFailed
<1>1. GatewayInv /\ (\A r \in Reqs : Told(r)) => SuccessIsCommittedOrFailed
  <2> SUFFICES ASSUME GatewayInv, NEW r \in Reqs, Told(r),
                      req[r].op = "invoke", req[r].status = 200, call[r].pc # "failed"
               PROVE  Committed(r)
    BY DEF SuccessIsCommittedOrFailed
  <2>1. r \in Calls /\ call[r].pc = "ok"
    BY GatewayAssumption DEF Told, Returned
  <2>2. PICK p \in Peers : Decided(<<r, call[r].txid>>, TRUE, height[p])
    BY <2>1 DEF GatewayInv, ClientInv, OkIsCommitted
  <2>3. PICK i \in 2..height[p] : log[i].tx = <<r, call[r].txid>> /\ log[i].valid = TRUE
    BY <2>2 DEF Decided
  <2>4. i \in 2..Len(log)
    BY <2>3 DEF GatewayInv, ClientInv, ClientTypes, ClientTypeOK
  <2>5. call[r].txid \in Attempts
    BY <2>3, <2>4 DEF GatewayInv, ClientInv, OnlySentIsOrdered, TxIds
  <2> QED
    BY <2>3, <2>4, <2>5 DEF Committed, Decided
<1> QED
  BY ToldInvariant, GatewayInvariant, <1>1, PTL

\* What the SDK promises of a call holds inside the gateway too, where the process
\* that makes the calls is killed and started again: an id takes effect once, and
\* success is reported of what a peer has committed.
THEOREM GatewayCallsAreSafe == Spec => [](OnlySentIsOrdered /\ IdsCommitOnce /\ OkIsCommitted)
<1>1. GatewayInv => OnlySentIsOrdered /\ IdsCommitOnce /\ OkIsCommitted
  BY DEF GatewayInv, ClientInv
<1> QED
  BY GatewayInvariant, <1>1, PTL

-----------------------------------------------------------------------------
(***************************************************************************)
(* The work of a request: every step of its handler or of its call leaves  *)
(* less of it, and no other step but the death of the process changes it.  *)
(***************************************************************************)

\* A handler at work has a step left.
LEMMA HandlerLeftRange ==
  ASSUME GatewayInv, NEW r \in Reqs
  PROVE  HandlerLeft(r) \in Nat /\ (req[r].pc \in Busy => HandlerLeft(r) >= 1)
<1>1. req[r] \in ReqState /\ Handler(r)
  BY DEF GatewayInv, GatewayTypes, Handlers
<1>2. /\ req[r].tries \in Nat
      /\ req[r].pc = "find" => req[r].tries < MaxFinds
  BY <1>1 DEF Handler, ReqState
<1> QED
  BY <1>2, GatewayAssumption DEF HandlerLeft, Busy

\* A step of a handler leaves it less to do.
LEMMA HandleLeavesLess ==
  ASSUME GatewayInv, NEW r \in Reqs, Handle(r)
  PROVE  HandlerLeft(r)' \in 0..(HandlerLeft(r) - 1)
<1>1. /\ req \in [Reqs -> ReqState] /\ req[r] \in ReqState /\ Handler(r)
      /\ req[r].tries \in Nat
  BY DEF GatewayInv, GatewayTypes, Handlers, ReqState
<1>2. HandlerLeft(r) \in Nat /\ (req[r].pc \in Busy => HandlerLeft(r) >= 1)
  BY HandlerLeftRange
<1>3. ASSUME req[r].pc \in Busy, NEW status, Reply(r, status)
      PROVE  HandlerLeft(r)' \in 0..(HandlerLeft(r) - 1)
  <2>1. req'[r].pc = "done"
    BY <1>1, <1>3 DEF Reply, ReqState
  <2> QED
    BY <1>2, <1>3, <2>1 DEF HandlerLeft
<1>4. CASE ReadRev(r)
  <2>1. CASE \E status \in {200, 500} : Reply(r, status)
    BY <1>3, <1>4, <2>1 DEF ReadRev, Busy
  <2>2. CASE req' = [req EXCEPT ![r].pc = "put", ![r].rev = couch[req[r].key].rev]
    <3>1. req'[r].pc = "put"
      BY <1>1, <2>2 DEF ReqState
    <3> QED
      BY <1>4, <3>1 DEF ReadRev, HandlerLeft
  <2> QED
    BY <1>4, <2>1, <2>2 DEF ReadRev
<1>5. CASE PutCar(r) \/ Fill(r)
  BY <1>3, <1>5 DEF PutCar, Fill, Busy
<1>6. CASE GetCached(r)
  <2>1. CASE Reply(r, 500)
    BY <1>3, <1>6, <2>1 DEF GetCached, Busy
  <2>2. CASE req' = [req EXCEPT ![r].pc = "done", ![r].status = 200,
                                ![r].car = couch[req[r].key].car]
    <3>1. req'[r].pc = "done"
      BY <1>1, <2>2 DEF ReqState
    <3> QED
      BY <1>2, <1>6, <3>1 DEF GetCached, HandlerLeft, Busy
  <2>3. CASE req' = [req EXCEPT ![r].pc = "find"]
    <3>1. req'[r].pc = "find" /\ req'[r].tries = 0
      BY <1>1, <1>6, <2>3 DEF ReqState, Handler, GetCached
    <3> QED
      BY <1>6, <3>1, GatewayAssumption DEF GetCached, HandlerLeft
  <2> QED
    BY <1>6, <2>1, <2>2, <2>3 DEF GetCached
<1>7. CASE FindOnce(r)
  <2>1. PICK v \in {At(p)[req[r].key] : p \in Peers} \cup {Missing} :
          req' = [req EXCEPT
            ![r].pc = IF v # Missing \/ req[r].tries + 1 = MaxFinds THEN "fill" ELSE "find",
            ![r].tries = @ + 1,
            ![r].car = v]
    BY <1>7 DEF FindOnce
  <2>2. req[r].pc = "find" /\ req[r].tries < MaxFinds
    BY <1>1, <1>7 DEF FindOnce, Handler
  <2>3. req'[r].pc \in {"find", "fill"} /\ req'[r].tries = req[r].tries + 1
    BY <1>1, <2>1 DEF ReqState
  <2> QED
    BY <1>1, <2>2, <2>3, GatewayAssumption DEF HandlerLeft
<1> QED
  BY <1>4, <1>5, <1>6, <1>7 DEF Handle

\* A request at work is changed by its handler, its call, or the death of the process.
LEMMA WorkStep ==
  ASSUME GatewayInv, [Next]_vars, NEW r \in Reqs, req[r].pc \in Busy,
         <<req'[r], call'[r]>> # <<req[r], call[r]>>
  PROVE  Handle(r) \/ SdkStep(r) \/ Die
<1>1. /\ req \in [Reqs -> ReqState] /\ call \in [Calls -> CallState]
      /\ r \in Calls /\ \A b \in Boots : b # r
  BY GatewayAssumption DEF GatewayInv, GatewayTypes, ClientInv, ClientTypes, ClientTypeOK
<1>2. ASSUME NEW q \in Reqs, Arrive(q)
      PROVE  FALSE
  <2>1. req[q].pc = "idle" /\ q # r
    BY <1>2 DEF Arrive, Refuse, InvokeArrives, QueryArrives, Busy
  <2>2. req'[r] = req[r]
    <3>1. CASE Refuse(q) \/ \E k \in Keys : QueryArrives(q, k)
      BY <2>1, <3>1, RefuseLocal, QueryArrivesLocal DEF LocalStep
    <3>2. ASSUME NEW k \in Keys, NEW car, InvokeArrives(q, k, car)
          PROVE  req'[r] = req[r]
      BY <1>1, <2>1, <3>2 DEF InvokeArrives
    <3> QED
      BY <1>2, <3>1, <3>2 DEF Arrive
  <2>3. call'[r] = call[r]
    BY <1>1, <1>2, <2>1
    DEF Arrive, Refuse, InvokeArrives, QueryArrives, Submit, clientVars
  <2> QED
    BY <2>2, <2>3
<1>3. ASSUME NEW q \in Reqs, q # r, Handle(q)
      PROVE  FALSE
  BY <1>3, HandleLocal DEF LocalStep, clientVars
<1>4. ASSUME NEW c \in Calls, c # r, SdkStep(c)
      PROVE  FALSE
  <2>1. CallEffect(c) /\ req' = req
    BY <1>4, CallStepEffect DEF SdkStep, gatewayVars, GatewayInv, ClientInv
  <2> QED
    BY <1>1, <1>4, <2>1 DEF CallEffect
<1>5. CASE Network /\ UNCHANGED gatewayVars
  BY <1>5 DEF Network, Accept, Commit, CatchUp, gatewayVars
<1>6. ASSUME NEW b \in Boots, Restart(b)
      PROVE  FALSE
  <2>1. b # r /\ req' = req /\ call'[r] = call[r]
    BY <1>1, <1>6, GatewayAssumption DEF Restart, Submit
  <2> QED
    BY <2>1
<1>7. CASE Booted
  BY <1>7 DEF Booted, clientVars
<1>8. CASE UNCHANGED vars
  BY <1>8 DEF vars, clientVars, gatewayVars
<1> QED
  BY <1>2, <1>3, <1>4, <1>5, <1>6, <1>7, <1>8 DEF Next

\* Each of them leaves it less to do.
LEMMA WorkLeavesLess ==
  ASSUME GatewayInv, [Next]_vars, NEW r \in Reqs, req[r].pc \in Busy,
         <<req'[r], call'[r]>> # <<req[r], call[r]>>
  PROVE  WorkLeft(r)' \in 0..(WorkLeft(r) - 1)
<1>1. r \in Calls /\ ClientTypes /\ ClientTypes'
  BY GatewayAssumption, GatewayNextInv DEF GatewayInv, ClientInv
<1>2. /\ HandlerLeft(r) \in Nat /\ HandlerLeft(r) >= 1
      /\ StepsLeft(r) \in Nat
  BY <1>1, HandlerLeftRange, StepsLeftRange
<1>3. CASE Handle(r)
  <2>1. HandlerLeft(r)' \in 0..(HandlerLeft(r) - 1)
    BY <1>3, HandleLeavesLess
  <2>2. call' = call
    BY <1>3, HandleLocal DEF LocalStep, clientVars
  <2>3. StepsLeft(r)' = StepsLeft(r)
    BY <2>2 DEF StepsLeft
  <2> QED
    BY <1>2, <2>1, <2>3 DEF WorkLeft
<1>4. CASE SdkStep(r)
  <2>1. StepsLeft(r)' \in 0..(StepsLeft(r) - 1)
    BY <1>1, <1>4, CallStepLeavesLess DEF SdkStep
  <2>2. HandlerLeft(r)' = HandlerLeft(r)
    BY <1>4 DEF SdkStep, gatewayVars, HandlerLeft
  <2> QED
    BY <1>2, <2>1, <2>2 DEF WorkLeft
<1>5. CASE Die
  <2>1. req'[r].pc = "lost"
    BY <1>5 DEF Die, GatewayInv, GatewayTypes, ReqState
  <2>2. HandlerLeft(r)' = 0
    BY <2>1 DEF HandlerLeft
  <2>3. call'[r].pc \notin Active
    BY <1>1, <1>5 DEF Die, Abandon, ClientTypes, ClientTypeOK, CallState, Active
  <2>4. StepsLeft(r)' = 0
    BY <2>3 DEF StepsLeft
  <2> QED
    BY <1>2, <2>2, <2>4 DEF WorkLeft
<1> QED
  BY <1>3, <1>4, <1>5, WorkStep

\* A request takes boundedly many steps, whatever the network, CouchDB and the other
\* requests do: the safety half of RequestsAreAnswered, for any bounds on retries.
THEOREM RequestsDoBoundedWork == Spec => RequestsAreBounded
<1>1. GatewayInv /\ [Next]_vars =>
        \A r \in Reqs :
          req[r].pc \in Busy /\ <<req'[r], call'[r]>> # <<req[r], call[r]>> =>
            WorkLeft(r)' \in 0..(WorkLeft(r) - 1)
  BY WorkLeavesLess
<1> QED
  BY GatewayInvariant, <1>1, PTL DEF Spec, RequestsAreBounded
=============================================================================
