----------------------- MODULE GatewayCoherence_proofs -----------------------
(***************************************************************************)
(* The account of a stale cache given in GatewayCoherence is complete, for *)
(* any number of requests, restarts, peers, keys and retries.              *)
(*                                                                         *)
(* CoherentUnlessSuspect looks at keys nobody works on.  What makes it     *)
(* inductive is what is true of a trusted key while it is worked on, and   *)
(* that is Trusted(k): one request at most writes it, its envelope is the  *)
(* only one that can still reach the chain, the revision it has read is    *)
(* the current one, and what a query has found is what the ledger holds.   *)
(***************************************************************************)
EXTENDS GatewayCoherence, Gateway_proofs

\* Who has made which call: requests as invokes, a restart its reset.
Calling ==
  /\ \A r \in Reqs : call[r].pc # "none" => req[r].op = "invoke"
  /\ boot # Missing => call[boot].pc # "none"

\* The calls that write k have succeeded or belong to a request that runs them.
Writers(k) ==
  \A c \in Calls : call[c].pc # "none" /\ k \in DOMAIN call[c].writes =>
    /\ c \in Reqs
    /\ call[c].pc \in Active \cup {"ok"}
    /\ call[c].pc \in Active => req[c].pc = "execute"

\* An envelope that can still put k on the chain is that of a current attempt.
OnTheWay(t) == t \in wire \/ \E i \in 1..Len(queue) : queue[i] = t

Pending(k) ==
  \A t \in TxIds : OnTheWay(t) /\ k \in DOMAIN call[t[1]].writes =>
    t = Tx(t[1]) /\ call[t[1]].pc \in {"sent", "wait"}

\* What an invoke under way has put on the chain is still the value of k.
OnTop(k) ==
  \A r \in BusyOn(k), i \in 2..Len(log) :
    req[r].op = "invoke" /\ log[i].valid /\ log[i].tx[1] = r => Top[k] = req[r].car

Revs(k)  == \A r \in BusyOn(k) : req[r].pc = "put" => req[r].rev = couch[k].rev
Found(k) == \A r \in BusyOn(k) : req[r].pc = "fill" => req[r].car = Top[k]

\* Between the invokes of k its document is exact.
Settled(k) ==
  (\A r \in BusyOn(k) : req[r].op # "invoke") /\ couch[k].rev > 0 =>
    couch[k].car = Message2Car(Top[k])

Trusted(k) ==
  /\ ~ Overlap(k)
  /\ Writers(k) /\ Pending(k)
  /\ OnTop(k) /\ Revs(k) /\ Found(k) /\ Settled(k)

CohInv ==
  /\ GatewayInv
  /\ Calling
  /\ \A k \in Keys \ suspect : Trusted(k)

(***************************************************************************)
(* Facts of one state.                                                     *)
(***************************************************************************)

\* A request that writes k under its own call, or works on it, is an invoke of k.
LEMMA WriterIsBusy ==
  ASSUME GatewayInv, Calling, NEW k \in Keys, Writers(k),
         NEW c \in Calls, call[c].pc \in Active, k \in DOMAIN call[c].writes
  PROVE  /\ c \in BusyOn(k) /\ req[c].op = "invoke" /\ req[c].pc = "execute"
         /\ call[c].writes[k] = req[c].car
<1>1. c \in Reqs /\ req[c].pc = "execute"
  BY DEF Writers, Active
<1>2. req[c].op = "invoke" /\ call[c].writes = [x \in {req[c].key} |-> req[c].car]
  BY <1>1 DEF GatewayInv, Handlers, Handler
<1> QED
  BY <1>1, <1>2 DEF BusyOn, Busy

\* An invoke under way is alone on its key.
LEMMA InvokeIsAlone ==
  ASSUME NEW k, ~ Overlap(k), NEW r \in BusyOn(k), NEW q \in BusyOn(k),
         req[r].op = "invoke"
  PROVE  q = r
BY DEF Overlap

\* Nothing of a call that has not been made is on its way or on the chain.
LEMMA NotCalledNotSent ==
  ASSUME ClientInv, NEW c \in Calls, call[c].pc = "none"
  PROVE  /\ \A t \in TxIds : OnTheWay(t) => t[1] # c
         /\ \A i \in 2..Len(log) : log[i].tx[1] # c
<1>1. \A t \in TxIds : t[1] = c => ~ Sent(t)
  BY ClientAssumption DEF Sent, ClientInv, ClientTypes, Started, TxIds, Attempts
<1> QED
  BY <1>1 DEF ClientInv, OnlySentIsOrdered, OnTheWay

(***************************************************************************)
(* A key that a step does not concern.                                     *)
(***************************************************************************)

\* Nothing the key depends on changes.
LEMMA StillTrusted ==
  ASSUME NEW k, Trusted(k), UNCHANGED <<clientVars, req, couch>>
  PROVE  Trusted(k)'
<1>1. /\ call' = call /\ wire' = wire /\ queue' = queue /\ log' = log
      /\ req' = req /\ couch' = couch
  BY DEF clientVars, networkVars
<1>2. BusyOn(k)' = BusyOn(k) /\ (~ Overlap(k))'
  BY <1>1 DEF BusyOn, Overlap, Trusted
<1>3. Writers(k)' /\ Pending(k)'
  BY <1>1 DEF Trusted, Writers, Pending, OnTheWay, Tx
<1>4. OnTop(k)' /\ Revs(k)' /\ Found(k)' /\ Settled(k)'
  BY <1>1, <1>2 DEF Trusted, OnTop, Revs, Found, Settled, Top
<1> QED
  BY <1>2, <1>3, <1>4 DEF Trusted

\* What a step of request r on another key leaves alone.
Elsewhere(r, k) ==
  /\ UNCHANGED clientVars
  /\ \A q \in Reqs \ {r} : req'[q] = req[q]
  /\ r \notin BusyOn(k) /\ r \notin BusyOn(k)'
  /\ couch'[k] = couch[k]

\* A handler that works on another key keeps the trust in this one.
LEMMA ElsewhereTrusted ==
  ASSUME CohInv, NEW k \in Keys \ suspect, NEW r \in Reqs, Elsewhere(r, k)
  PROVE  Trusted(k)'
<1>1. /\ call' = call /\ wire' = wire /\ queue' = queue /\ log' = log
      /\ couch'[k] = couch[k] /\ \A q \in Reqs \ {r} : req'[q] = req[q]
      /\ Trusted(k) /\ GatewayInv /\ Calling
  BY DEF Elsewhere, clientVars, networkVars, CohInv
<1>2. BusyOn(k)' = BusyOn(k) /\ \A q \in BusyOn(k) : req'[q] = req[q]
  BY <1>1 DEF BusyOn, Elsewhere
<1>3. (~ Overlap(k))'
  BY <1>1, <1>2 DEF Overlap, Trusted
<1>4. Writers(k)'
  <2>1. ASSUME NEW c \in Calls, call[c].pc \in Active, k \in DOMAIN call[c].writes
        PROVE  c # r /\ c \in Reqs
    BY <1>1, <2>1, WriterIsBusy DEF Elsewhere, Trusted, BusyOn
  <2> QED
    BY <1>1, <2>1 DEF Writers, Trusted
<1>5. Pending(k)'
  BY <1>1 DEF Trusted, Pending, OnTheWay, Tx
<1>6. OnTop(k)' /\ Revs(k)' /\ Found(k)' /\ Settled(k)'
  BY <1>1, <1>2 DEF Trusted, OnTop, Revs, Found, Settled, Top
<1> QED
  BY <1>3, <1>4, <1>5, <1>6 DEF Trusted

(***************************************************************************)
(* Steps of a handler that works on the key.                               *)
(***************************************************************************)

\* A handler whose Execute has returned, or that has none, leaves the calls of k
\* and their envelopes as they are.
LEMMA HandlerKeepsCalls ==
  ASSUME CohInv, NEW k \in Keys \ suspect, NEW r \in Reqs, LocalStep(r),
         call[r].pc \notin Active
  PROVE  Writers(k)' /\ Pending(k)'
<1>1. /\ call' = call /\ wire' = wire /\ queue' = queue /\ log' = log
      /\ \A q \in Reqs \ {r} : req'[q] = req[q]
      /\ Writers(k) /\ Pending(k)
  BY DEF LocalStep, clientVars, networkVars, CohInv, Trusted
<1>2. Writers(k)'
  BY <1>1 DEF Writers
<1>3. Pending(k)'
  BY <1>1 DEF Pending, OnTheWay, Tx
<1> QED
  BY <1>2, <1>3

\* Reading the revision: the Put that follows will find it current.
LEMMA ReadRevTrusted ==
  ASSUME CohInv, NEW k \in Keys \ suspect, ~ Cause(k),
         NEW r \in BusyOn(k), ReadRev(r)
  PROVE  Trusted(k)'
<1>1. /\ r \in Reqs /\ req[r].key = k /\ req[r].pc = "execute"
      /\ call[r].pc \in Returned /\ Handler(r) /\ GatewayInv /\ Trusted(k)
      /\ req \in [Reqs -> ReqState] /\ req[r] \in ReqState
  BY DEF BusyOn, ReadRev, CohInv, GatewayInv, GatewayTypes, Handlers
<1>2. /\ call' = call /\ log' = log /\ couch' = couch
      /\ \A q \in Reqs \ {r} : req'[q] = req[q]
      /\ LocalStep(r)
  BY <1>1, ReadRevLocal DEF LocalStep, clientVars, networkVars, ReadRev
<1>3. req[r].op = "invoke" /\ BusyOn(k) = {r}
  BY <1>1, InvokeIsAlone DEF Handler, Trusted
<1>4. ASSUME NEW status, Reply(r, status)
      PROVE  FALSE
  <2>1. req'[r].pc = "done"
    BY <1>1, <1>4 DEF Reply, ReqState
  <2> QED
    BY <1>1, <1>3, <2>1 DEF Cause, CacheUnreachable
<1>5. req' = [req EXCEPT ![r].pc = "put", ![r].rev = couch[req[r].key].rev]
  BY <1>4 DEF ReadRev
<1>6. /\ req'[r].pc = "put" /\ req'[r].op = "invoke" /\ req'[r].key = k
      /\ req'[r].car = req[r].car /\ req'[r].rev = couch[k].rev
  BY <1>1, <1>3, <1>5 DEF ReqState
<1>7. BusyOn(k)' = {r}
  BY <1>2, <1>3, <1>6 DEF BusyOn, Busy
<1>8. Writers(k)' /\ Pending(k)'
  BY <1>1, <1>2, HandlerKeepsCalls DEF Returned, Active
<1>9. OnTop(k)' /\ Revs(k)' /\ Found(k)' /\ Settled(k)'
  BY <1>1, <1>2, <1>3, <1>6, <1>7 DEF Trusted, OnTop, Revs, Found, Settled, Top
<1> QED
  BY <1>8, <1>9 DEF Trusted, Cause

\* The Put of an invoke: Execute has succeeded, so the ledger has the car.
LEMMA PutCarTrusted ==
  ASSUME CohInv, NEW k \in Keys \ suspect, ~ Cause(k),
         NEW r \in BusyOn(k), PutCar(r)
  PROVE  Trusted(k)'
<1>1. /\ r \in Reqs /\ r \in Calls /\ req[r].key = k /\ req[r].pc = "put" /\ Handler(r)
      /\ req \in [Reqs -> ReqState] /\ req[r] \in ReqState
      /\ couch \in [Keys -> [rev : Nat, car : Values \cup {Missing}]]
      /\ GatewayInv /\ Trusted(k)
  BY GatewayAssumption DEF BusyOn, PutCar, CohInv, GatewayInv, GatewayTypes, Handlers
<1>2. /\ call' = call /\ log' = log /\ LocalStep(r)
      /\ \A q \in Reqs \ {r} : req'[q] = req[q]
  BY <1>1, PutCarLocal DEF LocalStep, clientVars, networkVars
<1>3. /\ req[r].op = "invoke" /\ BusyOn(k) = {r} /\ call[r].pc \in Returned
      /\ call[r].writes = [x \in {k} |-> req[r].car]
      /\ req[r].rev = couch[k].rev
  BY <1>1, InvokeIsAlone DEF Handler, Trusted, Revs
<1>4. call[r].pc = "ok"
  BY <1>1, <1>3 DEF Trusted, Writers, Returned, Active
<1>5. Top[k] = req[r].car
  <2>1. PICK p \in Peers : Decided(<<r, call[r].txid>>, TRUE, height[p])
    BY <1>1, <1>4 DEF GatewayInv, ClientInv, OkIsCommitted
  <2>2. PICK i \in 2..height[p] : log[i].tx = <<r, call[r].txid>> /\ log[i].valid
    BY <2>1 DEF Decided
  <2>3. i \in 2..Len(log)
    BY <1>1, <2>2 DEF GatewayInv, ClientInv, ClientTypes, ClientTypeOK
  <2> QED
    BY <1>1, <1>3, <2>2, <2>3 DEF Trusted, OnTop
<1>6. Message2Car(req[r].car) = req[r].car
  <2>1. call[r].writes \in WriteSet
    BY <1>1 DEF GatewayInv, ClientInv, ClientTypes, ClientTypeOK, CallState
  <2>2. call[r].writes[k] \in Values
    BY <1>3, <2>1 DEF WriteSet
  <2> QED
    BY <1>3, <2>2, ClientAssumption DEF Message2Car
<1>7. req'[r].pc = "done" /\ Put(k, req[r].car, couch[k].rev)
  BY <1>1, <1>3 DEF PutCar, Reply, ReqState
<1>8. ~ UNCHANGED couch
  BY <1>1, <1>3, <1>7 DEF Cause, CacheUnreachable
<1>9. couch'[k].car = req[r].car
  BY <1>1, <1>7, <1>8 DEF Put
<1>10. BusyOn(k)' = {}
  BY <1>2, <1>3, <1>7 DEF BusyOn, Busy
<1>11. Writers(k)' /\ Pending(k)'
  BY <1>1, <1>2, <1>3, HandlerKeepsCalls DEF Returned, Active
<1>12. OnTop(k)' /\ Revs(k)' /\ Found(k)' /\ Settled(k)'
  BY <1>2, <1>5, <1>6, <1>9, <1>10 DEF OnTop, Revs, Found, Settled, Top
<1> QED
  BY <1>11, <1>12 DEF Trusted, Cause

\* The query's part: no invoke is under way, and none appears.
LEMMA QueryTrusted ==
  ASSUME CohInv, NEW k \in Keys \ suspect, ~ Cause(k),
         NEW r \in Reqs, LocalStep(r), req'[r].op = "query", req[r].op # "invoke",
         req'[r].pc = "fill" => req'[r].key # k \/ req'[r].car = Top[k],
         \/ couch'[k] = couch[k]
         \/ couch'[k].car = Message2Car(Top[k]),
         r \in BusyOn(k) \/ r \in BusyOn(k)'
  PROVE  Trusted(k)'
<1>1. /\ call' = call /\ log' = log /\ GatewayInv /\ Trusted(k)
      /\ \A q \in Reqs \ {r} : req'[q] = req[q]
      /\ Handler(r)' /\ ~ Overlap(k)'
  BY DEF LocalStep, clientVars, networkVars, CohInv, Cause
<1>2. \A q \in BusyOn(k)' \ {r} : q \in BusyOn(k) /\ req'[q] = req[q] /\ q \in Reqs
  BY <1>1 DEF BusyOn
<1>3. \A q \in BusyOn(k) : req[q].op # "invoke"
  <2>1. ASSUME NEW q \in BusyOn(k), req[q].op = "invoke"
        PROVE  FALSE
    <3>1. q # r /\ q \in BusyOn(k)' /\ req'[q].op = "invoke"
      BY <1>1, <2>1 DEF BusyOn
    <3>2. CASE r \in BusyOn(k)
      BY <1>1, <2>1, <3>1, <3>2 DEF Trusted, Overlap
    <3>3. CASE r \in BusyOn(k)'
      BY <1>1, <3>1, <3>3 DEF Overlap
    <3> QED
      BY <3>2, <3>3
  <2> QED
    BY <2>1
<1>4. \A q \in BusyOn(k)' : req'[q].op # "invoke" /\ req'[q].pc # "put"
  <2>1. ASSUME NEW q \in BusyOn(k)' \ {r}
        PROVE  req'[q].op # "invoke" /\ req'[q].pc # "put"
    <3>1. Handler(q) /\ req'[q] = req[q] /\ req[q].op # "invoke"
      BY <1>1, <1>2, <1>3 DEF GatewayInv, Handlers
    <3> QED
      BY <3>1 DEF Handler
  <2>2. req'[r].op # "invoke" /\ req'[r].pc # "put"
    BY <1>1 DEF Handler
  <2> QED
    BY <2>1, <2>2
<1>5. call[r].pc \notin Active
  <2>1. call[r].pc = "none"
    BY DEF CohInv, Calling
  <2> QED
    BY <2>1 DEF Active
<1>6. Writers(k)' /\ Pending(k)'
  BY <1>5, HandlerKeepsCalls
<1>7. OnTop(k)' /\ Revs(k)'
  BY <1>4 DEF OnTop, Revs
<1>8. Found(k)'
  <2>1. Top' = Top
    BY <1>1 DEF Top
  <2>2. \A q \in BusyOn(k)' \ {r} : req'[q].pc = "fill" => req'[q].car = Top[k]
    BY <1>1, <1>2 DEF Trusted, Found
  <2>3. r \in BusyOn(k)' => req'[r].key = k
    BY DEF BusyOn
  <2> QED
    BY <2>1, <2>2, <2>3 DEF Found
<1>9. Settled(k)'
  BY <1>1, <1>3 DEF Settled, Trusted, Top, Message2Car
<1> QED
  BY <1>1, <1>6, <1>7, <1>8, <1>9 DEF Trusted

\* A round of Find leaves the request's identity alone.
LEMMA FindOnceKeeps ==
  ASSUME req \in [Reqs -> ReqState], NEW r \in Reqs, FindOnce(r)
  PROVE  req'[r].op = req[r].op /\ req'[r].key = req[r].key
<1>1. PICK v :
        req' = [req EXCEPT
          ![r].pc = IF v # Missing \/ req[r].tries + 1 = MaxFinds THEN "fill" ELSE "find",
          ![r].tries = @ + 1,
          ![r].car = v]
  BY DEF FindOnce
<1> DEFINE pc == IF v # Missing \/ req[r].tries + 1 = MaxFinds THEN "fill" ELSE "find"
           n  == req[r].tries + 1
           s  == [req[r] EXCEPT !.pc = pc, !.tries = n, !.car = v]
<1>2. req' = [req EXCEPT ![r] = s]
  BY <1>1
<1>3. s.op = req[r].op /\ s.key = req[r].key
  <2> HIDE DEF pc, n
  <2> QED
    BY DEF ReqState
<1> HIDE DEF s
<1> QED
  BY <1>2, <1>3

\* Answering from the cache, looking up the ledger, filling the cache.
LEMMA ReadTrusted ==
  ASSUME CohInv, NEW k \in Keys \ suspect, ~ Cause(k),
         NEW r \in BusyOn(k), GetCached(r) \/ FindOnce(r) \/ Fill(r)
  PROVE  Trusted(k)'
<1>1. /\ r \in Reqs /\ req[r].key = k /\ Handler(r) /\ GatewayInv /\ Trusted(k)
      /\ req \in [Reqs -> ReqState] /\ req[r] \in ReqState
      /\ req[r].pc \in {"get", "find", "fill"}
  BY DEF BusyOn, GetCached, FindOnce, Fill, CohInv, GatewayInv, GatewayTypes, Handlers
<1>2. LocalStep(r)
  BY <1>1, GetCachedLocal, FindOnceLocal, FillLocal
<1>3. req[r].op = "query"
  BY <1>1 DEF Handler
<1>4. CASE GetCached(r)
  <2>1. req'[r].op = "query" /\ req'[r].pc # "fill" /\ couch' = couch
    BY <1>1, <1>3, <1>4 DEF GetCached, Reply, ReqState
  <2> QED
    BY <1>1, <1>2, <1>3, <2>1, QueryTrusted
<1>5. CASE FindOnce(r)
  <2>1. req'[r].op = "query" /\ req[r].pc = "find" /\ couch' = couch
    BY <1>1, <1>3, <1>5, FindOnceKeeps DEF FindOnce
  <2>2. req'[r].pc = "fill" => req'[r].car = Top[k]
    BY <2>1 DEF Cause, StaleFind
  <2> QED
    BY <1>1, <1>2, <1>3, <2>1, <2>2, QueryTrusted
<1>6. CASE Fill(r)
  <2>1. req'[r].op = "query" /\ req'[r].pc = "done" /\ req[r].pc = "fill"
    BY <1>1, <1>3, <1>6 DEF Fill, Reply, ReqState
  <2>2. req[r].car = Top[k]
    BY <1>1, <2>1 DEF Trusted, Found
  <2>3. Put(k, Message2Car(Top[k]), 0)
    BY <1>1, <1>6, <2>2 DEF Fill
  <2>4. couch'[k] = couch[k] \/ couch'[k].car = Message2Car(Top[k])
    BY <2>3 DEF Put, CohInv, GatewayInv, GatewayTypes
  <2> QED
    BY <1>1, <1>2, <1>3, <2>1, <2>4, QueryTrusted
<1> QED
  BY <1>4, <1>5, <1>6

\* A handler keeps the trust in a key that none of the causes concerns.
LEMMA HandleTrusted ==
  ASSUME CohInv, NEW k \in Keys \ suspect, ~ Cause(k), NEW r \in Reqs, Handle(r)
  PROVE  Trusted(k)'
<1>1. /\ req \in [Reqs -> ReqState] /\ req[r] \in ReqState /\ GatewayInv
      /\ couch \in [Keys -> [rev : Nat, car : Values \cup {Missing}]]
      /\ UNCHANGED clientVars /\ \A q \in Reqs \ {r} : req'[q] = req[q]
  BY HandleLocal DEF CohInv, GatewayInv, GatewayTypes, LocalStep
<1>2. CASE r \in BusyOn(k)
  BY <1>2, ReadRevTrusted, PutCarTrusted, ReadTrusted DEF Handle
<1>3. CASE r \notin BusyOn(k)
  <2>1. req[r].pc \in Busy
    BY DEF Handle, ReadRev, PutCar, GetCached, FindOnce, Fill, Busy
  <2>2. PICK x : x = req[r].key
    OBVIOUS
  <2>3. x # k
    BY <1>3, <2>1, <2>2 DEF BusyOn
  <2>4. req'[r].key = x
    <3>1. CASE \E status : Reply(r, status)
      BY <1>1, <2>2, <3>1 DEF Reply, ReqState
    <3>2. CASE ReadRev(r) /\ ~ \E status : Reply(r, status)
      BY <1>1, <2>2, <3>2 DEF ReadRev, ReqState
    <3>3. CASE GetCached(r) /\ ~ \E status : Reply(r, status)
      BY <1>1, <2>2, <3>3 DEF GetCached, ReqState
    <3>4. CASE FindOnce(r)
      BY <1>1, <2>2, <3>4, FindOnceKeeps
    <3> QED
      BY <3>1, <3>2, <3>3, <3>4 DEF Handle, PutCar, Fill
  <2>5. couch'[k] = couch[k]
    BY <1>1, <2>2, <2>3 DEF Handle, ReadRev, PutCar, GetCached, FindOnce, Fill, Put
  <2>6. Elsewhere(r, k)
    BY <1>1, <1>3, <2>3, <2>4, <2>5 DEF Elsewhere, BusyOn
  <2> QED
    BY <2>6, ElsewhereTrusted
<1> QED
  BY <1>2, <1>3

(***************************************************************************)
(* Arrivals.                                                               *)
(***************************************************************************)

\* A request that is refused works on no key.
LEMMA RefuseTrusted ==
  ASSUME CohInv, NEW k \in Keys \ suspect, NEW r \in Reqs, Refuse(r)
  PROVE  Trusted(k)'
<1>1. /\ req[r].pc = "idle" /\ UNCHANGED <<clientVars, couch>>
      /\ req[r] \in ReqState /\ \A q \in Reqs \ {r} : req'[q] = req[q]
  BY RefuseLocal DEF CohInv, GatewayInv, GatewayTypes, LocalStep, Refuse
<1>2. req'[r].pc = "done"
  BY <1>1 DEF Refuse, Reply, CohInv, GatewayInv, GatewayTypes, ReqState
<1>3. Elsewhere(r, k)
  BY <1>1, <1>2 DEF Elsewhere, BusyOn, Busy
<1> QED
  BY <1>3, ElsewhereTrusted

\* A query that arrives changes nothing of the key but who works on it.
LEMMA QueryArrivesTrusted ==
  ASSUME CohInv, NEW k \in Keys \ suspect, ~ Cause(k),
         NEW r \in Reqs, NEW x \in Keys, QueryArrives(r, x)
  PROVE  Trusted(k)'
<1>1. /\ req[r].pc = "idle" /\ UNCHANGED <<clientVars, couch>> /\ LocalStep(r)
      /\ req \in [Reqs -> ReqState] /\ req[r] \in ReqState /\ Handler(r)
      /\ \A q \in Reqs \ {r} : req'[q] = req[q]
  BY QueryArrivesLocal
     DEF CohInv, GatewayInv, GatewayTypes, Handlers, LocalStep, QueryArrives
<1>2. /\ req'[r].pc = "get" /\ req'[r].op = "query" /\ req'[r].key = x
      /\ req[r].op # "invoke"
  BY <1>1 DEF QueryArrives, ReqState, Handler
<1>3. CASE x = k
  <2>1. r \in BusyOn(k)'
    BY <1>2, <1>3 DEF BusyOn, Busy
  <2> QED
    BY <1>1, <1>2, <2>1, QueryTrusted
<1>4. CASE x # k
  <2>1. Elsewhere(r, k)
    BY <1>1, <1>2, <1>4 DEF Elsewhere, BusyOn, Busy
  <2> QED
    BY <2>1, ElsewhereTrusted
<1> QED
  BY <1>3, <1>4

\* A new call that does not write the key.
LEMMA NewCallTrusted ==
  ASSUME CohInv, NEW k \in Keys \ suspect, NEW c \in Calls, NEW w \in WriteSet,
         Submit(c, w), k \notin DOMAIN w, UNCHANGED couch,
         \A q \in Reqs \ {c} : req'[q] = req[q],
         c \notin BusyOn(k), c \notin BusyOn(k)'
  PROVE  Trusted(k)'
<1>1. /\ wire' = wire /\ queue' = queue /\ log' = log
      /\ call[c].pc = "none" /\ call'[c].writes = w
      /\ \A d \in Calls \ {c} : call'[d] = call[d]
      /\ Trusted(k) /\ ClientInv
  BY SubmitEffect DEF CohInv, GatewayInv, Submit, networkVars
<1>2. BusyOn(k)' = BusyOn(k) /\ \A q \in BusyOn(k) : req'[q] = req[q]
  BY DEF BusyOn
<1>3. (~ Overlap(k))'
  BY <1>1, <1>2 DEF Overlap, Trusted
<1>4. Writers(k)'
  BY <1>1 DEF Writers, Trusted
<1>5. Pending(k)'
  <2>1. \A t \in TxIds : OnTheWay(t)' => OnTheWay(t) /\ t[1] # c /\ t[1] \in Calls
    BY <1>1, NotCalledNotSent DEF OnTheWay, TxIds
  <2>2. \A t \in TxIds : OnTheWay(t)' => call'[t[1]] = call[t[1]]
    BY <1>1, <2>1
  <2> QED
    BY <1>1, <2>1, <2>2 DEF Trusted, Pending, Tx
<1>6. OnTop(k)' /\ Revs(k)' /\ Found(k)' /\ Settled(k)'
  BY <1>1, <1>2 DEF Trusted, OnTop, Revs, Found, Settled, Top
<1> QED
  BY <1>3, <1>4, <1>5, <1>6 DEF Trusted

\* An invoke that arrives at a key nobody works on takes it over.
LEMMA InvokeArrivesTrusted ==
  ASSUME CohInv, NEW k \in Keys \ suspect, ~ Cause(k),
         NEW r \in Reqs, NEW x \in Keys, NEW car \in Values, InvokeArrives(r, x, car)
  PROVE  Trusted(k)'
<1> DEFINE w == [y \in {x} |-> car]
<1>1. w \in WriteSet /\ r \in Calls /\ Submit(r, w)
  <2>1. w \in [{x} -> Values] /\ {x} \in SUBSET Keys
    OBVIOUS
  <2> QED
    BY <2>1, GatewayAssumption DEF WriteSet, InvokeArrives
<1>2. DOMAIN w = {x}
  OBVIOUS
<1> HIDE DEF w
<1>3. /\ req[r].pc = "idle" /\ couch' = couch
      /\ req \in [Reqs -> ReqState] /\ req[r] \in ReqState
      /\ \A q \in Reqs \ {r} : req'[q] = req[q]
  BY DEF CohInv, GatewayInv, GatewayTypes, InvokeArrives
<1>4. req'[r].pc = "execute" /\ req'[r].op = "invoke" /\ req'[r].key = x
  BY <1>3 DEF InvokeArrives, ReqState
<1>5. r \notin BusyOn(k)
  BY <1>3 DEF BusyOn, Busy
<1>6. CASE x # k
  <2>1. r \notin BusyOn(k)' /\ k \notin DOMAIN w
    BY <1>2, <1>4, <1>6 DEF BusyOn
  <2> QED
    BY <1>1, <1>3, <1>5, <2>1, NewCallTrusted
<1>7. CASE x = k
  <2>1. /\ wire' = wire /\ queue' = queue /\ log' = log
        /\ call[r].pc = "none" /\ call'[r].pc = "endorse"
        /\ \A d \in Calls \ {r} : call'[d] = call[d]
        /\ Trusted(k) /\ ClientInv
    BY <1>1, SubmitEffect DEF CohInv, GatewayInv, Submit, networkVars
  <2>2. BusyOn(k)' = {r}
    <3>1. r \in BusyOn(k)'
      BY <1>4, <1>7 DEF BusyOn, Busy
    <3>2. ~ Overlap(k)'
      BY DEF Cause
    <3> QED
      BY <1>4, <3>1, <3>2 DEF Overlap
  <2>3. BusyOn(k) = {}
    <3>1. \A q \in BusyOn(k) : q \in BusyOn(k)' /\ q # r
      BY <1>3, <1>5 DEF BusyOn
    <3> QED
      BY <2>2, <3>1
  <2>4. Writers(k)'
    <3>1. ASSUME NEW c \in Calls, call[c].pc \in Active, k \in DOMAIN call[c].writes
          PROVE  FALSE
      BY <2>1, <2>3, <3>1, WriterIsBusy DEF CohInv, Trusted
    <3> QED
      BY <1>4, <2>1, <3>1 DEF Writers, Trusted, Active
  <2>5. Pending(k)'
    <3>1. \A t \in TxIds : OnTheWay(t)' => OnTheWay(t) /\ t[1] # r /\ t[1] \in Calls
      BY <1>1, <2>1, NotCalledNotSent DEF OnTheWay, TxIds
    <3>2. \A t \in TxIds : OnTheWay(t)' => call'[t[1]] = call[t[1]]
      BY <2>1, <3>1
    <3> QED
      BY <2>1, <3>1, <3>2 DEF Trusted, Pending, Tx
  <2>6. \A i \in 2..Len(log) : log[i].tx[1] # r
    BY <1>1, <2>1, NotCalledNotSent
  <2>7. OnTop(k)' /\ Revs(k)' /\ Found(k)' /\ Settled(k)'
    BY <1>4, <2>1, <2>2, <2>6 DEF OnTop, Revs, Found, Settled
  <2> QED
    BY <2>4, <2>5, <2>7 DEF Trusted, Cause
<1> QED
  BY <1>6, <1>7

(***************************************************************************)
(* The SDK, the network and the process.                                   *)
(***************************************************************************)

\* While its Execute neither fails nor repeats a broadcast, what a call has on the
\* way is the envelope of its current attempt.
LEMMA SdkPending ==
  ASSUME ClientInv, NEW c \in Calls, CallStep(c),
         call'[c].pc # "failed",
         ~ (call[c].pc = "sent" /\ call'[c].pc = "endorse"),
         NEW t \in TxIds, t[1] = c, OnTheWay(t)',
         OnTheWay(t) => t = Tx(c) /\ call[c].pc \in {"sent", "wait"}
  PROVE  t = Tx(c)' /\ call'[c].pc \in {"sent", "wait"}
<1>1. /\ call \in [Calls -> CallState] /\ call[c] \in CallState
      /\ log \in Seq(Entry) /\ height \in [Peers -> 1..Len(log)]
  BY DEF ClientInv, ClientTypes, ClientTypeOK
<1>2. CASE Broadcast(c)
  <2>1. /\ call[c].pc = "send" /\ call'[c].pc = "sent"
        /\ call'[c].attempt = call[c].attempt
        /\ wire' = wire \cup {Tx(c)} /\ queue' = queue
    BY <1>1, <1>2 DEF Broadcast, CallState
  <2>2. ~ OnTheWay(t)
    BY <2>1
  <2>3. t = Tx(c)
    BY <2>1, <2>2 DEF OnTheWay
  <2> QED
    BY <2>1, <2>3 DEF Tx
<1>3. CASE ~ Broadcast(c)
  <2>1. wire' = wire /\ queue' = queue
    BY <1>3 DEF CallStep, Endorse, EndorseFails, Ack, BroadcastFails, TxStatus, Timeout,
                networkVars
  <2>2. t = Tx(c) /\ call[c].pc \in {"sent", "wait"}
    BY <2>1 DEF OnTheWay
  <2>3. CASE Ack(c)
    <3>1. call'[c].pc = "wait" /\ call'[c].attempt = call[c].attempt
      BY <1>1, <2>3 DEF Ack, CallState
    <3> QED
      BY <2>2, <3>1 DEF Tx
  <2>4. CASE TxStatus(c)
    <3>1. PICK p \in Peers, valid \in BOOLEAN : Decided(Tx(c), valid, height[p])
      BY <2>4 DEF TxStatus
    <3>2. PICK j \in 2..Len(log) : log[j].tx = Tx(c)
      BY <1>1, <3>1 DEF Decided
    <3> QED
      BY <2>1, <2>2, <3>2 DEF ClientInv, IdsCommitOnce, OnTheWay
  <2>5. CASE BroadcastFails(c)
    <3>1. call'[c].pc \in {"endorse", "failed"} /\ call[c].pc \in {"send", "sent"}
      BY <1>1, <2>5 DEF BroadcastFails, Fail, CallState
    <3> QED
      BY <2>2, <3>1
  <2>6. CASE Timeout(c)
    BY <1>1, <2>6 DEF Timeout, CallState
  <2> QED
    BY <1>3, <2>2, <2>3, <2>4, <2>5, <2>6 DEF CallStep, Endorse, EndorseFails
<1> QED
  BY <1>2, <1>3

\* A step of an Execute call that neither fails nor repeats a write of the key.
LEMMA SdkTrusted ==
  ASSUME CohInv, NEW k \in Keys \ suspect, ~ Cause(k), NEW c \in Calls, SdkStep(c)
  PROVE  Trusted(k)'
<1>1. CallEffect(c) /\ GatewayInv /\ ClientInv /\ Trusted(k) /\ CallStep(c)
  BY CallStepEffect DEF SdkStep, CohInv, GatewayInv, ClientInv
<1>2. /\ call[c].pc \in Active /\ call'[c].writes = call[c].writes
      /\ \A d \in Calls \ {c} : call'[d] = call[d]
      /\ call'[c].pc \in Active \cup Returned
      /\ log' = log /\ req' = req /\ couch' = couch
      /\ queue' = queue /\ wire' \subseteq wire \cup {Tx(c)}
  BY <1>1 DEF CallEffect, SdkStep, gatewayVars, Active, Returned
<1>3. ASSUME k \in DOMAIN call[c].writes
      PROVE  call'[c].pc # "failed" /\ ~ (call[c].pc = "sent" /\ call'[c].pc = "endorse")
  BY <1>2, <1>3 DEF Cause, ExecuteFails
<1>4. BusyOn(k)' = BusyOn(k) /\ (~ Overlap(k))'
  BY <1>1, <1>2 DEF BusyOn, Overlap, Trusted
<1>5. Writers(k)'
  <2>1. ASSUME NEW d \in Calls, call'[d].pc # "none", k \in DOMAIN call'[d].writes
        PROVE  /\ d \in Reqs
               /\ call'[d].pc \in Active \cup {"ok"}
               /\ call'[d].pc \in Active => req'[d].pc = "execute"
    <3>1. CASE d = c
      BY <1>1, <1>2, <1>3, <2>1, <3>1 DEF Trusted, Writers, Active, Returned
    <3>2. CASE d # c
      BY <1>1, <1>2, <2>1, <3>2 DEF Trusted, Writers
    <3> QED
      BY <3>1, <3>2
  <2> QED
    BY <2>1 DEF Writers
<1>6. Pending(k)'
  <2>1. ASSUME NEW t \in TxIds, OnTheWay(t)', k \in DOMAIN call'[t[1]].writes
        PROVE  t = Tx(t[1])' /\ call'[t[1]].pc \in {"sent", "wait"}
    <3>1. PICK d \in Calls : d = t[1]
      BY DEF TxIds
    <3>2. OnTheWay(t) /\ k \in DOMAIN call[d].writes => t = Tx(d) /\ call[d].pc \in {"sent", "wait"}
      BY <1>1, <3>1 DEF Trusted, Pending
    <3>3. CASE d = c
      <4>1. t = Tx(c)' /\ call'[c].pc \in {"sent", "wait"}
        BY <1>1, <1>2, <1>3, <2>1, <3>1, <3>2, <3>3, SdkPending
      <4> QED
        BY <3>1, <3>3, <4>1 DEF Tx
    <3>4. CASE d # c
      <4>1. t # Tx(c) /\ call'[d] = call[d]
        BY <1>2, <3>1, <3>4 DEF Tx
      <4>2. OnTheWay(t)
        BY <1>2, <2>1, <4>1 DEF OnTheWay
      <4>3. t = Tx(d) /\ call[d].pc \in {"sent", "wait"}
        BY <2>1, <3>1, <3>2, <4>1, <4>2
      <4> QED
        BY <3>1, <4>1, <4>3 DEF Tx
    <3> QED
      BY <3>3, <3>4
  <2> QED
    BY <2>1 DEF Pending
<1>7. OnTop(k)' /\ Revs(k)' /\ Found(k)' /\ Settled(k)'
  BY <1>1, <1>2, <1>4 DEF Trusted, OnTop, Revs, Found, Settled, Top
<1> QED
  BY <1>4, <1>5, <1>6, <1>7 DEF Trusted

\* A block keeps the trust: if it writes the key, it is the block of the one invoke
\* that works on it.
LEMMA CommitTrusted ==
  ASSUME CohInv, NEW k \in Keys \ suspect, Commit, UNCHANGED gatewayVars
  PROVE  Trusted(k)'
<1>1. /\ GatewayInv /\ Trusted(k) /\ queue \in Seq(TxIds) /\ queue # <<>>
      /\ log \in Seq(Entry) /\ Len(log) \in Nat /\ Len(log) >= 1
      /\ call' = call /\ wire' = wire /\ req' = req /\ couch' = couch
      /\ queue' = Tail(queue)
  BY DEF CohInv, GatewayInv, ClientInv, ClientTypes, ClientTypeOK, Commit, gatewayVars
<1>2. PICK t \in TxIds : t = Head(queue)
  BY <1>1
<1>3. PICK c \in Calls : c = t[1]
  BY <1>2 DEF TxIds
<1>4. PICK b : /\ log' = Append(log, b) /\ b.tx = t
               /\ b.world = IF b.valid THEN Overwrite(Top, call[c].writes) ELSE Top
  BY <1>2, <1>3 DEF Commit
<1>5. /\ Len(log') = Len(log) + 1 /\ log'[Len(log) + 1] = b
      /\ \A i \in 1..Len(log) : log'[i] = log[i]
  BY <1>1, <1>4
<1>6. Top' = b.world
  BY <1>5 DEF Top
<1>7. BusyOn(k)' = BusyOn(k) /\ (~ Overlap(k))'
  BY <1>1 DEF BusyOn, Overlap, Trusted
<1>8. Writers(k)'
  BY <1>1 DEF Trusted, Writers
<1>9. Pending(k)'
  <2>1. \A i \in 1..Len(queue') : queue'[i] = queue[i + 1] /\ i + 1 \in 1..Len(queue)
    BY <1>1
  <2>2. \A x \in TxIds : OnTheWay(x)' => OnTheWay(x)
    BY <1>1, <2>1 DEF OnTheWay
  <2> QED
    BY <1>1, <2>2 DEF Trusted, Pending, Tx
<1>10. CASE b.valid /\ k \in DOMAIN call[c].writes
  <2>1. OnTheWay(t)
    BY <1>1, <1>2 DEF OnTheWay
  <2>2. call[c].pc \in Active
    BY <1>1, <1>3, <1>10, <2>1 DEF Trusted, Pending, Active
  <2>3. /\ c \in BusyOn(k) /\ req[c].op = "invoke" /\ req[c].pc = "execute"
        /\ call[c].writes[k] = req[c].car
    BY <1>10, <2>2, WriterIsBusy DEF CohInv, Trusted
  <2>4. BusyOn(k) = {c}
    BY <1>1, <2>3, InvokeIsAlone DEF Trusted
  <2>5. Top'[k] = req[c].car
    BY <1>4, <1>6, <1>10, <2>3 DEF Overwrite
  <2>6. OnTop(k)' /\ Revs(k)' /\ Found(k)' /\ Settled(k)'
    BY <1>1, <1>7, <2>3, <2>4, <2>5 DEF OnTop, Revs, Found, Settled
  <2> QED
    BY <1>7, <1>8, <1>9, <2>6 DEF Trusted
<1>11. CASE ~ (b.valid /\ k \in DOMAIN call[c].writes)
  <2>1. Top'[k] = Top[k]
    BY <1>4, <1>6, <1>11 DEF Overwrite
  <2>2. ASSUME NEW r \in BusyOn(k), req[r].op = "invoke", b.valid
        PROVE  c # r
    <3>1. r \in Reqs /\ req[r].key = k /\ Handler(r)
      BY <1>1 DEF BusyOn, GatewayInv, Handlers
    <3>2. call[r].writes = [x \in {k} |-> req[r].car]
      BY <2>2, <3>1 DEF Handler
    <3> QED
      BY <1>11, <2>2, <3>2
  <2>3. OnTop(k)'
    <3>1. ASSUME NEW r \in BusyOn(k), NEW i \in 2..Len(log'),
                 req[r].op = "invoke", log'[i].valid, log'[i].tx[1] = r
          PROVE  Top[k] = req[r].car
      <4>1. i # Len(log) + 1
        BY <1>3, <1>4, <1>5, <2>2, <3>1
      <4>2. i \in 2..Len(log) /\ log'[i] = log[i]
        BY <1>1, <1>5, <4>1
      <4> QED
        BY <1>1, <3>1, <4>2 DEF Trusted, OnTop
    <3> QED
      BY <1>1, <1>7, <2>1, <3>1 DEF OnTop
  <2>4. Revs(k)' /\ Found(k)' /\ Settled(k)'
    BY <1>1, <1>7, <2>1 DEF Trusted, Revs, Found, Settled, Message2Car
  <2> QED
    BY <1>7, <1>8, <1>9, <2>3, <2>4 DEF Trusted
<1> QED
  BY <1>10, <1>11

\* Orderer and peers keep the trust in a key.
LEMMA NetworkTrusted ==
  ASSUME CohInv, NEW k \in Keys \ suspect, Network, UNCHANGED gatewayVars
  PROVE  Trusted(k)'
<1>1. ASSUME NEW t \in wire, Accept(t)
      PROVE  Trusted(k)'
  <2>1. /\ call' = call /\ log' = log /\ req' = req /\ couch' = couch
        /\ wire' = wire \ {t} /\ queue' = Append(queue, t) /\ queue \in Seq(TxIds)
        /\ t \in TxIds /\ Trusted(k)
    BY <1>1 DEF Accept, gatewayVars, CohInv, GatewayInv, ClientInv, ClientTypes, ClientTypeOK
  <2>2. \A x \in TxIds : OnTheWay(x)' => OnTheWay(x)
    <3>1. \A i \in 1..Len(queue') : queue'[i] = t \/ (i \in 1..Len(queue) /\ queue'[i] = queue[i])
      BY <2>1
    <3> QED
      BY <2>1, <3>1 DEF OnTheWay
  <2>3. Pending(k)'
    BY <2>1, <2>2 DEF Trusted, Pending, Tx
  <2>4. BusyOn(k)' = BusyOn(k) /\ (~ Overlap(k))' /\ Writers(k)'
    BY <2>1 DEF BusyOn, Overlap, Trusted, Writers
  <2>5. OnTop(k)' /\ Revs(k)' /\ Found(k)' /\ Settled(k)'
    BY <2>1, <2>4 DEF Trusted, OnTop, Revs, Found, Settled, Top
  <2> QED
    BY <2>3, <2>4, <2>5 DEF Trusted
<1>2. ASSUME NEW p \in Peers, CatchUp(p)
      PROVE  Trusted(k)'
  <2>1. /\ call' = call /\ wire' = wire /\ queue' = queue /\ log' = log
        /\ req' = req /\ couch' = couch /\ Trusted(k)
    BY <1>2 DEF CatchUp, gatewayVars, CohInv
  <2>2. BusyOn(k)' = BusyOn(k) /\ (~ Overlap(k))' /\ Writers(k)' /\ Pending(k)'
    BY <2>1 DEF BusyOn, Overlap, Trusted, Writers, Pending, OnTheWay, Tx
  <2>3. OnTop(k)' /\ Revs(k)' /\ Found(k)' /\ Settled(k)'
    BY <2>1, <2>2 DEF Trusted, OnTop, Revs, Found, Settled, Top
  <2> QED
    BY <2>2, <2>3 DEF Trusted
<1> QED
  BY <1>1, <1>2, CommitTrusted DEF Network

\* The death of the process keeps the trust in a key that no invoke was working on.
LEMMA DieTrusted ==
  ASSUME CohInv, NEW k \in Keys \ suspect, ~ Cause(k), Die
  PROVE  Trusted(k)'
<1>1. /\ GatewayInv /\ Trusted(k) /\ req \in [Reqs -> ReqState]
      /\ call \in [Calls -> CallState]
      /\ wire' = wire /\ queue' = queue /\ log' = log /\ couch' = couch
  BY DEF CohInv, GatewayInv, GatewayTypes, ClientInv, ClientTypes, ClientTypeOK, Die, networkVars
<1>2. ASSUME NEW c \in Calls
      PROVE  /\ call'[c].writes = call[c].writes
             /\ call[c].pc \in Active => call'[c].pc = "dead"
             /\ call[c].pc \notin Active => call'[c] = call[c]
  BY <1>1 DEF Die, Abandon, CallState
<1>3. ASSUME NEW c \in Calls, k \in DOMAIN call[c].writes
      PROVE  call[c].pc \notin Active
  BY <1>2, <1>3 DEF Cause, ExecuteFails
<1>4. \A r \in Reqs : req'[r].pc \notin Busy /\ (req[r].pc \in Busy => req'[r].pc = "lost")
  BY <1>1 DEF Die, ReqState, Busy
<1>5. BusyOn(k)' = {} /\ (~ Overlap(k))'
  BY <1>4 DEF BusyOn, Overlap
<1>6. \A r \in BusyOn(k) : req[r].op # "invoke"
  BY <1>4 DEF Cause, Killed, BusyOn
<1>7. Writers(k)'
  BY <1>1, <1>2, <1>3 DEF Trusted, Writers
<1>8. Pending(k)'
  <2>1. \A t \in TxIds : OnTheWay(t)' => OnTheWay(t) /\ t[1] \in Calls
    BY <1>1 DEF OnTheWay, TxIds
  <2>2. \A t \in TxIds : ~ (OnTheWay(t) /\ k \in DOMAIN call[t[1]].writes)
    BY <1>1, <1>3 DEF Trusted, Pending, Active, TxIds
  <2> QED
    BY <1>2, <2>1, <2>2 DEF Pending
<1>9. OnTop(k)' /\ Revs(k)' /\ Found(k)' /\ Settled(k)'
  BY <1>1, <1>5, <1>6 DEF Trusted, OnTop, Revs, Found, Settled, Top
<1> QED
  BY <1>5, <1>7, <1>8, <1>9 DEF Trusted

\* A restart keeps the trust in a key it does not reset.
LEMMA RestartTrusted ==
  ASSUME CohInv, NEW k \in Keys \ suspect, ~ Cause(k), NEW b \in Boots, Restart(b)
  PROVE  Trusted(k)'
<1>1. /\ b \in Calls /\ ResetWrites \in WriteSet /\ Submit(b, ResetWrites)
      /\ req' = req /\ couch' = couch /\ boot' = b /\ b \notin Reqs /\ b # Missing
  BY GatewayAssumption DEF Restart
<1>2. boot' # boot
  BY <1>1 DEF CohInv, Calling, Submit
<1>3. k \notin DOMAIN ResetWrites
  BY <1>2 DEF Cause, ResetAtRestart
<1>4. b \notin BusyOn(k) /\ b \notin BusyOn(k)'
  BY <1>1 DEF BusyOn
<1> QED
  BY <1>1, <1>3, <1>4, NewCallTrusted

(***************************************************************************)
(* The whole.                                                              *)
(***************************************************************************)

\* Requests call as invokes only, and a reset is called once.
LEMMA CallingStays ==
  ASSUME GatewayInv, Calling, [Next]_vars
  PROVE  Calling'
<1>1. Calls = Reqs \cup Boots /\ Reqs \cap Boots = {} /\ Missing \notin Calls
  BY GatewayAssumption
<1>2. /\ req \in [Reqs -> ReqState] /\ call \in [Calls -> CallState]
      /\ boot \in Boots \cup {Missing}
  BY DEF GatewayInv, GatewayTypes, ClientInv, ClientTypes, ClientTypeOK
<1>3. ASSUME NEW r \in Reqs, LocalStep(r)
      PROVE  Calling'
  BY <1>3 DEF LocalStep, Calling, clientVars, networkVars
<1>4. ASSUME NEW r \in Reqs, NEW k \in Keys, NEW car \in Values, InvokeArrives(r, k, car)
      PROVE  Calling'
  <2>1. req'[r].op = "invoke" /\ (\A q \in Reqs \ {r} : req'[q] = req[q]) /\ boot' = boot
    BY <1>2, <1>4 DEF InvokeArrives, ReqState
  <2>2. /\ call[r].pc = "none" /\ call'[r].pc = "endorse"
        /\ \A d \in Calls \ {r} : call'[d] = call[d]
    BY <1>1, <1>2, <1>4 DEF InvokeArrives, Submit
  <2>3. boot' # Missing => call'[boot'].pc # "none"
    BY <1>1, <1>2, <2>1, <2>2 DEF Calling
  <2> QED
    BY <1>1, <2>1, <2>2, <2>3 DEF Calling
<1>5. ASSUME NEW c \in Calls, SdkStep(c)
      PROVE  Calling'
  <2>1. CallEffect(c) /\ req' = req /\ boot' = boot
    BY <1>5, CallStepEffect DEF SdkStep, gatewayVars, GatewayInv, ClientInv
  <2>2. \A d \in Calls : (call'[d].pc = "none") <=> (call[d].pc = "none")
    BY <2>1 DEF CallEffect, Active
  <2> QED
    BY <1>1, <1>2, <2>1, <2>2 DEF Calling
<1>6. CASE Die
  <2>1. /\ \A d \in Calls : (call'[d].pc = "none") <=> (call[d].pc = "none")
        /\ \A r \in Reqs : req'[r].op = req[r].op
        /\ boot' = boot
    BY <1>2, <1>6 DEF Die, Abandon, CallState, ReqState, Active
  <2> QED
    BY <1>1, <1>2, <2>1 DEF Calling
<1>7. ASSUME NEW b \in Boots, Restart(b)
      PROVE  Calling'
  <2>1. /\ call'[b].pc = "endorse" /\ boot' = b /\ req' = req
        /\ \A d \in Calls \ {b} : call'[d] = call[d]
    BY <1>1, <1>2, <1>7 DEF Restart, Submit
  <2> QED
    BY <1>1, <2>1 DEF Calling
<1>8. CASE UNCHANGED <<call, req, boot>>
  BY <1>8 DEF Calling
<1>9. CASE \E r \in Reqs : Arrive(r) \/ Handle(r)
  BY <1>3, <1>4, <1>9, RefuseLocal, QueryArrivesLocal, HandleLocal DEF Arrive
<1>10. CASE Network /\ UNCHANGED gatewayVars
  BY <1>8, <1>10 DEF Network, Accept, Commit, CatchUp, gatewayVars
<1>11. CASE Booted \/ UNCHANGED vars
  BY <1>8, <1>11 DEF Booted, vars, clientVars, gatewayVars
<1> QED
  BY <1>5, <1>6, <1>7, <1>9, <1>10, <1>11 DEF Next

\* No step that is not a cause shakes the trust in a key.
LEMMA StepTrusted ==
  ASSUME CohInv, NEW k \in Keys \ suspect, ~ Cause(k), [Next]_vars
  PROVE  Trusted(k)'
<1>1. CASE \E r \in Reqs : Arrive(r)
  BY <1>1, RefuseTrusted, InvokeArrivesTrusted, QueryArrivesTrusted DEF Arrive
<1>2. CASE \E r \in Reqs : Handle(r)
  BY <1>2, HandleTrusted
<1>3. CASE Network /\ UNCHANGED gatewayVars
  BY <1>3, NetworkTrusted
<1>4. CASE Booted \/ UNCHANGED vars
  <2>1. UNCHANGED <<clientVars, req, couch>> /\ Trusted(k)
    BY <1>4 DEF Booted, vars, gatewayVars, CohInv
  <2> QED
    BY <2>1, StillTrusted
<1> QED
  BY <1>1, <1>2, <1>3, <1>4, SdkTrusted, DieTrusted, RestartTrusted DEF Next

\* Before any request every key is trusted.
LEMMA CohInitInv ==
  ASSUME CoherenceInit
  PROVE  CohInv
<1>1. GatewayInv /\ Init /\ \A k : BusyOn(k) = {}
  BY GatewayInitInv DEF CoherenceInit, Init, BusyOn, NoRequest, Busy
<1>2. /\ \A c \in Calls : call[c].pc = "none"
      /\ wire = {} /\ Len(queue) = 0 /\ boot = Missing
  BY <1>1 DEF Init, ClientInit, Idle
<1>3. Calling
  BY <1>2, GatewayAssumption DEF Calling
<1>4. ASSUME NEW k \in Keys
      PROVE  Trusted(k)
  <2>1. Writers(k) /\ Pending(k)
    BY <1>2 DEF Writers, Pending, OnTheWay
  <2>2. couch[k].rev = 0
    BY <1>1 DEF Init
  <2> QED
    BY <1>1, <2>1, <2>2 DEF Trusted, Overlap, OnTop, Revs, Found, Settled
<1> QED
  BY <1>1, <1>3, <1>4 DEF CohInv

\* The cache of a car nobody works on is exact, unless one of six things has
\* happened to the car (service/chain.go, which never compares the two): the list
\* in GatewayCoherence leaves no other way out, for every number of requests,
\* restarts, peers, keys and retries.
THEOREM CoherenceCorrect == CoherenceSpec => []CoherentUnlessSuspect
<1>1. CoherenceInit => CohInv
  BY CohInitInv
<1>2. CohInv /\ [CoherenceNext]_<<vars, suspect>> => CohInv'
  <2> SUFFICES ASSUME CohInv, [CoherenceNext]_<<vars, suspect>>
               PROVE  CohInv'
    OBVIOUS
  <2>1. [Next]_vars
    BY DEF CoherenceNext
  <2>2. GatewayInv' /\ Calling'
    BY <2>1, GatewayNextInv, CallingStays DEF CohInv
  <2>3. CASE UNCHANGED <<vars, suspect>>
    <3>1. UNCHANGED <<clientVars, req, couch>> /\ suspect' = suspect
      BY <2>3 DEF vars, gatewayVars
    <3>2. \A k \in Keys \ suspect' : Trusted(k)'
      BY <3>1, StillTrusted DEF CohInv
    <3> QED
      BY <2>2, <3>2 DEF CohInv
  <2>4. CASE CoherenceNext
    <3>1. \A k \in Keys \ suspect' : k \notin suspect /\ ~ Cause(k)
      BY <2>4 DEF CoherenceNext
    <3>2. \A k \in Keys \ suspect' : Trusted(k)'
      BY <2>1, <3>1, StepTrusted
    <3> QED
      BY <2>2, <3>2 DEF CohInv
  <2> QED
    BY <2>3, <2>4
<1>3. CohInv => CoherentUnlessSuspect
  BY DEF CohInv, CoherentUnlessSuspect, Trusted, Settled
<1> QED
  BY <1>1, <1>2, <1>3, PTL DEF CoherenceSpec
=============================================================================
