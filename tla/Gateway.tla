------------------------------ MODULE Gateway ------------------------------
(***************************************************************************)
(* The HTTP gateway of myfabricnet: the handlers of POST /chain/invoke and *)
(* POST /chain/query (service/chain.go), which keep a cache of cars in     *)
(* CouchDB beside the Fabric ledger, and the life of the process that runs *)
(* them (main.go, service/prepare.go).                                     *)
(*                                                                         *)
(* Each request is a goroutine; they share the ledger, reached through     *)
(* ChannelClient, and the CouchDB database "carcache", reached by Rev, Put *)
(* and Get, with no lock around either.  CouchDB is not in the repository: *)
(* a document has a revision, a Put must name the current one ("" for a    *)
(* new document) or is refused, and any request to it may fail.  The cache *)
(* outlives the process; the handlers do not.                              *)
(***************************************************************************)
EXTENDS ChannelClient

CONSTANTS
  Reqs,         \* HTTP requests; each is handled once
  Boots,        \* restarts of the process; each resets the ledger once
  ZeroCar,      \* Car{}
  ResetWrites,  \* what chaincode Init and reset write (resetArgs of base.go)
  MaxFinds      \* maxRetries of GetValueFromKey (10)

ASSUME GatewayAssumption ==
  /\ Calls = Reqs \cup Boots
  /\ Reqs \cap Boots = {}
  /\ Missing \notin Calls
  /\ ZeroCar \in Values
  /\ ResetWrites \in WriteSet
  /\ MaxFinds \in Nat \ {0}

VARIABLES
  req,     \* req[r]: the goroutine that handles request r
  couch,   \* the documents of "carcache"
  db,      \* the global CouchDb: "nil" until InitCouchdb has set it
  proc,    \* the gateway process
  boot     \* the reset call of the last restart; Missing before the first

gatewayVars == <<req, couch, db, proc, boot>>
vars        == <<clientVars, gatewayVars>>

Busy == {"execute", "put", "get", "find", "fill"}

ReqState ==
  [pc : {"idle", "done", "lost"} \cup Busy,
   op : {"none", "invoke", "query"},
   key : Keys \cup {Missing},
   car : Values \cup {Missing},
   rev : Nat,
   tries : 0..MaxFinds,
   status : {0, 200, 400, 500}]

NoRequest ==
  [pc |-> "idle", op |-> "none", key |-> Missing, car |-> Missing,
   rev |-> 0, tries |-> 0, status |-> 0]

\* Message2Car: the empty message, like one that does not parse, is Car{}.
Message2Car(message) == IF message = Missing THEN ZeroCar ELSE message

\* What InitCouchdb leaves in CouchDb: nothing, when the client cannot be made or the
\* server does not answer the ping, or a handle, even if the creation is refused.
InitCouchdb == {"nil", "open"}

Init ==
  /\ ClientInit(Overwrite([k \in Keys |-> Missing], ResetWrites))
  /\ req = [r \in Reqs |-> NoRequest]
  /\ couch = [k \in Keys |-> [rev |-> 0, car |-> Missing]]
  /\ db \in InitCouchdb
  /\ proc = "serving"
  /\ boot = Missing

(***************************************************************************)
(* CouchDB.  Revision 0 stands for "": a Put with it creates the document. *)
(* A refused or failed Put changes nothing, and no caller looks at it.     *)
(***************************************************************************)
Put(k, car, rev) ==
  \/ /\ couch[k].rev = rev
     /\ couch' = [couch EXCEPT ![k] = [rev |-> rev + 1, car |-> car]]
  \/ UNCHANGED couch

Reply(r, status) ==
  req' = [req EXCEPT ![r].pc = "done", ![r].status = status]

(***************************************************************************)
(* Arrival.  A body that cannot be read or parsed is answered 400 (or 500) *)
(* before anything is touched; so is an invoke whose channel client cannot *)
(* be made.                                                                *)
(***************************************************************************)
Refuse(r) ==
  /\ proc = "serving"
  /\ req[r].pc = "idle"
  /\ \E status \in {400, 500} : Reply(r, status)
  /\ UNCHANGED <<clientVars, couch, db, proc, boot>>

\* invoke: Execute is called with the car of the body, under the body's ID.
InvokeArrives(r, k, car) ==
  /\ proc = "serving"
  /\ req[r].pc = "idle"
  /\ Submit(r, [x \in {k} |-> car])
  /\ req' = [req EXCEPT
       ![r].pc = "execute", ![r].op = "invoke", ![r].key = k, ![r].car = car]
  /\ UNCHANGED <<couch, db, proc, boot>>

\* Mutants of ReadRev: the cache is written while Execute still runs, and every
\* document is taken for a new one.
ReadRevEarly(r) ==
  /\ req[r].pc = "execute"
  /\ IF db = "nil"
       THEN Reply(r, 500)
       ELSE \/ req' = [req EXCEPT ![r].pc = "put", ![r].rev = couch[req[r].key].rev]
            \/ Reply(r, 200)
  /\ UNCHANGED <<clientVars, couch, db, proc, boot>>

ReadRevNotFound(r) ==
  /\ req[r].pc = "execute"
  /\ call[r].pc \in Returned
  /\ IF db = "nil"
       THEN Reply(r, 500)
       ELSE req' = [req EXCEPT ![r].pc = "put", ![r].rev = 0] \/ Reply(r, 200)
  /\ UNCHANGED <<clientVars, couch, db, proc, boot>>

\* Execute has returned; its error is printed and dropped.  The handler asks
\* CouchDB for the revision to replace ("" when there is none).  A nil CouchDb
\* panics, and the router answers 500; any other failure skips the cache.
ReadRev(r) ==
  /\ req[r].pc = "execute"
  /\ call[r].pc \in Returned
  /\ IF db = "nil"
       THEN Reply(r, 500)
       ELSE \/ req' = [req EXCEPT ![r].pc = "put", ![r].rev = couch[req[r].key].rev]
            \/ Reply(r, 200)
  /\ UNCHANGED <<clientVars, couch, db, proc, boot>>

PutCar(r) ==
  /\ req[r].pc = "put"
  /\ Put(req[r].key, req[r].car, req[r].rev)
  /\ Reply(r, 200)
  /\ UNCHANGED <<clientVars, db, proc, boot>>

QueryArrives(r, k) ==
  /\ proc = "serving"
  /\ req[r].pc = "idle"
  /\ req' = [req EXCEPT ![r].pc = "get", ![r].op = "query", ![r].key = k]
  /\ UNCHANGED <<clientVars, couch, db, proc, boot>>

\* A document is the answer; without one, or when CouchDB fails, the ledger is asked.
GetCached(r) ==
  /\ req[r].pc = "get"
  /\ IF db = "nil"
       THEN Reply(r, 500)
       ELSE \/ /\ couch[req[r].key].rev > 0
               /\ req' = [req EXCEPT ![r].pc = "done", ![r].status = 200,
                                      ![r].car = couch[req[r].key].car]
            \/ req' = [req EXCEPT ![r].pc = "find"]
  /\ UNCHANGED <<clientVars, couch, db, proc, boot>>

\* Mutants of FindOnce: one round too many, and rounds that are not counted.
FindOncePastBound(r) ==
  /\ req[r].pc = "find"
  /\ \E v \in {At(p)[req[r].key] : p \in Peers} \cup {Missing} :
       req' = [req EXCEPT
         ![r].pc = IF v # Missing \/ req[r].tries = MaxFinds THEN "fill" ELSE "find",
         ![r].tries = @ + 1,
         ![r].car = v]
  /\ UNCHANGED <<clientVars, couch, db, proc, boot>>

FindOnceUncounted(r) ==
  /\ req[r].pc = "find"
  /\ \E v \in {At(p)[req[r].key] : p \in Peers} \cup {Missing} :
       req' = [req EXCEPT
         ![r].pc = IF v # Missing THEN "fill" ELSE "find", ![r].car = v]
  /\ UNCHANGED <<clientVars, couch, db, proc, boot>>

\* One round of GetValueFromKey: some peer answers from its own prefix of the
\* chain, with an error when it has no such key, or the query fails.
FindOnce(r) ==
  /\ req[r].pc = "find"
  /\ \E v \in {At(p)[req[r].key] : p \in Peers} \cup {Missing} :
       req' = [req EXCEPT
         ![r].pc = IF v # Missing \/ req[r].tries + 1 = MaxFinds
                     THEN "fill" ELSE "find",
         ![r].tries = @ + 1,
         ![r].car = v]
  /\ UNCHANGED <<clientVars, couch, db, proc, boot>>

\* Mutant of Fill: it asks for the current revision, as invoke does.
FillOverwrites(r) ==
  /\ req[r].pc = "fill"
  /\ Put(req[r].key, Message2Car(req[r].car), couch[req[r].key].rev)
  /\ Reply(r, 200)
  /\ UNCHANGED <<clientVars, db, proc, boot>>

\* What was found goes into the cache as a new document, and to the client.
Fill(r) ==
  /\ req[r].pc = "fill"
  /\ Put(req[r].key, Message2Car(req[r].car), 0)
  /\ Reply(r, 200)
  /\ UNCHANGED <<clientVars, db, proc, boot>>

(***************************************************************************)
(* The process.                                                            *)
(***************************************************************************)

\* It is killed, with every goroutine in it.
Die ==
  /\ proc # "down"
  /\ proc' = "down"
  /\ Abandon(Calls)
  /\ req' = [r \in Reqs |->
               IF req[r].pc \in Busy THEN [req[r] EXCEPT !.pc = "lost"] ELSE req[r]]
  /\ db' = "nil"
  /\ UNCHANGED <<networkVars, couch, boot>>

\* It is started again: InitCouchdb, whose failure is only printed, then
\* PrepareCC, which finds the chaincode instantiated and resets it.
Restart(b) ==
  /\ proc = "down"
  /\ Submit(b, ResetWrites)
  /\ proc' = "booting"
  /\ db' \in InitCouchdb
  /\ boot' = b
  /\ UNCHANGED <<req, couch>>

\* Mutant of Booted: main waits for a reset that succeeds.
BootedOnSuccess ==
  /\ proc = "booting"
  /\ call[boot].pc = "ok"
  /\ proc' = "serving"
  /\ UNCHANGED <<clientVars, req, couch, db, boot>>

\* The reset has returned: main goes on to serve, or Runner.Initialize panics.  So
\* does main when it cannot make its clients, as its logger is nil.
Booted ==
  /\ proc = "booting"
  /\ call[boot].pc \in Returned
  /\ \/ call[boot].pc = "ok" /\ proc' = "serving" /\ UNCHANGED db
     \/ proc' = "down" /\ db' = "nil"
  /\ UNCHANGED <<clientVars, req, couch, boot>>

Handle(r) == ReadRev(r) \/ PutCar(r) \/ GetCached(r) \/ FindOnce(r) \/ Fill(r)

Arrive(r) ==
  \/ Refuse(r)
  \/ \E k \in Keys, car \in Values \ {ZeroCar} : InvokeArrives(r, k, car)
  \/ \E k \in Keys : QueryArrives(r, k)

SdkStep(c) == CallStep(c) /\ UNCHANGED gatewayVars

Next ==
  \/ \E r \in Reqs : Arrive(r) \/ Handle(r)
  \/ \E c \in Calls : SdkStep(c)
  \/ Network /\ UNCHANGED gatewayVars
  \/ Die
  \/ \E b \in Boots : Restart(b)
  \/ Booted

Spec == Init /\ [][Next]_vars

\* The handler has asked CouchDB, or is about to; the client has no deadline.
AwaitsCouch(r) ==
  /\ db # "nil"
  /\ \/ req[r].pc \in {"put", "get", "fill"}
     \/ req[r].pc = "execute" /\ call[r].pc \in Returned

(***************************************************************************)
(* Goroutines run: a handler whose call has returned goes on, and so does  *)
(* main.  Clients, CouchDB, the orderer and the peers promise nothing: the *)
(* SDK ends every wait for the latter two, but nothing ends one for        *)
(* CouchDB.                                                                *)
(***************************************************************************)
FairSpec ==
  /\ Spec
  /\ \A r \in Reqs : WF_vars(Handle(r) /\ ~AwaitsCouch(r))
  /\ \A c \in Calls : WF_vars(SdkStep(c))
  /\ WF_vars(Booted)
-----------------------------------------------------------------------------
\* Every variable of the gateway keeps its type.
TypeOK ==
  /\ ClientTypeOK
  /\ req \in [Reqs -> ReqState]
  /\ couch \in [Keys -> [rev : Nat, car : Values \cup {Missing}]]
  /\ db \in {"nil", "open"}
  /\ proc \in {"serving", "booting", "down"}
  /\ boot \in Boots \cup {Missing}

\* Values key k has had on the ledger, and values an invoke of k failed to put there.
OnLedger(k) == {log[i].world[k] : i \in 1..Len(log)}
Failed(k) ==
  {req[r].car : r \in {q \in Reqs :
     req[q].op = "invoke" /\ req[q].key = k /\ call[q].pc = "failed"}}

\* Where a cached car can come from: the ledger, the reply "" taken for Car{}
\* (chain.go:209), or an invoke whose Execute failed and was cached all the
\* same (base.go:536, chain.go:148).  In particular an invoke that succeeded
\* caches nothing the ledger has not held, and an invoke under way nothing.
CacheProvenance ==
  \A k \in Keys : couch[k].rev > 0 =>
    couch[k].car \in {ZeroCar} \cup OnLedger(k) \cup Failed(k)

\* What a query is told has such an origin too, although the document it has read,
\* or the peer that has answered it, may be behind what is on the ledger by then
\* (chain.go:163-221): a car of an invoke under way, or none, is never told.
AnswersHaveOrigin ==
  \A r \in Reqs : req[r].op = "query" /\ req[r].status = 200 =>
    Message2Car(req[r].car)
      \in {ZeroCar} \cup OnLedger(req[r].key) \cup Failed(req[r].key)

\* A document is replaced only by an invoke of its key that had read the very
\* revision it replaces: queries fill the cache and never change it, and of two
\* racing invokes one is dropped (chain.go:148-151, 211).
ReplacedByReader ==
  [][\A k \in Keys : couch[k].rev > 0 /\ couch'[k] # couch[k] =>
       \E r \in Reqs :
         /\ req[r].op = "invoke" /\ req[r].key = k
         /\ req[r].pc = "put" /\ req'[r].pc = "done"
         /\ req[r].rev = couch[k].rev
         /\ couch'[k].car = req[r].car]_vars

\* The steps a request has left at most: its handler's own, and those of its call.
HandlerLeft(r) ==
  CASE req[r].pc = "execute" -> 2
    [] req[r].pc = "put" -> 1
    [] req[r].pc = "get" -> MaxFinds + 2
    [] req[r].pc = "find" -> MaxFinds - req[r].tries + 1
    [] req[r].pc = "fill" -> 1
    [] OTHER -> 0

WorkLeft(r) == HandlerLeft(r) + StepsLeft(r)

\* A request does bounded work: every step of its handler or of its call leaves it
\* less to do, failed broadcasts, invalid blocks, lost cache writes and peers that
\* answer nothing included (base.go:527-537, 575-596, chain.go:114-221).
RequestsAreBounded ==
  [][\A r \in Reqs :
       req[r].pc \in Busy /\ <<req'[r], call'[r]>> # <<req[r], call[r]>> =>
         WorkLeft(r)' \in 0..(WorkLeft(r) - 1)]_vars

\* Every request is answered, whatever the network and the other requests do,
\* unless its process dies or CouchDB keeps it waiting for ever: Execute and Find
\* are bounded, the requests to CouchDB are not (utils.go:319).
RequestsAreAnswered ==
  \A r \in Reqs :
    req[r].pc \in Busy ~> (req[r].pc \in {"done", "lost"} \/ []AwaitsCouch(r))

\* A start that has got as far as its reset ends in a serving gateway or in a
\* panic, whatever the network does.
StartsEnd == proc = "booting" ~> proc # "booting"

Committed(c) == \E n \in Attempts : Decided(<<c, n>>, TRUE, Len(log))

\* An invoke is answered with 200 after its Execute has returned, and when Execute
\* has returned no error the car is on the ledger: the only invokes told a success
\* without one are those whose error was dropped (base.go:536, chain.go:137-160).
SuccessIsCommittedOrFailed ==
  \A r \in Reqs : req[r].op = "invoke" /\ req[r].status = 200 =>
    Committed(r) \/ call[r].pc = "failed"

(***************************************************************************)
(* What the client page tells its user (client/carchain.html:83-88):       *)
(* "submission succeeded" on a 200, "submission failed" on an error.       *)
(***************************************************************************)
\* A 200 to an invoke means that the car is on the ledger.
SuccessIsCommitted ==
  \A r \in Reqs :
    req[r].op = "invoke" /\ req[r].pc = "done" /\ req[r].status = 200 => Committed(r)

\* An error to an invoke means that the car is not on the ledger.
FailureIsNotCommitted ==
  \A r \in Reqs :
    req[r].op = "invoke" /\ req[r].pc = "done" /\ req[r].status = 500 => ~Committed(r)
=============================================================================
