# myfabricnet: specifications, model checking and proofs

`myfabricnet` is an HTTP gateway, written in Go, that keeps cars on a Hyperledger
Fabric 1.4 ledger and caches them in CouchDB. This directory holds TLA+ modules of
the gateway, of the chaincode it deploys and of the part of `fabric-sdk-go` it
depends on for every write; TLC configurations that check them on small instances;
and theorems checked by TLAPS.

Contents: 1. inventory, 2. modules and their correspondence to the code, 3. runs,
4. bounds, 5. fairness, 6. findings, 7. proofs, 8. what is not modelled, 9. plan.

## 1. Inventory

| Component | Code | State it keeps | Operations |
|---|---|---|---|
| Car endpoints | `service/chain.go`, `service/router.go`, `service/base.go` | none but the locals of each handler's goroutine | `POST /chain/invoke`, `POST /chain/query` |
| CouchDB cache | `service/utils.go` `InitCouchdb`, global `CouchDb` | documents of `carcache`, each with a revision; survives the process | `InitCouchdb`, `Rev`, `Get`, `Put` |
| SDK channel client | `vendor/.../client/channel`, `common/errors/retry`, `fab/orderer`, `fab/txn` | per call: handler chain position, attempt, transaction id, deadline | `Execute` (endorse, validate, broadcast, wait for the status), `Query` |
| Start-up | `service/runner.go`, `base.go`, `utils.go`, `prepare.go` | `setup.Targets`; otherwise works on the network | find the configured peers; create and join the channel; reset, or install, verify and instantiate the chaincode |
| Process | `main.go` | the globals `Runner`, `CouchDb` | start, serve, die |
| Chaincode | `chaincode/cc.go` | the ledger's keys | `Init`, `reset`, `set`, `move`, `delete`, `query`, `history`, range, group and like queries, `invokecc` |
| Orderer, peers | outside the repository | chain; each peer's prefix of it; installed and instantiated chaincode | order, validate, commit, join, install |
| Explorer endpoints | `service/chain.go`, `base.go`, `vendor/.../client/ledger` | none but the locals of each handler | chain info, block, transaction, history with block numbers, group, range and like queries |
| Client page and scripts | `client/` | none | forms and `curl` calls |
| Configuration, tools, fixtures | `service/env.go`, `core.yml`, `tools/`, `fixtures/` | values read once | none |
| Rest of the vendored SDK | `vendor/.../fabsdk` and others | connections, discovery and MSP caches | third-party |

### How the components interact

- An HTTP request is a goroutine. `invoke` calls `Execute` on the ledger first and
  then writes the cache (`Rev`, `Put`: two requests). `query` asks the cache first
  (`Get`), then a peer (`Find`, up to ten rounds), then fills the cache (`Put` of a
  new document). There is no lock around ledger and cache, and no expiry.
- `Execute` is a goroutine behind a `select` on its result and its deadline. It
  retries transient errors with a new transaction id. The orderer cannot be asked
  to forget an envelope.
- `main` opens the cache (a failure is printed only), runs `Runner.Initialize`
  (a failure is a panic) and then serves. On an instantiated network the start sends
  a `reset`, which writes cars `a` and `b` on the ledger and leaves the cache alone.
- The explorer endpoints ask one peer per query: the ledger client has one target,
  chosen at random, and chaincode queries try up to ten times. `queryWithBlock` asks
  for a history first and then, entry by entry, for the block of its transaction.
- Endorsing peers run the chaincode on the state they have; validation turns a
  transaction down if a key it read has a newer version.

### Which behaviours are hard, and what makes each component correct

| Component | Hard part | Correct when |
|---|---|---|
| SDK channel client | deadline and retries against an envelope that may be committed late, twice under two ids, or never; lagging peers | success means committed; an id takes effect at most once; only what was sent is ordered; calls return; it implements `Submission` |
| Car endpoints and cache | two stores and no lock; dropped errors; stale revisions; a kill between two steps; a restart that resets one store only | a cached car has a known origin; only an invoke that has read a document replaces it; what a query is told has a known origin, and a success that is not committed is a failure that was dropped; the cache is exact unless one of a closed list of things has happened; requests are answered |
| Start-up | every step may fail, be killed, or take effect during the next start; answers come from random, possibly lagging peers | instantiation follows installation, serving follows instantiation, starts end, a start of a settled network only resets; all starts together implement `Deployment` |
| Chaincode | functions run on old states; fixed-width amounts; cars and amounts under the same keys; dispatch by argument count | it is a serial ledger; payments conserve; the mark of a call of another chaincode is there just when the call took effect; no key disappears; a car makes way for an amount in a payment only |
| Explorer endpoints | one answer put together from several peers, each with its own prefix of the chain; errors that are dropped, or end the handler in a nil dereference | a history is exact; what is shown is on the chain and belongs to the question; requests are answered; it implements `LedgerReader` |

`PROJECT.json` lists every hazard at its line, with the properties that cover it.

## 2. Modules

| Module | Models | Uses |
|---|---|---|
| `ChannelClient` | `Execute` and the network it meets | |
| `Submission` | what a caller of `Execute` may rely on (abstract) | |
| `ClientRefinement` | the mapping of `ChannelClient` to `Submission` | both |
| `Gateway` | the two car endpoints, the cache, kills and restarts | extends `ChannelClient` |
| `GatewayCoherence` | `Gateway` with a history variable: the causes of a stale cache | extends `Gateway` |
| `Bootstrap` | a start: channel, join, install, instantiate, reset | |
| `Deployment` | what all starts together bring about (abstract) | |
| `BootstrapRefinement` | the mapping of `Bootstrap` to `Deployment` | both |
| `ChaincodeFunctions` | what each function of `cc.go` answers, reads and writes | |
| `Chaincode` | those functions under execute, order, validate | extends `ChaincodeFunctions` |
| `SerialLedger` | what a client of the chaincode may rely on (abstract) | extends `ChaincodeFunctions` |
| `ChaincodeRefinement` | the mapping of `Chaincode` to `SerialLedger` | both |
| `Explorer` | the read endpoints, on peers of different heights | |
| `LedgerReader` | what a client of the read endpoints may rely on (abstract) | |
| `ExplorerRefinement` | the mapping of `Explorer` to `LedgerReader` | both |
| `MC*` | constants and symmetry for TLC | each its component |
| `*_proofs` | theorems | each its component; `GatewayCoherence_proofs` builds on `Gateway_proofs`, and `GatewayRefinement_proofs` on `Gateway_proofs` and `ClientRefinement_proofs` |

### ChannelClient

`call[c]` is the goroutine pair of one `Execute`. Its `pc` is the place in the
handler chain: `endorse` (select, endorse, validate endorsements), `send` (before
the broadcast), `sent` (envelope out, reply awaited), `wait` (status event
awaited), then `ok`, `failed`, or `dead` with its process. `attempt` numbers the
retries, and a transaction id is the pair of call and attempt; `txid` is what the
response carries, 0 for the empty response of a deadline. `wire`, `queue`, `log`,
`height` are the network: envelopes on streams, accepted envelopes, the chain (one
transaction per block) and each peer's prefix of it.

`Submit` is the start of `InvokeHandler`; `Endorse`, `EndorseFails`, `Broadcast`,
`Ack`, `BroadcastFails` and `TxStatus` are the handlers and their errors; `Fail` is
the retrying invoker with the retry handler (reset of the response, new id, or give
up); `Timeout` is the other branch of the `select`. Which codes are retryable is
configuration and is left open: each error may be transient or not. Endorsement
and validation results are left open as well: a transaction of the gateway may
become invalid for reasons outside this module (policy, or versions for the
functions that read, which `Chaincode` models in full). The deadline cancels the
request's context for every goroutine of the call, so an envelope sent just as the
deadline passes is the same as one sent just before it: `Broadcast; Timeout`.

`Submission` is the promise: a call takes effect at most once per permitted
attempt, at any time after it was made, even after it has been answered with a
failure; success is answered only after an effect. The gateway's handlers and its
restarts are such callers: `Gateway` extends `ChannelClient`, and implements
`Submission` under the same mapping (run `gateway_live`, theorem
`GatewayImplementsSubmission`).

### Gateway

`req[r]` is a handler: `execute` (inside `SetKeyData`), `put` (revision read),
`get`, `find`, `fill`, then `done` with an HTTP status, or `lost` with its process.
`couch[k]` is a document with its revision, 0 for none. `db` is the global handle,
`proc` the process, `boot` the reset call of the last restart.

`InvokeArrives`, `ReadRev`, `PutCar` are `Chain.invoke`, cut at its remote calls;
the dropped error of `Execute` is the missing test in `ReadRev`. `QueryArrives`,
`GetCached`, `FindOnce`, `Fill` are `Chain.query`. `InitCouchdb` leaves no handle when
the server does not answer its ping, and one in every other case, also when the
database cannot be created because it is there already. `Refuse` stands for every early
return. A nil `CouchDb` panics, which the router turns into a 500. `Die`,
`Restart`, `Booted` are the process; the reset of a restart is an `Execute` call
like the others, and `main` may still go down after it, when it cannot make one of its
clients (`main.go:55-64`: the error is given to a logger that is nil). The first start is in `Init`: the chaincode's `Init` has written
`ResetWrites`. The steps of a start before its reset are `Bootstrap`'s.

`GatewayCoherence` records in `suspect` the keys to which a cause of staleness has
happened: an invoke that overlaps another request for the key; an `Execute` that
failed, died or was repeated after its envelope was sent; an unreachable cache; an
answer of a lagging peer or of no peer; a kill during an invoke; a reset. The
property says that the list is complete for this model of the gateway; section 8 names
what the model leaves out of it. It is useful as documentation: whoever wants a coherent
cache has to deal with each entry at least.

### Bootstrap

`pc` walks through `Runner.Initialize`: `configure` (`New`, the SDK, the identity,
`OrgTargetPeers`), `filter`, `create`, `join`, `joining`
(`InitializeChannel`), then `query`, and `reset` or `discover`, `install`,
`installing`, `verify`, `instantiate`, `commit` (`PrepareCC`). `targets` is
`setup.Targets`, the peers the configuration lists, which may be fewer than the
organisation has, or none: `OrgTargetPeers` skips an organisation it does not find, and
a start with no targets finds all of them joined. Which listing a start reads is chosen
at each start, as the file may be edited in between. Every missing file, identity,
organisation or argument of `configure` ends in `Panic`. The network's
variables are what outlives a start: `joining`, `sending` and `pending` are
requests on their way, which act late or never; `joined`, `installed`, `winner`
and `knows` are their effects. `Panic` is any step that fails, `Kill` the death of
the process where the code has no error path. `JoinReturns` always goes on, since
`JoinChannel` drops its error. `InstallCC` finds its own targets, as in the SDK.
What the orderer answers to a second creation of the channel is outside the
repository; both answers are allowed.

`Deployment` has no stages and no requests on their way, and of the process only which
start it belongs to and whether it serves. It is a ladder: the channel, the peers in it,
the packages, the one instantiation, the peers that know of it. Each rung may be climbed
at any time, by what any start has asked for, and nothing is undone. Instantiation needs
`Enough` peers with the package, one of them in the channel; serving needs the
instantiation. The refinement takes the network as it is, and says that the order of the
rungs survives every panic, every kill, and every effect that comes during a later start.

### Chaincode

A function of `ChaincodeFunctions` is an operator from arguments and state to
`[ok, reads, writes]`. The argument checks, their order and the dispatch are the code's,
including that `delete` wants one argument where the dispatcher has already asked for
two. Under a key the ledger holds a car or an amount. `reset` and `set` write cars:
`reset`, which `Init` runs too, makes a car of whatever it is given, and `set` refuses
what does not parse as one. Amounts come from `move` only, which takes a car for 0,
since it drops the error of `Atoi`. `Atoi`, `Wrap` and `Half` are Go's conversion and
its fixed-width arithmetic. `set` and `reset` read nothing through `GetState`; this is
why `Gateway`'s invokes conflict with nothing. Rich and range queries are modelled by
their argument checks; they write nothing.

`invokecc` writes a mark under a key of its own and calls another chaincode with the
empty channel (`cc.go:504`). The shim adds what that call reads and writes to the calling
transaction (`vendor/.../chaincode/shim/interfaces.go:62-75`), so that validation may turn
it down. Of the other chaincodes nothing is known but this: `Called` gives, for each call
that succeeds, the cells of `Foreign` it reads and writes, and what it writes is told
apart by the call and by what it has read (`Outcome`), the most general function of
them. `MarksAreCalls` says that a mark is on the ledger just when its call has taken
effect there, on the state it met. Its mutant names a channel in the call, which leaves
what is read and written out of the transaction.

In `Chaincode`, `Endorse` runs a proposal on the state after any prefix of the chain;
`Order` appends it, valid if no key it read has a newer version, and the writes of an
invalid one are dropped. Endorsed read-write sets are recomputed from the snapshot
(`Executed`), which is the same as keeping them.

`SerialLedger` has neither snapshots nor versions nor blocks: a transaction runs to its
end on the current state, at most once, or comes to nothing. It is refined by taking the
state at the end of the chain, and the transactions that are ordered.

### Explorer

`req[r]` is a handler: `op` the endpoint, `num`, `txid` and `key` what was asked for,
`pc` the query it is at: `ask` (one query of the ledger client), `range` (`queryRange`
about to index the ends of its range, which the body may lack: a panic, and 500),
`find` (rounds of a chaincode query, counted in `tries`), `lookup` (the loop of `queryWithBlock`). `nums`
is the history: its transactions, each with the block it was found in, `Nothing`
before. `shown` is the block whose content is answered, or the height of the prefix
whose state is. `chain` and `height` are the network, as in `ChannelClient`, with
invalid transactions.

No file of the repository sets the package's `logger`, so every `logger.Errorf` is a
nil dereference. After a status has been written that changes nothing; in the loop of
`queryWithBlock` it ends the handler with 500 (`LookUp`). `HistoryIsExact` and
`AmountsHaveNoHistory` rest on this: with a logger, the mutant `LookUpLogged`, the loop
would go on and answer 200 with block number 0 or with an empty car.
`GetBlock` drops the error of its query, so that an empty block is a 200;
`GetTransaction` goes on after one and panics; an envelope that does not parse is a 400
of both. `Numbered` is the ledger's reading of a
number, of which the greatest `uint64` is the last block: a client that asks for
block -1 gets it. Handlers share nothing, so that one request beside a growing chain
shows everything; the death of the process is `Gateway`'s.

`LedgerReader` has no peers: one chain, and to each question one answer, read from one
prefix of it in one step, or an error, or for a block and a scan nothing at all.
`Explorer` reaches such an answer in as many steps as it has queries, each to a peer of
another height. In the refinement (`ExplorerRefinement`) the entries of a history count
from the moment they are sent.

## 3. Runs

| Run | Checks | Shows |
|---|---|---|
| `client` | `ClientTypeOK`, `OkIsCommitted`, `OnlySentIsOrdered`, `IdsCommitOnce`, `ImplementsSubmission`, `CallsAreBounded`, `CallsReturn` | two concurrent calls with a retry each, a crash and a lagging peer keep the promise of `Submission`, and every call does bounded work and returns |
| `synchronous` | `SynchronousTransaction` (violated) | a call that has failed is committed later |
| `gateway` | `TypeOK`, `CacheProvenance`, `AnswersHaveOrigin`, `SuccessIsCommittedOrFailed`, `ReplacedByReader`, `RequestsAreBounded` | two requests and a restart race on one key: where cached cars and answers come from, who replaces documents, what a 200 to an invoke is worth, and that a request has ever less to do |
| `gateway_live` | `RequestsAreAnswered`, `StartsEnd`, `ImplementsSubmission` | requests are answered, unless CouchDB keeps one waiting for ever, and the resets of starts end; the calls of handlers and restarts are calls of `Submission` |
| `success_is_committed` | `SuccessIsCommitted` (violated) | a 200 for a car that is not on the ledger |
| `failure_is_not_committed` | `FailureIsNotCommitted` (violated) | a 500 for a car that is |
| `coherence` | `CoherentUnlessSuspect` | the list of causes of a stale cache is complete, within the model |
| `chaincode` | `Serializable`, `MoveConserves`, `MarksAreCalls`, `EntitiesStay`, `CarsBecomeAmounts`, `ImplementsSerialLedger` | three transactions on stale states, with every function and wrong arguments, are a serial ledger on which payments conserve, marks stand for calls, and keys stay |
| `payment` | `PaymentConserves` (violated) | a payment from a key to itself makes units |
| `bootstrap` | `InstantiatedIsInstalled`, `ServingIsInstantiated`, `ImplementsDeployment`, `StartsAreBounded`, `StartEnds`, `SettledStartResets` | three starts with failures, kills, late effects, and configurations that list no peer, one, or both |
| `passed_is_joined` | `PassedIsJoined` (violated) | a start goes on after a failed join |
| `explorer` | `TypeOK`, `HistoryIsExact`, `AmountsHaveNoHistory`, `ShownIsCommitted`, `ImplementsLedgerReader`, `ReadsAreBounded`, `ReadsAreAnswered` | a read request meets peers of different heights and a growing chain, and each of its queries may fail: what it answers is one read of one prefix of the chain |

Every property of a passing run has a mutant: a variant of one definition, with a
bug the code could plausibly have had, under which TLC finds the property violated.
The mutants stand before the definitions they vary and are used by nothing else.

All runs have `CHECK_DEADLOCK FALSE`, because calls, requests, restarts, starts and
transactions are finite sets whose members are each used once: when all are used up
the system really stops. What must not stop is stated as a liveness property.

## 4. Bounds

| Bound | Value in the runs (in the code) | Why it is enough |
|---|---|---|
| `MaxRetries` | 0 in `gateway` and `gateway_live`, 1 elsewhere (3) | one retry gives two ids of one call in the network, in either order; more repeat it. The proofs hold for every value |
| `Calls`, `Reqs` | two; one in `gateway_live` and `explorer` | every property relates at most two calls or requests; a restart is a third call. An `Explorer` request shares nothing with another |
| `Boots` | one | one reset beside two requests, before, between or after them |
| `Keys` | one per run; two in `gateway_live`, where nobody writes `kB` before the requests do | no action reads two keys; calls with several keys are the resets. `coherence` follows `kB`, which the reset leaves alone, as every other key is suspect from the restart on |
| `Peers` | one; two in `coherence` and `explorer` | one peer lags or not; two lag differently |
| `Values` | three in the runs of `Gateway`: `Car{}` and two others; one in `client` | old, new and empty are told apart. The properties of `client` follow transactions, not values; `ClientImplementsSubmission` holds for any values |
| `MaxFinds` | 2 (10) | a first, a middle and a last round |
| `Txs` | 3 in `chaincode`, 2 in `explorer` | a transaction, one that overtakes it, and one that runs on either state; for a reader, a history of two entries, of which a peer may know one |
| `Half` | 8 in `chaincode`, 4 in `explorer` (2^63) | payments of 3 wrap within three steps (the payment of 7 has an empty event name and is refused); the numbers asked for wrap to numbers beyond the chain |
| `Foreign`, `Called` | one cell, one call that reads and writes it | two calls race on a cell, and the later one is turned down; the proofs hold for any calls |
| `Nums` | -2 to 3 | a huge number, the number of the last block, the blocks 0 to 2, and one past the chain |
| `Starts` | 3 | a start whose effects come late, one that meets them, and one that finds the network settled |
| `Targets`, `Expected` | 2, 2 | the fixtures' organisation |
| `Listings` | no peer, one, both | nothing to set up, too little, and all; a listing of the other peer is the same by symmetry |
| `MaxTries` | 1 | a failed round and the last one |
| `SomeKeyTrusted` | constraint of `coherence` | once every key is suspect the invariant claims nothing, and keys stay suspect |

Symmetry is used for requests, values, peers and transactions, only in runs without
liveness properties. The values `red` and `blue` are exchanged only where both are
values a request may carry and no reset writes them.

## 5. Fairness

- `ClientFairSpec`: `WF` on the steps of each call. Every wait of a call is a `select`
  with the request's deadline, so its goroutine always has a step to take in the end.
- `FairSpec` of `Gateway`: the same, and `WF` on `main` after its reset has returned and
  on the handler of each request, except where it waits for CouchDB (`AwaitsCouch`). Go
  schedules runnable goroutines, and the SDK ends every wait for an orderer or a peer;
  but the client of CouchDB is made with no options (`utils.go:319`), so that `Rev`,
  `Get` and `Put` have no deadline. `RequestsAreAnswered` says what follows: a request is
  answered, or lost with its process, or it waits for CouchDB for ever.
- `StartsEnd` is about a start that has got as far as its reset. The ping of `InitCouchdb`
  before it has no deadline either; it is part of the step `Restart`, which need not come.
- `FairSpec` of `Bootstrap`: `WF` on `Step`. Every call in a start has a deadline,
  whose passing is the step `Panic` (for the join, `JoinReturns`).
- `FairSpec` of `Explorer`: `WF` on the handler of each request, whose queries have
  deadlines; their passing is an error of the query.

Nothing is assumed of clients, CouchDB, the orderer, the peers, kills or restarts:
none of them has to act, and the liveness properties hold as they are stated if they
never do.

## 6. Findings

1. `synchronous`: `base.go:527` calls `Execute` a synchronous transaction. It can be
   committed after it has failed.
2. `success_is_committed`: the page says that the submission succeeded
   (`carchain.html:83-85`) on a 200, which is also sent when `Execute` has failed
   (`base.go:536-538`); the refused car is then cached.
3. `failure_is_not_committed`: the page says that the submission failed
   (`carchain.html:87-88`) on a 500, which a nil `CouchDb` causes after the commit.
4. `payment`: `cc.go:166` promises a payment from A to B; with A = B the debit is lost.
5. `passed_is_joined`: `InitializeChannel` has an error for a failed join, and
   `JoinChannel` (`utils.go:218-224`) never reports one.

One more disagreement has no run. `base.go:427` says that the query verifies "that valid
transaction has been processed"; `GetTransaction` does not look at the validation code,
and `tx` shows a transaction that validation has turned down like any other. In
`Explorer` this is `Containing`, which takes valid and invalid transactions;
`ShownIsCommitted` claims no validity.

## 7. Proofs

Each theorem holds for every value of the constants that satisfies the named
assumption of its module: `ClientAssumption`, `GatewayAssumption`,
`BootstrapAssumption`, `ChaincodeAssumption`, `ExplorerAssumption`. TLC evaluates all
of them in the runs. Every invariant of a passing run is proved; so are its action
properties, the five refinements (`ImplementsSubmission` by the client and by the gateway,
`ImplementsSerialLedger`, `ImplementsLedgerReader`, `ImplementsDeployment`) and
`SettledStartResets`.

| Theorem | States | Argument |
|---|---|---|
| `ClientCorrect`, and from it `ClientTyped`, `OnlyTheSentIsOrdered`, `NoIdTwice` | `OkIsCommitted`, `ClientTypeOK`, `OnlySentIsOrdered`, `IdsCommitOnce` | `ClientInv`: the type invariant with `Started` (a call that was made is in a permitted attempt), and the three others together. An id is in one place because a call broadcasts only an id it has not sent before, and everything in the network has been sent |
| `ClientImplementsSubmission` | `ClientSpec => ImplementsSubmission` | from `ClientInv`: a valid block is an effect `Submission` permits, since its transaction was sent by a call that was made and is in no earlier block; a success follows an effect |
| `GatewayCorrect`, `GatewayTyped` | `CacheProvenance`, `TypeOK` | `CacheProvenance` is not inductive: what is written was decided steps before. `GatewayInv` adds `Handlers` (what the locals of a handler stand for) and `Effects` (a valid block holds its call's write set), beside `ClientInv`, whose lemmas are stated for actions and apply as they are |
| `GatewayReplacedByReader` | `ReplacedByReader` | from `GatewayInv`: `Fill` puts revision 0, which no document has, and only `PutCar` is left |
| `QueriesHaveOrigin` | `AnswersHaveOrigin` | from `GatewayInv` and `Told`: the car of an answered query has an origin. A document's origin is lost when `PutCar` replaces it, so the answer cannot be traced through the cache: `Told` is about the answer, and the origins only grow (blocks are appended, and a call that has failed stays failed) |
| `FalseSuccessIsFailure` | `SuccessIsCommittedOrFailed` | `Told` also says that the call of an invoke that is answered with 200 has returned; one that has returned no error is on the chain by `OkIsCommitted` |
| `GatewayCallsAreSafe` | `OkIsCommitted`, `OnlySentIsOrdered`, `IdsCommitOnce` for the whole gateway | they are conjuncts of `ClientInv`, which `GatewayInv` contains: what is proved of a client alone holds of the client with its callers |
| `GatewayImplementsSubmission` | `Spec => ImplementsSubmission` for the whole gateway | composition: an arriving invoke and a restart are the calls of `Submission`, the death of the process is the failure of all its calls at once, every step of handlers, cache and `main` is a stutter. The step lemmas of `ClientImplementsSubmission` apply, with a ledger that `Init` of the chaincode has written |
| `CoherenceCorrect` | `CoherentUnlessSuspect` | the property speaks of keys nobody works on, so it is not inductive. `CohInv` says what is true of a trusted key (not suspect) meanwhile (`Trusted`): no overlap; every call that writes it has succeeded or belongs to the invoke that runs it (`Writers`); an envelope that can still change it is the current attempt of that call (`Pending`); once committed, its car is still on top (`OnTop`); a revision that was read is current (`Revs`); what a query has found is the ledger's value (`Found`); and outside an invoke the document is exact (`Settled`). Each entry of the list of causes is what lets one of these go: a proof without `StaleFind`, for example, fails where `FindOnce` must keep `Found` |
| `ChaincodeCorrect` | `Serializable` | `Locality`: a function that succeeds depends on no key it has not read. `Versions`: the same version is the same value. So a transaction whose reads are unchanged would do now what it did then |
| `MarksAlwaysCalls` | `MarksAreCalls` | a mark is written by the call of its own transaction only (`OwnMark`), which is ordered once; by `Locality` and `Versions` a call that validation lets through finds what it has read still there, so that what it writes is `Outcome` on the state before its block |
| `PaymentsConserve` | `MoveConserves` | from `Serializable`: both amounts are those of the state just before. A key that is there holds a car or an int (`WorldTypes`), so that `Wrap` turns sum and difference by a multiple of `2 * Half`, for every `Half` |
| `EntitiesAlwaysStay`, `CarsMakeWay` | `EntitiesStay`, `CarsBecomeAmounts` | from `Serializable`, function by function; what validation turns down changes nothing (`Inert`) |
| `ChaincodeRefines` | `Spec => ImplementsSerialLedger` | a valid block is a run on the state before it (`Serializable`), an invalid one a transaction that came to nothing |
| `BootstrapCorrect`, `ServesInstantiated` | `InstantiatedIsInstalled`, `ServingIsInstantiated` | `Counted`: the peers a start has found to be installed are installed, and there are enough of them; `Instantiated`: who knows the chaincode has learnt it from a committed instantiation |
| `BootstrapImplementsDeployment` | `Spec => ImplementsDeployment` | `DeploymentInv` adds `Endorsed` to the invariant: while an instantiation is under way some peer is in the channel and has the package, and it belongs to a start that has begun. It stays so while that start dies and others run, so that a late commit is a step of `Deployment` |
| `SettledStartsReset` | `SettledStartResets` | a nested temporal formula: from the moment a start of a settled network begins, `ResetsOnly` of that start is an invariant, in which found targets and those left make up all of them; a settled network stays settled |
| `ExplorerTyped`, `ExplorerCorrect` | `TypeOK`, `HistoryIsExact` | `ExplorerInv` adds what a history in the making is: the writes some prefix of the chain had, with those found so far at their own blocks. The chain only grows and each transaction is on it once, so that neither changes under the handler |
| `HistoriesAreOfCars` | `AmountsHaveNoHistory` | the same invariant: every entry found is a car's |
| `AnswersAreCommitted` | `ShownIsCommitted` | the same invariant; a negative number is beyond the chain or the greatest of all, for every `Half` beyond its length |
| `ExplorerImplementsLedgerReader` | `Spec => ImplementsLedgerReader` | `ReaderInv` adds `Pending` to `ExplorerInv`: what a handler at each query may have been asked, that it has told nothing yet, and that a history that is looked up has entries. By `ExplorerInv` those are the valid writes of some prefix, and once all are found cars at their own blocks, so that the answer is a read of that prefix |

### Bounded work

A liveness property has two halves: that a step happens, which is fairness, and that
only so many can happen, which is an action property. The second half is where a retry
loop goes wrong, and it is proved:

| Theorem | States | Rank |
|---|---|---|
| `CallsDoBoundedWork` | `CallsAreBounded` | `StepsLeft`: four steps for every attempt that is left, and those of the current one. Each step of a call lowers it by one or more, and it never becomes negative, since no attempt is beyond the limit |
| `RequestsDoBoundedWork` | `RequestsAreBounded` | `WorkLeft`: what is left of the handler and of its call. A step of the one leaves the other alone, and a handler goes on only when its call has none left |
| `StartsDoBoundedWork` | `StartsAreBounded` | the stage, then the round and the peers left to ask in it |
| `ReadsDoBoundedWork` | `ReadsAreBounded` | the stage, then the round of `Find` or the entries of the history that are still open |

Each holds for every value of the constants. Only model-checked are the liveness
properties themselves (`CallsReturn`, `RequestsAreAnswered`, `StartsEnd`, `StartEnds`,
`ReadsAreAnswered`): fairness and `ENABLED` are beyond the prover. Of `StartsEnd`, the
reset of a restart is a call as above, and the step after it is the last one.

No module uses a recursive operator; none of the modelled code needs one.

## 8. What is not modelled, and why

- `queryKV` (`chain.go:93`): no route leads to it. Of what the explorer endpoints
  answer, hashes, signatures, timestamps and payloads.
- The client page, the scripts, configuration, tools and fixtures: no state. The
  page's two messages are the claims of two findings. Of the configuration, `Bootstrap`
  has what a start branches on, the listed peers; every other value is there or the
  start panics.
- An organisation that `orgExpectedPeers` does not have (`prepare.go:193`): the start
  goes on with no organisation, installs nothing and panics at `orgs[0]`. It has touched
  nothing by then, and is a `Panic`.
- The rest of the SDK: discovery, selection, connections, MSP. It is third-party,
  and what the modelled calls ask of it is left open: any endorsers, any peers, any
  error. Backoff times between attempts are left out; the deadline may come anywhere.
- CouchDB, the orderer and the peers are external; they are modelled by what the
  code relies on. CouchDB is modelled without loss of documents. One solo orderer, as in the
  fixtures, never loses what it has accepted.
- A request to CouchDB takes effect when it is answered, or never. CouchDB may also apply
  a `Put` whose handler has died, or has got an error, at any later time while the
  revision it names is current. The late copy of a query's car could then be cached after
  an invoke has replaced it on the ledger: one more cause of a stale cache, which
  `GatewayCoherence` does not list.
- Other clients of the ledger that write the keys of cars, and other programs that write
  `carcache`: `CacheProvenance` and `CoherentUnlessSuspect` know the gateway's own requests
  and resets only.
- The code `GenericTransient`, for which `queryInstantiatedCC` answers "not instantiated"
  instead of an error (`prepare.go:101-105`): nothing the query calls produces it.
- The namespaces of other chaincodes have no writer but `invokecc`: they are not called
  directly, and what they do to other keys than those of `Called` is left out. `invokecc`
  with the chaincode's own ID is not modelled. No proposal names a key that `invokecc` has
  written (`ChaincodeAssumption`): a `set` under such a key could replace a mark.
- JSON and keys are opaque. A car whose fields are all empty cannot have a key, so
  `Car{}` is never a car of an invoke.

## 9. Plan

Done: every component that keeps state or takes part in a protocol is modelled, and
every safety property is proved, each component but the car endpoints with an abstract
specification of its own.

Considered and left out:

- `Bootstrap` composed with `Gateway`. They share the process and one call, the reset,
  which `Gateway` has with everything around it. What a start does before the reset does
  not touch ledger keys, cache or handlers, and the product would be too large for TLC.
- `Chaincode` composed with `ChannelClient`. The gateway calls only `set`, `reset` and
  queries; `set` and `reset` read nothing, and `ChannelClient` leaves the validity of
  every transaction open, which includes what versions decide.

Next, an abstract specification of the car endpoints themselves. `Submission` says
what their calls promise, `CacheProvenance`, `AnswersHaveOrigin` and
`CoherentUnlessSuspect` what the cache does; a car store with one abstract ledger and one
abstract cache, which `Gateway` implements, would say both at once.

Open: the liveness properties rest on small instances. With one retry, `gateway_live`
has over a million states and takes longer than the five minutes a run may take; retries
under fairness are checked in `client`.
