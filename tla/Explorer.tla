----------------------------- MODULE Explorer ------------------------------
(***************************************************************************)
(* The read endpoints of the gateway (service/chain.go, service/base.go):  *)
(* chain information, a block, a transaction, the history of a car with    *)
(* its block numbers, and the group, range and like queries.               *)
(*                                                                         *)
(* A request is a goroutine that asks one peer after another, each of      *)
(* which answers from the prefix of the chain it has committed by then.    *)
(*                                                                         *)
(* No code sets the package's logger, so logger.Errorf is a nil            *)
(* dereference.  It ends the handler: the answer is 500, or the status     *)
(* that had been written before.                                           *)
(***************************************************************************)
EXTENDS Integers, Sequences

CONSTANTS
  Reqs,       \* HTTP requests; each is handled once
  Peers,      \* the peers the gateway may ask
  Keys,       \* ledger keys
  Txs,        \* transaction ids; each is committed at most once
  Missing,    \* no key, no transaction
  Nums,       \* the numbers clients ask blocks for; some are negative
  Half,       \* an int is in -Half..Half-1 (2^63), a block number in 0..2*Half-1
  MaxFinds    \* maxRetries of GetValueFromKey and GetValueFromKeys (10)

ASSUME ExplorerAssumption ==
  /\ Half \in Nat \ {0}
  /\ Nums \subseteq -Half..(Half - 1)
  /\ Missing \notin Keys \cup Txs
  /\ MaxFinds \in Nat \ {0}

VARIABLES
  chain,      \* the blocks after the first, with one transaction each
  height,     \* height[p]: the number of them peer p has committed
  req         \* req[r]: the goroutine that handles request r

vars == <<chain, height, req>>

Block == [tx : Txs, key : Keys, value : {"car", "amount"}, valid : BOOLEAN]

Asking == {"ask", "range", "find", "lookup"}

\* nums maps the transactions of a history to their blocks, and shown is the
\* block whose content (or the height of the prefix whose state) is answered.
Nothing   == -1
Blocks    == Nothing..Len(chain)
Histories == UNION {[T -> Blocks] : T \in SUBSET Txs}

ReqState ==
  [pc : {"idle", "done"} \cup Asking,
   op : {"none", "chain", "block", "tx", "history", "scan"},
   num : Nums \cup {Nothing}, txid : Txs \cup {Missing}, key : Keys \cup {Missing},
   tries : 0..MaxFinds,
   nums : Histories,
   shown : Blocks,
   status : {0, 200, 400, 500}]

NoRequest ==
  [pc |-> "idle", op |-> "none", num |-> Nothing, txid |-> Missing, key |-> Missing,
   tries |-> 0, nums |-> [t \in {} |-> Nothing], shown |-> Nothing, status |-> 0]

Init ==
  /\ chain = <<>>
  /\ height = [p \in Peers |-> 0]
  /\ req = [r \in Reqs |-> NoRequest]

(***************************************************************************)
(* What a peer with the blocks 0 to h knows.  Block 0 is the channel's.    *)
(***************************************************************************)

\* The history of a key: its valid writes.  A key without one has no state.
Written(k, h) ==
  {t \in Txs : \E i \in 1..h :
     chain[i].tx = t /\ chain[i].key = k /\ chain[i].valid}

\* The blocks that answer to a number; the greatest uint64 asks for the last.
Uint64(n) == IF n >= 0 THEN n ELSE n + 2 * Half
Last      == 2 * Half - 1
Numbered(n, h) == {i \in 0..h : i = Uint64(n) \/ (Uint64(n) = Last /\ i = h)}

\* The block of a transaction, valid or not.
Containing(t, h) == {i \in 1..h : chain[i].tx = t}

IsCar(t) == \E i \in 1..Len(chain) : chain[i].tx = t /\ chain[i].value = "car"

(***************************************************************************)
(* Arrival.                                                                *)
(***************************************************************************)
Reply(r, status, shown) ==
  req' = [req EXCEPT ![r].pc = "done", ![r].status = status, ![r].shown = shown]

\* A body or a number that does not parse.
Refuse(r) ==
  /\ req[r].pc = "idle"
  /\ \E status \in {400, 500} : Reply(r, status, Nothing)
  /\ UNCHANGED <<chain, height>>

Arrive(r) ==
  /\ req[r].pc = "idle"
  /\ \/ req' = [req EXCEPT ![r].pc = "ask", ![r].op = "chain"]
     \/ \E n \in Nums :
          req' = [req EXCEPT ![r].pc = "ask", ![r].op = "block", ![r].num = n]
     \/ \E t \in Txs :
          req' = [req EXCEPT ![r].pc = "ask", ![r].op = "tx", ![r].txid = t]
     \/ \E k \in Keys :
          req' = [req EXCEPT ![r].pc = "find", ![r].op = "history", ![r].key = k]
     \/ \E pc \in {"range", "find"} :
          req' = [req EXCEPT ![r].pc = pc, ![r].op = "scan"]
  /\ UNCHANGED <<chain, height>>

(***************************************************************************)
(* One query of the ledger client, to one target (maxTargets is 1).        *)
(***************************************************************************)
GetBlockchainInfo(r) ==
  /\ req[r].pc = "ask" /\ req[r].op = "chain"
  /\ \/ \E p \in Peers : Reply(r, 200, height[p])
     \/ Reply(r, 400, Nothing)
  /\ UNCHANGED <<chain, height>>

\* GetBlock drops the error of the query: an empty block is answered with 200.  A
\* block with an envelope that does not parse is answered 400.
GetBlock(r) ==
  /\ req[r].pc = "ask" /\ req[r].op = "block"
  /\ \/ \E p \in Peers : \E i \in Numbered(req[r].num, height[p]) : Reply(r, 200, i)
     \/ \E status \in {200, 400} : Reply(r, status, Nothing)
  /\ UNCHANGED <<chain, height>>

\* Mutant of GetTransaction: the missing answer is tested for, and left empty.
GetTransactionOrEmpty(r) ==
  /\ req[r].pc = "ask" /\ req[r].op = "tx"
  /\ \/ \E p \in Peers : \E i \in Containing(req[r].txid, height[p]) : Reply(r, 200, i)
     \/ Reply(r, 200, Nothing)
  /\ UNCHANGED <<chain, height>>

\* The validation code of the transaction is not looked at.  GetTransaction goes
\* on after an error, with a nil answer, and panics; an envelope that does not
\* parse is answered 400.
GetTransaction(r) ==
  /\ req[r].pc = "ask" /\ req[r].op = "tx"
  /\ \/ \E p \in Peers : \E i \in Containing(req[r].txid, height[p]) : Reply(r, 200, i)
     \/ \E status \in {400, 500} : Reply(r, status, Nothing)
  /\ UNCHANGED <<chain, height>>

(***************************************************************************)
(* Chaincode queries: at most MaxFinds rounds, then "" without an error.   *)
(***************************************************************************)

\* Mutants of Again: a round too many, and rounds that are not counted.
AgainPastBound(r, status) ==
  IF req[r].tries < MaxFinds
    THEN req' = [req EXCEPT ![r].tries = @ + 1]
    ELSE req' = [req EXCEPT
           ![r].tries = @ + 1, ![r].pc = "done", ![r].status = status]

AgainUncounted(r, status) ==
  IF req[r].tries + 1 < MaxFinds
    THEN UNCHANGED req
    ELSE req' = [req EXCEPT
           ![r].tries = @ + 1, ![r].pc = "done", ![r].status = status]

\* A round has found nothing; after the last the empty answer gets its status.
Again(r, status) ==
  IF req[r].tries + 1 < MaxFinds
    THEN req' = [req EXCEPT ![r].tries = @ + 1]
    ELSE req' = [req EXCEPT
           ![r].tries = @ + 1, ![r].pc = "done", ![r].status = status]

\* queryWithBlock, its Find: "" does not parse and is answered 400.
FindHistory(r) ==
  /\ req[r].pc = "find" /\ req[r].op = "history"
  /\ \/ \E p \in Peers :
          /\ Written(req[r].key, height[p]) # {}
          /\ req' = [req EXCEPT ![r].pc = "lookup",
               ![r].nums = [t \in Written(req[r].key, height[p]) |-> Nothing]]
     \/ Again(r, 400)
  /\ UNCHANGED <<chain, height>>

\* queryRange indexes the two ends of the range, which the body need not have: the
\* handler panics then, with nothing asked of a peer, and the router answers 500.
RangeEnds(r) ==
  /\ req[r].pc = "range"
  /\ req' = [req EXCEPT ![r].pc = "find"] \/ Reply(r, 500, Nothing)
  /\ UNCHANGED <<chain, height>>

\* queryGroup, queryRange and queryLike answer 200 whatever Find returns.
FindMany(r) ==
  /\ req[r].pc = "find" /\ req[r].op = "scan"
  /\ \/ \E p \in Peers : Reply(r, 200, height[p])
     \/ Again(r, 200)
  /\ UNCHANGED <<chain, height>>

\* The block number of one entry; the answer is sent after the last.
Enter(r, t, n) ==
  LET nums == [req[r].nums EXCEPT ![t] = n]
  IN  req' = IF \E u \in DOMAIN nums : nums[u] = Nothing
               THEN [req EXCEPT ![r].nums = nums]
               ELSE [req EXCEPT
                      ![r].nums = nums, ![r].pc = "done", ![r].status = 200]

\* Mutant of LookUp: the logger is set, so that the loop goes on after an error
\* with an empty car, or with block number 0.
LookUpLogged(r) ==
  /\ req[r].pc = "lookup"
  /\ \E t \in DOMAIN req[r].nums :
       /\ req[r].nums[t] = Nothing
       /\ \/ \E p \in Peers : \E i \in Containing(t, height[p]) : Enter(r, t, i)
          \/ Enter(r, t, 0)
  /\ UNCHANGED <<chain, height>>

\* queryWithBlock, its loop: the value must be a car, and some peer must know the
\* block.  An error of either is logged, which panics.  The order of the entries
\* does not matter, as the first error ends the loop.
LookUp(r) ==
  /\ req[r].pc = "lookup"
  /\ \E t \in DOMAIN req[r].nums :
       /\ req[r].nums[t] = Nothing
       /\ \/ /\ IsCar(t)
             /\ \E p \in Peers : \E i \in Containing(t, height[p]) : Enter(r, t, i)
          \/ Reply(r, 500, Nothing)
  /\ UNCHANGED <<chain, height>>

(***************************************************************************)
(* The network.                                                            *)
(***************************************************************************)
\* Bound: the chain does not grow to 2^63 blocks.
Commit(t) ==
  /\ Len(chain) + 1 < Half
  /\ \A i \in 1..Len(chain) : chain[i].tx # t
  /\ \E k \in Keys, v \in {"car", "amount"}, valid \in BOOLEAN :
       chain' = Append(chain, [tx |-> t, key |-> k, value |-> v, valid |-> valid])
  /\ UNCHANGED <<height, req>>

CatchUp(p) ==
  /\ height[p] < Len(chain)
  /\ height' = [height EXCEPT ![p] = @ + 1]
  /\ UNCHANGED <<chain, req>>

Handle(r) ==
  \/ GetBlockchainInfo(r) \/ GetBlock(r) \/ GetTransaction(r)
  \/ FindHistory(r) \/ RangeEnds(r) \/ FindMany(r) \/ LookUp(r)

Next ==
  \/ \E r \in Reqs : Refuse(r) \/ Arrive(r) \/ Handle(r)
  \/ \E t \in Txs : Commit(t)
  \/ \E p \in Peers : CatchUp(p)

Spec == Init /\ [][Next]_vars

\* Goroutines run; every query of a peer has a deadline, whose passing is an error.
FairSpec == Spec /\ \A r \in Reqs : WF_vars(Handle(r))
-----------------------------------------------------------------------------
\* Every variable keeps its type.
TypeOK ==
  /\ chain \in Seq(Block)
  /\ height \in [Peers -> 0..Len(chain)]
  /\ req \in [Reqs -> ReqState]

Answered(r, op) == req[r].op = op /\ req[r].status = 200

\* An answered history is the one some peer had, with every entry's own block,
\* although each entry is looked up at another time and on another peer, which
\* may know less than the one that gave the history (chain.go:253-272).
HistoryIsExact ==
  \A r \in Reqs : Answered(r, "history") =>
    LET nums == req[r].nums
    IN  /\ \E h \in 0..Len(chain) : DOMAIN nums = Written(req[r].key, h)
        /\ \A t \in DOMAIN nums :
             nums[t] \in 1..Len(chain) /\ chain[nums[t]].tx = t

\* An answered history holds cars only.  A payment, which other clients of the
\* chaincode may make, writes amounts: a history with such an entry is never
\* answered, as its parse error ends the handler (chain.go:255-259).
AmountsHaveNoHistory ==
  \A r \in Reqs : Answered(r, "history") =>
    \A i \in 1..Len(chain) :
      chain[i].tx \in DOMAIN req[r].nums => chain[i].value = "car"

\* What the other endpoints show is on the chain: a transaction is the one asked
\* for, a block that is not empty has the number asked for or was asked for as the
\* last one, and an empty scan means that every round has failed.
ShownIsCommitted ==
  \A r \in Reqs :
    /\ Answered(r, "tx") =>
         req[r].shown > 0 /\ chain[req[r].shown].tx = req[r].txid
    /\ Answered(r, "block") =>
         \/ req[r].shown \in {Nothing, req[r].num}
         \/ Uint64(req[r].num) = Last
    /\ Answered(r, "scan") /\ req[r].shown = Nothing => req[r].tries = MaxFinds

\* The stages of a request, in their order, and the entries of a history that are
\* still without a block number.
StagesLeft(r) ==
  CASE req[r].pc = "range" -> 3 [] req[r].pc = "find" -> 2
    [] req[r].pc \in {"ask", "lookup"} -> 1 [] OTHER -> 0

Open(r) == {t \in DOMAIN req[r].nums : req[r].nums[t] = Nothing}

\* A read does bounded work: each of its steps ends a stage for good, or is one of
\* the permitted rounds of Find, or settles an entry of the history and opens none
\* (base.go:548-596, chain.go:240-275), whatever the peers answer.
ReadsAreBounded ==
  [][\A r \in Reqs : req[r].pc \in Asking /\ req'[r] # req[r] =>
       \/ StagesLeft(r)' < StagesLeft(r)
       \/ /\ req[r].pc = "find" /\ req'[r].pc = "find"
          /\ req[r].tries < req'[r].tries /\ req'[r].tries < MaxFinds
       \/ /\ req[r].pc = "lookup" /\ req'[r].pc = "lookup"
          /\ Open(r)' \subseteq Open(r) /\ Open(r)' # Open(r)]_vars

\* Every request is answered, whatever the peers do.
ReadsAreAnswered == \A r \in Reqs : req[r].pc \in Asking ~> req[r].pc = "done"
=============================================================================
