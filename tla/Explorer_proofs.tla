-------------------------- MODULE Explorer_proofs --------------------------
(***************************************************************************)
(* What the explorer answers is exact, whatever chain, peers and requests: *)
(* the type invariant, and the invariants on histories, blocks,            *)
(* transactions and scans that have been answered; that it implements      *)
(* LedgerReader; and that each request does bounded work.                  *)
(***************************************************************************)
EXTENDS ExplorerRefinement, TLAPS

\* A transaction is in one block only.
Distinct ==
  \A i, j \in 1..Len(chain) : chain[i].tx = chain[j].tx => i = j

\* Entry t of a history has its own block, and its value is a car.
Exact(t, n) == n \in 1..Len(chain) /\ chain[n].tx = t /\ IsCar(t)

\* Where the history that request r holds comes from, and how far it is done.
HistoryOf(r) ==
  /\ \E h \in 0..Len(chain) : DOMAIN req[r].nums = Written(req[r].key, h)
  /\ \A t \in DOMAIN req[r].nums :
       req[r].nums[t] # Nothing => Exact(t, req[r].nums[t])

\* What an answer may show of the chain.
Fits(op, num, txid, tries, shown) ==
  /\ op = "tx" => shown \in 1..Len(chain) /\ chain[shown].tx = txid
  /\ op = "block" => shown \in {Nothing, num} \/ Uint64(num) = Last
  /\ op = "scan" /\ shown = Nothing => tries = MaxFinds

ShownBy(r) ==
  req[r].status = 200 =>
    Fits(req[r].op, req[r].num, req[r].txid, req[r].tries, req[r].shown)

Reading(r) ==
  /\ req[r].pc = "lookup" => req[r].op = "history"
  /\ ShownBy(r)
  /\ req[r].pc # "done" => req[r].status # 200
  /\ req[r].pc \in {"idle", "range", "find"} => req[r].tries < MaxFinds
  /\ req[r].pc = "lookup" \/ Answered(r, "history") => HistoryOf(r)
  /\ Answered(r, "history") =>
       \A t \in DOMAIN req[r].nums : req[r].nums[t] # Nothing

ExplorerInv == TypeOK /\ Distinct /\ Len(chain) < Half /\ \A r \in Reqs : Reading(r)

-----------------------------------------------------------------------------
\* A request that does not move keeps what it has read.
LEMMA ReadingStays ==
  ASSUME TypeOK, NEW r \in Reqs, Reading(r), req'[r] = req[r],
         chain' = chain \/ \E b \in Block : chain' = Append(chain, b)
  PROVE  Reading(r)'
<1>1. CASE chain' = chain
  BY <1>1 DEF Reading, HistoryOf, Answered, Exact, IsCar, Written, ShownBy, Fits
<1>2. CASE chain' # chain
  <2>1. PICK b \in Block : chain' = Append(chain, b)
    BY <1>2
  <2>2. HistoryOf(r) => HistoryOf(r)'
    <3> SUFFICES ASSUME HistoryOf(r) PROVE HistoryOf(r)'
      OBVIOUS
    <3>1. PICK h \in 0..Len(chain) : DOMAIN req[r].nums = Written(req[r].key, h)
      BY DEF HistoryOf
    <3>2. h \in 0..Len(chain') /\ \A i \in 1..h : chain'[i] = chain[i]
      BY <2>1 DEF TypeOK
    <3>3. (DOMAIN req[r].nums = Written(req[r].key, h))'
      BY <3>1, <3>2 DEF Written
    <3>4. \A t \in DOMAIN req[r].nums :
            req[r].nums[t] # Nothing => Exact(t, req[r].nums[t])'
      <4> SUFFICES ASSUME NEW t \in DOMAIN req[r].nums, req[r].nums[t] # Nothing
                   PROVE  Exact(t, req[r].nums[t])'
        OBVIOUS
      <4> DEFINE n == req[r].nums[t]
      <4>1. Exact(t, n)
        BY DEF HistoryOf
      <4>2. Len(chain') = Len(chain) + 1 /\ Len(chain) \in Nat
        BY <2>1 DEF TypeOK
      <4>3. \A i \in 1..Len(chain) : chain'[i] = chain[i] /\ i \in 1..Len(chain')
        BY <2>1, <4>2 DEF TypeOK
      <4> QED
        BY <4>1, <4>3 DEF Exact, IsCar
    <3> QED
      BY <3>2, <3>3, <3>4 DEF HistoryOf
  <2>3. ShownBy(r)'
    <3>1. /\ Len(chain) \in Nat /\ Len(chain') = Len(chain) + 1
          /\ \A i \in 1..Len(chain) : chain'[i] = chain[i]
      BY <2>1 DEF TypeOK
    <3> QED
      BY <3>1 DEF Reading, ShownBy, Fits
  <2> QED
    BY <2>2, <2>3 DEF Reading, Answered
<1> QED
  BY <1>1, <1>2

\* A request in its type stays in it when the chain grows.
LEMMA ReqStateGrows ==
  ASSUME Len(chain) \in Nat, Len(chain') \in Nat, Len(chain) <= Len(chain')
  PROVE  ReqState \subseteq ReqState'
<1>1. Blocks \subseteq Blocks'
  BY DEF Blocks, Nothing
<1>2. \A T \in SUBSET Txs : [T -> Blocks] \subseteq [T -> Blocks']
  BY <1>1
<1>3. Histories \subseteq Histories'
  BY <1>2 DEF Histories
<1> QED
  BY <1>1, <1>3 DEF ReqState

\* The first state.
LEMMA ExplorerInit == Init => ExplorerInv
<1> SUFFICES ASSUME Init PROVE ExplorerInv
  OBVIOUS
<1>1. chain \in Seq(Block) /\ Len(chain) = 0
  BY DEF Init
<1>2. NoRequest \in ReqState
  <2>1. [t \in {} |-> Nothing] \in [{} -> Blocks]
    OBVIOUS
  <2>2. [t \in {} |-> Nothing] \in Histories
    BY <2>1 DEF Histories
  <2>3. 0 \in 0..MaxFinds /\ Nothing \in Blocks
    BY <1>1, ExplorerAssumption DEF Blocks, Nothing
  <2> QED
    BY <2>2, <2>3 DEF NoRequest, ReqState
<1>3. TypeOK
  BY <1>1, <1>2 DEF Init, TypeOK
<1>4. Distinct /\ \A r \in Reqs : Reading(r)
  BY <1>1, ExplorerAssumption DEF Init, Distinct, Reading, Answered, NoRequest, ShownBy
<1> QED
  BY <1>1, <1>3, <1>4, ExplorerAssumption DEF ExplorerInv

\* A step of the network keeps everything that has been read.
LEMMA NetworkStep ==
  ASSUME ExplorerInv, (\E t \in Txs : Commit(t)) \/ (\E p \in Peers : CatchUp(p))
  PROVE  ExplorerInv'
<1>1. CASE \E t \in Txs : Commit(t)
  <2>1. PICK t \in Txs : Commit(t)
    BY <1>1
  <2>2. PICK b \in Block : b.tx = t /\ chain' = Append(chain, b)
    BY <2>1 DEF Commit, Block
  <2>3. /\ chain \in Seq(Block) /\ chain' \in Seq(Block)
        /\ Len(chain) \in Nat /\ Len(chain') = Len(chain) + 1
    BY <2>2 DEF ExplorerInv, TypeOK
  <2>4. height' = height /\ req' = req
    BY <2>1 DEF Commit
  <2>5. TypeOK'
    <3>1. ReqState \subseteq ReqState'
      BY <2>3, ReqStateGrows
    <3>2. height' \in [Peers -> 0..Len(chain')]
      BY <2>3, <2>4 DEF ExplorerInv, TypeOK
    <3> QED
      BY <2>3, <2>4, <3>1, <3>2 DEF ExplorerInv, TypeOK
  <2>6. Distinct'
    <3>1. \A i \in 1..Len(chain) : chain'[i] = chain[i] /\ chain[i].tx # t
      BY <2>1, <2>2, <2>3 DEF Commit
    <3>2. chain'[Len(chain')].tx = t
      BY <2>2, <2>3
    <3>3. \A i \in 1..Len(chain') : i \in 1..Len(chain) \/ i = Len(chain')
      BY <2>3
    <3> QED
      BY <3>1, <3>2, <3>3 DEF ExplorerInv, Distinct
  <2>7. \A r \in Reqs : Reading(r)'
    BY <2>2, <2>4, ReadingStays DEF ExplorerInv
  <2>8. Len(chain') < Half
    BY <2>1, <2>3 DEF Commit
  <2> QED
    BY <2>5, <2>6, <2>7, <2>8 DEF ExplorerInv
<1>2. CASE \E p \in Peers : CatchUp(p)
  <2>1. chain' = chain /\ req' = req
    BY <1>2 DEF CatchUp
  <2>2. height' \in [Peers -> 0..Len(chain)]
    BY <1>2 DEF CatchUp, ExplorerInv, TypeOK
  <2>3. TypeOK' /\ Distinct'
    BY <2>1, <2>2 DEF ExplorerInv, TypeOK, ReqState, Histories, Blocks, Distinct
  <2>4. \A r \in Reqs : Reading(r)'
    BY <2>1, ReadingStays DEF ExplorerInv
  <2> QED
    BY <2>1, <2>3, <2>4 DEF ExplorerInv
<1> QED
  BY <1>1, <1>2

\* A step of one request: enough that its new state has its type and is exact.
LEMMA RequestStep ==
  ASSUME ExplorerInv, NEW r \in Reqs, NEW new \in ReqState,
         UNCHANGED <<chain, height>>, req' = [req EXCEPT ![r] = new], Reading(r)'
  PROVE  ExplorerInv'
<1>1. TypeOK'
  BY DEF ExplorerInv, TypeOK, ReqState, Histories, Blocks
<1>2. Distinct'
  BY DEF ExplorerInv, Distinct
<1>3. \A q \in Reqs : q # r => req'[q] = req[q]
  BY DEF ExplorerInv, TypeOK
<1>4. \A q \in Reqs : Reading(q)'
  BY <1>3, ReadingStays DEF ExplorerInv
<1> QED
  BY <1>1, <1>2, <1>4 DEF ExplorerInv

\* The codes of an answer, and the rounds of a chaincode query.
Codes  == {200, 400, 500}
Rounds == 0..MaxFinds

\* The state of a request whose answer shows no block.
LEMMA StatusType ==
  ASSUME NEW s \in ReqState, NEW status \in Codes
  PROVE  [s EXCEPT !.pc = "done", !.status = status] \in ReqState
<1> DEFINE t == [s EXCEPT !.pc = "done"]
<1>1. t \in ReqState
  BY DEF ReqState
<1>2. [t EXCEPT !.status = status] \in ReqState
  <2> HIDE DEF t
  <2> QED
    BY <1>1 DEF ReqState, Codes
<1>3. [t EXCEPT !.status = status] = [s EXCEPT !.pc = "done", !.status = status]
  OBVIOUS
<1> QED
  BY <1>2, <1>3

\* The state of a request that has been answered.
LEMMA ReplyType ==
  ASSUME NEW s \in ReqState, NEW status \in Codes,
         NEW shown \in Blocks
  PROVE  [s EXCEPT !.pc = "done", !.status = status, !.shown = shown] \in ReqState
<1> DEFINE t == [s EXCEPT !.pc = "done", !.status = status]
<1>1. t \in ReqState
  BY StatusType
<1>2. [t EXCEPT !.shown = shown] \in ReqState
  <2> HIDE DEF t
  <2> QED
    BY <1>1 DEF ReqState
<1>3. [t EXCEPT !.shown = shown]
        = [s EXCEPT !.pc = "done", !.status = status, !.shown = shown]
  OBVIOUS
<1> QED
  BY <1>2, <1>3

\* The state of a request after the last round of Find.
LEMMA LastType ==
  ASSUME NEW s \in ReqState, NEW status \in Codes, NEW n \in Rounds
  PROVE  [s EXCEPT !.tries = n, !.pc = "done", !.status = status] \in ReqState
<1> DEFINE t == [s EXCEPT !.tries = n]
<1>1. t \in ReqState
  BY DEF ReqState, Rounds
<1>2. [t EXCEPT !.pc = "done", !.status = status] \in ReqState
  <2> HIDE DEF t
  <2> QED
    BY <1>1, StatusType
<1>3. [t EXCEPT !.pc = "done", !.status = status]
        = [s EXCEPT !.tries = n, !.pc = "done", !.status = status]
  OBVIOUS
<1> QED
  BY <1>2, <1>3

\* The state of a request that has its history, or more of its block numbers.
LEMMA HistoryType ==
  ASSUME NEW s \in ReqState, NEW f \in Histories
  PROVE  /\ [s EXCEPT !.nums = f] \in ReqState
         /\ [s EXCEPT !.pc = "lookup", !.nums = f] \in ReqState
<1> DEFINE t == [s EXCEPT !.nums = f]
           u == [s EXCEPT !.pc = "lookup"]
<1>1. t \in ReqState
  BY DEF ReqState
<1>2. u \in ReqState
  BY DEF ReqState, Asking
<1>3. [u EXCEPT !.nums = f] \in ReqState
  <2> HIDE DEF u
  <2> QED
    BY <1>2 DEF ReqState
<1>4. [u EXCEPT !.nums = f] = [s EXCEPT !.pc = "lookup", !.nums = f]
  OBVIOUS
<1> QED
  BY <1>1, <1>3, <1>4

\* The state of a request that has the last of its block numbers.
LEMMA HistoryEndType ==
  ASSUME NEW s \in ReqState, NEW f \in Histories
  PROVE  [s EXCEPT !.nums = f, !.pc = "done", !.status = 200] \in ReqState
<1> DEFINE t == [s EXCEPT !.nums = f]
<1>1. t \in ReqState
  BY DEF ReqState
<1>2. [t EXCEPT !.pc = "done", !.status = 200] \in ReqState
  <2> HIDE DEF t
  <2>1. 200 \in Codes
    BY DEF Codes
  <2> QED
    BY <1>1, <2>1, StatusType
<1>3. [t EXCEPT !.pc = "done", !.status = 200]
        = [s EXCEPT !.nums = f, !.pc = "done", !.status = 200]
  OBVIOUS
<1> QED
  BY <1>2, <1>3

\* Where a handler begins, and the kinds of request.
Entries == {"ask", "range", "find"}
Kinds   == {"chain", "block", "tx", "history", "scan"}

\* The state of a request that has arrived, with at most one argument.
LEMMA ArriveType ==
  ASSUME NEW s \in ReqState, NEW pc \in Entries,
         NEW op \in Kinds
  PROVE  /\ [s EXCEPT !.pc = pc, !.op = op] \in ReqState
         /\ \A n \in Nums : [s EXCEPT !.pc = pc, !.op = op, !.num = n] \in ReqState
         /\ \A t \in Txs : [s EXCEPT !.pc = pc, !.op = op, !.txid = t] \in ReqState
         /\ \A k \in Keys : [s EXCEPT !.pc = pc, !.op = op, !.key = k] \in ReqState
<1> DEFINE u == [s EXCEPT !.pc = pc]
           v == [s EXCEPT !.pc = pc, !.op = op]
<1>1. u \in ReqState
  BY DEF ReqState, Asking, Entries
<1>2. [u EXCEPT !.op = op] \in ReqState
  <2> HIDE DEF u
  <2> QED
    BY <1>1 DEF ReqState, Kinds
<1>3. v \in ReqState
  <2>1. [u EXCEPT !.op = op] = v
    OBVIOUS
  <2> QED
    BY <1>2, <2>1
<1>4. ASSUME NEW n \in Nums
      PROVE  [s EXCEPT !.pc = pc, !.op = op, !.num = n] \in ReqState
  <2>1. [v EXCEPT !.num = n] \in ReqState
    <3> HIDE DEF v
    <3> QED
      BY <1>3 DEF ReqState
  <2>2. [v EXCEPT !.num = n] = [s EXCEPT !.pc = pc, !.op = op, !.num = n]
    OBVIOUS
  <2> QED
    BY <2>1, <2>2
<1>5. ASSUME NEW t \in Txs
      PROVE  [s EXCEPT !.pc = pc, !.op = op, !.txid = t] \in ReqState
  <2>1. [v EXCEPT !.txid = t] \in ReqState
    <3> HIDE DEF v
    <3> QED
      BY <1>3 DEF ReqState
  <2>2. [v EXCEPT !.txid = t] = [s EXCEPT !.pc = pc, !.op = op, !.txid = t]
    OBVIOUS
  <2> QED
    BY <2>1, <2>2
<1>6. ASSUME NEW k \in Keys
      PROVE  [s EXCEPT !.pc = pc, !.op = op, !.key = k] \in ReqState
  <2>1. [v EXCEPT !.key = k] \in ReqState
    <3> HIDE DEF v
    <3> QED
      BY <1>3 DEF ReqState
  <2>2. [v EXCEPT !.key = k] = [s EXCEPT !.pc = pc, !.op = op, !.key = k]
    OBVIOUS
  <2> QED
    BY <2>1, <2>2
<1> QED
  BY <1>3, <1>4, <1>5, <1>6

\* An answer that is no history.
LEMMA ReplyStep ==
  ASSUME ExplorerInv, NEW r \in Reqs, NEW status \in Codes,
         NEW shown \in Blocks, Reply(r, status, shown),
         status = 200 => /\ req[r].op # "history"
                         /\ Fits(req[r].op, req[r].num, req[r].txid, req[r].tries, shown),
         UNCHANGED <<chain, height>>
  PROVE  ExplorerInv'
<1> DEFINE new == [req[r] EXCEPT !.pc = "done", !.status = status, !.shown = shown]
<1>1. req[r] \in ReqState /\ req \in [Reqs -> ReqState]
  BY DEF ExplorerInv, TypeOK
<1>2. new \in ReqState
  BY <1>1, ReplyType
<1>3. req' = [req EXCEPT ![r] = new]
  BY DEF Reply
<1>4. req'[r] = new
  BY <1>1, <1>3
<1>5. /\ new.pc = "done" /\ new.status = status /\ new.op = req[r].op
      /\ new.num = req[r].num /\ new.txid = req[r].txid /\ new.tries = req[r].tries
      /\ new.shown = shown
  BY <1>1 DEF ReqState
<1>6. Reading(r)'
  <2> HIDE DEF new
  <2> QED
    BY <1>4, <1>5 DEF Reading, Answered, ShownBy, Fits
<1> QED
  BY <1>2, <1>3, <1>6, RequestStep

\* A round of a chaincode query that has found nothing.
LEMMA AgainStep ==
  ASSUME ExplorerInv, NEW r \in Reqs, NEW status \in Codes,
         req[r].pc = "find", Again(r, status),
         status # 200 \/ req[r].op = "scan", UNCHANGED <<chain, height>>
  PROVE  ExplorerInv'
<1> DEFINE n    == req[r].tries + 1
           more == [req[r] EXCEPT !.tries = n]
           last == [req[r] EXCEPT !.tries = n, !.pc = "done", !.status = status]
<1>1. req[r] \in ReqState /\ req \in [Reqs -> ReqState] /\ Reading(r)
  BY DEF ExplorerInv, TypeOK
<1>2. req[r].tries \in 0..MaxFinds
  BY <1>1 DEF ReqState
<1>3. n \in Rounds
  BY <1>1, <1>2, ExplorerAssumption DEF Reading, Rounds
<1>4. CASE n < MaxFinds
  <2>1. more \in ReqState
    <3> HIDE DEF n
    <3> QED
      BY <1>1, <1>3 DEF ReqState, Rounds
  <2>2. req' = [req EXCEPT ![r] = more]
    BY <1>4 DEF Again
  <2>3. req'[r] = more
    BY <1>1, <2>2
  <2>4. more.pc = "find" /\ more.status = req[r].status /\ more.tries = n
    BY <1>1 DEF ReqState
  <2>5. Reading(r)'
    <3> HIDE DEF more
    <3> QED
      BY <1>1, <1>4, <2>3, <2>4 DEF Reading, Answered, ShownBy
  <2> QED
    BY <2>1, <2>2, <2>5, RequestStep
<1>5. CASE ~(n < MaxFinds)
  <2>1. last \in ReqState
    BY <1>1, <1>3, LastType
  <2>2. req' = [req EXCEPT ![r] = last]
    BY <1>5 DEF Again
  <2>3. req'[r] = last
    BY <1>1, <2>2
  <2>4. last.pc = "done" /\ last.status = status /\ last.op = req[r].op /\ last.tries = n
    BY <1>1 DEF ReqState
  <2>5. n = MaxFinds
    BY <1>1, <1>2, <1>5, ExplorerAssumption DEF Reading
  <2>6. Reading(r)'
    <3> HIDE DEF last, n
    <3> QED
      BY <2>3, <2>4, <2>5 DEF Reading, Answered, ShownBy, Fits
  <2> QED
    BY <2>1, <2>2, <2>6, RequestStep
<1> QED
  BY <1>4, <1>5

\* A request that has just arrived has read nothing.
LEMMA ArrivedStep ==
  ASSUME ExplorerInv, NEW r \in Reqs, req[r].pc = "idle", NEW new \in ReqState,
         req' = [req EXCEPT ![r] = new], new.pc \in Entries,
         new.status = req[r].status, new.tries = req[r].tries,
         UNCHANGED <<chain, height>>
  PROVE  ExplorerInv'
<1>1. req'[r] = new /\ Reading(r)
  BY DEF ExplorerInv, TypeOK
<1>2. Reading(r)'
  BY <1>1 DEF Reading, Answered, ShownBy, Entries
<1> QED
  BY <1>2, RequestStep

\* A request arrives.
LEMMA ArriveStep ==
  ASSUME ExplorerInv, NEW r \in Reqs, Arrive(r)
  PROVE  ExplorerInv'
<1> DEFINE s == req[r]
<1>1. s \in ReqState /\ s.pc = "idle" /\ UNCHANGED <<chain, height>>
  BY DEF ExplorerInv, TypeOK, Arrive
<1>0. Entries = {"ask", "range", "find"} /\ Kinds = {"chain", "block", "tx", "history", "scan"}
  BY DEF Entries, Kinds
<1>2. CASE req' = [req EXCEPT ![r].pc = "ask", ![r].op = "chain"]
  <2> DEFINE new == [s EXCEPT !.pc = "ask", !.op = "chain"]
  <2>1. req' = [req EXCEPT ![r] = new]
    BY <1>2
  <2>2. new \in ReqState
    BY <1>1, <1>0, ArriveType
  <2>3. new.pc = "ask" /\ new.status = s.status /\ new.tries = s.tries
    BY <1>1 DEF ReqState
  <2>4. new.pc \in Entries
    BY <1>0, <2>3
  <2> QED
    <3> HIDE DEF new
    <3> QED
      BY <1>1, <2>1, <2>2, <2>3, <2>4, ArrivedStep
<1>3. ASSUME NEW n \in Nums,
             req' = [req EXCEPT ![r].pc = "ask", ![r].op = "block", ![r].num = n]
      PROVE  ExplorerInv'
  <2> DEFINE new == [s EXCEPT !.pc = "ask", !.op = "block", !.num = n]
  <2>1. req' = [req EXCEPT ![r] = new]
    BY <1>3
  <2>2. new \in ReqState
    BY <1>1, <1>0, ArriveType
  <2>3. new.pc = "ask" /\ new.status = s.status /\ new.tries = s.tries
    BY <1>1 DEF ReqState
  <2>4. new.pc \in Entries
    BY <1>0, <2>3
  <2> QED
    <3> HIDE DEF new
    <3> QED
      BY <1>1, <2>1, <2>2, <2>3, <2>4, ArrivedStep
<1>4. ASSUME NEW t \in Txs,
             req' = [req EXCEPT ![r].pc = "ask", ![r].op = "tx", ![r].txid = t]
      PROVE  ExplorerInv'
  <2> DEFINE new == [s EXCEPT !.pc = "ask", !.op = "tx", !.txid = t]
  <2>1. req' = [req EXCEPT ![r] = new]
    BY <1>4
  <2>2. new \in ReqState
    BY <1>1, <1>0, ArriveType
  <2>3. new.pc = "ask" /\ new.status = s.status /\ new.tries = s.tries
    BY <1>1 DEF ReqState
  <2>4. new.pc \in Entries
    BY <1>0, <2>3
  <2> QED
    <3> HIDE DEF new
    <3> QED
      BY <1>1, <2>1, <2>2, <2>3, <2>4, ArrivedStep
<1>5. ASSUME NEW k \in Keys,
             req' = [req EXCEPT ![r].pc = "find", ![r].op = "history", ![r].key = k]
      PROVE  ExplorerInv'
  <2> DEFINE new == [s EXCEPT !.pc = "find", !.op = "history", !.key = k]
  <2>1. req' = [req EXCEPT ![r] = new]
    BY <1>5
  <2>2. new \in ReqState
    BY <1>1, <1>0, ArriveType
  <2>3. new.pc = "find" /\ new.status = s.status /\ new.tries = s.tries
    BY <1>1 DEF ReqState
  <2>4. new.pc \in Entries
    BY <1>0, <2>3
  <2> QED
    <3> HIDE DEF new
    <3> QED
      BY <1>1, <2>1, <2>2, <2>3, <2>4, ArrivedStep
<1>6. ASSUME NEW pc \in {"range", "find"},
             req' = [req EXCEPT ![r].pc = pc, ![r].op = "scan"]
      PROVE  ExplorerInv'
  <2> DEFINE new == [s EXCEPT !.pc = pc, !.op = "scan"]
  <2>1. req' = [req EXCEPT ![r] = new]
    BY <1>6
  <2>2. new \in ReqState
    BY <1>1, <1>0, ArriveType
  <2>3. new.pc = pc /\ new.status = s.status /\ new.tries = s.tries
    BY <1>1 DEF ReqState
  <2>4. new.pc \in Entries
    BY <1>0, <2>3
  <2> QED
    <3> HIDE DEF new
    <3> QED
      BY <1>1, <2>1, <2>2, <2>3, <2>4, ArrivedStep
<1> QED
  BY <1>2, <1>3, <1>4, <1>5, <1>6 DEF Arrive

\* A round of Find, or the last, of a history.
LEMMA FindHistoryStep ==
  ASSUME ExplorerInv, NEW r \in Reqs, FindHistory(r)
  PROVE  ExplorerInv'
<1> DEFINE s == req[r]
<1>1. /\ s \in ReqState /\ req \in [Reqs -> ReqState] /\ Reading(r)
      /\ s.pc = "find" /\ s.op = "history" /\ UNCHANGED <<chain, height>>
  BY DEF ExplorerInv, TypeOK, FindHistory
<1>2. CASE Again(r, 400)
  <2>1. 400 \in Codes /\ 400 # 200
    BY DEF Codes
  <2> QED
    BY <1>1, <1>2, <2>1, AgainStep
<1>3. ASSUME NEW p \in Peers,
             req' = [req EXCEPT ![r].pc = "lookup",
               ![r].nums = [t \in Written(req[r].key, height[p]) |-> Nothing]]
      PROVE  ExplorerInv'
  <2> DEFINE f   == [t \in Written(req[r].key, height[p]) |-> Nothing]
             new == [s EXCEPT !.pc = "lookup", !.nums = f]
  <2>1. f \in Histories
    <3>1. Written(req[r].key, height[p]) \in SUBSET Txs
      BY DEF Written
    <3>2. Nothing \in Blocks
      BY DEF Blocks, Nothing, ExplorerInv, TypeOK
    <3> QED
      BY <3>1, <3>2 DEF Histories
  <2>2. new \in ReqState
    <3> HIDE DEF f
    <3> QED
      BY <1>1, <2>1, HistoryType
  <2>3. req' = [req EXCEPT ![r] = new]
    BY <1>3
  <2>4. req'[r] = new
    BY <1>1, <2>3
  <2>5. /\ new.pc = "lookup" /\ new.op = "history" /\ new.key = s.key
        /\ new.nums = f /\ new.status = s.status
    BY <1>1 DEF ReqState
  <2>6. height[p] \in 0..Len(chain) /\ DOMAIN f = Written(s.key, height[p])
    BY DEF ExplorerInv, TypeOK
  <2>7. \A t \in DOMAIN f : f[t] = Nothing
    OBVIOUS
  <2>8. HistoryOf(r)'
    <3> HIDE DEF f, new
    <3>1. req'[r].nums = f /\ req'[r].key = s.key /\ chain' = chain
      BY <1>1, <2>4, <2>5
    <3>2. (DOMAIN req[r].nums = Written(req[r].key, height[p]))'
      BY <1>1, <2>6, <3>1 DEF Written
    <3> QED
      BY <1>1, <2>6, <2>7, <3>1, <3>2 DEF HistoryOf
  <2>9. Reading(r)'
    <3> HIDE DEF f, new
    <3> QED
      BY <1>1, <2>4, <2>5, <2>8 DEF Reading, Answered, ShownBy
  <2> QED
    BY <1>1, <2>2, <2>3, <2>9, RequestStep
<1> QED
  BY <1>2, <1>3 DEF FindHistory

\* The block number of one entry is entered.
LEMMA EnterStep ==
  ASSUME ExplorerInv, NEW r \in Reqs, req[r].pc = "lookup",
         NEW t \in DOMAIN req[r].nums, NEW n, Exact(t, n), Enter(r, t, n),
         UNCHANGED <<chain, height>>
  PROVE  ExplorerInv'
<1> DEFINE s == req[r]
           f == [s.nums EXCEPT ![t] = n]
           all == ~ \E u \in DOMAIN f : f[u] = Nothing
           more == [s EXCEPT !.nums = f]
           last == [s EXCEPT !.nums = f, !.pc = "done", !.status = 200]
           new == IF all THEN last ELSE more
<1>1. /\ s \in ReqState /\ req \in [Reqs -> ReqState] /\ Reading(r)
      /\ HistoryOf(r) /\ s.op = "history" /\ chain \in Seq(Block)
  BY DEF ExplorerInv, TypeOK, Reading
<1>2. f \in Histories
  <2>1. PICK T \in SUBSET Txs : s.nums \in [T -> Blocks]
    <3>1. s.nums \in Histories
      BY <1>1 DEF ReqState
    <3> QED
      BY <3>1 DEF Histories
  <2>2. n \in Blocks
    BY <1>1 DEF Exact, Blocks, Nothing
  <2>3. f \in [T -> Blocks]
    BY <2>1, <2>2
  <2> HIDE DEF f
  <2> QED
    BY <2>3 DEF Histories
<1>3. more \in ReqState /\ last \in ReqState
  <2> HIDE DEF f
  <2>1. more \in ReqState
    BY <1>1, <1>2, HistoryType
  <2>2. last \in ReqState
    BY <1>1, <1>2, HistoryEndType
  <2> QED
    BY <2>1, <2>2
<1>4. req' = [req EXCEPT ![r] = new]
  <2>1. CASE all
    BY <2>1 DEF Enter
  <2>2. CASE ~all
    BY <2>2 DEF Enter
  <2> QED
    BY <2>1, <2>2
<1>5. req'[r] = new
  <2> HIDE DEF new
  <2> QED
    BY <1>1, <1>4
<1>6. /\ new.op = "history" /\ new.key = s.key /\ new.nums = f
      /\ all => new.pc = "done"
      /\ ~all => new.pc = "lookup" /\ new.status = s.status
  <2> HIDE DEF f, all
  <2> QED
    BY <1>1 DEF ReqState
<1>7. /\ DOMAIN f = DOMAIN s.nums
      /\ \A u \in DOMAIN f : f[u] # Nothing => Exact(u, f[u])
  BY <1>1 DEF HistoryOf
<1>8. HistoryOf(r)'
  <2> HIDE DEF f, new
  <2>1. req'[r].nums = f /\ req'[r].key = s.key /\ chain' = chain
    BY <1>5, <1>6
  <2>2. PICK h \in 0..Len(chain) : DOMAIN f = Written(s.key, h)
    BY <1>1, <1>7 DEF HistoryOf
  <2>3. (DOMAIN req[r].nums = Written(req[r].key, h))'
    BY <2>1, <2>2 DEF Written
  <2>4. \A u \in DOMAIN req'[r].nums :
          req'[r].nums[u] # Nothing => Exact(u, req[r].nums[u])'
    BY <1>7, <2>1 DEF Exact, IsCar
  <2> QED
    BY <2>1, <2>2, <2>3, <2>4 DEF HistoryOf
<1>9. Reading(r)'
  <2>1. all => \A u \in DOMAIN f : f[u] # Nothing
    OBVIOUS
  <2> HIDE DEF f, new, all
  <2> QED
    BY <1>1, <1>5, <1>6, <1>8, <2>1 DEF Reading, Answered, ShownBy, Fits
<1>10. new \in ReqState
  BY <1>3
<1> QED
  BY <1>4, <1>9, <1>10, RequestStep

\* A step of the loop over a history.
LEMMA LookUpStep ==
  ASSUME ExplorerInv, NEW r \in Reqs, LookUp(r)
  PROVE  ExplorerInv'
<1>1. req[r].pc = "lookup" /\ UNCHANGED <<chain, height>>
  BY DEF LookUp
<1>2. CASE Reply(r, 500, Nothing)
  <2>1. 500 \in Codes /\ 500 # 200
    BY DEF Codes
  <2>2. Nothing \in Blocks
    BY DEF Blocks, Nothing, ExplorerInv, TypeOK
  <2> QED
    BY <1>1, <1>2, <2>1, <2>2, ReplyStep
<1>3. ASSUME NEW t \in DOMAIN req[r].nums, IsCar(t), NEW p \in Peers,
             NEW i \in Containing(t, height[p]), Enter(r, t, i)
      PROVE  ExplorerInv'
  <2>1. Exact(t, i)
    BY <1>3 DEF Exact, Containing, ExplorerInv, TypeOK
  <2> QED
    BY <1>1, <1>3, <2>1, EnterStep
<1> QED
  BY <1>2, <1>3 DEF LookUp

\* The ends of a range are there, and Find begins, or the handler ends.
LEMMA RangeStep ==
  ASSUME ExplorerInv, NEW r \in Reqs, RangeEnds(r)
  PROVE  ExplorerInv'
<1> DEFINE new == [req[r] EXCEPT !.pc = "find"]
<1>1. /\ req \in [Reqs -> ReqState] /\ req[r] \in ReqState /\ Reading(r)
      /\ req[r].pc = "range" /\ UNCHANGED <<chain, height>>
  BY DEF ExplorerInv, TypeOK, RangeEnds
<1>2. CASE Reply(r, 500, Nothing)
  <2>1. 500 \in Codes /\ 500 # 200
    BY DEF Codes
  <2>2. Nothing \in Blocks
    BY DEF Blocks, Nothing, ExplorerInv, TypeOK
  <2> QED
    BY <1>1, <1>2, <2>1, <2>2, ReplyStep
<1>3. CASE req' = [req EXCEPT ![r].pc = "find"]
  <2>1. req' = [req EXCEPT ![r] = new]
    BY <1>1, <1>3
  <2>2. new \in ReqState
    BY <1>1 DEF ReqState, Asking
  <2>3. /\ new.pc = "find" /\ new.op = req[r].op /\ new.status = req[r].status
        /\ new.tries = req[r].tries
    BY <1>1 DEF ReqState
  <2> HIDE DEF new
  <2>4. req'[r] = new
    BY <1>1, <2>1
  <2>5. Reading(r)'
    BY <1>1, <2>3, <2>4 DEF Reading, Answered, ShownBy
  <2> QED
    BY <1>1, <2>1, <2>2, <2>5, RequestStep
<1> QED
  BY <1>2, <1>3 DEF RangeEnds

\* A step of a handler.
LEMMA HandleStep ==
  ASSUME ExplorerInv, NEW r \in Reqs, Handle(r)
  PROVE  ExplorerInv'
<1>0. /\ 200 \in Codes /\ 400 \in Codes /\ 500 \in Codes
      /\ Nothing \in Blocks /\ \A p \in Peers : 0..height[p] \subseteq Blocks
  BY DEF Codes, Blocks, Nothing, ExplorerInv, TypeOK
<1>1. CASE GetBlockchainInfo(r)
  <2>1. \A p \in Peers : height[p] \in Blocks
    BY <1>0 DEF ExplorerInv, TypeOK
  <2> QED
    BY <1>0, <1>1, <2>1, ReplyStep DEF GetBlockchainInfo, Fits
<1>2. CASE GetBlock(r)
  <2>1. \A p \in Peers : Numbered(req[r].num, height[p]) \subseteq Blocks
    BY <1>0 DEF Numbered
  <2>2. req[r].num \in Nums \cup {Nothing} /\ Len(chain) < Half
    BY DEF ExplorerInv, TypeOK, ReqState
  <2>3. \A p \in Peers : \A i \in Numbered(req[r].num, height[p]) :
          i = req[r].num \/ Uint64(req[r].num) = Last
    <3> SUFFICES ASSUME NEW p \in Peers, NEW i \in 0..height[p],
                        i = Uint64(req[r].num), i # req[r].num
                 PROVE  FALSE
      BY DEF Numbered
    <3>1. i < Half /\ i \in Nat
      <4>1. height[p] \in 0..Len(chain) /\ Len(chain) \in Nat
        BY DEF ExplorerInv, TypeOK
      <4> QED
        BY <2>2, <4>1, ExplorerAssumption
    <3>2. req[r].num \in Int /\ req[r].num >= -Half
      <4> DEFINE n == req[r].num
      <4>1. Half \in Nat /\ Half >= 1
        BY ExplorerAssumption
      <4>2. \A m \in Nums : m \in Int /\ m >= -Half
        BY <4>1, ExplorerAssumption
      <4>3. n \in Nums \/ n = -1
        BY <2>2 DEF Nothing
      <4> HIDE DEF n
      <4>4. n \in Int /\ n >= -Half
        BY <4>1, <4>2, <4>3
      <4> QED
        BY <4>4 DEF n
    <3> QED
      BY <3>1, <3>2, ExplorerAssumption DEF Uint64
  <2>4. UNCHANGED <<chain, height>> /\ req[r].op = "block"
    BY <1>2 DEF GetBlock
  <2>5. ASSUME NEW p \in Peers, NEW i \in Numbered(req[r].num, height[p]), Reply(r, 200, i)
        PROVE  ExplorerInv'
    BY <1>0, <2>1, <2>3, <2>4, <2>5, ReplyStep DEF Fits
  <2>6. ASSUME NEW status \in {200, 400}, Reply(r, status, Nothing)
        PROVE  ExplorerInv'
    BY <1>0, <2>4, <2>6, ReplyStep DEF Fits
  <2> QED
    BY <1>2, <2>5, <2>6 DEF GetBlock
<1>3. CASE GetTransaction(r)
  <2>1. \A p \in Peers : Containing(req[r].txid, height[p]) \subseteq Blocks
    BY DEF Containing, Blocks, Nothing, ExplorerInv, TypeOK
  <2>2. \A p \in Peers : \A i \in Containing(req[r].txid, height[p]) :
          i \in 1..Len(chain) /\ chain[i].tx = req[r].txid
    BY DEF Containing, ExplorerInv, TypeOK
  <2> QED
    BY <1>0, <1>3, <2>1, <2>2, ReplyStep DEF GetTransaction, Fits
<1>4. CASE FindHistory(r)
  BY <1>4, FindHistoryStep
<1>5. CASE FindMany(r)
  <2>1. \A p \in Peers : height[p] \in Blocks
    BY <1>0 DEF ExplorerInv, TypeOK
  <2>2. req[r].pc = "find" /\ req[r].op = "scan" /\ UNCHANGED <<chain, height>>
    BY <1>5 DEF FindMany
  <2>3. CASE Again(r, 200)
    BY <1>0, <2>2, <2>3, AgainStep
  <2>4. CASE \E p \in Peers : Reply(r, 200, height[p])
    <3>1. \A p \in Peers : height[p] # Nothing
      BY DEF Nothing, ExplorerInv, TypeOK
    <3> QED
      BY <1>0, <2>1, <2>2, <2>4, <3>1, ReplyStep DEF Fits
  <2> QED
    BY <1>5, <2>3, <2>4 DEF FindMany
<1>6. CASE LookUp(r)
  BY <1>6, LookUpStep
<1>7. CASE RangeEnds(r)
  BY <1>7, RangeStep
<1> QED
  BY <1>1, <1>2, <1>3, <1>4, <1>5, <1>6, <1>7 DEF Handle

\* What the loop has entered is what the answer owes.
LEMMA AnswersAreExact ==
  ExplorerInv => HistoryIsExact /\ AmountsHaveNoHistory /\ ShownIsCommitted
<1> SUFFICES ASSUME ExplorerInv
             PROVE  HistoryIsExact /\ AmountsHaveNoHistory /\ ShownIsCommitted
  OBVIOUS
<1>1. ASSUME NEW r \in Reqs, Answered(r, "history")
      PROVE  HistoryOf(r) /\ \A t \in DOMAIN req[r].nums : Exact(t, req[r].nums[t])
  BY <1>1 DEF ExplorerInv, Reading, HistoryOf
<1>2. HistoryIsExact
  BY <1>1 DEF HistoryIsExact, HistoryOf, Exact
<1>3. AmountsHaveNoHistory
  BY <1>1 DEF AmountsHaveNoHistory, Exact, IsCar, ExplorerInv, Distinct
<1>4. ShownIsCommitted
  <2> SUFFICES ASSUME NEW r \in Reqs, req[r].status = 200
               PROVE  /\ req[r].op = "tx" =>
                           req[r].shown > 0 /\ chain[req[r].shown].tx = req[r].txid
                      /\ req[r].op = "block" =>
                           \/ req[r].shown \in {Nothing, req[r].num}
                           \/ Uint64(req[r].num) = Last
                      /\ req[r].op = "scan" /\ req[r].shown = Nothing =>
                           req[r].tries = MaxFinds
    BY DEF ShownIsCommitted, Answered
  <2> QED
    BY DEF ExplorerInv, Reading, ShownBy, Fits, TypeOK
<1> QED
  BY <1>2, <1>3, <1>4

\* The invariant holds in every state.
LEMMA ExplorerInvariant == Spec => []ExplorerInv
<1>1. Init => ExplorerInv
  BY ExplorerInit
<1>2. ExplorerInv /\ [Next]_vars => ExplorerInv'
  <2> SUFFICES ASSUME ExplorerInv, [Next]_vars PROVE ExplorerInv'
    OBVIOUS
  <2>1. ASSUME NEW r \in Reqs, Refuse(r)
        PROVE  ExplorerInv'
    <3>1. 400 \in Codes /\ 500 \in Codes /\ 400 # 200 /\ 500 # 200
      BY DEF Codes
    <3>2. Nothing \in Blocks
      BY DEF Blocks, Nothing, ExplorerInv, TypeOK
    <3> QED
      BY <2>1, <3>1, <3>2, ReplyStep DEF Refuse
  <2>2. ASSUME NEW r \in Reqs, Arrive(r)
        PROVE  ExplorerInv'
    BY <2>2, ArriveStep
  <2>3. ASSUME NEW r \in Reqs, Handle(r)
        PROVE  ExplorerInv'
    BY <2>3, HandleStep
  <2>4. CASE (\E t \in Txs : Commit(t)) \/ (\E p \in Peers : CatchUp(p))
    BY <2>4, NetworkStep
  <2>5. CASE UNCHANGED vars
    <3>1. chain' = chain /\ height' = height /\ req' = req
      BY <2>5 DEF vars
    <3>2. TypeOK' /\ Distinct'
      BY <3>1 DEF ExplorerInv, TypeOK, ReqState, Histories, Blocks, Distinct
    <3>3. \A r \in Reqs : Reading(r)'
      BY <3>1, ReadingStays DEF ExplorerInv
    <3> QED
      BY <3>1, <3>2, <3>3 DEF ExplorerInv
  <2> QED
    BY <2>1, <2>2, <2>3, <2>4, <2>5 DEF Next
<1> QED
  BY <1>1, <1>2, PTL DEF Spec

\* Every variable keeps its type, for any number of requests and peers.
THEOREM ExplorerTyped == Spec => []TypeOK
<1>1. ExplorerInv => TypeOK
  BY DEF ExplorerInv
<1> QED
  BY ExplorerInvariant, <1>1, PTL

\* For every chain, set of peers and number of requests: an answered history is
\* the one of a prefix of the chain, with every entry's own block.
THEOREM ExplorerCorrect == Spec => []HistoryIsExact
BY ExplorerInvariant, AnswersAreExact, PTL

\* A history in which a payment has left an amount is never answered.
THEOREM HistoriesAreOfCars == Spec => []AmountsHaveNoHistory
BY ExplorerInvariant, AnswersAreExact, PTL

\* A transaction, a block or a scan that is answered is what was asked for, for
\* every width of a block number and every number asked for.
THEOREM AnswersAreCommitted == Spec => []ShownIsCommitted
BY ExplorerInvariant, AnswersAreExact, PTL

-----------------------------------------------------------------------------
(***************************************************************************)
(* The explorer implements LedgerReader.  ExplorerInv says what an answer  *)
(* holds; the mapping also needs that nothing is answered before its time, *)
(* and that a history is asked of a key that has one (Pending).            *)
(***************************************************************************)
Pending(r) ==
  /\ req[r].pc = "idle" => QuestionOf(r) = Reader!Unasked
  /\ req[r].pc \in Asking => req[r].op # "none"
  /\ req[r].pc = "range" => req[r].op = "scan"
  /\ req[r].pc = "lookup" => DOMAIN req[r].nums # {}
  /\ req[r].pc # "done" => req[r].status = 0 /\ req[r].shown = Nothing
  /\ req[r].pc = "done" => req[r].status # 0
  /\ req[r].op # "history" => DOMAIN req[r].nums = {}

ReaderInv == ExplorerInv /\ \A r \in Reqs : Pending(r)

\* What a step of request r leaves alone.
Local(r) ==
  /\ UNCHANGED <<chain, height>>
  /\ req' = [req EXCEPT ![r] = req'[r]]
  /\ QuestionOf(r)' = QuestionOf(r)

\* An answer is sent, with the entries there are.
Sent(r, status, shown) ==
  /\ req'[r].pc = "done" /\ req'[r].status = status /\ req'[r].shown = shown
  /\ req'[r].nums = req[r].nums

LEMMA ReplyEffect ==
  ASSUME TypeOK, NEW r \in Reqs, NEW status, NEW shown, Reply(r, status, shown),
         UNCHANGED <<chain, height>>
  PROVE  Local(r) /\ Sent(r, status, shown)
<1> DEFINE new == [req[r] EXCEPT !.pc = "done", !.status = status, !.shown = shown]
<1>1. req \in [Reqs -> ReqState] /\ req[r] \in ReqState
  BY DEF TypeOK
<1>2. req' = [req EXCEPT ![r] = new]
  BY DEF Reply
<1>3. req'[r] = new
  BY <1>1, <1>2
<1>4. /\ new.pc = "done" /\ new.status = status /\ new.shown = shown
      /\ new.op = req[r].op /\ new.num = req[r].num /\ new.txid = req[r].txid
      /\ new.key = req[r].key /\ new.nums = req[r].nums
  BY <1>1 DEF ReqState
<1> HIDE DEF new
<1> QED
  BY <1>2, <1>3, <1>4 DEF Local, Sent, QuestionOf

\* A round that has found nothing: another one, or an empty answer.
LEMMA AgainEffect ==
  ASSUME TypeOK, NEW r \in Reqs, NEW status, Again(r, status),
         UNCHANGED <<chain, height>>
  PROVE  /\ Local(r)
         /\ \/ /\ req'[r].pc = req[r].pc /\ req'[r].status = req[r].status
               /\ req'[r].shown = req[r].shown /\ req'[r].nums = req[r].nums
               /\ req'[r].tries = req[r].tries + 1 /\ req'[r].tries < MaxFinds
            \/ Sent(r, status, req[r].shown)
<1> DEFINE n    == req[r].tries + 1
           more == [req[r] EXCEPT !.tries = n]
           last == [req[r] EXCEPT !.tries = n, !.pc = "done", !.status = status]
<1>1. req \in [Reqs -> ReqState] /\ req[r] \in ReqState
  BY DEF TypeOK
<1>2. CASE n < MaxFinds
  <2>1. req' = [req EXCEPT ![r] = more]
    BY <1>2 DEF Again
  <2>2. req'[r] = more
    BY <1>1, <2>1
  <2>3. /\ more.pc = req[r].pc /\ more.status = req[r].status
        /\ more.shown = req[r].shown /\ more.nums = req[r].nums /\ more.tries = n
        /\ more.op = req[r].op /\ more.num = req[r].num
        /\ more.txid = req[r].txid /\ more.key = req[r].key
    BY <1>1 DEF ReqState
  <2> HIDE DEF more
  <2> QED
    BY <1>2, <2>1, <2>2, <2>3 DEF Local, QuestionOf
<1>3. CASE ~(n < MaxFinds)
  <2>1. req' = [req EXCEPT ![r] = last]
    BY <1>3 DEF Again
  <2>2. req'[r] = last
    BY <1>1, <2>1
  <2>3. /\ last.pc = "done" /\ last.status = status
        /\ last.shown = req[r].shown /\ last.nums = req[r].nums
        /\ last.op = req[r].op /\ last.num = req[r].num
        /\ last.txid = req[r].txid /\ last.key = req[r].key
    BY <1>1 DEF ReqState
  <2> HIDE DEF last, n
  <2> QED
    BY <2>1, <2>2, <2>3 DEF Local, Sent, QuestionOf
<1> QED
  BY <1>2, <1>3

\* A block number is entered, and with the last one the history is sent.
LEMMA EnterEffect ==
  ASSUME TypeOK, NEW r \in Reqs, NEW t, NEW n, Enter(r, t, n),
         UNCHANGED <<chain, height>>
  PROVE  /\ Local(r) /\ req'[r].shown = req[r].shown
         /\ req'[r].nums = [req[r].nums EXCEPT ![t] = n]
         /\ \/ req'[r].pc = req[r].pc /\ req'[r].status = req[r].status
            \/ req'[r].pc = "done" /\ req'[r].status = 200
<1> DEFINE f    == [req[r].nums EXCEPT ![t] = n]
           some == \E u \in DOMAIN f : f[u] = Nothing
           more == [req[r] EXCEPT !.nums = f]
           last == [req[r] EXCEPT !.nums = f, !.pc = "done", !.status = 200]
<1>1. req \in [Reqs -> ReqState] /\ req[r] \in ReqState
  BY DEF TypeOK
<1>2. req' = IF some THEN [req EXCEPT ![r] = more] ELSE [req EXCEPT ![r] = last]
  BY DEF Enter
<1>3. /\ more.pc = req[r].pc /\ more.status = req[r].status
      /\ more.shown = req[r].shown /\ more.nums = f
      /\ more.op = req[r].op /\ more.num = req[r].num
      /\ more.txid = req[r].txid /\ more.key = req[r].key
      /\ last.pc = "done" /\ last.status = 200 /\ last.shown = req[r].shown
      /\ last.nums = f
      /\ last.op = req[r].op /\ last.num = req[r].num
      /\ last.txid = req[r].txid /\ last.key = req[r].key
  <2> HIDE DEF f
  <2> QED
    BY <1>1 DEF ReqState
<1>4. CASE some
  <2>1. req' = [req EXCEPT ![r] = more]
    BY <1>2, <1>4
  <2> HIDE DEF more, last, f
  <2>2. req'[r] = more
    BY <1>1, <2>1
  <2>3. Local(r)
    BY <1>3, <2>1, <2>2 DEF Local, QuestionOf
  <2>4. req'[r].nums = f
    BY <1>3, <2>2
  <2> QED
    BY <1>3, <2>2, <2>3, <2>4 DEF f
<1>5. CASE ~some
  <2>1. req' = [req EXCEPT ![r] = last]
    BY <1>2, <1>5
  <2> HIDE DEF more, last, f
  <2>2. req'[r] = last
    BY <1>1, <2>1
  <2>3. Local(r)
    BY <1>3, <2>1, <2>2 DEF Local, QuestionOf
  <2>4. req'[r].nums = f
    BY <1>3, <2>2
  <2> QED
    BY <1>3, <2>2, <2>3, <2>4 DEF f
<1> QED
  BY <1>4, <1>5

\* A request has arrived, and its question is known.
LEMMA ArriveEffect ==
  ASSUME TypeOK, NEW r \in Reqs, Arrive(r), QuestionOf(r) = Reader!Unasked
  PROVE  /\ UNCHANGED <<chain, height>>
         /\ req' = [req EXCEPT ![r] = req'[r]]
         /\ QuestionOf(r)' \in Reader!Questions
         /\ req'[r].pc \in Entries
         /\ req'[r].pc = "range" => req'[r].op = "scan"
         /\ req'[r].op # "none"
         /\ req'[r].status = req[r].status /\ req'[r].shown = req[r].shown
         /\ req'[r].nums = req[r].nums
<1> DEFINE s == req[r]
           asks(new) ==
             /\ [op |-> new.op, num |-> new.num, txid |-> new.txid, key |-> new.key]
                  \in Reader!Questions
             /\ new.pc \in Entries
             /\ new.pc = "range" => new.op = "scan"
             /\ new.op # "none"
             /\ new.status = s.status /\ new.shown = s.shown /\ new.nums = s.nums
<1>1. /\ req \in [Reqs -> ReqState] /\ s \in ReqState
      /\ s.num = Reader!Nothing /\ s.txid = Missing /\ s.key = Missing
  BY DEF TypeOK, QuestionOf, Reader!Unasked, Reader!Question
<1>2. ASSUME NEW new, req' = [req EXCEPT ![r] = new], asks(new)
      PROVE  /\ req' = [req EXCEPT ![r] = req'[r]]
             /\ asks(req'[r])
  BY <1>1, <1>2
<1>3. SUFFICES \E new : req' = [req EXCEPT ![r] = new] /\ asks(new)
  BY <1>2 DEF QuestionOf, Arrive
<1>4. CASE req' = [req EXCEPT ![r].pc = "ask", ![r].op = "chain"]
  <2> DEFINE new == [s EXCEPT !.pc = "ask", !.op = "chain"]
  <2>1. asks(new)
    BY <1>1 DEF ReqState, Entries, Reader!Questions, Reader!Question
  <2>2. req' = [req EXCEPT ![r] = new]
    BY <1>4
  <2> QED
    BY <2>1, <2>2
<1>5. ASSUME NEW n \in Nums,
             req' = [req EXCEPT ![r].pc = "ask", ![r].op = "block", ![r].num = n]
      PROVE  \E new : req' = [req EXCEPT ![r] = new] /\ asks(new)
  <2> DEFINE new == [s EXCEPT !.pc = "ask", !.op = "block", !.num = n]
  <2>1. asks(new)
    BY <1>1 DEF ReqState, Entries, Reader!Questions, Reader!Question
  <2>2. req' = [req EXCEPT ![r] = new]
    BY <1>5
  <2> QED
    BY <2>1, <2>2
<1>6. ASSUME NEW t \in Txs,
             req' = [req EXCEPT ![r].pc = "ask", ![r].op = "tx", ![r].txid = t]
      PROVE  \E new : req' = [req EXCEPT ![r] = new] /\ asks(new)
  <2> DEFINE new == [s EXCEPT !.pc = "ask", !.op = "tx", !.txid = t]
  <2>1. asks(new)
    BY <1>1 DEF ReqState, Entries, Reader!Questions, Reader!Question
  <2>2. req' = [req EXCEPT ![r] = new]
    BY <1>6
  <2> QED
    BY <2>1, <2>2
<1>7. ASSUME NEW k \in Keys,
             req' = [req EXCEPT ![r].pc = "find", ![r].op = "history", ![r].key = k]
      PROVE  \E new : req' = [req EXCEPT ![r] = new] /\ asks(new)
  <2> DEFINE new == [s EXCEPT !.pc = "find", !.op = "history", !.key = k]
  <2>1. asks(new)
    BY <1>1 DEF ReqState, Entries, Reader!Questions, Reader!Question
  <2>2. req' = [req EXCEPT ![r] = new]
    BY <1>7
  <2> QED
    BY <2>1, <2>2
<1>8. ASSUME NEW pc \in {"range", "find"},
             req' = [req EXCEPT ![r].pc = pc, ![r].op = "scan"]
      PROVE  \E new : req' = [req EXCEPT ![r] = new] /\ asks(new)
  <2> DEFINE new == [s EXCEPT !.pc = pc, !.op = "scan"]
  <2>1. asks(new)
    BY <1>1 DEF ReqState, Entries, Reader!Questions, Reader!Question
  <2>2. req' = [req EXCEPT ![r] = new]
    BY <1>8
  <2> QED
    BY <2>1, <2>2
<1> QED
  BY <1>4, <1>5, <1>6, <1>7, <1>8 DEF Arrive

\* A handler goes on, with a history or without.
Finds(r, pc, f) == req' = [req EXCEPT ![r].pc = pc, ![r].nums = f]
Moves(r, pc)    == req' = [req EXCEPT ![r].pc = pc]

LEMMA FoundEffect ==
  ASSUME TypeOK, NEW r \in Reqs, NEW pc, NEW f, UNCHANGED <<chain, height>>,
         Finds(r, pc, f)
  PROVE  /\ Local(r) /\ req'[r].pc = pc /\ req'[r].nums = f
         /\ req'[r].status = req[r].status /\ req'[r].shown = req[r].shown
<1> DEFINE new == [req[r] EXCEPT !.pc = pc, !.nums = f]
<1>1. req \in [Reqs -> ReqState] /\ req[r] \in ReqState
  BY DEF TypeOK
<1>2. /\ new.pc = pc /\ new.nums = f /\ new.status = req[r].status
      /\ new.shown = req[r].shown /\ new.op = req[r].op /\ new.num = req[r].num
      /\ new.txid = req[r].txid /\ new.key = req[r].key
  BY <1>1 DEF ReqState
<1>3. req' = [req EXCEPT ![r] = new]
  BY DEF Finds
<1> HIDE DEF new
<1>4. req'[r] = new
  BY <1>1, <1>3
<1> QED
  BY <1>2, <1>3, <1>4 DEF Local, QuestionOf

LEMMA MovedEffect ==
  ASSUME TypeOK, NEW r \in Reqs, NEW pc, UNCHANGED <<chain, height>>, Moves(r, pc)
  PROVE  /\ Local(r) /\ req'[r].pc = pc /\ req'[r].nums = req[r].nums
         /\ req'[r].status = req[r].status /\ req'[r].shown = req[r].shown
<1> DEFINE new == [req[r] EXCEPT !.pc = pc]
<1>1. req \in [Reqs -> ReqState] /\ req[r] \in ReqState
  BY DEF TypeOK
<1>2. /\ new.pc = pc /\ new.nums = req[r].nums /\ new.status = req[r].status
      /\ new.shown = req[r].shown /\ new.op = req[r].op /\ new.num = req[r].num
      /\ new.txid = req[r].txid /\ new.key = req[r].key
  BY <1>1 DEF ReqState
<1>3. req' = [req EXCEPT ![r] = new]
  BY DEF Moves
<1> HIDE DEF new
<1>4. req'[r] = new
  BY <1>1, <1>3
<1> QED
  BY <1>2, <1>3, <1>4 DEF Local, QuestionOf

\* What a step of request r owes the mapping.
Maps(r) ==
  /\ req' = [req EXCEPT ![r] = req'[r]]
  /\ Pending(r)'
  /\ Reader!Next \/ UNCHANGED Reader!readerVars

\* Nothing is told to the client yet.
LEMMA SilentStep ==
  ASSUME ReaderInv, NEW r \in Reqs, Local(r), AnswerOf(r)' = AnswerOf(r)
  PROVE  UNCHANGED Reader!readerVars
<1>1. req \in [Reqs -> ReqState] /\ chain' = chain
  BY DEF ReaderInv, ExplorerInv, TypeOK, Local
<1>2. \A q \in Reqs : q # r => req'[q] = req[q]
  BY <1>1 DEF Local
<1>3. ASSUME NEW q \in Reqs, q # r
      PROVE  AnswerOf(q)' = AnswerOf(q) /\ QuestionOf(q)' = QuestionOf(q)
  <2>1. req'[q] = req[q]
    BY <1>2, <1>3
  <2> QED
    BY <2>1 DEF AnswerOf, Listed, QuestionOf
<1>4. QuestionOf(r)' = QuestionOf(r)
  BY DEF Local
<1> QED
  BY <1>1, <1>3, <1>4 DEF Reader!readerVars

\* A request that has not been answered is given its answer.
LEMMA GivenStep ==
  ASSUME ReaderInv, NEW r \in Reqs, Local(r), req[r].pc # "done"
  PROVE  Reader!Give(r, AnswerOf(r)')
<1>1. req \in [Reqs -> ReqState] /\ chain' = chain
  BY DEF ReaderInv, ExplorerInv, TypeOK, Local
<1>2. AnswerOf(r) = Reader!Unanswered
  <2>1. req[r].status = 0 /\ req[r].shown = Nothing
    BY DEF ReaderInv, Pending
  <2> QED
    BY <2>1 DEF AnswerOf, Listed, Reader!Unanswered, Reader!Answer,
                Reader!Nothing, Nothing
<1>3. \A q \in Reqs : q # r => req'[q] = req[q]
  BY <1>1 DEF Local
<1>4. \A q \in Reqs : QuestionOf(q)' = QuestionOf(q)
  BY <1>3 DEF QuestionOf, Local
<1>5. \A q \in Reqs : q # r => AnswerOf(q)' = AnswerOf(q)
  BY <1>3 DEF AnswerOf, Listed
<1> DEFINE ans == [q \in Reqs |-> AnswerOf(q)]
<1>6. [q \in Reqs |-> AnswerOf(q)'] = [ans EXCEPT ![r] = AnswerOf(r)']
  BY <1>5
<1> QED
  BY <1>1, <1>2, <1>4, <1>6 DEF Reader!Give

\* An answer without entries is sent, as LedgerReader gives it.
LEMMA SentStep ==
  ASSUME ReaderInv, NEW r \in Reqs, NEW status \in Codes, NEW shown,
         Local(r), Sent(r, status, shown), req[r].pc \in Asking,
         \/ status # 200 /\ shown = Nothing
         \/ /\ status = 200 /\ req[r].op # "history"
            /\ \/ \E h \in 0..Len(chain) :
                    Reader!Shows(shown) \in Reader!Answers(QuestionOf(r), h)
               \/ shown = Nothing /\ req[r].op \in {"block", "scan"}
  PROVE  Maps(r)
<1>1. /\ req[r].pc # "done" /\ Pending(r)
      /\ 200 # 0 /\ 400 # 0 /\ 500 # 0
  BY DEF ReaderInv, Asking
<1>2. Reader!Give(r, AnswerOf(r)')
  BY <1>1, GivenStep
<1>3. req'[r].op = req[r].op
  BY DEF Local, QuestionOf
<1>4. Pending(r)'
  BY <1>1, <1>3 DEF Pending, Sent, Codes, Asking
<1>5. CASE status # 200
  <2>1. status \in {400, 500}
    BY <1>5 DEF Codes
  <2>2. shown = Nothing => AnswerOf(r)' = Reader!Answer(status, Nothing, {})
    BY <1>5 DEF AnswerOf, Listed, Sent, Reader!Answer
  <2> QED
    BY <1>2, <1>4, <2>1, <2>2 DEF Local, Maps, Reader!Next, Reader!Fail, Reader!Nothing, Nothing
<1>6. CASE status = 200 /\ req[r].op # "history"
  <2>1. Listed(r)' = {}
    BY <1>1, <1>6 DEF Pending, Listed, Sent
  <2>2. AnswerOf(r)' = Reader!Shows(shown)
    BY <1>6, <2>1 DEF AnswerOf, Listed, Sent, Reader!Shows, Reader!Answer
  <2>3. CASE \E h \in 0..Len(chain) :
               Reader!Shows(shown) \in Reader!Answers(QuestionOf(r), h)
    <3>1. Reader!Read(r)
      BY <1>2, <2>2, <2>3 DEF Reader!Read
    <3> QED
      BY <1>4, <3>1 DEF Local, Maps, Reader!Next
  <2>4. CASE shown = Nothing /\ req[r].op \in {"block", "scan"}
    <3>1. Reader!ReadNothing(r)
      BY <1>2, <2>2, <2>4
         DEF Reader!ReadNothing, QuestionOf, Reader!Nothing, Nothing
    <3> QED
      BY <1>4, <3>1 DEF Local, Maps, Reader!Next
  <2> QED
    BY <1>6, <2>3, <2>4
<1> QED
  BY <1>5, <1>6

\* A history whose entries are exact is the one of a prefix of the chain.
LEMMA ExactHistory ==
  ASSUME TypeOK, Distinct, NEW k, NEW h \in 0..Len(chain), NEW f,
         DOMAIN f = Written(k, h), \A t \in DOMAIN f : Exact(t, f[t])
  PROVE  /\ {<<t, f[t]>> : t \in DOMAIN f} = {<<chain[i].tx, i>> : i \in Reader!Writes(k, h)}
         /\ DOMAIN f # {} => Reader!Writes(k, h) # {}
         /\ \A i \in Reader!Writes(k, h) : chain[i].value = "car"
<1>1. ASSUME NEW i \in Reader!Writes(k, h)
      PROVE  /\ i \in 1..Len(chain) /\ chain[i].tx \in DOMAIN f /\ f[chain[i].tx] = i
             /\ chain[i].value = "car"
  <2> DEFINE t == chain[i].tx
  <2>1. /\ i \in 1..h /\ i \in 1..Len(chain) /\ chain[i].key = k /\ chain[i].valid
        /\ \E j \in 1..Len(chain) : j = i
    BY DEF Reader!Writes
  <2>2. t \in DOMAIN f
    <3>1. chain[i] \in Block
      BY <2>1 DEF TypeOK
    <3>2. t \in Txs
      BY <3>1 DEF Block
    <3> QED
      BY <2>1, <3>2 DEF Written
  <2> QED
    BY <2>1, <2>2 DEF Exact, IsCar, Distinct
<1>2. ASSUME NEW t \in DOMAIN f
      PROVE  f[t] \in Reader!Writes(k, h) /\ chain[f[t]].tx = t
  <2>1. PICK i \in 1..h : chain[i].tx = t /\ chain[i].key = k /\ chain[i].valid
    BY DEF Written
  <2>2. i \in 1..Len(chain)
    BY DEF TypeOK
  <2>3. f[t] = i
    BY <2>1, <2>2 DEF Exact, Distinct
  <2> QED
    BY <2>1, <2>3 DEF Reader!Writes
<1> QED
  BY <1>1, <1>2

\* A round of a chaincode query that has found nothing.
LEMMA AgainMaps ==
  ASSUME ReaderInv, NEW r \in Reqs, NEW status \in Codes, req[r].pc = "find",
         Again(r, status), UNCHANGED <<chain, height>>,
         status # 200 \/ req[r].op = "scan"
  PROVE  Maps(r)
<1>1. TypeOK /\ Pending(r) /\ req[r].shown = Nothing /\ req[r].status = 0
  BY DEF ReaderInv, ExplorerInv, Pending
<1>2. Local(r)
  BY <1>1, AgainEffect
<1>3. CASE Sent(r, status, req[r].shown)
  <2>1. Sent(r, status, Nothing)
    BY <1>1, <1>3
  <2>2. req[r].op = "scan" => req[r].op # "history" /\ req[r].op \in {"block", "scan"}
    OBVIOUS
  <2>3. req[r].pc \in Asking
    BY DEF Asking
  <2> HIDE DEF Local, Sent
  <2>4. CASE status # 200
    BY <1>2, <2>1, <2>3, <2>4, SentStep
  <2>5. CASE status = 200
    <3>1. req[r].op = "scan"
      BY <2>5
    <3> QED
      BY <1>2, <2>1, <2>2, <2>3, <2>5, <3>1, SentStep
  <2> QED
    BY <2>4, <2>5
<1>4. CASE /\ req'[r].pc = req[r].pc /\ req'[r].status = req[r].status
           /\ req'[r].shown = req[r].shown /\ req'[r].nums = req[r].nums
  <2>1. AnswerOf(r)' = AnswerOf(r)
    BY <1>4 DEF AnswerOf, Listed
  <2>2. UNCHANGED Reader!readerVars
    BY <1>2, <2>1, SilentStep
  <2>3. Pending(r)'
    BY <1>1, <1>2, <1>4 DEF Pending, Local, QuestionOf
  <2>4. req' = [req EXCEPT ![r] = req'[r]]
    BY <1>2 DEF Local
  <2> QED
    BY <2>2, <2>3, <2>4 DEF Maps
<1> QED
  BY <1>1, <1>3, <1>4, AgainEffect

\* A history is found, or the ends of a range: nothing is told yet.
LEMMA MoveMaps ==
  ASSUME ReaderInv, NEW r \in Reqs, req[r].pc \in Asking, Local(r),
         req'[r].pc \in {"find", "lookup"},
         req'[r].status = req[r].status, req'[r].shown = req[r].shown,
         req'[r].pc = "lookup" => DOMAIN req'[r].nums # {},
         req[r].op # "history" => DOMAIN req'[r].nums = {}
  PROVE  Maps(r)
<1>1. TypeOK /\ Pending(r) /\ req[r].pc # "done"
  BY DEF ReaderInv, ExplorerInv, Asking
<1>3. req[r].status # 200
  BY <1>1 DEF Pending
<1>4. AnswerOf(r)' = AnswerOf(r)
  BY <1>3 DEF AnswerOf, Listed
<1>5. UNCHANGED Reader!readerVars
  BY <1>4, SilentStep
<1>6. req'[r].op = req[r].op
  BY DEF Local, QuestionOf
<1>7. Pending(r)'
  BY <1>1, <1>6 DEF Pending, Asking
<1> QED
  BY <1>5, <1>7 DEF Local, Maps

\* The loop over a history: the last entry sends the answer.
LEMMA EnterMaps ==
  ASSUME ReaderInv, ExplorerInv', NEW r \in Reqs, req[r].pc = "lookup",
         NEW t, NEW n, Enter(r, t, n), UNCHANGED <<chain, height>>
  PROVE  Maps(r)
<1>1. /\ TypeOK /\ Pending(r) /\ req[r].op = "history" /\ req[r].shown = Nothing
      /\ req[r].status = 0 /\ DOMAIN req[r].nums # {}
  BY DEF ReaderInv, ExplorerInv, Reading, Pending
<1>2. /\ Local(r) /\ req'[r].shown = req[r].shown
      /\ DOMAIN req'[r].nums = DOMAIN req[r].nums
      /\ \/ req'[r].pc = req[r].pc /\ req'[r].status = req[r].status
         \/ req'[r].pc = "done" /\ req'[r].status = 200
  BY <1>1, EnterEffect
<1>3. req'[r].op = "history" /\ req'[r].key = req[r].key /\ chain' = chain
  BY <1>1, <1>2 DEF Local, QuestionOf
<1>4. Pending(r)'
  BY <1>1, <1>2, <1>3 DEF Pending, Asking
<1>5. req' = [req EXCEPT ![r] = req'[r]]
  BY <1>2 DEF Local
<1>6. CASE req'[r].pc = req[r].pc /\ req'[r].status = req[r].status
  <2>1. AnswerOf(r)' = AnswerOf(r)
    BY <1>1, <1>2, <1>6 DEF AnswerOf, Listed
  <2>2. UNCHANGED Reader!readerVars
    BY <1>2, <2>1, SilentStep
  <2> QED
    BY <1>4, <1>5, <2>2 DEF Maps
<1>7. CASE req'[r].pc = "done" /\ req'[r].status = 200
  <2> DEFINE f == req'[r].nums
             k == req[r].key
  <2>1. HistoryOf(r)' /\ \A u \in DOMAIN f : f[u] # Nothing
    BY <1>3, <1>7 DEF ExplorerInv, Reading, Answered
  <2>2. PICK h \in 0..Len(chain) : DOMAIN f = Written(k, h)
    BY <1>3, <2>1 DEF HistoryOf, Written
  <2>3. \A u \in DOMAIN f : Exact(u, f[u])
    BY <1>3, <2>1 DEF HistoryOf, Exact, IsCar
  <2>4. Distinct /\ TypeOK
    BY DEF ReaderInv, ExplorerInv
  <2> DEFINE I == Reader!Writes(k, h)
  <2>5. /\ {<<u, f[u]>> : u \in DOMAIN f} = {<<chain[i].tx, i>> : i \in I}
        /\ I # {} /\ \A i \in I : chain[i].value = "car"
    <3> HIDE DEF f
    <3> QED
      BY <1>1, <1>2, <2>2, <2>3, <2>4, ExactHistory DEF f
  <2>6. AnswerOf(r)' = Reader!Lists(I)
    BY <1>1, <1>2, <1>7, <2>5
       DEF AnswerOf, Listed, Reader!Lists, Reader!Answer, Reader!Nothing, Nothing
  <2>7. Reader!Lists(I) \in Reader!Answers(QuestionOf(r), h)
    <3>1. QuestionOf(r).op = "history" /\ QuestionOf(r).key = k
      BY <1>1 DEF QuestionOf
    <3> HIDE DEF I, k
    <3> QED
      BY <2>5, <3>1 DEF Reader!Answers, I
  <2>8. Reader!Give(r, AnswerOf(r)')
    <3>1. req[r].pc # "done"
      OBVIOUS
    <3> QED
      BY <1>2, <3>1, GivenStep
  <2>9. Reader!Read(r)
    BY <2>6, <2>7, <2>8 DEF Reader!Read
  <2> QED
    BY <1>4, <1>5, <2>9 DEF Maps, Reader!Next
<1> QED
  BY <1>2, <1>6, <1>7

\* A step of a handler.
LEMMA HandleMaps ==
  ASSUME ReaderInv, ExplorerInv', NEW r \in Reqs, Handle(r)
  PROVE  Maps(r)
<1>1. /\ TypeOK /\ Pending(r) /\ Reading(r) /\ chain \in Seq(Block) /\ Len(chain) < Half
      /\ UNCHANGED <<chain, height>> /\ \A p \in Peers : height[p] \in 0..Len(chain)
      /\ 200 \in Codes /\ 400 \in Codes /\ 500 \in Codes /\ 400 # 200 /\ 500 # 200
  BY DEF ReaderInv, ExplorerInv, TypeOK, Codes, Handle, GetBlockchainInfo, GetBlock,
         GetTransaction, FindHistory, RangeEnds, FindMany, LookUp
<1>2. ASSUME req[r].pc \in Asking, NEW s \in {400, 500}, Reply(r, s, Nothing)
      PROVE  Maps(r)
  <2>1. Local(r) /\ Sent(r, s, Nothing)
    BY <1>1, <1>2, ReplyEffect
  <2>2. s \in Codes /\ s # 200
    BY <1>1, <1>2
  <2> QED
    BY <1>2, <2>1, <2>2, SentStep
<1>3. ASSUME req[r].pc \in Asking, req[r].op # "history", NEW n, Reply(r, 200, n),
             \/ \E h \in 0..Len(chain) :
                  Reader!Shows(n) \in Reader!Answers(QuestionOf(r), h)
             \/ n = Nothing /\ req[r].op \in {"block", "scan"}
      PROVE  Maps(r)
  <2>1. Local(r) /\ Sent(r, 200, n)
    BY <1>1, <1>3, ReplyEffect
  <2> QED
    BY <1>1, <1>3, <2>1, SentStep
<1>4. CASE GetBlockchainInfo(r)
  <2>1. req[r].pc \in Asking /\ req[r].op = "chain" /\ req[r].op # "history"
    BY <1>4 DEF GetBlockchainInfo, Asking
  <2>2. ASSUME NEW p \in Peers, Reply(r, 200, height[p])
        PROVE  Maps(r)
    <3>1. Reader!Shows(height[p]) \in Reader!Answers(QuestionOf(r), height[p])
      BY <2>1 DEF Reader!Answers, QuestionOf
    <3> QED
      BY <1>1, <1>3, <2>1, <2>2, <3>1
  <2> QED
    BY <1>2, <1>4, <2>1, <2>2 DEF GetBlockchainInfo
<1>5. CASE GetBlock(r)
  <2>1. req[r].pc \in Asking /\ req[r].op = "block" /\ req[r].op # "history"
    BY <1>5 DEF GetBlock, Asking
  <2>2. ASSUME NEW p \in Peers, NEW i \in Numbered(req[r].num, height[p]), Reply(r, 200, i)
        PROVE  Maps(r)
    <3> DEFINE n == req[r].num
               h == height[p]
    <3>1. Half \in Nat /\ Half >= 1 /\ n \in Int /\ n >= -Half /\ n < Half
      <4>1. Half \in Nat /\ Half >= 1 /\ \A m \in Nums : m \in Int /\ m >= -Half /\ m < Half
        BY ExplorerAssumption
      <4>2. n \in Nums \/ n = -1
        BY <1>1 DEF TypeOK, ReqState, Nothing
      <4> HIDE DEF n
      <4> QED
        BY <4>1, <4>2
    <3>2. h \in Nat /\ h <= Len(chain) /\ Len(chain) \in Nat /\ i \in 0..h
      BY <1>1, <2>2 DEF Numbered
    <3>3. \/ i = Uint64(n)
          \/ Uint64(n) = Last /\ i = h
      BY <2>2 DEF Numbered
    <3>4. IF n = -1 THEN i = h ELSE i = n
      <4> HIDE DEF n, h
      <4> QED
        BY <1>1, <3>1, <3>2, <3>3 DEF Uint64, Last
    <3>5. i \in IF n = -1 THEN {h} ELSE {n} \cap 0..h
      <4> HIDE DEF n, h
      <4> QED
        BY <3>2, <3>4
    <3>6. Reader!Shows(i) \in Reader!Answers(QuestionOf(r), h)
      <4>1. QuestionOf(r).op = "block" /\ QuestionOf(r).num = n
        BY <2>1 DEF QuestionOf
      <4> HIDE DEF n, h
      <4> QED
        BY <3>5, <4>1 DEF Reader!Answers
    <3> QED
      BY <1>1, <1>3, <2>1, <2>2, <3>6
  <2>3. ASSUME NEW status \in {200, 400}, Reply(r, status, Nothing)
        PROVE  Maps(r)
    BY <1>2, <1>3, <2>1, <2>3
  <2> QED
    BY <1>5, <2>2, <2>3 DEF GetBlock
<1>6. CASE GetTransaction(r)
  <2>1. req[r].pc \in Asking /\ req[r].op = "tx" /\ req[r].op # "history"
    BY <1>6 DEF GetTransaction, Asking
  <2>2. ASSUME NEW p \in Peers, NEW i \in Containing(req[r].txid, height[p]), Reply(r, 200, i)
        PROVE  Maps(r)
    <3>1. Reader!Shows(i) \in Reader!Answers(QuestionOf(r), height[p])
      BY <2>1 DEF Reader!Answers, QuestionOf, Containing
    <3> QED
      BY <1>1, <1>3, <2>1, <2>2, <3>1
  <2> QED
    BY <1>2, <1>6, <2>1, <2>2 DEF GetTransaction
<1>7. CASE FindHistory(r)
  <2>1. req[r].pc = "find" /\ req[r].pc \in Asking /\ req[r].op = "history"
    BY <1>7 DEF FindHistory, Asking
  <2>2. ASSUME NEW p \in Peers, Written(req[r].key, height[p]) # {},
               req' = [req EXCEPT ![r].pc = "lookup",
                 ![r].nums = [t \in Written(req[r].key, height[p]) |-> Nothing]]
        PROVE  Maps(r)
    <3> DEFINE f == [t \in Written(req[r].key, height[p]) |-> Nothing]
    <3>1. DOMAIN f # {}
      BY <2>2
    <3>3. Finds(r, "lookup", f)
      BY <2>2 DEF Finds
    <3> HIDE DEF f
    <3>2. /\ Local(r) /\ req'[r].pc = "lookup" /\ req'[r].nums = f
          /\ req'[r].status = req[r].status /\ req'[r].shown = req[r].shown
      BY <1>1, <3>3, FoundEffect
    <3> QED
      BY <2>1, <3>1, <3>2, MoveMaps
  <2>3. CASE Again(r, 400)
    BY <1>1, <2>1, <2>3, AgainMaps
  <2> QED
    BY <1>7, <2>2, <2>3 DEF FindHistory
<1>8. CASE RangeEnds(r)
  <2>1. req[r].pc = "range" /\ req[r].pc \in Asking /\ req[r].op = "scan"
    BY <1>1, <1>8 DEF RangeEnds, Asking, Pending
  <2>2. CASE req' = [req EXCEPT ![r].pc = "find"]
    <3>0. Moves(r, "find")
      BY <2>2 DEF Moves
    <3>1. /\ Local(r) /\ req'[r].pc = "find" /\ req'[r].nums = req[r].nums
          /\ req'[r].status = req[r].status /\ req'[r].shown = req[r].shown
      BY <1>1, <3>0, MovedEffect
    <3>2. DOMAIN req[r].nums = {}
      BY <1>1, <2>1 DEF Pending
    <3> QED
      BY <2>1, <3>1, <3>2, MoveMaps
  <2> QED
    BY <1>2, <1>8, <2>1, <2>2 DEF RangeEnds
<1>9. CASE FindMany(r)
  <2>1. /\ req[r].pc = "find" /\ req[r].pc \in Asking /\ req[r].op = "scan"
        /\ req[r].op # "history"
    BY <1>9 DEF FindMany, Asking
  <2>2. ASSUME NEW p \in Peers, Reply(r, 200, height[p])
        PROVE  Maps(r)
    <3>1. Reader!Shows(height[p]) \in Reader!Answers(QuestionOf(r), height[p])
      BY <2>1 DEF Reader!Answers, QuestionOf
    <3> QED
      BY <1>1, <1>3, <2>1, <2>2, <3>1
  <2>3. CASE Again(r, 200)
    BY <1>1, <2>1, <2>3, AgainMaps
  <2> QED
    BY <1>9, <2>2, <2>3 DEF FindMany
<1>10. CASE LookUp(r)
  <2>1. req[r].pc = "lookup" /\ req[r].pc \in Asking
    BY <1>10 DEF LookUp, Asking
  <2> QED
    BY <1>1, <1>2, <1>10, <2>1, EnterMaps DEF LookUp
<1> QED
  BY <1>4, <1>5, <1>6, <1>7, <1>8, <1>9, <1>10 DEF Handle

\* Every step is a step of LedgerReader, or one it does not see.
LEMMA ReaderNext ==
  ASSUME ReaderInv, ExplorerInv', [Next]_vars
  PROVE  ReaderInv' /\ (Reader!Next \/ UNCHANGED Reader!readerVars)
<1> USE DEF ReaderInv
<1>1. req \in [Reqs -> ReqState] /\ chain \in Seq(Block) /\ TypeOK
  BY DEF ExplorerInv, TypeOK
<1>2. ASSUME NEW q \in Reqs, req'[q] = req[q]
      PROVE  Pending(q)'
  BY <1>2 DEF Pending, QuestionOf
<1>3. ASSUME NEW r \in Reqs, Maps(r)
      PROVE  ReaderInv' /\ (Reader!Next \/ UNCHANGED Reader!readerVars)
  <2>1. \A q \in Reqs : q # r => req'[q] = req[q]
    BY <1>1, <1>3 DEF Maps
  <2> QED
    BY <1>2, <1>3, <2>1 DEF Maps
<1>4. ASSUME NEW r \in Reqs, Refuse(r)
      PROVE  ReaderInv' /\ (Reader!Next \/ UNCHANGED Reader!readerVars)
  <2>1. PICK s \in {400, 500} : Reply(r, s, Nothing)
    BY <1>4 DEF Refuse
  <2>2. req[r].pc = "idle" /\ UNCHANGED <<chain, height>> /\ Pending(r)
    BY <1>4 DEF Refuse
  <2>3. Local(r) /\ Sent(r, s, Nothing)
    BY <1>1, <2>1, <2>2, ReplyEffect
  <2>4. Reader!Give(r, AnswerOf(r)')
    BY <2>2, <2>3, GivenStep
  <2>5. s # 200 /\ s # 0
    OBVIOUS
  <2>6. AnswerOf(r)' = Reader!Answer(s, Nothing, {})
    BY <2>3, <2>5 DEF AnswerOf, Listed, Sent, Reader!Answer
  <2>7. Reader!Fail(r)
    BY <2>4, <2>6 DEF Reader!Fail, Reader!Nothing, Nothing
  <2>8. Pending(r)'
    BY <2>2, <2>3, <2>5 DEF Pending, Local, Sent, QuestionOf, Asking
  <2> QED
    BY <1>3, <2>3, <2>7, <2>8 DEF Maps, Reader!Next, Local
<1>5. ASSUME NEW r \in Reqs, Arrive(r)
      PROVE  ReaderInv' /\ (Reader!Next \/ UNCHANGED Reader!readerVars)
  <2>1. req[r].pc = "idle" /\ Pending(r) /\ QuestionOf(r) = Reader!Unasked
    BY <1>5 DEF Arrive, Pending
  <2>2. /\ UNCHANGED <<chain, height>>
        /\ req' = [req EXCEPT ![r] = req'[r]]
        /\ QuestionOf(r)' \in Reader!Questions
        /\ req'[r].pc \in Entries
        /\ req'[r].pc = "range" => req'[r].op = "scan"
        /\ req'[r].op # "none"
        /\ req'[r].status = req[r].status /\ req'[r].shown = req[r].shown
        /\ req'[r].nums = req[r].nums
    BY <1>1, <1>5, <2>1, ArriveEffect
  <2>3. req[r].status = 0 /\ req[r].shown = Nothing /\ req[r].op = "none"
    BY <2>1 DEF Pending, QuestionOf, Reader!Unasked, Reader!Question
  <2>4. Pending(r)'
    BY <2>1, <2>2, <2>3 DEF Pending, Entries, Asking
  <2>5. AnswerOf(r)' = AnswerOf(r) /\ AnswerOf(r) = Reader!Unanswered
    BY <2>2, <2>3 DEF AnswerOf, Listed, Reader!Unanswered, Reader!Answer,
                      Reader!Nothing, Nothing
  <2>6. \A q \in Reqs : q # r => req'[q] = req[q]
    BY <1>1, <2>2
  <2>7. ASSUME NEW q \in Reqs, q # r
        PROVE  AnswerOf(q)' = AnswerOf(q) /\ QuestionOf(q)' = QuestionOf(q)
    <3>1. req'[q] = req[q]
      BY <2>6, <2>7
    <3> QED
      BY <3>1 DEF AnswerOf, Listed, QuestionOf
  <2> DEFINE ask == [q \in Reqs |-> QuestionOf(q)]
  <2>8. [q \in Reqs |-> QuestionOf(q)'] = [ask EXCEPT ![r] = QuestionOf(r)']
    BY <2>7
  <2>9. Reader!Ask(r)
    BY <2>1, <2>2, <2>5, <2>7, <2>8 DEF Reader!Ask
  <2> QED
    BY <1>3, <2>2, <2>4, <2>9 DEF Maps, Reader!Next
<1>6. ASSUME NEW r \in Reqs, Handle(r)
      PROVE  ReaderInv' /\ (Reader!Next \/ UNCHANGED Reader!readerVars)
  BY <1>3, <1>6, HandleMaps
<1>7. ASSUME NEW t \in Txs, Commit(t)
      PROVE  ReaderInv' /\ (Reader!Next \/ UNCHANGED Reader!readerVars)
  <2>1. req' = req /\ \A q \in Reqs : Pending(q)'
    BY <1>2, <1>7 DEF Commit
  <2>2. \A q \in Reqs : AnswerOf(q)' = AnswerOf(q) /\ QuestionOf(q)' = QuestionOf(q)
    BY <2>1 DEF AnswerOf, Listed, QuestionOf
  <2>3. PICK b \in Block : b.tx = t /\ chain' = Append(chain, b)
    BY <1>7 DEF Commit, Block
  <2>4. \A i \in 1..Len(chain) : chain[i].tx # b.tx
    BY <1>7, <2>3 DEF Commit
  <2>5. Reader!Write
    BY <2>2, <2>3, <2>4 DEF Reader!Write, Block, Reader!Block
  <2> QED
    BY <2>1, <2>5 DEF Reader!Next
<1>8. CASE (\E p \in Peers : CatchUp(p)) \/ UNCHANGED vars
  <2>1. chain' = chain /\ req' = req
    BY <1>8 DEF CatchUp, vars
  <2>2. \A q \in Reqs : AnswerOf(q)' = AnswerOf(q) /\ QuestionOf(q)' = QuestionOf(q)
    BY <2>1 DEF AnswerOf, Listed, QuestionOf
  <2> QED
    BY <1>2, <2>1, <2>2 DEF Reader!readerVars
<1> QED
  BY <1>4, <1>5, <1>6, <1>7, <1>8 DEF Next

\* For any number of peers, requests and blocks: what a request is answered from
\* several peers, at several times, is one read of one prefix of the chain.
THEOREM ExplorerImplementsLedgerReader == Spec => ImplementsLedgerReader
<1>1. Init => ReaderInv /\ Reader!Init
  <2> SUFFICES ASSUME Init PROVE ReaderInv /\ Reader!Init
    OBVIOUS
  <2>1. \A r \in Reqs : req[r] = NoRequest
    BY DEF Init
  <2>2. ASSUME NEW r \in Reqs
        PROVE  QuestionOf(r) = Reader!Unasked /\ AnswerOf(r) = Reader!Unanswered
    <3>1. /\ req[r].op = "none" /\ req[r].num = -1 /\ req[r].txid = Missing
          /\ req[r].key = Missing /\ req[r].status = 0 /\ req[r].shown = -1
      BY <2>1 DEF NoRequest, Nothing
    <3> QED
      BY <3>1 DEF QuestionOf, AnswerOf, Listed, Reader!Unasked, Reader!Unanswered,
         Reader!Question, Reader!Answer, Reader!Nothing
  <2>3. ASSUME NEW r \in Reqs
        PROVE  Pending(r)
    BY <2>1, <2>2 DEF Pending, NoRequest, Asking
  <2>4. Reader!Init
    BY <2>2 DEF Reader!Init, Init
  <2> QED
    BY <2>3, <2>4, ExplorerInit DEF ReaderInv
<1>2. ReaderInv /\ ExplorerInv' /\ [Next]_vars
        => ReaderInv' /\ [Reader!Next]_(Reader!readerVars)
  BY ReaderNext
<1> QED
  BY <1>1, <1>2, ExplorerInvariant, PTL DEF Spec, ImplementsLedgerReader, Reader!Spec

-----------------------------------------------------------------------------
(***************************************************************************)
(* The work of a read.                                                     *)
(***************************************************************************)

\* What a step of request r may do to what is left of it.
GoesOn(r) ==
  \/ StagesLeft(r)' < StagesLeft(r)
  \/ /\ req[r].pc = "find" /\ req'[r].pc = "find"
     /\ req[r].tries < req'[r].tries /\ req'[r].tries < MaxFinds
  \/ /\ req[r].pc = "lookup" /\ req'[r].pc = "lookup"
     /\ Open(r)' \subseteq Open(r) /\ Open(r)' # Open(r)

\* An answer ends the request.
LEMMA ReplyGoesOn ==
  ASSUME TypeOK, NEW r \in Reqs, req[r].pc \in Asking, NEW status, NEW shown,
         Reply(r, status, shown), UNCHANGED <<chain, height>>
  PROVE  GoesOn(r) /\ Local(r)
<1>1. req'[r].pc = "done" /\ Local(r)
  BY ReplyEffect DEF Sent
<1> QED
  BY <1>1 DEF GoesOn, StagesLeft, Asking

\* A round of Find is the last one or leaves one less.
LEMMA AgainGoesOn ==
  ASSUME TypeOK, NEW r \in Reqs, req[r].pc = "find", NEW status,
         Again(r, status), UNCHANGED <<chain, height>>
  PROVE  GoesOn(r) /\ Local(r)
<1>1. req[r].tries \in Nat
  BY DEF TypeOK, ReqState
<1>2. \/ req'[r].pc = "find" /\ req'[r].tries = req[r].tries + 1 /\ req'[r].tries < MaxFinds
      \/ req'[r].pc = "done"
  BY AgainEffect DEF Sent
<1>3. Local(r)
  BY AgainEffect
<1> QED
  BY <1>1, <1>2, <1>3 DEF GoesOn, StagesLeft

\* A block number settles its entry, which was open, and opens none.
LEMMA EnterGoesOn ==
  ASSUME TypeOK, NEW r \in Reqs, req[r].pc = "lookup",
         NEW t \in DOMAIN req[r].nums, req[r].nums[t] = Nothing,
         NEW n, n # Nothing, Enter(r, t, n), UNCHANGED <<chain, height>>
  PROVE  GoesOn(r) /\ Local(r)
<1>1. /\ Local(r)
      /\ req'[r].nums = [req[r].nums EXCEPT ![t] = n]
      /\ req'[r].pc = "lookup" \/ req'[r].pc = "done"
  BY EnterEffect
<1>2. CASE req'[r].pc = "done"
  BY <1>1, <1>2 DEF GoesOn, StagesLeft
<1>3. CASE req'[r].pc = "lookup"
  <2>1. t \in Open(r)
    BY DEF Open
  <2>2. /\ DOMAIN req'[r].nums = DOMAIN req[r].nums
        /\ req'[r].nums[t] # Nothing
        /\ \A u \in DOMAIN req[r].nums : u # t => req'[r].nums[u] = req[r].nums[u]
    BY <1>1
  <2>3. Open(r)' \subseteq Open(r) /\ t \notin Open(r)'
    BY <2>1, <2>2 DEF Open, Nothing
  <2> QED
    BY <1>1, <1>3, <2>1, <2>3 DEF GoesOn
<1> QED
  BY <1>1, <1>2, <1>3

\* Every step of a handler goes on, and leaves the other requests alone.
LEMMA HandleGoesOn ==
  ASSUME TypeOK, NEW r \in Reqs, Handle(r)
  PROVE  GoesOn(r) /\ Local(r)
<1>1. /\ req \in [Reqs -> ReqState] /\ req[r] \in ReqState
      /\ UNCHANGED <<chain, height>> /\ \A p \in Peers : height[p] \in Nat
  BY DEF TypeOK, Handle, GetBlockchainInfo, GetBlock, GetTransaction, FindHistory,
         RangeEnds, FindMany, LookUp
<1>2. ASSUME req[r].pc \in Asking, NEW status, NEW shown, Reply(r, status, shown)
      PROVE  GoesOn(r) /\ Local(r)
  BY <1>1, <1>2, ReplyGoesOn
<1>3. CASE GetBlockchainInfo(r) \/ GetBlock(r) \/ GetTransaction(r)
  BY <1>2, <1>3 DEF GetBlockchainInfo, GetBlock, GetTransaction, Asking
<1>4. CASE FindHistory(r)
  <2>1. ASSUME NEW f, Finds(r, "lookup", f)
        PROVE  GoesOn(r) /\ Local(r)
    <3>1. req'[r].pc = "lookup" /\ Local(r)
      BY <1>1, <2>1, FoundEffect
    <3> QED
      BY <1>4, <3>1 DEF FindHistory, GoesOn, StagesLeft
  <2> QED
    BY <1>1, <1>4, <2>1, AgainGoesOn DEF FindHistory, Finds
<1>5. CASE RangeEnds(r)
  <2>1. CASE Moves(r, "find")
    <3>1. req'[r].pc = "find" /\ Local(r)
      BY <1>1, <2>1, MovedEffect
    <3> QED
      BY <1>5, <3>1 DEF RangeEnds, GoesOn, StagesLeft
  <2> QED
    BY <1>2, <1>5, <2>1 DEF RangeEnds, Moves, Asking
<1>6. CASE FindMany(r)
  BY <1>1, <1>2, <1>6, AgainGoesOn DEF FindMany, Asking
<1>7. CASE LookUp(r)
  <2>1. \A h \in Nat : \A u : \A i \in Containing(u, h) : i # Nothing
    BY DEF Containing, Nothing
  <2>2. ASSUME NEW t \in DOMAIN req[r].nums, req[r].nums[t] = Nothing, NEW p \in Peers,
               NEW i \in Containing(t, height[p]), Enter(r, t, i)
        PROVE  GoesOn(r) /\ Local(r)
    BY <1>1, <1>7, <2>1, <2>2, EnterGoesOn DEF LookUp
  <2> QED
    BY <1>2, <1>7, <2>2 DEF LookUp, Asking
<1> QED
  BY <1>3, <1>4, <1>5, <1>6, <1>7 DEF Handle

\* A request under way is changed by its own handler only.
LEMMA ReadStep ==
  ASSUME TypeOK, [Next]_vars, NEW r \in Reqs, req[r].pc \in Asking, req'[r] # req[r]
  PROVE  Handle(r)
<1>1. ASSUME NEW q \in Reqs, Refuse(q) \/ Arrive(q) \/ Handle(q), q # r
      PROVE  FALSE
  <2>1. CASE Refuse(q)
    BY <1>1, <2>1, ReplyEffect DEF Refuse, Local, TypeOK
  <2>2. CASE Arrive(q)
    BY <1>1, <2>2 DEF Arrive, TypeOK
  <2>3. CASE Handle(q)
    BY <1>1, <2>3, HandleGoesOn DEF Local, TypeOK
  <2> QED
    BY <1>1, <2>1, <2>2, <2>3
<1>2. ~ Refuse(r) /\ ~ Arrive(r)
  BY DEF Refuse, Arrive, Asking
<1>3. \A t \in Txs : ~ Commit(t)
  BY DEF Commit
<1>4. \A p \in Peers : ~ CatchUp(p)
  BY DEF CatchUp
<1> QED
  BY <1>1, <1>2, <1>3, <1>4 DEF Next, vars

\* A read takes boundedly many steps for the history it has found and the rounds
\* that are permitted: the safety half of ReadsAreAnswered, for any chain.
THEOREM ReadsDoBoundedWork == Spec => ReadsAreBounded
<1>1. TypeOK /\ [Next]_vars =>
        \A r \in Reqs : req[r].pc \in Asking /\ req'[r] # req[r] => GoesOn(r)
  BY ReadStep, HandleGoesOn
<1>2. ExplorerInv => TypeOK
  BY DEF ExplorerInv
<1> QED
  BY <1>1, <1>2, ExplorerInvariant, PTL DEF Spec, ReadsAreBounded, GoesOn
=============================================================================
