-------------------------- MODULE Chaincode_proofs --------------------------
(***************************************************************************)
(* Serializability of the chaincode's transactions, for any number of      *)
(* transactions, keys and proposals.  The argument: what a function does   *)
(* depends on no key it has not read (Locality); a key whose version has   *)
(* not changed still holds the same value (Versions); so a transaction     *)
(* that validation lets through would do now what it did then.  With that, *)
(* what the ledger goes through follows from what one function writes on   *)
(* one state (InvokeWrites), whatever the execution was interleaved with.  *)
(***************************************************************************)
EXTENDS ChaincodeRefinement, SequenceTheorems, TLAPS

TxState ==
  [pc : {"new", "endorsed", "refused", "ordered"},
   proposal : Proposals \cup {NoProposal}, snapshot : Nat]

\* The chain is a sequence, of whatever the proposals put on it.
ChainTypes ==
  /\ tx \in [Txs -> TxState]
  /\ \E S : chain \in Seq(S)
  /\ Len(chain) >= 1
  /\ \A i \in 1..Len(chain) :
       chain[i].world = [k \in Cells |-> chain[i].world[k]]
  /\ \A i \in 1..Len(chain), k \in Cells :
       chain[i].ver[k] \in Nat /\ chain[i].ver[k] <= i

\* An endorsed transaction ran without error on a state the chain has had.
Endorsed ==
  \A t \in Txs : tx[t].pc = "endorsed" =>
    /\ tx[t].snapshot \in 1..Len(chain)
    /\ tx[t].proposal \in Proposals
    /\ Executed(t).ok

Ordered ==
  \A i \in 2..Len(chain) :
    /\ chain[i].tx \in Txs
    /\ tx[chain[i].tx].pc = "ordered"
    /\ Proposed(i) \in Proposals

\* The same version is the same value.
Versions ==
  \A i \in 1..Len(chain), j \in 1..Len(chain), k \in Cells :
    chain[i].ver[k] = chain[j].ver[k] => chain[i].world[k] = chain[j].world[k]

\* What GetState returns under a key that proposals name.
Values == Cars \cup Ints \cup {Missing}

Holds(w) == \A k \in Keys : w[k] \in Values

WorldTypes == \A i \in 1..Len(chain) : Holds(chain[i].world)

\* What validation turns down changes nothing.
Inert ==
  \A i \in 2..Len(chain) :
    ~chain[i].valid => \A k \in Cells : chain[i].world[k] = chain[i - 1].world[k]

ChaincodeInv ==
  /\ ChainTypes /\ Endorsed /\ Ordered /\ Versions /\ Serializable
  /\ MarksAreCalls /\ WorldTypes /\ Inert

-----------------------------------------------------------------------------
\* What an answer depends on, it lists as read.
LEMMA Locality ==
  ASSUME NEW t, NEW p \in Proposals, NEW v, NEW w,
         Invoke(t, p, v).ok,
         \A k \in Invoke(t, p, v).reads : v[k] = w[k]
  PROVE  Invoke(t, p, w) = Invoke(t, p, v)
<1> USE DEF Invoke, Error, Success
<1>1. CASE p.fn # "invoke" \/ Len(p.args) < 2
  <2>1. CASE p.fn = "invokecc"
    <3> DEFINE c == p.args[2]
    <3>1. /\ ~(Len(p.args) < 2) /\ c \in DOMAIN Called
          /\ Invoke(t, p, v).reads = Called[c].reads
      BY <2>1 DEF invokeCC
    <3>2. Outcome(c, v) = Outcome(c, w)
      <4> HIDE DEF Invoke, c
      <4>1. \A x \in Called[c].reads : v[x] = w[x]
        BY <3>1
      <4>2. [x \in Called[c].reads |-> v[x]] = [x \in Called[c].reads |-> w[x]]
        BY <4>1
      <4> QED
        BY <4>2 DEF Outcome
    <3> QED
      BY <2>1, <3>2 DEF invokeCC
  <2>2. CASE p.fn # "invokecc"
    BY <1>1, <2>2
  <2> QED
    BY <2>1, <2>2
<1>2. CASE p.fn = "invoke" /\ ~(Len(p.args) < 2)
  <2>1. Invoke(t, p, v) = Action(p.args, v) /\ Invoke(t, p, w) = Action(p.args, w)
    BY <1>2
  <2>2. CASE p.args[1] = "move"
    <3>1. Invoke(t, p, v) = move(p.args, v) /\ Invoke(t, p, w) = move(p.args, w)
      BY <2>1, <2>2 DEF Action
    <3>2. Invoke(t, p, v).reads = {p.args[2], p.args[3]}
      <4> HIDE DEF Invoke
      <4>1. move(p.args, v).ok
        BY <3>1
      <4>2. move(p.args, v).reads = {p.args[2], p.args[3]}
        <5> DEFINE bad == \/ EventFails(p.args, 5) \/ Len(p.args) < 4
                          \/ v[p.args[2]] = Missing \/ v[p.args[3]] = Missing
                          \/ p.args[4] \notin Ints
        <5>1. bad => move(p.args, v) = Error
          BY DEF move
        <5>2. ~bad
          BY <4>1, <5>1
        <5> QED
          BY <5>2 DEF move
      <4> QED
        BY <3>1, <4>2
    <3>3. v[p.args[2]] = w[p.args[2]] /\ v[p.args[3]] = w[p.args[3]]
      BY <3>2
    <3> QED
      BY <3>1, <3>3 DEF move
  <2>3. CASE p.args[1] \in {"query", "history"}
    <3>1. Invoke(t, p, v) = query(p.args, v) /\ Invoke(t, p, w) = query(p.args, w)
      BY <2>1, <2>3 DEF Action, history
    <3>2. Invoke(t, p, v).reads = {p.args[2]}
      BY <3>1 DEF query
    <3>3. v[p.args[2]] = w[p.args[2]]
      BY <3>2
    <3> QED
      BY <3>1, <3>3 DEF query
  <2>4. CASE p.args[1] \notin Reads
    BY <2>1, <2>4 DEF Action, Reads, set, delete, scan
  <2> QED
    BY <2>2, <2>3, <2>4 DEF Reads
<1> QED
  BY <1>1, <1>2

\* A function that succeeds has read ledger keys only.
LEMMA ReadsAreKeys ==
  ASSUME NEW t, NEW p \in Proposals, NEW w, Invoke(t, p, w).ok
  PROVE  Invoke(t, p, w).reads \subseteq Cells
<1>1. CASE p.fn # "invoke" \/ Len(p.args) < 2
  <2>1. CASE p.fn = "invokecc"
    <3>1. /\ p.args[2] \in DOMAIN Called
          /\ Invoke(t, p, w).reads = Called[p.args[2]].reads
      BY <2>1 DEF Invoke, Error, Success, invokeCC
    <3> QED
      BY <3>1, ChaincodeAssumption DEF Cells
  <2>2. CASE p.fn # "invokecc"
    BY <1>1, <2>2 DEF Invoke, Error, Success, reset
  <2> QED
    BY <2>1, <2>2
<1>2. CASE p.fn = "invoke" /\ ~(Len(p.args) < 2)
  <2>1. Invoke(t, p, w) = Action(p.args, w)
    BY <1>2 DEF Invoke
  <2>2. CASE p.args[1] = "move"
    <3>1. Invoke(t, p, w) = move(p.args, w)
      BY <2>1, <2>2 DEF Action
    <3>2. ~(Len(p.args) < 4) /\ Invoke(t, p, w).reads = {p.args[2], p.args[3]}
      BY <3>1 DEF move, Error, Success
    <3> QED
      BY <1>2, <2>2, <3>2, ChaincodeAssumption DEF Reads, Cells
  <2>3. CASE p.args[1] \in {"query", "history"}
    <3>1. Invoke(t, p, w) = query(p.args, w)
      BY <2>1, <2>3 DEF Action, history
    <3>2. Len(p.args) = 2 /\ Invoke(t, p, w).reads = {p.args[2]}
      BY <3>1 DEF query, Error, Success
    <3> QED
      BY <1>2, <2>3, <3>2, ChaincodeAssumption DEF Reads, Cells
  <2>4. CASE p.args[1] \notin Reads
    BY <2>1, <2>4 DEF Action, Reads, set, delete, scan, Error, Success
  <2> QED
    BY <2>2, <2>3, <2>4 DEF Reads
<1> QED
  BY <1>1, <1>2

\* A call of another chaincode that succeeds leaves the mark and what the call writes.
LEMMA CallWrites ==
  ASSUME NEW t \in Txs, NEW p \in Proposals, NEW w, Invoke(t, p, w).ok, p.fn = "invokecc"
  PROVE  LET c == p.args[2]
             writes == Invoke(t, p, w).writes
         IN /\ c \in DOMAIN Called
            /\ DOMAIN writes = {t} \cup Called[c].writes
            /\ writes[t] = p.args[1] /\ p.args[1] # Missing
            /\ \A x \in Called[c].writes :
                 x \in Cells /\ x \notin Txs /\ writes[x] = Outcome(c, w)
<1>1. ~(Len(p.args) < 2) /\ p.args[2] \in DOMAIN Called
  BY DEF Invoke, invokeCC, Error
<1>2. Invoke(t, p, w).writes = [k \in {t} \cup Called[p.args[2]].writes |->
                                  IF k = t THEN p.args[1] ELSE Outcome(p.args[2], w)]
  BY <1>1 DEF Invoke, invokeCC, Success
<1>3. p.args[1] # Missing
  BY <1>1, ChaincodeAssumption
<1>4. \A x \in Called[p.args[2]].writes : x \in Foreign /\ x \notin Txs
  BY <1>1, ChaincodeAssumption
<1> QED
  BY <1>1, <1>2, <1>3, <1>4 DEF Cells

\* No function writes a mark but invokecc, which writes its own.
LEMMA OwnMark ==
  ASSUME NEW t \in Txs, NEW p \in Proposals, NEW w, Invoke(t, p, w).ok,
         NEW u \in Txs, u \in DOMAIN Invoke(t, p, w).writes
  PROVE  u = t /\ p.fn = "invokecc"
<1>1. CASE p.fn = "invokecc"
  BY <1>1, CallWrites
<1>2. CASE p.fn = "reset"
  <2>1. Len(p.args) = 4 /\ DOMAIN Invoke(t, p, w).writes = {p.args[1], p.args[3]}
    BY <1>2 DEF Invoke, reset, Error, Success
  <2> QED
    BY <1>2, <2>1, ChaincodeAssumption
<1>3. CASE p.fn \notin {"invokecc", "reset"}
  <2>1. p.fn = "invoke" /\ ~(Len(p.args) < 2) /\ Invoke(t, p, w) = Action(p.args, w)
    BY <1>3 DEF Invoke, Error
  <2>2. CASE p.args[1] = "set"
    <3>1. ~(Len(p.args) < 3) /\ DOMAIN Invoke(t, p, w).writes = {p.args[2]}
      BY <2>1, <2>2 DEF Action, set, Error, Success
    <3> QED
      BY <2>1, <2>2, <3>1, ChaincodeAssumption
  <2>3. CASE p.args[1] = "move"
    <3>1. ~(Len(p.args) < 4) /\ DOMAIN Invoke(t, p, w).writes = {p.args[2], p.args[3]}
      BY <2>1, <2>3 DEF Action, move, Error, Success
    <3> QED
      BY <2>1, <2>3, <3>1, ChaincodeAssumption DEF Reads
  <2>4. CASE p.args[1] = "delete"
    BY <2>1, <2>4 DEF Action, delete, Error
  <2>5. CASE p.args[1] \notin {"set", "delete", "move"}
    <3>1. Action(p.args, w).writes = NoWrites
      BY <2>5 DEF Action, query, history, scan, Error, Success
    <3> QED
      BY <2>1, <3>1 DEF NoWrites
  <2> QED
    BY <2>2, <2>3, <2>4, <2>5
<1> QED
  BY <1>1, <1>2, <1>3

\* A block added to the chain leaves the ones before it alone.
LEMMA AppendBlock ==
  ASSUME NEW S, NEW s \in Seq(S), NEW e
  PROVE  /\ Append(s, e) \in Seq(S \cup {e})
         /\ Len(Append(s, e)) = Len(s) + 1
         /\ \A i \in 1..Len(s) : Append(s, e)[i] = s[i]
         /\ Append(s, e)[Len(s) + 1] = e
<1>1. s \in Seq(S \cup {e})
  OBVIOUS
<1> QED
  BY <1>1, AppendProperties

\* An int is what it wraps to.
LEMMA WrapInts == \A n \in Ints : Wrap(n) = n
BY ChaincodeAssumption DEF Wrap, Ints

\* A sum or a difference of ints is an int again, one turn off at most.
LEMMA WrapSum ==
  ASSUME NEW m \in Ints, NEW n \in Ints
  PROVE  /\ Wrap(m + n) \in Ints /\ m + n - Wrap(m + n) \in {-2 * Half, 0, 2 * Half}
         /\ Wrap(m - n) \in Ints /\ m - n - Wrap(m - n) \in {-2 * Half, 0, 2 * Half}
BY ChaincodeAssumption DEF Wrap, Ints

\* What a payment writes.
Paid(args, w) ==
  [k \in {args[2], args[3]} |->
     IF k = args[3] THEN Wrap(Atoi(w[args[3]]) + args[4])
                    ELSE Wrap(Atoi(w[args[2]]) - args[4])]

\* A payment that is not refused: its keys hold something, and both get amounts.
LEMMA MoveWrites ==
  ASSUME NEW t, NEW p \in Proposals, NEW w,
         p.fn = "invoke", p.args[1] = "move", Holds(w), Invoke(t, p, w).ok
  PROVE  /\ p.args[2] \in Keys /\ p.args[3] \in Keys /\ p.args[4] \in Ints
         /\ Atoi(w[p.args[2]]) \in Ints /\ Atoi(w[p.args[3]]) \in Ints
         /\ Invoke(t, p, w).writes = Paid(p.args, w)
<1>1. ~(Len(p.args) < 2) /\ Invoke(t, p, w) = move(p.args, w)
  BY DEF Invoke, Error, Action
<1>2. /\ ~(Len(p.args) < 4) /\ w[p.args[2]] # Missing /\ w[p.args[3]] # Missing
      /\ p.args[4] \in Ints
      /\ Invoke(t, p, w).writes = Paid(p.args, w)
  BY <1>1 DEF move, Error, Success, Paid
<1>3. p.args[2] \in Keys /\ p.args[3] \in Keys
  BY <1>1, <1>2, ChaincodeAssumption DEF Reads
<1>4. 0 \in Ints
  BY ChaincodeAssumption DEF Ints
<1> QED
  BY <1>2, <1>3, <1>4 DEF Holds, Values, Atoi

\* Whatever other function succeeds, it writes cars under the keys of the ledger.
LEMMA OthersWriteCars ==
  ASSUME NEW t \in Txs, NEW p \in Proposals, NEW w, Invoke(t, p, w).ok,
         ~(p.fn = "invoke" /\ p.args[1] = "move"),
         NEW k \in Keys, k \in DOMAIN Invoke(t, p, w).writes
  PROVE  Invoke(t, p, w).writes[k] \in Cars
<1>1. CASE p.fn = "invokecc"
  <2>1. /\ p.args[2] \in DOMAIN Called
        /\ DOMAIN Invoke(t, p, w).writes = {t} \cup Called[p.args[2]].writes
    BY <1>1, CallWrites
  <2> QED
    BY <2>1, ChaincodeAssumption
<1>2. CASE p.fn = "reset"
  <2>1. Invoke(t, p, w) = reset(p.args)
    BY <1>2 DEF Invoke
  <2>2. Len(p.args) = 4
    BY <2>1 DEF reset, Error
  <2>3. p.args[2] \in Cars /\ p.args[4] \in Cars
    BY <1>2, <2>2, ChaincodeAssumption
  <2>4. Invoke(t, p, w).writes = [c \in {p.args[1], p.args[3]} |->
                      IF c = p.args[3] THEN p.args[4] ELSE p.args[2]]
    BY <2>1, <2>2 DEF reset, Success
  <2> QED
    BY <2>3, <2>4
<1>3. CASE p.fn \notin {"invokecc", "reset"}
  <2>1. p.fn = "invoke" /\ ~(Len(p.args) < 2) /\ Invoke(t, p, w) = Action(p.args, w)
    BY <1>3 DEF Invoke, Error
  <2>2. CASE p.args[1] = "set"
    <3>1. Invoke(t, p, w) = set(p.args, w)
      BY <2>1, <2>2 DEF Action
    <3>2. p.args[3] \in Cars
          /\ Invoke(t, p, w).writes = [c \in {p.args[2]} |-> p.args[3]]
      BY <3>1 DEF set, Error, Success
    <3> QED
      BY <3>2
  <2>3. CASE p.args[1] = "delete"
    BY <2>1, <2>3 DEF Action, delete, Error
  <2>4. CASE p.args[1] \notin {"set", "delete", "move"}
    <3>1. Action(p.args, w).writes = NoWrites
      BY <2>4 DEF Action, query, history, scan, Error, Success
    <3> QED
      BY <2>1, <3>1 DEF NoWrites
  <2> QED
    BY <1>3, <2>1, <2>2, <2>3, <2>4
<1> QED
  BY <1>1, <1>2, <1>3

\* A function that succeeds on a typed state leaves a typed state.
LEMMA InvokeTyped ==
  ASSUME NEW t \in Txs, NEW p \in Proposals, NEW w, Holds(w), Invoke(t, p, w).ok
  PROVE  Holds(Overwrite(w, Invoke(t, p, w).writes))
<1> DEFINE writes == Invoke(t, p, w).writes
<1> SUFFICES ASSUME NEW k \in Keys, k \in DOMAIN writes
             PROVE  writes[k] \in Values
  BY DEF Holds, Overwrite, Cells
<1>1. CASE p.fn = "invoke" /\ p.args[1] = "move"
  <2>1. /\ p.args[4] \in Ints
        /\ Atoi(w[p.args[2]]) \in Ints /\ Atoi(w[p.args[3]]) \in Ints
        /\ writes = Paid(p.args, w)
    BY <1>1, MoveWrites
  <2>2. /\ Wrap(Atoi(w[p.args[3]]) + p.args[4]) \in Ints
        /\ Wrap(Atoi(w[p.args[2]]) - p.args[4]) \in Ints
    BY <2>1, WrapSum
  <2> QED
    BY <2>1, <2>2 DEF Values, Paid
<1>2. CASE ~(p.fn = "invoke" /\ p.args[1] = "move")
  BY <1>2, OthersWriteCars DEF Values
<1> QED
  BY <1>1, <1>2

-----------------------------------------------------------------------------
\* The chain after instantiation satisfies the invariant.
LEMMA ChaincodeInit == Init => ChaincodeInv
<1> SUFFICES ASSUME Init PROVE ChaincodeInv
  OBVIOUS
<1> DEFINE genesis == chain[1]
<1>1. Len(chain) = 1 /\ \E S : chain \in Seq(S)
  <2>1. \E e : chain = <<e>>
    BY DEF Init
  <2>2. PICK e : chain = <<e>>
    BY <2>1
  <2>3. <<e>> \in Seq({e})
    OBVIOUS
  <2> QED
    BY <2>2, <2>3
<1>2. \A k \in Cells : chain[1].ver[k] = 1
  BY DEF Init
<1>3. tx \in [Txs -> TxState] /\ \A t \in Txs : tx[t].pc = "new"
  BY DEF Init, TxState
<1>4. ChainTypes
  <2>1. chain[1].world = [k \in Cells |-> chain[1].world[k]]
    BY DEF Init, Instantiated, Overwrite
  <2> QED
    BY <1>1, <1>2, <1>3, <2>1 DEF ChainTypes
<1>5. Endorsed /\ Ordered /\ Versions /\ Serializable /\ Inert
  BY <1>1, <1>3 DEF Endorsed, Ordered, Versions, Serializable, Inert
<1>6. WorldTypes
  <2>1. chain[1].world = Instantiated
    BY DEF Init
  <2>2. reset(InitArgs).writes = [k \in {InitArgs[1], InitArgs[3]} |->
                      IF k = InitArgs[3] THEN InitArgs[4] ELSE InitArgs[2]]
    BY ChaincodeAssumption DEF reset, Success
  <2>3. \A k \in DOMAIN reset(InitArgs).writes : reset(InitArgs).writes[k] \in Cars
    BY <2>2, ChaincodeAssumption
  <2>4. Holds(Instantiated)
    BY <2>3 DEF Holds, Values, Instantiated, Overwrite, Cells
  <2> QED
    BY <1>1, <2>1, <2>4 DEF WorldTypes
<1>7. MarksAreCalls
  <2>1. \A t \in Txs : chain[1].world[t] = Missing
    <3>1. DOMAIN reset(InitArgs).writes = {InitArgs[1], InitArgs[3]}
      BY ChaincodeAssumption DEF reset, Success
    <3>2. \A t \in Txs : t \notin DOMAIN reset(InitArgs).writes
      BY <3>1, ChaincodeAssumption
    <3> QED
      BY <3>2 DEF Init, Instantiated, Overwrite, Cells
  <2>2. \A i \in 1..Len(chain) : i = 1 /\ 2..i = {}
    BY <1>1
  <2> QED
    BY <2>1, <2>2 DEF MarksAreCalls
<1> QED
  BY <1>4, <1>5, <1>6, <1>7 DEF ChaincodeInv

\* Executing a proposal keeps the invariant: the chain does not change.
LEMMA EndorseStep ==
  ASSUME ChaincodeInv, NEW t \in Txs, Endorse(t)
  PROVE  ChaincodeInv'
<1>1. PICK p \in Proposals, h \in 1..Len(chain) :
        tx' = [tx EXCEPT ![t] =
          [pc |-> IF Invoke(t, p, chain[h].world).ok THEN "endorsed" ELSE "refused",
           proposal |-> p, snapshot |-> h]]
  BY DEF Endorse
<1>2. chain' = chain /\ tx[t].pc = "new"
  BY DEF Endorse
<1>3. tx \in [Txs -> TxState]
  BY DEF ChaincodeInv, ChainTypes
<1>4. h \in Nat
  OBVIOUS
<1>5. tx' \in [Txs -> TxState]
  BY <1>1, <1>3, <1>4 DEF TxState
<1>6. ChainTypes'
  BY <1>2, <1>5 DEF ChaincodeInv, ChainTypes
<1>7. \A u \in Txs : u # t => tx'[u] = tx[u]
  BY <1>1, <1>3
<1>8. Endorsed'
  <2> SUFFICES ASSUME NEW u \in Txs, tx'[u].pc = "endorsed"
               PROVE  /\ tx'[u].snapshot \in 1..Len(chain)
                      /\ tx'[u].proposal \in Proposals
                      /\ Invoke(u, tx'[u].proposal, chain[tx'[u].snapshot].world).ok
    BY <1>2 DEF Endorsed, Executed
  <2>1. CASE u = t
    BY <1>1, <1>3, <2>1
  <2>2. CASE u # t
    BY <1>7, <2>2 DEF ChaincodeInv, Endorsed, Executed
  <2> QED
    BY <2>1, <2>2
<1>9. \A i \in 2..Len(chain) : chain[i].tx \in Txs /\ chain[i].tx # t
  BY <1>2 DEF ChaincodeInv, Ordered
<1>10. Ordered'
  BY <1>2, <1>7, <1>9 DEF ChaincodeInv, Ordered, Proposed
<1>11. Versions'
  BY <1>2 DEF ChaincodeInv, Versions
<1>12. Serializable'
  BY <1>2, <1>7, <1>9 DEF ChaincodeInv, Serializable, Proposed
<1>14. MarksAreCalls'
  <2>1. \A i \in 2..Len(chain) : Proposed(i)' = Proposed(i)
    BY <1>2, <1>7, <1>9 DEF Proposed
  <2>2. \A u \in Txs, i \in 2..Len(chain) : CallTookEffect(u, i)' <=> CallTookEffect(u, i)
    BY <1>2, <2>1 DEF CallTookEffect
  <2>3. \A i \in 1..Len(chain) : 2..i \subseteq 2..Len(chain)
    BY DEF ChaincodeInv, ChainTypes
  <2> QED
    BY <1>2, <2>2, <2>3 DEF ChaincodeInv, MarksAreCalls
<1>13. WorldTypes' /\ Inert'
  BY <1>2 DEF ChaincodeInv, WorldTypes, Inert
<1> QED
  BY <1>6, <1>8, <1>10, <1>11, <1>12, <1>13, <1>14 DEF ChaincodeInv

\* Ordering a transaction keeps the invariant: its reads are unchanged, or it writes nothing.
LEMMA OrderStep ==
  ASSUME ChaincodeInv, NEW t \in Txs, Order(t)
  PROVE  ChaincodeInv'
<1> DEFINE n      == Len(chain)
           writes == IF Unchanged(t) THEN Executed(t).writes ELSE NoWrites
           world  == Overwrite(chain[n].world, writes)
           ver    == [k \in Cells |->
                        IF k \in DOMAIN writes THEN n + 1 ELSE chain[n].ver[k]]
           block  == [tx |-> t, valid |-> Unchanged(t), world |-> world, ver |-> ver]
<1>1. chain' = Append(chain, block)
  BY DEF Order
<1>2. tx[t].pc = "endorsed" /\ tx' = [tx EXCEPT ![t].pc = "ordered"]
  BY DEF Order
<1>3. tx \in [Txs -> TxState] /\ n \in Nat /\ n >= 1
  BY DEF ChaincodeInv, ChainTypes
<1>4. /\ \E S : chain' \in Seq(S)
      /\ Len(chain') = n + 1
      /\ \A i \in 1..n : chain'[i] = chain[i]
      /\ chain'[n + 1] = block
  <2>1. PICK S : chain \in Seq(S)
    BY DEF ChaincodeInv, ChainTypes
  <2> HIDE DEF block
  <2>2. /\ chain' \in Seq(S \cup {block})
        /\ Len(chain') = n + 1
        /\ \A i \in 1..n : chain'[i] = chain[i]
        /\ chain'[n + 1] = block
    BY <1>1, <2>1, AppendBlock
  <2>3. \E T : chain' \in Seq(T)
    BY <2>2
  <2> QED
    BY <2>2, <2>3
<1>5. /\ block.tx = t /\ block.valid = Unchanged(t)
      /\ block.world = world /\ block.ver = ver
  OBVIOUS
<1>6. \A k \in Cells : /\ k \in DOMAIN writes => ver[k] = n + 1
                       /\ k \notin DOMAIN writes =>
                            ver[k] = chain[n].ver[k] /\ world[k] = chain[n].world[k]
  BY DEF Overwrite
<1> HIDE DEF writes, world, ver, block
<1>7. /\ tx' \in [Txs -> TxState]
      /\ tx'[t].pc = "ordered"
      /\ \A u \in Txs : /\ tx'[u].proposal = tx[u].proposal
                        /\ tx'[u].snapshot = tx[u].snapshot
                        /\ u # t => tx'[u] = tx[u]
  BY <1>2, <1>3 DEF TxState
<1>8. ChainTypes'
  <2>0. ASSUME NEW i \in 1..(n + 1)
        PROVE  chain'[i].world = [k \in Cells |-> chain'[i].world[k]]
    <3>1. world = [k \in Cells |-> world[k]]
      BY DEF world, Overwrite
    <3>2. CASE i \in 1..n
      BY <1>4, <3>2 DEF ChaincodeInv, ChainTypes
    <3>3. CASE i = n + 1
      BY <1>4, <1>5, <3>1, <3>3
    <3> QED
      BY <1>3, <3>2, <3>3
  <2> SUFFICES ASSUME NEW i \in 1..(n + 1), NEW k \in Cells
               PROVE  chain'[i].ver[k] \in Nat /\ chain'[i].ver[k] <= i
    BY <1>3, <1>4, <1>7, <2>0 DEF ChainTypes
  <2>1. CASE i \in 1..n
    BY <1>4, <2>1 DEF ChaincodeInv, ChainTypes
  <2>2. CASE i = n + 1
    <3>1. chain[n].ver[k] \in Nat /\ chain[n].ver[k] <= n
      BY <1>3 DEF ChaincodeInv, ChainTypes
    <3> QED
      BY <1>3, <1>4, <1>5, <1>6, <2>2, <3>1
  <2> QED
    BY <1>3, <2>1, <2>2
<1>9. Endorsed'
  <2> SUFFICES ASSUME NEW u \in Txs, tx'[u].pc = "endorsed"
               PROVE  /\ tx'[u].snapshot \in 1..(n + 1)
                      /\ tx'[u].proposal \in Proposals
                      /\ Invoke(u, tx'[u].proposal, chain'[tx'[u].snapshot].world).ok
    BY <1>4 DEF Endorsed, Executed
  <2>1. u # t
    BY <1>7
  <2>2. /\ tx[u].snapshot \in 1..n /\ tx[u].proposal \in Proposals
        /\ Invoke(u, tx[u].proposal, chain[tx[u].snapshot].world).ok
    BY <1>7, <2>1 DEF ChaincodeInv, Endorsed, Executed
  <2> QED
    BY <1>3, <1>4, <1>7, <2>1, <2>2
<1>10. /\ tx[t].snapshot \in 1..n /\ tx[t].proposal \in Proposals
       /\ Executed(t).ok
  BY <1>2 DEF ChaincodeInv, Endorsed
<1>11. \A i \in 2..n : /\ chain[i].tx \in Txs /\ tx[chain[i].tx].pc = "ordered"
                       /\ chain[i].tx # t
                       /\ Proposed(i) \in Proposals /\ Proposed(i)' = Proposed(i)
  BY <1>2, <1>3, <1>4, <1>7 DEF ChaincodeInv, Ordered, Proposed
<1>12. tx'[chain'[n + 1].tx].proposal = tx[t].proposal
  BY <1>4, <1>5, <1>7
<1>13. Ordered'
  <2> SUFFICES ASSUME NEW i \in 2..(n + 1)
               PROVE  /\ chain'[i].tx \in Txs /\ tx'[chain'[i].tx].pc = "ordered"
                      /\ tx'[chain'[i].tx].proposal \in Proposals
    BY <1>4 DEF Ordered, Proposed
  <2>1. CASE i \in 2..n
    BY <1>3, <1>4, <1>7, <1>11, <2>1 DEF Proposed
  <2>2. CASE i = n + 1
    BY <1>4, <1>5, <1>7, <1>10, <2>2
  <2> QED
    BY <1>3, <2>1, <2>2
<1>14. Versions'
  <2>1. \A i \in 1..n, k \in Cells :
          chain[i].ver[k] = ver[k] => chain[i].world[k] = world[k]
    <3> SUFFICES ASSUME NEW i \in 1..n, NEW k \in Cells, chain[i].ver[k] = ver[k]
                 PROVE  chain[i].world[k] = world[k]
      OBVIOUS
    <3>1. chain[i].ver[k] \in Nat /\ chain[i].ver[k] <= i
      BY <1>3 DEF ChaincodeInv, ChainTypes
    <3>2. k \notin DOMAIN writes
      BY <1>3, <1>6, <3>1
    <3> QED
      BY <1>3, <1>6, <3>2 DEF ChaincodeInv, Versions
  <2> SUFFICES ASSUME NEW i \in 1..(n + 1), NEW j \in 1..(n + 1), NEW k \in Cells,
                      chain'[i].ver[k] = chain'[j].ver[k]
               PROVE  chain'[i].world[k] = chain'[j].world[k]
    BY <1>4 DEF Versions
  <2>2. CASE i \in 1..n /\ j \in 1..n
    BY <1>4, <2>2 DEF ChaincodeInv, Versions
  <2>3. CASE i \in 1..n /\ j = n + 1
    BY <1>4, <1>5, <2>1, <2>3
  <2>4. CASE i = n + 1 /\ j \in 1..n
    BY <1>4, <1>5, <2>1, <2>4
  <2>5. CASE i = n + 1 /\ j = n + 1
    BY <2>5
  <2> QED
    BY <1>3, <2>2, <2>3, <2>4, <2>5
<1>15. ASSUME Unchanged(t)
       PROVE  Invoke(t, tx[t].proposal, chain[n].world) = Executed(t)
  <2>1. Executed(t).reads \subseteq Cells
    BY <1>10, ReadsAreKeys DEF Executed
  <2>2. \A k \in Executed(t).reads :
          chain[tx[t].snapshot].world[k] = chain[n].world[k]
    BY <1>3, <1>10, <1>15, <2>1 DEF ChaincodeInv, Versions, Unchanged
  <2> QED
    BY <1>10, <2>2, Locality DEF Executed
<1>16. Serializable'
  <2> SUFFICES ASSUME NEW i \in 2..(n + 1), chain'[i].valid
               PROVE  LET a == Invoke(chain'[i].tx, tx'[chain'[i].tx].proposal,
                                      chain'[i - 1].world)
                      IN a.ok /\ chain'[i].world = Overwrite(chain'[i - 1].world, a.writes)
    BY <1>4 DEF Serializable, Proposed
  <2>1. CASE i \in 2..n
    <3>1. i \in 1..n /\ i - 1 \in 1..n
      BY <1>3, <2>1
    <3>2. chain'[i] = chain[i] /\ chain'[i - 1] = chain[i - 1]
      BY <1>4, <3>1
    <3> QED
      BY <1>11, <2>1, <3>2 DEF ChaincodeInv, Serializable, Proposed
  <2>2. CASE i = n + 1
    <3>1. chain'[i] = block /\ chain'[i - 1] = chain[n]
      BY <1>3, <1>4, <2>2
    <3>2. Unchanged(t)
      BY <1>5, <3>1
    <3>3. world = Overwrite(chain[n].world, Executed(t).writes)
      BY <3>2 DEF world, writes
    <3> QED
      BY <1>5, <1>10, <1>12, <1>15, <2>2, <3>1, <3>2, <3>3
  <2> QED
    BY <1>3, <2>1, <2>2
<1>17. MarksAreCalls'
  <2>1. \A u \in Txs, i \in 2..n : CallTookEffect(u, i)' <=> CallTookEffect(u, i)
    <3> SUFFICES ASSUME NEW u \in Txs, NEW i \in 2..n
                 PROVE  CallTookEffect(u, i)' <=> CallTookEffect(u, i)
      OBVIOUS
    <3>1. i \in 1..n /\ i - 1 \in 1..n
      BY <1>3
    <3>2. chain'[i] = chain[i] /\ chain'[i - 1] = chain[i - 1]
      BY <1>4, <3>1
    <3> QED
      BY <1>11, <3>2 DEF CallTookEffect
  <2>2. \A u \in Txs, i \in {n + 1} : CallTookEffect(u, i)' <=>
          /\ u = t /\ Unchanged(t) /\ tx[t].proposal.fn = "invokecc"
    <3> SUFFICES ASSUME NEW i \in {n + 1}
                 PROVE  \A u \in Txs : CallTookEffect(u, i)' <=>
                          /\ u = t /\ Unchanged(t) /\ tx[t].proposal.fn = "invokecc"
      OBVIOUS
    <3>1. /\ chain'[i].tx = t /\ chain'[i].valid = Unchanged(t) /\ chain'[i].world = world
          /\ chain'[i - 1] = chain[n]
      BY <1>3, <1>4, <1>5
    <3>2. Proposed(i)' = tx[t].proposal
      BY <1>12 DEF Proposed
    <3>3. ASSUME Unchanged(t), tx[t].proposal.fn = "invokecc"
          PROVE  CallTookEffect(t, i)'
      <4> DEFINE c == tx[t].proposal.args[2]
      <4>1. /\ Invoke(t, tx[t].proposal, chain[n].world).ok
            /\ writes = Invoke(t, tx[t].proposal, chain[n].world).writes
        BY <1>10, <1>15, <3>3 DEF writes
      <4>2. /\ c \in DOMAIN Called /\ DOMAIN writes = {t} \cup Called[c].writes
            /\ \A x \in Called[c].writes :
                 x \in Cells /\ writes[x] = Outcome(c, chain[n].world)
        BY <1>10, <3>3, <4>1, CallWrites
      <4>3. \A x \in Called[c].writes : world[x] = Outcome(c, chain[n].world)
        BY <4>2 DEF world, Overwrite
      <4> QED
        BY <3>1, <3>2, <3>3, <4>2, <4>3 DEF CallTookEffect
    <3>4. \A u \in Txs : CallTookEffect(u, i)' =>
            u = t /\ Unchanged(t) /\ tx[t].proposal.fn = "invokecc"
      BY <3>1, <3>2 DEF CallTookEffect
    <3> QED
      BY <3>3, <3>4
  <2>3. \A u \in Txs : u \in DOMAIN writes <=>
          /\ u = t /\ Unchanged(t) /\ tx[t].proposal.fn = "invokecc"
    <3>1. CASE Unchanged(t)
      <4>1. writes = Executed(t).writes
        BY <3>1 DEF writes
      <4> QED
        BY <1>10, <3>1, <4>1, CallWrites, OwnMark DEF Executed
    <3>2. CASE ~Unchanged(t)
      BY <3>2 DEF writes, NoWrites
    <3> QED
      BY <3>1, <3>2
  <2>4. t \in DOMAIN writes => world[t] # Missing
    <3> SUFFICES ASSUME t \in DOMAIN writes PROVE world[t] # Missing
      OBVIOUS
    <3>1. Unchanged(t) /\ tx[t].proposal.fn = "invokecc"
      BY <2>3
    <3>2. writes = Executed(t).writes
      BY <3>1 DEF writes
    <3>3. writes[t] # Missing
      BY <1>10, <3>1, <3>2, CallWrites DEF Executed
    <3> QED
      BY <3>3 DEF world, Overwrite, Cells
  <2>5. \A u \in Txs : chain[n].world[u] # Missing <=> \E j \in 2..n : CallTookEffect(u, j)
    BY <1>3 DEF ChaincodeInv, MarksAreCalls
  <2>6. chain[n].world[t] = Missing
    BY <1>11, <2>5 DEF CallTookEffect
  <2>7. \A u \in Txs : world[u] # Missing <=>
          chain[n].world[u] # Missing \/ u \in DOMAIN writes
    BY <1>6, <2>3, <2>4 DEF Cells
  <2>8. \A u \in Txs : world[u] # Missing <=>
          \E j \in 2..(n + 1) : CallTookEffect(u, j)'
    <3>1. 2..(n + 1) = 2..n \cup {n + 1}
      BY <1>3
    <3> QED
      BY <2>1, <2>2, <2>3, <2>5, <2>7, <3>1
  <2> SUFFICES ASSUME NEW i \in 1..(n + 1), NEW u \in Txs
               PROVE  chain'[i].world[u] # Missing <=>
                        \E j \in 2..i : CallTookEffect(u, j)'
    BY <1>4 DEF MarksAreCalls
  <2>9. CASE i \in 1..n
    <3>1. 2..i \subseteq 2..n
      BY <1>3, <2>9
    <3> QED
      BY <1>4, <2>1, <2>9, <3>1 DEF ChaincodeInv, MarksAreCalls
  <2>10. CASE i = n + 1
    BY <1>4, <1>5, <2>8, <2>10
  <2> QED
    BY <1>3, <2>9, <2>10
<1>18. WorldTypes'
  <2>1. Holds(chain[n].world)
    BY <1>3 DEF ChaincodeInv, WorldTypes
  <2>2. CASE Unchanged(t)
    <3>1. world = Overwrite(chain[n].world, Invoke(t, tx[t].proposal, chain[n].world).writes)
      BY <1>15, <2>2 DEF world, writes
    <3>2. Holds(world)
      BY <1>10, <1>15, <2>1, <2>2, <3>1, InvokeTyped
    <3> QED
      BY <1>3, <1>4, <1>5, <3>2 DEF ChaincodeInv, WorldTypes
  <2>3. CASE ~Unchanged(t)
    <3>1. \A k \in Cells : world[k] = chain[n].world[k]
      BY <2>3 DEF world, writes, NoWrites, Overwrite
    <3>2. Holds(world)
      BY <2>1, <3>1 DEF Holds, Cells
    <3> QED
      BY <1>3, <1>4, <1>5, <3>2 DEF ChaincodeInv, WorldTypes
  <2> QED
    BY <2>2, <2>3
<1>19. Inert'
  <2> SUFFICES ASSUME NEW i \in 2..(n + 1), ~chain'[i].valid, NEW k \in Cells
               PROVE  chain'[i].world[k] = chain'[i - 1].world[k]
    BY <1>4 DEF Inert
  <2>1. CASE i \in 2..n
    <3>1. i \in 1..n /\ i - 1 \in 1..n
      BY <1>3, <2>1
    <3>2. chain'[i] = chain[i] /\ chain'[i - 1] = chain[i - 1]
      BY <1>4, <3>1
    <3> QED
      BY <2>1, <3>2 DEF ChaincodeInv, Inert
  <2>2. CASE i = n + 1
    <3>1. chain'[i] = block /\ chain'[i - 1] = chain[n]
      BY <1>3, <1>4, <2>2
    <3>2. world[k] = chain[n].world[k]
      BY <1>5, <3>1 DEF world, writes, NoWrites, Overwrite
    <3> QED
      BY <1>5, <3>1, <3>2
  <2> QED
    BY <1>3, <2>1, <2>2
<1> QED
  BY <1>8, <1>9, <1>13, <1>14, <1>16, <1>17, <1>18, <1>19 DEF ChaincodeInv

\* The invariant holds in every state.
LEMMA ChaincodeInvariant == Spec => []ChaincodeInv
<1>1. ChaincodeInv /\ [Next]_vars => ChaincodeInv'
  <2> SUFFICES ASSUME ChaincodeInv, [Next]_vars PROVE ChaincodeInv'
    OBVIOUS
  <2>1. CASE UNCHANGED vars
    <3>1. tx' = tx /\ chain' = chain
      BY <2>1 DEF vars
    <3>2. ChainTypes' /\ Endorsed' /\ Ordered' /\ WorldTypes' /\ Inert'
      BY <3>1 DEF ChaincodeInv, ChainTypes, Endorsed, Executed, Ordered, Proposed,
                  WorldTypes, Inert
    <3>3. Versions' /\ Serializable' /\ MarksAreCalls'
      BY <3>1 DEF ChaincodeInv, Versions, Serializable, MarksAreCalls, CallTookEffect,
                  Proposed
    <3> QED
      BY <3>2, <3>3 DEF ChaincodeInv
  <2>2. CASE Next
    BY <2>2, EndorseStep, OrderStep DEF Next
  <2> QED
    BY <2>1, <2>2
<1> QED
  BY ChaincodeInit, <1>1, PTL DEF Spec

-----------------------------------------------------------------------------
\* What a block does to a key: nothing, or what its function writes on the state before it.
LEMMA BlockWrites ==
  ASSUME ChaincodeInv, NEW i \in 2..Len(chain), NEW k \in Keys,
         chain[i].world[k] # chain[i - 1].world[k]
  PROVE  LET w == chain[i - 1].world
             answer == Invoke(chain[i].tx, Proposed(i), w)
         IN /\ chain[i].valid /\ answer.ok
            /\ k \in DOMAIN answer.writes
            /\ chain[i].world[k] = answer.writes[k]
<1> DEFINE w == chain[i - 1].world
           answer == Invoke(chain[i].tx, Proposed(i), w)
<1>1. chain[i].valid
  BY DEF ChaincodeInv, Inert, Cells
<1>2. answer.ok /\ chain[i].world = Overwrite(w, answer.writes)
  BY <1>1 DEF ChaincodeInv, Serializable
<1> HIDE DEF answer
<1>3. chain[i].world[k] = IF k \in DOMAIN answer.writes THEN answer.writes[k] ELSE w[k]
  BY <1>2 DEF Overwrite, Cells
<1> QED
  BY <1>1, <1>2, <1>3 DEF answer

\* What a payment that took effect did, key by key.
LEMMA PaymentWrites ==
  ASSUME ChaincodeInv, NEW i \in 2..Len(chain), IsMove(i)
  PROVE  LET w == chain[i - 1].world
             A == Proposed(i).args[2]
             B == Proposed(i).args[3]
             X == Proposed(i).args[4]
         IN /\ A \in Keys /\ B \in Keys /\ X \in Ints
            /\ Atoi(w[A]) \in Ints /\ Atoi(w[B]) \in Ints
            /\ chain[i].world[B] = Wrap(Atoi(w[B]) + X)
            /\ A # B => chain[i].world[A] = Wrap(Atoi(w[A]) - X)
<1> DEFINE w == chain[i - 1].world
           p == Proposed(i)
           t == chain[i].tx
<1>1. p \in Proposals /\ p.fn = "invoke" /\ p.args[1] = "move"
  BY DEF ChaincodeInv, Ordered, IsMove
<1>2. Holds(w)
  BY DEF ChaincodeInv, ChainTypes, WorldTypes
<1>3. Invoke(t, p, w).ok /\ chain[i].world = Overwrite(w, Invoke(t, p, w).writes)
  BY DEF ChaincodeInv, Serializable, IsMove
<1> HIDE DEF p, t, w
<1>4. /\ p.args[2] \in Keys /\ p.args[3] \in Keys /\ p.args[4] \in Ints
      /\ Atoi(w[p.args[2]]) \in Ints /\ Atoi(w[p.args[3]]) \in Ints
      /\ Invoke(t, p, w).writes = Paid(p.args, w)
  BY <1>1, <1>2, <1>3, MoveWrites
<1>5. \A k \in Keys \cap DOMAIN Invoke(t, p, w).writes :
        chain[i].world[k] = Invoke(t, p, w).writes[k]
  BY <1>3 DEF Overwrite, Cells
<1>6. /\ chain[i].world[p.args[3]] = Wrap(Atoi(w[p.args[3]]) + p.args[4])
      /\ p.args[2] # p.args[3] =>
           chain[i].world[p.args[2]] = Wrap(Atoi(w[p.args[2]]) - p.args[4])
  BY <1>4, <1>5 DEF Paid
<1> QED
  BY <1>4, <1>6 DEF p, w

\* What a block writes is a car or an amount, never Missing.
LEMMA EntitiesStayInv == ChaincodeInv => EntitiesStay
<1> SUFFICES ASSUME ChaincodeInv, NEW i \in 2..Len(chain), NEW k \in Keys,
                    chain[i - 1].world[k] # Missing, chain[i].world[k] = Missing
             PROVE  FALSE
  BY DEF EntitiesStay
<1> DEFINE w == chain[i - 1].world
           p == Proposed(i)
           t == chain[i].tx
<1>1. /\ Invoke(t, p, w).ok /\ k \in DOMAIN Invoke(t, p, w).writes
      /\ Invoke(t, p, w).writes[k] = Missing /\ chain[i].valid
  BY BlockWrites
<1>2. t \in Txs /\ p \in Proposals
  BY DEF ChaincodeInv, Ordered
<1>3. CASE p.fn = "invoke" /\ p.args[1] = "move"
  <2>1. IsMove(i) /\ Holds(w)
    BY <1>1, <1>3 DEF IsMove, ChaincodeInv, ChainTypes, WorldTypes
  <2> HIDE DEF p, t, w
  <2>2. /\ p.args[4] \in Ints
        /\ Atoi(w[p.args[2]]) \in Ints /\ Atoi(w[p.args[3]]) \in Ints
        /\ Invoke(t, p, w).writes = Paid(p.args, w)
    BY <1>1, <1>2, <1>3, <2>1, MoveWrites
  <2>3. Invoke(t, p, w).writes[k] \in Ints
    BY <1>1, <2>2, WrapSum DEF Paid
  <2> QED
    BY <1>1, <2>3, ChaincodeAssumption DEF Ints
<1>4. CASE ~(p.fn = "invoke" /\ p.args[1] = "move")
  BY <1>1, <1>2, <1>4, OthersWriteCars, ChaincodeAssumption
<1> QED
  BY <1>3, <1>4

\* Where a car was and an amount is, a payment was made, which took the car for 0.
LEMMA CarsBecomeAmountsInv == ChaincodeInv => CarsBecomeAmounts
<1> SUFFICES ASSUME ChaincodeInv, NEW i \in 2..Len(chain), NEW k \in Keys,
                    chain[i - 1].world[k] \in Cars, chain[i].world[k] \notin Cars
             PROVE  /\ IsMove(i)
                    /\ chain[i].world[k] =
                         IF k = Proposed(i).args[3] THEN Proposed(i).args[4]
                                                    ELSE Wrap(-Proposed(i).args[4])
                    /\ k \in {Proposed(i).args[2], Proposed(i).args[3]}
  BY DEF CarsBecomeAmounts
<1> DEFINE w == chain[i - 1].world
           p == Proposed(i)
           t == chain[i].tx
<1>1. /\ chain[i].valid /\ Invoke(t, p, w).ok
      /\ k \in DOMAIN Invoke(t, p, w).writes
      /\ chain[i].world[k] = Invoke(t, p, w).writes[k]
  BY BlockWrites
<1>2. t \in Txs /\ p \in Proposals
  BY DEF ChaincodeInv, Ordered
<1>3. IsMove(i) /\ p.fn = "invoke" /\ p.args[1] = "move"
  BY <1>1, <1>2, OthersWriteCars DEF IsMove
<1>4. Holds(w)
  BY DEF ChaincodeInv, ChainTypes, WorldTypes
<1> HIDE DEF p, t, w
<1>5. /\ p.args[4] \in Ints
      /\ Invoke(t, p, w).writes = Paid(p.args, w)
  BY <1>1, <1>2, <1>3, <1>4, MoveWrites
<1>6. Atoi(w[k]) = 0
  BY DEF Atoi, w
<1>7. p.args[4] \in Int /\ 0 + p.args[4] = p.args[4] /\ 0 - p.args[4] = -p.args[4]
  BY <1>5, ChaincodeAssumption DEF Ints
<1>8. CASE k = p.args[3]
  BY <1>1, <1>3, <1>5, <1>6, <1>7, <1>8, WrapInts DEF p, Paid
<1>9. CASE k # p.args[3] /\ k = p.args[2]
  BY <1>1, <1>3, <1>5, <1>6, <1>7, <1>9 DEF p, Paid
<1> QED
  BY <1>1, <1>3, <1>5, <1>8, <1>9 DEF p, Paid

\* What one key loses the other one gains: at most one of the two wraps upwards.
LEMMA MoveConservesInv == ChaincodeInv => MoveConserves
<1> SUFFICES ASSUME ChaincodeInv, NEW i \in 2..Len(chain), IsMove(i),
                    Proposed(i).args[2] # Proposed(i).args[3]
             PROVE  Same(Held(i, i - 1), Held(i, i))
  BY DEF MoveConserves
<1> DEFINE a == Atoi(chain[i - 1].world[Proposed(i).args[2]])
           b == Atoi(chain[i - 1].world[Proposed(i).args[3]])
           X == Proposed(i).args[4]
<1>1. /\ X \in Ints /\ a \in Ints /\ b \in Ints
      /\ chain[i].world[Proposed(i).args[3]] = Wrap(b + X)
      /\ chain[i].world[Proposed(i).args[2]] = Wrap(a - X)
  BY PaymentWrites
<1>2. Wrap(b + X) \in Ints /\ Wrap(a - X) \in Ints
  BY <1>1, WrapSum
<1>3. Atoi(Wrap(b + X)) = Wrap(b + X) /\ Atoi(Wrap(a - X)) = Wrap(a - X)
  BY <1>2, ChaincodeAssumption DEF Atoi, Ints
<1>4. Held(i, i - 1) = a + b /\ Held(i, i) = Wrap(a - X) + Wrap(b + X)
  BY <1>1, <1>3 DEF Held
<1> HIDE DEF a, b, X
<1>5. (a + b) - (Wrap(a - X) + Wrap(b + X)) \in {-2 * Half, 0, 2 * Half}
  <2>1. /\ Half \in Nat \ {0} /\ a \in Int /\ b \in Int /\ X \in Int
        /\ -Half <= a /\ a < Half /\ -Half <= b /\ b < Half
    BY <1>1, ChaincodeAssumption DEF Ints
  <2>2. CASE X >= 0
    <3>1. \/ Wrap(b + X) = b + X
          \/ Wrap(b + X) = b + X - 2 * Half
      BY <2>1, <2>2 DEF Wrap
    <3>2. \/ Wrap(a - X) = a - X
          \/ Wrap(a - X) = a - X + 2 * Half
      BY <2>1, <2>2 DEF Wrap
    <3> QED
      BY <2>1, <3>1, <3>2
  <2>3. CASE X < 0
    <3>1. \/ Wrap(b + X) = b + X
          \/ Wrap(b + X) = b + X + 2 * Half
      BY <2>1, <2>3 DEF Wrap
    <3>2. \/ Wrap(a - X) = a - X
          \/ Wrap(a - X) = a - X - 2 * Half
      BY <2>1, <2>3 DEF Wrap
    <3> QED
      BY <2>1, <3>1, <3>2
  <2> QED
    BY <2>1, <2>2, <2>3
<1> QED
  BY <1>4, <1>5 DEF Same

\* Every committed transaction has the effect of running alone, at its place in
\* the chain, whatever state it was executed on.
THEOREM ChaincodeCorrect == Spec => []Serializable
<1>1. ChaincodeInv => Serializable
  BY DEF ChaincodeInv
<1> QED
  BY ChaincodeInvariant, <1>1, PTL

\* A mark is on the ledger just when the call it stands for has taken effect there.
THEOREM MarksAlwaysCalls == Spec => []MarksAreCalls
<1>1. ChaincodeInv => MarksAreCalls
  BY DEF ChaincodeInv
<1> QED
  BY ChaincodeInvariant, <1>1, PTL

\* For every width of int, a payment between two keys neither makes nor loses
\* units, but for a turn of the int.
THEOREM PaymentsConserve == Spec => []MoveConserves
BY ChaincodeInvariant, MoveConservesInv, PTL

\* No sequence of calls makes a key disappear.
THEOREM EntitiesAlwaysStay == Spec => []EntitiesStay
BY ChaincodeInvariant, EntitiesStayInv, PTL

\* A car makes way for an amount in a payment alone, and the amount is X or 0 - X.
THEOREM CarsMakeWay == Spec => []CarsBecomeAmounts
BY ChaincodeInvariant, CarsBecomeAmountsInv, PTL

-----------------------------------------------------------------------------
\* The two copies of the chaincode's functions are one.
LEMMA SerialInvoke ==
  ASSUME NEW t, NEW p, NEW w
  PROVE  Serial!Invoke(t, p, w) = Invoke(t, p, w)
<1> USE DEF Serial!Error, Serial!Success, Serial!NoWrites, Error, Success, NoWrites
<1>1. Serial!invokeCC(t, p.args, w) = invokeCC(t, p.args, w)
  BY DEF Serial!invokeCC, invokeCC, Serial!Outcome, Outcome
<1>2. Serial!reset(p.args) = reset(p.args)
  BY DEF Serial!reset, reset
<1>3. Serial!Action(p.args, w) = Action(p.args, w)
  <2>1. Serial!set(p.args, w) = set(p.args, w)
    BY DEF Serial!set, set, Serial!EventFails, EventFails
  <2>2. Serial!move(p.args, w) = move(p.args, w)
    <3>1. Serial!Ints = Ints /\ \A n : Serial!Wrap(n) = Wrap(n)
      BY DEF Serial!Ints, Ints, Serial!Wrap, Wrap
    <3>2. \A v : Serial!Atoi(v) = Atoi(v)
      BY DEF Serial!Atoi, Atoi
    <3> QED
      BY <3>1, <3>2 DEF Serial!move, move, Serial!EventFails, EventFails
  <2>3. Serial!query(p.args, w) = query(p.args, w)
        /\ Serial!history(p.args, w) = history(p.args, w)
    BY DEF Serial!query, query, Serial!history, history
  <2>4. Serial!delete(p.args) = delete(p.args)
        /\ \A n : Serial!scan(p.args, n) = scan(p.args, n)
    BY DEF Serial!delete, delete, Serial!scan, scan
  <2> QED
    BY <2>1, <2>2, <2>3, <2>4 DEF Serial!Action, Action
<1> QED
  BY <1>1, <1>2, <1>3 DEF Serial!Invoke, Invoke

\* And so is what they leave.
LEMMA SerialOverwrite ==
  ASSUME NEW w, NEW writes
  PROVE  Serial!Overwrite(w, writes) = Overwrite(w, writes)
BY DEF Serial!Overwrite, Overwrite, Serial!Cells, Cells

\* Endorsing is a stutter of the serial ledger.
LEMMA EndorseRefines ==
  ASSUME ChaincodeInv, NEW t \in Txs, Endorse(t)
  PROVE  UNCHANGED <<chain[Len(chain)].world, {u \in Txs : tx[u].pc = "ordered"}>>
<1>1. chain' = chain /\ tx[t].pc # "ordered"
  BY DEF Endorse
<1>2. \A u \in Txs : tx'[u].pc = "ordered" <=> tx[u].pc = "ordered"
  BY <1>1 DEF Endorse, ChaincodeInv, ChainTypes
<1> QED
  BY <1>1, <1>2

\* Ordering runs the transaction there, or drops it.
LEMMA OrderRefines ==
  ASSUME ChaincodeInv, ChaincodeInv', NEW t \in Txs, Order(t)
  PROVE  Serial!Next
<1> DEFINE n    == Len(chain)
           done == {u \in Txs : tx[u].pc = "ordered"}
<1>1. tx[t].pc = "endorsed" /\ tx' = [tx EXCEPT ![t].pc = "ordered"]
  BY DEF Order
<1>2. n \in Nat /\ n >= 1 /\ tx \in [Txs -> TxState]
  BY DEF ChaincodeInv, ChainTypes
<1>3. /\ Len(chain') = n + 1
      /\ chain'[n] = chain[n]
      /\ chain'[n + 1].tx = t /\ chain'[n + 1].valid = Unchanged(t)
      /\ chain'[n + 1].world = Overwrite(chain[n].world,
                                   IF Unchanged(t) THEN Executed(t).writes ELSE NoWrites)
  <2>1. PICK S : chain \in Seq(S)
    BY DEF ChaincodeInv, ChainTypes
  <2>2. PICK e : /\ chain' = Append(chain, e)
                 /\ e.tx = t /\ e.valid = Unchanged(t)
                 /\ e.world = Overwrite(chain[n].world,
                                   IF Unchanged(t) THEN Executed(t).writes ELSE NoWrites)
    BY DEF Order
  <2> QED
    BY <1>2, <2>1, <2>2, AppendBlock
<1>4. t \notin done /\ done' = done \cup {t}
  BY <1>1, <1>2 DEF TxState
<1>5. tx[t].proposal \in Proposals /\ tx'[t].proposal = tx[t].proposal
  BY <1>1, <1>2 DEF ChaincodeInv, Endorsed, TxState
<1>6. CASE Unchanged(t)
  <2>1. /\ Invoke(t, tx[t].proposal, chain[n].world).ok
        /\ chain'[n + 1].world =
             Overwrite(chain[n].world, Invoke(t, tx[t].proposal, chain[n].world).writes)
    <3>1. n + 1 \in 2..Len(chain') /\ (n + 1) - 1 = n
      BY <1>2, <1>3
    <3>2. Serializable'
      BY DEF ChaincodeInv
    <3> QED
      BY <1>3, <1>5, <1>6, <3>1, <3>2 DEF Serializable, Proposed
  <2>2. PICK p \in Proposals : p = tx[t].proposal
    BY <1>5
  <2>3. Serial!Run(t, p)
    BY <1>3, <1>4, <2>1, <2>2, SerialInvoke, SerialOverwrite DEF Serial!Run
  <2> QED
    BY <2>3 DEF Serial!Next
<1>7. CASE ~Unchanged(t)
  <2>1. chain'[n + 1].world = chain[n].world
    <3>1. n \in 1..n /\ chain'[n + 1].world = Overwrite(chain[n].world, NoWrites)
      BY <1>2, <1>3, <1>7
    <3>2. chain[n].world = [k \in Cells |-> chain[n].world[k]]
      BY <3>1 DEF ChaincodeInv, ChainTypes
    <3>3. Overwrite(chain[n].world, NoWrites) = [k \in Cells |-> chain[n].world[k]]
      BY DEF Overwrite, NoWrites
    <3> QED
      BY <3>1, <3>2, <3>3
  <2>2. Serial!Drop(t)
    BY <1>3, <1>4, <2>1 DEF Serial!Drop
  <2> QED
    BY <2>2 DEF Serial!Next
<1> QED
  BY <1>6, <1>7

\* Under endorsement, ordering and validation the chaincode is a ledger on which
\* transactions run one at a time and at most once.
THEOREM ChaincodeRefines == Spec => ImplementsSerialLedger
<1>1. Init => Serial!Init
  <2> SUFFICES ASSUME Init PROVE Serial!Init
    OBVIOUS
  <2>1. Len(chain) = 1 /\ chain[1].world = Instantiated
    BY DEF Init
  <2>2. \A t \in Txs : tx[t].pc = "new"
    BY DEF Init
  <2>3. Serial!reset(InitArgs) = reset(InitArgs)
    BY DEF Serial!reset, reset, Serial!Error, Error, Serial!Success, Success,
           Serial!NoWrites, NoWrites
  <2>4. Serial!Instantiated = Instantiated
    BY <2>3 DEF Serial!Instantiated, Instantiated, Serial!Overwrite, Overwrite,
                Serial!Cells, Cells
  <2> QED
    BY <2>1, <2>2, <2>4 DEF Serial!Init
<1>2. ChaincodeInv /\ ChaincodeInv' /\ [Next]_vars
        => [Serial!Next]_<<chain[Len(chain)].world, {t \in Txs : tx[t].pc = "ordered"}>>
  <2> SUFFICES ASSUME ChaincodeInv, ChaincodeInv', [Next]_vars
               PROVE  \/ Serial!Next
                      \/ UNCHANGED <<chain[Len(chain)].world,
                                      {t \in Txs : tx[t].pc = "ordered"}>>
    OBVIOUS
  <2>1. CASE UNCHANGED vars
    BY <2>1 DEF vars
  <2>2. CASE Next
    BY <2>2, EndorseRefines, OrderRefines DEF Next
  <2> QED
    BY <2>1, <2>2
<1> QED
  BY ChaincodeInvariant, <1>1, <1>2, PTL DEF Spec, Serial!Spec, ImplementsSerialLedger
=============================================================================
