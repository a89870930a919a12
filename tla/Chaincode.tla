----------------------------- MODULE Chaincode -----------------------------
(***************************************************************************)
(* The chaincode under Fabric's execute-order-validate: a proposal is      *)
(* executed on the state some endorser happens to have, and its writes     *)
(* reach the ledger later, when no key it has read through GetState has    *)
(* been written in between.  Endorsement, ordering and validation are      *)
(* Fabric's and not in the repository.                                     *)
(***************************************************************************)
EXTENDS ChaincodeFunctions

VARIABLES
  tx,        \* tx[t]: where transaction t is, and what it was executed on
  chain      \* blocks of one transaction: the state after each, and its versions

vars == <<tx, chain>>

NoProposal == [fn |-> "", args |-> <<>>]

Init ==
  /\ tx = [t \in Txs |-> [pc |-> "new", proposal |-> NoProposal, snapshot |-> 1]]
  /\ chain = <<[tx |-> "instantiate", valid |-> TRUE, world |-> Instantiated,
                ver |-> [k \in Cells |-> 1]]>>

\* Endorsers that have committed the first h blocks execute the proposal.
Endorse(t) ==
  /\ tx[t].pc = "new"
  /\ \E p \in Proposals, h \in 1..Len(chain) :
       tx' = [tx EXCEPT ![t] =
         [pc |-> IF Invoke(t, p, chain[h].world).ok THEN "endorsed" ELSE "refused",
          proposal |-> p, snapshot |-> h]]
  /\ UNCHANGED chain

Executed(t) == Invoke(t, tx[t].proposal, chain[tx[t].snapshot].world)

Unchanged(t) ==
  \A k \in Executed(t).reads :
    chain[Len(chain)].ver[k] = chain[tx[t].snapshot].ver[k]

\* Mutant of Order: what validation turns down is written all the same.
OrderWritesAll(t) ==
  /\ tx[t].pc = "endorsed"
  /\ LET writes == Executed(t).writes
         last   == chain[Len(chain)]
     IN chain' = Append(chain,
          [tx |-> t, valid |-> Unchanged(t),
           world |-> Overwrite(last.world, writes),
           ver |-> [k \in Cells |->
                      IF k \in DOMAIN writes THEN Len(chain) + 1 ELSE last.ver[k]]])
  /\ tx' = [tx EXCEPT ![t].pc = "ordered"]

\* It is ordered, validated and, if no key it read has a newer version, applied.
Order(t) ==
  /\ tx[t].pc = "endorsed"
  /\ LET writes == IF Unchanged(t) THEN Executed(t).writes ELSE NoWrites
         last   == chain[Len(chain)]
     IN chain' = Append(chain,
          [tx |-> t, valid |-> Unchanged(t),
           world |-> Overwrite(last.world, writes),
           ver |-> [k \in Cells |->
                      IF k \in DOMAIN writes THEN Len(chain) + 1 ELSE last.ver[k]]])
  /\ tx' = [tx EXCEPT ![t].pc = "ordered"]

Next == \E t \in Txs : Endorse(t) \/ Order(t)

Spec == Init /\ [][Next]_vars
-----------------------------------------------------------------------------
Proposed(i) == tx[chain[i].tx].proposal

\* Every transaction that takes effect has the effect of running its function
\* on the state just before it, although it ran on an older one: whatever a
\* function's writes depend on, it has read through GetState.
Serializable ==
  \A i \in 2..Len(chain) : chain[i].valid =>
    LET answer == Invoke(chain[i].tx, Proposed(i), chain[i - 1].world)
    IN /\ answer.ok
       /\ chain[i].world = Overwrite(chain[i - 1].world, answer.writes)

\* The move of block i took effect; what A and B hold together after block j.
IsMove(i) ==
  /\ chain[i].valid
  /\ Proposed(i).fn = "invoke"
  /\ Proposed(i).args[1] = "move"

Held(i, j) ==
  LET A == Proposed(i).args[2]
      B == Proposed(i).args[3]
      w == chain[j].world
  IN IF A = B THEN Atoi(w[A]) ELSE Atoi(w[A]) + Atoi(w[B])

Same(m, n) == m - n \in {-2 * Half, 0, 2 * Half}

\* A payment between two keys neither makes nor loses units (but for the wrap
\* of int), however stale the amounts it was computed from (cc.go:377-414).
MoveConserves ==
  \A i \in 2..Len(chain) :
    IsMove(i) /\ Proposed(i).args[2] # Proposed(i).args[3]
      => Same(Held(i, i - 1), Held(i, i))

\* Transaction t has called another chaincode in block j, which has left what it
\* writes on the state just before.
CallTookEffect(t, j) ==
  /\ chain[j].tx = t /\ chain[j].valid
  /\ Proposed(j).fn = "invokecc" /\ Proposed(j).args[2] \in DOMAIN Called
  /\ \A x \in Called[Proposed(j).args[2]].writes :
       chain[j].world[x] = Outcome(Proposed(j).args[2], chain[j - 1].world)

\* A transaction's mark is on the ledger, at every height, just when its call of
\* another chaincode has taken effect there, on the state it met: although the mark
\* is put before the call, the call may fail, it runs on a stale state, and
\* validation may turn it down for what it has read (cc.go:500-504).
MarksAreCalls ==
  \A i \in 1..Len(chain), t \in Txs :
    chain[i].world[t] # Missing <=> \E j \in 2..i : CallTookEffect(t, j)

\* No sequence of calls makes a key disappear: the one function that calls
\* DelState cannot get there (cc.go:188, 427).
EntitiesStay ==
  \A i \in 2..Len(chain), k \in Keys :
    chain[i - 1].world[k] # Missing => chain[i].world[k] # Missing

\* Amounts come from payments only, and a payment over a car takes it for 0: it
\* leaves X under the payee's key and what 0 - X wraps to under the payer's,
\* never a part of the car (cc.go:385, 391).
CarsBecomeAmounts ==
  \A i \in 2..Len(chain), k \in Keys :
    chain[i - 1].world[k] \in Cars /\ chain[i].world[k] \notin Cars
    => /\ IsMove(i)
       /\ chain[i].world[k] = IF k = Proposed(i).args[3] THEN Proposed(i).args[4]
                                                       ELSE Wrap(-Proposed(i).args[4])
       /\ k \in {Proposed(i).args[2], Proposed(i).args[3]}

\* "Transaction makes payment of X units from A to B" (cc.go:166): what is paid
\* neither makes nor loses units.
PaymentConserves ==
  \A i \in 2..Len(chain) : IsMove(i) => Same(Held(i, i - 1), Held(i, i))
=============================================================================
