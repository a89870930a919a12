---------------------------- MODULE LedgerReader ----------------------------
(***************************************************************************)
(* What a client of the read endpoints may rely on, with no peers and no   *)
(* rounds: the ledger is one chain, and every answer is one read of one    *)
(* prefix of it.  The prefix may be old, and two answers may come from     *)
(* different ones; a question may also go without an answer, and for a     *)
(* block or a scan that shows as an empty 200.                             *)
(***************************************************************************)
EXTENDS Integers, Sequences

CONSTANTS Reqs, Keys, Txs, Missing, Nums

VARIABLES
  chain,     \* the blocks after the first, with one transaction each
  asked,     \* what request r asks for
  answer     \* what request r has been answered

readerVars == <<chain, asked, answer>>

Block == [tx : Txs, key : Keys, value : {"car", "amount"}, valid : BOOLEAN]

Nothing == -1

Question(op, num, txid, key) == [op |-> op, num |-> num, txid |-> txid, key |-> key]
Answer(status, shown, entries) ==
  [status |-> status, shown |-> shown, entries |-> entries]

Unasked    == Question("none", Nothing, Missing, Missing)
Unanswered == Answer(0, Nothing, {})

Questions ==
  {Question(op, Nothing, Missing, Missing) : op \in {"chain", "scan"}}
    \cup {Question("block", n, Missing, Missing) : n \in Nums}
    \cup {Question("tx", Nothing, t, Missing) : t \in Txs}
    \cup {Question("history", Nothing, Missing, k) : k \in Keys}

\* The valid writes of a key among the first h blocks.
Writes(k, h) == {i \in 1..h : chain[i].key = k /\ chain[i].valid}

Shows(n) == Answer(200, n, {})
Lists(I) == Answer(200, Nothing, {<<chain[i].tx, i>> : i \in I})

\* The answers of the first h blocks to a question.  -1 asks for the last block;
\* a key without a write, or with a write that is no car, has no history.
Answers(q, h) ==
  CASE q.op \in {"chain", "scan"} -> {Shows(h)}
    [] q.op = "block" -> {Shows(n) : n \in IF q.num = -1 THEN {h} ELSE {q.num} \cap 0..h}
    [] q.op = "tx" -> {Shows(i) : i \in {j \in 1..h : chain[j].tx = q.txid}}
    [] q.op = "history" ->
         {Lists(I) : I \in {J \in {Writes(q.key, h)} :
                              J # {} /\ \A i \in J : chain[i].value = "car"}}
    [] OTHER -> {}

Init ==
  /\ chain = <<>>
  /\ asked = [r \in Reqs |-> Unasked]
  /\ answer = [r \in Reqs |-> Unanswered]

Ask(r) ==
  /\ asked[r] = Unasked
  /\ answer[r] = Unanswered
  /\ \E q \in Questions : asked' = [asked EXCEPT ![r] = q]
  /\ UNCHANGED <<chain, answer>>

Give(r, a) ==
  /\ answer[r] = Unanswered
  /\ answer' = [answer EXCEPT ![r] = a]
  /\ UNCHANGED <<chain, asked>>

Read(r) == \E h \in 0..Len(chain) : \E a \in Answers(asked[r], h) : Give(r, a)

\* The peers have not answered, which a block and a scan do not tell.
ReadNothing(r) == asked[r].op \in {"block", "scan"} /\ Give(r, Shows(Nothing))

Fail(r) == \E s \in {400, 500} : Give(r, Answer(s, Nothing, {}))

Write ==
  /\ \E b \in Block :
       /\ \A i \in 1..Len(chain) : chain[i].tx # b.tx
       /\ chain' = Append(chain, b)
  /\ UNCHANGED <<asked, answer>>

Next ==
  \/ \E r \in Reqs : Ask(r) \/ Read(r) \/ ReadNothing(r) \/ Fail(r)
  \/ Write

Spec == Init /\ [][Next]_readerVars
=============================================================================
