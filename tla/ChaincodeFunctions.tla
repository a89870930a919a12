------------------------- MODULE ChaincodeFunctions -------------------------
(***************************************************************************)
(* The functions of the chaincode the gateway deploys (chaincode/cc.go):   *)
(* what each answers, reads through GetState and writes, given the state   *)
(* it is executed on.  How and when an answer reaches the ledger is the    *)
(* business of Chaincode; what a caller may rely on, of SerialLedger.      *)
(*                                                                         *)
(* Under a key the ledger holds the JSON of a Car, written by set and      *)
(* reset, or a decimal amount, written by move.  Keys, cars and the marks  *)
(* of invokeCC are opaque; a car that has nothing but an ID is named by    *)
(* the ID; an amount is the integer that strconv.Atoi reads in it.         *)
(*                                                                         *)
(* Of the chaincodes that invokeCC calls nothing is known but the cells of *)
(* their own namespaces that a call reads and writes.                      *)
(***************************************************************************)
EXTENDS Integers, Sequences

CONSTANTS
  Txs,        \* transactions
  Keys,       \* ledger keys that proposals name
  Foreign,    \* keys of the other chaincodes of the channel
  Called,     \* calls of them that succeed: Called[arg] = [reads, writes]
  Cars,       \* JSON documents that parse as a Car
  Missing,    \* what GetState returns for a key that is not there
  Proposals,  \* the inputs: records [fn, args]
  InitArgs,   \* initArgs of service/base.go
  Half        \* Go's int has the values -Half..Half-1 (2^63)

Reads == {"move", "query", "history"}

\* An amount does not parse as a car; reset makes a car of any argument; no proposal
\* names a key that invokeCC has written.
ASSUME ChaincodeAssumption ==
  /\ Half \in Nat \ {0}
  /\ Missing \notin Cars \cup (-Half..(Half - 1))
  /\ Cars \cap (-Half..(Half - 1)) = {}
  /\ Keys \cap Txs = {} /\ Foreign \cap (Keys \cup Txs) = {}
  /\ \A c \in DOMAIN Called : Called[c].reads \cup Called[c].writes \subseteq Foreign
  /\ Len(InitArgs) = 4
  /\ {InitArgs[1], InitArgs[3]} \subseteq Keys /\ {InitArgs[2], InitArgs[4]} \subseteq Cars
  /\ \A p \in Proposals :
       /\ p.fn = "reset" /\ Len(p.args) = 4
            => {p.args[1], p.args[3]} \subseteq Keys /\ {p.args[2], p.args[4]} \subseteq Cars
       /\ p.fn = "invokecc" /\ Len(p.args) >= 2 => p.args[1] # Missing
       /\ p.fn = "invoke" /\ Len(p.args) >= 2 /\ p.args[1] \in Reads
            => \A i \in {2, 3} : i <= Len(p.args) => p.args[i] \in Keys
       /\ p.fn = "invoke" /\ Len(p.args) >= 3 /\ p.args[1] = "set" => p.args[2] \in Keys

\* A transaction's own cell is the key "<txid>_invokedcc" of invokeCC.
Cells    == Keys \cup Txs \cup Foreign
NoWrites == [k \in {} |-> Missing]

Ints == -Half..(Half - 1)

\* The sum or the difference of two ints wraps around once at most.
Wrap(n) ==
  IF n >= Half THEN n - 2 * Half ELSE IF n < -Half THEN n + 2 * Half ELSE n

(***************************************************************************)
(* What a function answers, reads and writes in state w.                   *)
(***************************************************************************)
Error                  == [ok |-> FALSE, reads |-> {}, writes |-> NoWrites]
Success(reads, writes) == [ok |-> TRUE, reads |-> reads, writes |-> writes]

\* An empty event name is refused by the shim.
EventFails(args, n) == Len(args) >= n /\ args[n] = ""

\* Both cars are written; the second one wins when the keys are the same.
reset(args) ==
  IF Len(args) # 4 THEN Error
  ELSE Success({}, [k \in {args[1], args[3]} |->
                      IF k = args[3] THEN args[4] ELSE args[2]])

\* Mutant of set: what it is given need not be a car.
SetAnything(args, w) ==
  IF Len(args) < 3 \/ EventFails(args, 4) THEN Error
  ELSE Success({}, [k \in {args[2]} |-> args[3]])

\* A car is written blindly, whatever the key holds.
set(args, w) ==
  IF Len(args) < 3 \/ args[3] \notin Cars \/ EventFails(args, 4) THEN Error
  ELSE Success({}, [k \in {args[2]} |-> args[3]])

\* Atoi fails on a car, and the error is dropped: a car counts 0.
Atoi(v) == IF v \in Cars THEN 0 ELSE v

\* Mutants of move: the payee's key is not in the read set (as with a rich
\* query), and the payee is credited what the payer has left.
MoveReadsPayer(args, w) ==
  IF \/ EventFails(args, 5) \/ Len(args) < 4
     \/ w[args[2]] = Missing \/ w[args[3]] = Missing \/ args[4] \notin Ints
  THEN Error
  ELSE Success({args[2]}, [k \in {args[2], args[3]} |->
         IF k = args[3] THEN Wrap(Atoi(w[args[3]]) + args[4])
                        ELSE Wrap(Atoi(w[args[2]]) - args[4])])

MoveCreditsRest(args, w) ==
  IF \/ EventFails(args, 5) \/ Len(args) < 4
     \/ w[args[2]] = Missing \/ w[args[3]] = Missing \/ args[4] \notin Ints
  THEN Error
  ELSE Success({args[2], args[3]}, [k \in {args[2], args[3]} |->
         IF k = args[3] THEN Wrap(Atoi(w[args[2]]) - args[4] + args[4])
                        ELSE Wrap(Atoi(w[args[2]]) - args[4])])

\* X units are taken from A and given to B; both are written as amounts, B last.
move(args, w) ==
  IF \/ EventFails(args, 5) \/ Len(args) < 4
     \/ w[args[2]] = Missing \/ w[args[3]] = Missing \/ args[4] \notin Ints
  THEN Error
  ELSE Success({args[2], args[3]}, [k \in {args[2], args[3]} |->
         IF k = args[3] THEN Wrap(Atoi(w[args[3]]) + args[4])
                        ELSE Wrap(Atoi(w[args[2]]) - args[4])])

\* Mutant of delete: it takes the action and a key.
DeleteTwoArgs(args) ==
  IF Len(args) # 2 THEN Error ELSE Success({}, [k \in {args[2]} |-> Missing])

\* delete wants one argument, and Invoke has refused every such call already.
delete(args) ==
  IF Len(args) # 1 THEN Error ELSE Success({}, [k \in {args[2]} |-> Missing])

query(args, w) ==
  IF Len(args) # 2 \/ w[args[2]] = Missing THEN Error
  ELSE Success({args[2]}, NoWrites)

history(args, w) == query(args, w)

\* Scans write nothing, so what they have read decides nothing.
scan(args, n) == IF Len(args) # n THEN Error ELSE Success({}, NoWrites)

\* What call c writes is told apart by c and by what it has read.
Outcome(c, w) == <<c, [x \in Called[c].reads |-> w[x]]>>

\* Mutant of invokeCC: it names a channel, so that what the call reads and writes
\* is no part of the transaction.
InvokeOnChannel(t, args, w) ==
  IF Len(args) < 2 \/ args[2] \notin DOMAIN Called THEN Error
  ELSE Success({}, [k \in {t} |-> args[1]])

\* The ID of the chaincode is written before it is called.  On the same channel ("")
\* what the call reads and writes is added to the transaction.  The arguments may
\* not parse, and the call may fail: the answer is then an error.
invokeCC(t, args, w) ==
  IF Len(args) < 2 \/ args[2] \notin DOMAIN Called THEN Error
  ELSE Success(Called[args[2]].reads,
               [k \in {t} \cup Called[args[2]].writes |->
                  IF k = t THEN args[1] ELSE Outcome(args[2], w)])

Action(args, w) ==
  CASE args[1] = "delete"     -> delete(args)
    [] args[1] = "query"      -> query(args, w)
    [] args[1] = "set"        -> set(args, w)
    [] args[1] = "move"       -> move(args, w)
    [] args[1] = "history"    -> history(args, w)
    [] args[1] = "queryGroup" -> scan(args, 2)
    [] args[1] = "queryRange" -> scan(args, 3)
    [] args[1] = "queryLike"  -> scan(args, 2)
    [] OTHER                  -> Error

Invoke(t, p, w) ==
  IF p.fn = "invokecc" THEN invokeCC(t, p.args, w)
  ELSE IF p.fn = "reset" THEN reset(p.args)
  ELSE IF p.fn # "invoke" \/ Len(p.args) < 2 THEN Error
  ELSE Action(p.args, w)

\* What writes leave of state w.
Overwrite(w, writes) ==
  [k \in Cells |-> IF k \in DOMAIN writes THEN writes[k] ELSE w[k]]

\* The chaincode's Init, which instantiation runs, is reset on a fresh ledger.
Instantiated == Overwrite([k \in Cells |-> Missing], reset(InitArgs).writes)
=============================================================================
