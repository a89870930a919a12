---------------------------- MODULE SerialLedger ----------------------------
(***************************************************************************)
(* What a client of the chaincode may rely on: a ledger on which           *)
(* transactions run one at a time, each to its end on the state the one    *)
(* before it left, and each at most once.  A transaction may also come to  *)
(* nothing: it then leaves no trace on the state.                          *)
(***************************************************************************)
EXTENDS ChaincodeFunctions

VARIABLES
  world,   \* the state of the ledger
  done     \* transactions that have run or have come to nothing

Init == world = Instantiated /\ done = {}

Run(t, p) ==
  /\ t \notin done
  /\ Invoke(t, p, world).ok
  /\ world' = Overwrite(world, Invoke(t, p, world).writes)
  /\ done' = done \cup {t}

Drop(t) ==
  /\ t \notin done
  /\ done' = done \cup {t}
  /\ UNCHANGED world

Next == \E t \in Txs : Drop(t) \/ \E p \in Proposals : Run(t, p)

Spec == Init /\ [][Next]_<<world, done>>
=============================================================================
