------------------------- MODULE ChaincodeRefinement -------------------------
(***************************************************************************)
(* The chaincode under execute-order-validate implements a ledger on which *)
(* transactions run one at a time.                                         *)
(***************************************************************************)
EXTENDS Chaincode

Serial == INSTANCE SerialLedger WITH
  world <- chain[Len(chain)].world,
  done  <- {t \in Txs : tx[t].pc = "ordered"}

\* Endorsers run proposals on whatever state they have, many at a time; the
\* ledger still goes through the states it would go through if each committed
\* transaction ran where its block is, once, and no other one at all.
ImplementsSerialLedger == Serial!Spec
=============================================================================
