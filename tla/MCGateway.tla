----------------------------- MODULE MCGateway -----------------------------
(***************************************************************************)
(* Small instances of Gateway, and of its calls as calls of Submission.    *)
(***************************************************************************)
EXTENDS Gateway, ClientRefinement, TLC

CONSTANTS kA, zero, hundred, red, blue

\* Chaincode Init and reset write key "a" (and "b", which the models leave out).
MCResetWrites == [k \in {kA} |-> hundred]
=============================================================================
