------------------------- MODULE MCGatewayCoherence -------------------------
(***************************************************************************)
(* Small instances of GatewayCoherence.                                    *)
(***************************************************************************)
EXTENDS GatewayCoherence, TLC

CONSTANTS kA, kB, zero, hundred, red, blue

\* Of the two keys the chaincode resets, one is in the model.
MCResetWrites == [k \in {kA} \cap Keys |-> hundred]

Symmetry == Permutations(Reqs) \cup Permutations({red, blue})
            \cup Permutations(Peers)
=============================================================================
