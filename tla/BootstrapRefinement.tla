------------------------- MODULE BootstrapRefinement -------------------------
(***************************************************************************)
(* The starts of the gateway implement Deployment: the mapping.  The       *)
(* network is seen as it is; of the process, which start it belongs to and *)
(* whether it serves.                                                      *)
(***************************************************************************)
EXTENDS Bootstrap

Deployed == INSTANCE Deployment WITH
  Enough  <- {I \in SUBSET Targets : Cardinality(I) >= Expected},
  begun   <- past,
  current <- start,
  serving <- pc = "serving"

\* However many starts there are, wherever each is ended, and however late peers
\* and orderer do what an earlier one has asked for, the deployment only climbs:
\* a chaincode is instantiated once, by a start, with its package on the expected
\* peers and on one in the channel, and the gateway serves only after that
\* (runner.go:49-82, utils.go:141-159, prepare.go:32-77, base.go:177-243).
ImplementsDeployment == Deployed!Spec
=============================================================================
