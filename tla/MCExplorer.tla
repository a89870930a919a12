----------------------------- MODULE MCExplorer ----------------------------
(***************************************************************************)
(* Small instances of Explorer.                                            *)
(***************************************************************************)
EXTENDS ExplorerRefinement

\* From -1, the last block, past the last number of a chain of two.
MCNums == -2..3
=============================================================================
