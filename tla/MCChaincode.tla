---------------------------- MODULE MCChaincode ----------------------------
(***************************************************************************)
(* A small instance of Chaincode: every function, with the wrong numbers   *)
(* and kinds of arguments as well as with right ones.                      *)
(***************************************************************************)
EXTENDS ChaincodeRefinement, TLC

CONSTANTS a, b, hundred, red, stock

Call(args) == [fn |-> "invoke", args |-> args]

MCInitArgs == <<a, hundred, b, hundred>>

Moves == {Call(<<"move", A, B, 3>>) : A, B \in Keys}

MCProposals ==
  Moves \cup
  {Call(<<"move", a, b, 7, "">>), Call(<<"move", a, b>>), Call(<<"move", a, b, red>>),
   Call(<<"set", a, red>>), Call(<<"set", b, 3>>), Call(<<"set", b, red, "">>),
   Call(<<"delete">>), Call(<<"delete", a>>),
   Call(<<"query", b>>), Call(<<"history", a, b>>),
   Call(<<"queryRange", a, b>>), Call(<<"queryGroup", "red">>), Call(<<"queryLike", "r">>),
   Call(<<"pay", a>>),
   [fn |-> "reset", args |-> MCInitArgs], [fn |-> "reset", args |-> <<a, hundred>>],
   [fn |-> "invokecc", args |-> <<"cc2", "count">>],
   [fn |-> "invokecc", args |-> <<"cc2", "refused">>],
   [fn |-> "query", args |-> <<a>>]}

\* A counter of another chaincode, which a call of it reads and writes.
MCCalled == [c \in {"count"} |-> [reads |-> {stock}, writes |-> {stock}]]

Symmetry == Permutations(Txs)
=============================================================================
