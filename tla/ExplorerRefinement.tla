------------------------- MODULE ExplorerRefinement -------------------------
(***************************************************************************)
(* The explorer implements LedgerReader: the mapping.                      *)
(***************************************************************************)
EXTENDS Explorer

\* The entries of a history with an error are never sent.
Listed(r) ==
  IF req[r].status = 200
    THEN {<<t, req[r].nums[t]>> : t \in DOMAIN req[r].nums} ELSE {}

AnswerOf(r) ==
  [status  |-> req[r].status,
   shown   |-> req[r].shown,
   entries |-> Listed(r)]

QuestionOf(r) ==
  [op |-> req[r].op, num |-> req[r].num, txid |-> req[r].txid, key |-> req[r].key]

Reader == INSTANCE LedgerReader WITH
  asked  <- [r \in Reqs |-> QuestionOf(r)],
  answer <- [r \in Reqs |-> AnswerOf(r)]

\* However many peers a request asks, whatever each has committed and whatever is
\* committed in between, its answer is one read of one prefix of the chain, or an
\* error, or for a block and a scan nothing (chain.go:31-62, 218-275, 277-440).
ImplementsLedgerReader == Reader!Spec
=============================================================================
