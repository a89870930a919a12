-------------------------- MODULE ClientRefinement --------------------------
(***************************************************************************)
(* The SDK client implements Submission: the mapping.                      *)
(***************************************************************************)
EXTENDS ChannelClient

\* A call that died with its process was never answered: to its caller it failed.
AnswerOf(c) ==
  IF call[c].pc \in Active THEN "open"
  ELSE IF call[c].pc = "dead" THEN "failed" ELSE call[c].pc

Sub == INSTANCE Submission WITH
  answer  <- [c \in Calls |-> AnswerOf(c)],
  request <- [c \in Calls |-> call[c].writes],
  applied <- [c \in Calls |->
                {n \in Attempts : Decided(<<c, n>>, TRUE, Len(log))}],
  history <- [i \in 1..Len(log) |-> log[i].world]

\* The SDK's Execute, its retries, the orderer and the peers together give the
\* caller what Submission promises: effects only from calls that were made, at
\* most one per attempt, and success only after an effect.
ImplementsSubmission == Sub!Spec
=============================================================================
