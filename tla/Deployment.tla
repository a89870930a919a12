----------------------------- MODULE Deployment -----------------------------
(***************************************************************************)
(* What a deployment of the chaincode is, whichever starts of the gateway  *)
(* have brought it about: a ladder that is only climbed.  The channel is   *)
(* created before a peer joins it, the package is on the expected number   *)
(* of peers before the chaincode is instantiated, which happens once, and  *)
(* the gateway serves after that.  Nothing of it is undone by a start that *)
(* panics or is killed, and none of it is said of where the process is.    *)
(***************************************************************************)
CONSTANTS
  Starts, Targets, Nobody,
  Enough       \* the sets of peers that make up the expected number

VARIABLES
  begun,       \* the starts so far
  current,     \* the last one
  serving,     \* whether it serves
  channel,     \* whether the channel has been created
  joined,      \* peers in it
  installed,   \* peers that have the package
  winner,      \* the start that has instantiated the chaincode
  knows        \* peers that know that it is instantiated

ladder == <<channel, joined, installed, winner, knows>>
deploymentVars == <<begun, current, serving, ladder>>

Init ==
  /\ begun = {} /\ current = Nobody /\ serving = FALSE
  /\ channel = FALSE /\ joined = {} /\ installed = {}
  /\ winner = Nobody /\ knows = {}

Begin(s) ==
  /\ ~serving
  /\ s \notin begun
  /\ begun' = begun \cup {s}
  /\ current' = s
  /\ UNCHANGED <<serving, ladder>>

Serve ==
  /\ ~serving
  /\ current \in begun
  /\ winner # Nobody
  /\ serving' = TRUE
  /\ UNCHANGED <<begun, current, ladder>>

Stop ==
  /\ serving
  /\ serving' = FALSE
  /\ UNCHANGED <<begun, current, ladder>>

\* The other rungs may be climbed at any time, by what any start has asked for.
Climb(others) == UNCHANGED <<begun, current, serving, others>>

Create ==
  /\ ~channel /\ channel' = TRUE
  /\ Climb(<<joined, installed, winner, knows>>)

Join(t) ==
  /\ channel
  /\ joined' = joined \cup {t}
  /\ Climb(<<channel, installed, winner, knows>>)

Install(t) ==
  /\ installed' = installed \cup {t}
  /\ Climb(<<channel, joined, winner, knows>>)

Instantiate(s) ==
  /\ winner = Nobody
  /\ s \in begun
  /\ installed \in Enough
  /\ joined \cap installed # {}
  /\ winner' = s
  /\ Climb(<<channel, joined, installed, knows>>)

Learn(t) ==
  /\ winner # Nobody
  /\ t \in joined
  /\ knows' = knows \cup {t}
  /\ Climb(<<channel, joined, installed, winner>>)

Next ==
  \/ \E s \in Starts : Begin(s) \/ Instantiate(s)
  \/ Serve \/ Stop \/ Create
  \/ \E t \in Targets : Join(t) \/ Install(t) \/ Learn(t)

Spec == Init /\ [][Next]_deploymentVars
=============================================================================
