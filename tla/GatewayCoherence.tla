-------------------------- MODULE GatewayCoherence --------------------------
(***************************************************************************)
(* When does the cache tell the truth?  Nothing in service/chain.go ties   *)
(* the CouchDB document of a car to its ledger value, and there is no      *)
(* expiry: whatever the cache holds is served until the next invoke of the *)
(* key.  This module adds a history variable to Gateway, the keys to which *)
(* one of a short list of things has happened, and states that the cache   *)
(* of every other key is exact whenever no request for it is running.      *)
(* The list is therefore a complete account of how the cache of Gateway    *)
(* goes stale: with a Put that takes effect when it is answered or never,  *)
(* and no other client that writes the keys of cars.                       *)
(***************************************************************************)
EXTENDS Gateway

VARIABLE suspect   \* keys to which one of the causes below has happened

BusyOn(k) == {r \in Reqs : req[r].pc \in Busy /\ req[r].key = k}

\* An invoke of k overlaps another request for k.
Overlap(k) ==
  \E r \in BusyOn(k), q \in BusyOn(k) : r # q /\ req[r].op = "invoke"

\* Execute of a write of k fails or dies, or is repeated although the orderer
\* may have the envelope of the attempt before.
ExecuteFails(k) ==
  \E c \in Calls :
    /\ k \in DOMAIN call[c].writes
    /\ call[c].pc \in Active
    /\ \/ call'[c].pc \in {"failed", "dead"}
       \/ call[c].pc = "sent" /\ call'[c].pc = "endorse"

\* An invoke of k cannot reach CouchDB: its Rev or its Put fails.
CacheUnreachable(k) ==
  \E r \in BusyOn(k) :
    /\ req[r].op = "invoke" /\ req'[r].pc = "done"
    /\ \/ req[r].pc = "execute"
       \/ req[r].pc = "put" /\ req[r].rev = couch[k].rev /\ UNCHANGED couch

\* Find comes back with something else than the ledger's value: the peer that
\* answered lags behind, or every round failed.
StaleFind(k) ==
  \E r \in BusyOn(k) :
    req[r].pc = "find" /\ req'[r].pc = "fill" /\ req'[r].car # Top[k]

\* The process dies during an invoke of k.
Killed(k) == \E r \in BusyOn(k) : req[r].op = "invoke" /\ req'[r].pc = "lost"

\* A restart resets k on the ledger; the document of k stays.
ResetAtRestart(k) == k \in DOMAIN ResetWrites /\ boot' # boot

Cause(k) ==
  \/ Overlap(k)' \/ ExecuteFails(k) \/ CacheUnreachable(k)
  \/ StaleFind(k) \/ Killed(k) \/ ResetAtRestart(k)

CoherenceInit == Init /\ suspect = {}

CoherenceNext == Next /\ suspect' = suspect \cup {k \in Keys : Cause(k)}

CoherenceSpec == CoherenceInit /\ [][CoherenceNext]_<<vars, suspect>>

\* The cache of a key is exact, the ledger's value or Car{} for a key the ledger
\* does not have, unless one of the causes has happened to the key.
CoherentUnlessSuspect ==
  \A k \in Keys \ suspect :
    BusyOn(k) = {} /\ couch[k].rev > 0 => couch[k].car = Message2Car(Top[k])

\* A bound for TLC: nothing is claimed of a suspect key, and none is ever cleared.
SomeKeyTrusted == suspect # Keys
=============================================================================
