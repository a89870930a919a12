----------------------------- MODULE Submission -----------------------------
(***************************************************************************)
(* What a caller of channel.Client.Execute may rely on, with no SDK, no    *)
(* orderer and no peers: the ledger is a sequence of states; a call takes  *)
(* effect at most once per permitted attempt, at any time after it was     *)
(* made, even after it has been answered; it is answered with success only *)
(* when it has taken effect already, and with failure at any time.         *)
(*                                                                         *)
(* service/base.go SetKeyData and service/prepare.go resetCC are written   *)
(* against this promise.                                                   *)
(***************************************************************************)
EXTENDS Integers, Sequences

CONSTANTS Calls, Keys, Values, Missing, MaxRetries

VARIABLES
  answer,    \* what the caller of c has seen
  request,   \* the write set of c
  applied,   \* the attempts of c that have taken effect
  history    \* the states the ledger has been in

submissionVars == <<answer, request, applied, history>>

Attempts == 1..(MaxRetries + 1)
Requests == UNION {[K -> Values] : K \in SUBSET Keys}
None     == [k \in {} |-> Missing]
Current  == history[Len(history)]

Update(w, writes) ==
  [k \in Keys |-> IF k \in DOMAIN writes THEN writes[k] ELSE w[k]]

Init ==
  /\ answer = [c \in Calls |-> "none"]
  /\ request = [c \in Calls |-> None]
  /\ applied = [c \in Calls |-> {}]
  /\ history \in {<<w>> : w \in [Keys -> Values \cup {Missing}]}

Make(c) ==
  /\ answer[c] = "none"
  /\ answer' = [answer EXCEPT ![c] = "open"]
  /\ \E r \in Requests : request' = [request EXCEPT ![c] = r]
  /\ UNCHANGED <<applied, history>>

\* An attempt takes effect, whatever its caller has been told.
Apply(c) ==
  /\ answer[c] # "none"
  /\ \E n \in Attempts \ applied[c] :
       applied' = [applied EXCEPT ![c] = @ \cup {n}]
  /\ history' = Append(history, Update(Current, request[c]))
  /\ UNCHANGED <<answer, request>>

\* A block whose transaction was found invalid.
EmptyBlock ==
  /\ history' = Append(history, Current)
  /\ UNCHANGED <<answer, request, applied>>

Succeed(c) ==
  /\ answer[c] = "open"
  /\ applied[c] # {}
  /\ answer' = [answer EXCEPT ![c] = "ok"]
  /\ UNCHANGED <<request, applied, history>>

\* Failures need no reason, and a dying process fails all its calls at once.
GiveUp(C) ==
  /\ \A c \in C : answer[c] = "open"
  /\ answer' = [c \in Calls |-> IF c \in C THEN "failed" ELSE answer[c]]
  /\ UNCHANGED <<request, applied, history>>

Next ==
  \/ \E c \in Calls : Make(c) \/ Apply(c) \/ Succeed(c)
  \/ EmptyBlock
  \/ \E C \in SUBSET Calls : GiveUp(C)

Spec == Init /\ [][Next]_submissionVars
=============================================================================
