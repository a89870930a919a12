---------------------- MODULE GatewayRefinement_proofs ----------------------
(***************************************************************************)
(* The SDK's calls inside the gateway.  ClientRefinement shows that the    *)
(* client on its own, with any callers, implements Submission; here its    *)
(* callers are the handlers of Gateway and the resets of its restarts, its *)
(* crashes are the deaths of the gateway's process, and its ledger starts  *)
(* with what the chaincode's Init has written.                             *)
(***************************************************************************)
EXTENDS Gateway_proofs, ClientRefinement_proofs

\* A step of a handler, of CouchDB or of main that leaves the SDK alone.
LEMMA OutsideSubmission ==
  ASSUME NEW r \in Reqs,
         Handle(r) \/ Refuse(r) \/ \E k \in Keys : QueryArrives(r, k)
  PROVE  UNCHANGED clientVars
BY DEF Handle, ReadRev, PutCar, GetCached, FindOnce, Fill, Refuse, QueryArrives

\* The ledger the gateway finds is one Submission may start with.
LEMMA GatewayRefinesInit ==
  ASSUME Init
  PROVE  Sub!Init
<1> DEFINE w == Overwrite([k \in Keys |-> Missing], ResetWrites)
<1>1. [k \in Keys |-> Missing] \in World
  BY DEF World
<1>2. w \in World
  BY <1>1, OverwriteType, GatewayAssumption
<1>3. ClientInit(w)
  BY DEF Init
<1> HIDE DEF w
<1> QED
  BY <1>2, <1>3, RefinesInit

\* Every step of the gateway is, seen from the SDK, a step of Submission or none.
LEMMA GatewayRefinesStep ==
  ASSUME GatewayInv, [Next]_vars
  PROVE  Sub!Next \/ UNCHANGED Sub!submissionVars
<1>0. ClientInv
  BY DEF GatewayInv
<1>1. ASSUME NEW r \in Reqs, Arrive(r)
      PROVE  Sub!Next \/ UNCHANGED Sub!submissionVars
  <2>1. ASSUME NEW k \in Keys, NEW car \in Values, InvokeArrives(r, k, car)
        PROVE  Sub!Next
    <3> DEFINE w == [x \in {k} |-> car]
    <3>1. w \in WriteSet
      <4>1. w \in [{k} -> Values] /\ {k} \in SUBSET Keys
        OBVIOUS
      <4> QED
        BY <4>1 DEF WriteSet
    <3>2. Submit(r, w)
      BY <2>1 DEF InvokeArrives
    <3> HIDE DEF w
    <3> QED
      BY <1>0, <3>1, <3>2, RefinesSubmit, GatewayAssumption
  <2> QED
    BY <1>1, <2>1, OutsideSubmission, RefinesStutter DEF Arrive
<1>2. CASE \E r \in Reqs : Handle(r)
  BY <1>2, OutsideSubmission, RefinesStutter
<1>3. CASE \E c \in Calls : SdkStep(c)
  BY <1>0, <1>3, RefinesCallStep DEF SdkStep
<1>4. CASE Network /\ UNCHANGED gatewayVars
  BY <1>0, <1>4, RefinesNetwork
<1>5. CASE Die
  BY <1>0, <1>5, RefinesCrash DEF Die, Crash
<1>6. CASE \E b \in Boots : Restart(b)
  BY <1>0, <1>6, RefinesSubmit, GatewayAssumption DEF Restart
<1>7. CASE Booted \/ UNCHANGED vars
  BY <1>7, RefinesStutter DEF Booted, vars
<1> QED
  BY <1>1, <1>2, <1>3, <1>4, <1>5, <1>6, <1>7 DEF Next

\* To the handlers of invoke (chain.go:140) and to the resets of restarts
\* (prepare.go:40), ledger and SDK together are Submission, whatever kills, restarts
\* and cache do around them: what a handler concludes from the answer of Execute it
\* may conclude from Submission alone.
THEOREM GatewayImplementsSubmission == Spec => ImplementsSubmission
<1>1. Init => GatewayInv /\ Sub!Init
  BY GatewayInitInv, GatewayRefinesInit
<1>2. GatewayInv /\ [Next]_vars => GatewayInv'
  BY GatewayNextInv
<1>3. GatewayInv /\ [Next]_vars => [Sub!Next]_(Sub!submissionVars)
  BY GatewayRefinesStep
<1> QED
  BY <1>1, <1>2, <1>3, PTL DEF Spec, ImplementsSubmission, Sub!Spec
=============================================================================
