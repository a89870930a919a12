-------------------------- MODULE Bootstrap_proofs --------------------------
(***************************************************************************)
(* What holds in every step of every start, however many starts, peers and *)
(* rounds there are, and however late the network acts; that the starts    *)
(* implement Deployment; and that each does bounded work.                  *)
(***************************************************************************)
EXTENDS BootstrapRefinement, FiniteSetTheorems, TLAPS

HasPeers == {"install", "installing", "verify", "instantiate", "commit"}

\* Where the peers and packages the start counts on come from.
Counted ==
  /\ installed \subseteq Targets /\ sending \subseteq Targets
  /\ left \subseteq Targets /\ peers \subseteq Targets
  /\ pc \in HasPeers => Cardinality(peers) >= Expected
  /\ pc = "verify" => found \subseteq installed
  /\ pc = "instantiate" => peers \subseteq installed

\* Who has instantiated the chaincode, and who may say so.
Instantiated ==
  /\ pc # "down" => start \in Starts
  /\ pc = "reset" => winner # Nobody
  /\ winner = Nobody => knows = {}

BootstrapInv ==
  Counted /\ Instantiated /\ InstantiatedIsInstalled /\ ServingIsInstantiated

-----------------------------------------------------------------------------
\* Packages are not removed, so enough of them stay enough.
LEMMA InstalledGrows ==
  ASSUME Counted, Counted', installed \subseteq installed'
  PROVE  Cardinality(installed) >= Expected => Cardinality(installed') >= Expected
<1>1. IsFiniteSet(installed')
  BY BootstrapAssumption, FS_Subset DEF Counted
<1>2. IsFiniteSet(installed) /\ Cardinality(installed) <= Cardinality(installed')
  BY <1>1, FS_Subset
<1>3. Cardinality(installed) \in Nat /\ Cardinality(installed') \in Nat
  BY <1>1, <1>2, FS_CardinalityType
<1> QED
  BY <1>2, <1>3, BootstrapAssumption

\* Peers that have all been found to have the package make up the number.
LEMMA EnoughInstalled ==
  ASSUME Counted, pc = "instantiate"
  PROVE  Cardinality(installed) >= Expected
<1>1. peers \subseteq installed /\ Cardinality(peers) >= Expected
  BY DEF Counted, HasPeers
<1>2. IsFiniteSet(installed)
  BY BootstrapAssumption, FS_Subset DEF Counted
<1>3. IsFiniteSet(peers) /\ Cardinality(peers) <= Cardinality(installed)
  BY <1>1, <1>2, FS_Subset
<1>4. Cardinality(peers) \in Nat /\ Cardinality(installed) \in Nat
  BY <1>2, <1>3, FS_CardinalityType
<1> QED
  BY <1>1, <1>3, <1>4, BootstrapAssumption

\* No step removes a package, and only InstantiateCC sends an instantiation.
LEMMA StepEffects ==
  ASSUME [Next]_vars, Counted
  PROVE  /\ installed \subseteq installed'
         /\ (pending' # {} \/ winner' # Nobody)
              => (pending # {} \/ winner # Nobody \/ pc = "instantiate")
<1>1. CASE \E s \in Starts : Start(s)
  BY <1>1 DEF Start, network
<1>2. CASE Step
  <2>1. CASE CreateChannel \/ JoinChannel
    BY <2>1 DEF CreateChannel, JoinChannel
  <2>2. CASE InstallCC \/ InstantiateCC
    BY <2>2 DEF InstallCC, InstantiateCC
  <2>3. CASE UNCHANGED network
    BY <2>3 DEF network
  <2> QED
    BY <1>2, <2>1, <2>2, <2>3 DEF Step, OrgTargetPeers, HasPeerJoinedChannel,
       FilterTargetsJoinedChannel, JoinReturns, QueryInstantiated, ResetCC,
       DiscoverLocalPeers, InstallReturns, IsCCInstalled, QueryInstalled,
       InstantiateReturns, Panic, Down
<1>3. CASE Kill
  BY <1>3 DEF Kill, Down, network
<1>4. CASE Network
  BY <1>4 DEF Network, PeerJoins, PeerInstalls, PeerLearns, Commit
<1>5. CASE UNCHANGED vars
  BY <1>5 DEF vars, network
<1> QED
  BY <1>1, <1>2, <1>3, <1>4, <1>5 DEF Next

\* A step keeps what a start knows of its peers: those found have the package.
LEMMA CountedStep ==
  ASSUME Counted, [Next]_vars
  PROVE  Counted'
<1> USE DEF Counted, HasPeers
<1>1. ASSUME NEW s \in Starts, Start(s) PROVE Counted'
  BY <1>1 DEF Start, network
<1>2. CASE HasPeerJoinedChannel
  BY <1>2 DEF HasPeerJoinedChannel, Ask, network
<1>3. CASE FilterTargetsJoinedChannel \/ JoinReturns \/ QueryInstantiated \/ ResetCC
           \/ InstantiateReturns \/ Panic \/ Kill
  BY <1>3 DEF FilterTargetsJoinedChannel, JoinReturns, QueryInstantiated, ResetCC,
     InstantiateReturns, Panic, Kill, Down, network
<1>4. CASE CreateChannel \/ JoinChannel
  BY <1>4 DEF CreateChannel, JoinChannel
<1>5. CASE DiscoverLocalPeers
  BY <1>5 DEF DiscoverLocalPeers, network
<1>6. CASE InstallCC
  BY <1>6 DEF InstallCC
<1>7. CASE InstallReturns
  BY <1>7 DEF InstallReturns, network
<1>8. CASE IsCCInstalled
  BY <1>8 DEF IsCCInstalled, Ask, network
<1>9. CASE QueryInstalled
  BY <1>9 DEF QueryInstalled, network
<1>10. CASE InstantiateCC
  BY <1>10 DEF InstantiateCC
<1>11. CASE Network
  BY <1>11 DEF Network, PeerJoins, PeerInstalls, PeerLearns, Commit, process
<1>12. CASE OrgTargetPeers
  BY <1>12, BootstrapAssumption DEF OrgTargetPeers, network
<1>13. CASE UNCHANGED vars
  BY <1>13 DEF vars, process, network
<1> QED
  BY <1>1, <1>2, <1>3, <1>4, <1>5, <1>6, <1>7, <1>8, <1>9, <1>10, <1>11, <1>12, <1>13
     DEF Next, Step

\* A step keeps a block of instantiation behind every serving gateway.
LEMMA InstantiatedStep ==
  ASSUME Instantiated, ServingIsInstantiated, [Next]_vars
  PROVE  Instantiated' /\ ServingIsInstantiated'
<1> USE DEF Instantiated, ServingIsInstantiated
<1>1. ASSUME NEW s \in Starts, Start(s)
      PROVE  Instantiated' /\ ServingIsInstantiated'
  BY <1>1 DEF Start, network
<1>2. CASE OrgTargetPeers \/ HasPeerJoinedChannel \/ IsCCInstalled \/ QueryInstalled
  BY <1>2 DEF OrgTargetPeers, HasPeerJoinedChannel, IsCCInstalled, QueryInstalled, network
<1>3. CASE FilterTargetsJoinedChannel \/ JoinReturns \/ ResetCC
           \/ DiscoverLocalPeers \/ InstallReturns
  BY <1>3 DEF FilterTargetsJoinedChannel, JoinReturns, ResetCC, DiscoverLocalPeers,
     InstallReturns, network
<1>4. CASE CreateChannel \/ JoinChannel \/ InstallCC \/ InstantiateCC
  BY <1>4 DEF CreateChannel, JoinChannel, InstallCC, InstantiateCC
<1>5. CASE QueryInstantiated
  BY <1>5 DEF QueryInstantiated, network
<1>6. CASE InstantiateReturns
  BY <1>6, BootstrapAssumption DEF InstantiateReturns, network
<1>7. CASE Panic \/ Kill
  BY <1>7 DEF Panic, Kill, Down, network
<1>8. CASE Network
  BY <1>8, BootstrapAssumption
     DEF Network, PeerJoins, PeerInstalls, PeerLearns, Commit, process
<1>9. CASE UNCHANGED vars
  BY <1>9 DEF vars, process, network
<1> QED
  BY <1>1, <1>2, <1>3, <1>4, <1>5, <1>6, <1>7, <1>8, <1>9 DEF Next, Step

\* Every start keeps the invariant, however many there have been before it.
LEMMA BootstrapInvariant == Spec => []BootstrapInv
<1>1. Init => BootstrapInv
  BY DEF Init, BootstrapInv, Counted, HasPeers, Instantiated,
     InstantiatedIsInstalled, ServingIsInstantiated
<1>2. BootstrapInv /\ [Next]_vars => BootstrapInv'
  <2> SUFFICES ASSUME BootstrapInv, [Next]_vars PROVE BootstrapInv'
    OBVIOUS
  <2>1. Counted'
    BY CountedStep DEF BootstrapInv
  <2>2. Instantiated' /\ ServingIsInstantiated'
    BY InstantiatedStep DEF BootstrapInv
  <2>3. InstantiatedIsInstalled'
    <3>1. SUFFICES ASSUME pending' # {} \/ winner' # Nobody
                   PROVE  Cardinality(installed') >= Expected
      BY DEF InstantiatedIsInstalled
    <3>2. installed \subseteq installed'
      BY StepEffects DEF BootstrapInv
    <3>3. pending # {} \/ winner # Nobody \/ pc = "instantiate"
      BY <3>1, StepEffects DEF BootstrapInv
    <3>4. Cardinality(installed) >= Expected
      BY <3>3, EnoughInstalled DEF BootstrapInv, InstantiatedIsInstalled
    <3> QED
      BY <2>1, <3>2, <3>4, InstalledGrows DEF BootstrapInv
  <2> QED
    BY <2>1, <2>2, <2>3 DEF BootstrapInv
<1> QED
  BY <1>1, <1>2, PTL DEF Spec

\* Every start, however many there have been and whatever they have left under
\* way: the chaincode is instantiated only after its package is on the expected
\* number of peers, and the gateway serves only with an instantiated chaincode.
THEOREM BootstrapCorrect ==
  Spec => [](InstantiatedIsInstalled /\ ServingIsInstantiated)
<1>1. BootstrapInv => InstantiatedIsInstalled /\ ServingIsInstantiated
  BY DEF BootstrapInv
<1> QED
  BY <1>1, BootstrapInvariant, PTL

\* For every constant: a gateway that serves has a chaincode to call.
THEOREM ServesInstantiated == Spec => []ServingIsInstantiated
BY BootstrapCorrect, PTL

(***************************************************************************)
(* A start of a settled network.  What SettledStartResets says of the rest *)
(* of start s holds from the moment s begins as an invariant, ResetsOnly.  *)
(***************************************************************************)

\* A start that begins has found nothing yet, and is used up.
Fresh == pc = "configure" => found = {} /\ start \in past

OnlyResets == {"configure", "filter", "query", "reset", "serving", "down"}

\* Start s counts every target, asked or still to be asked, among the joined peers.
ResetsOnly(s) ==
  /\ Settled
  /\ s \in past
  /\ start = s =>
       /\ pc \in OnlyResets
       /\ pc = "configure" => found = {}
       /\ pc = "filter" => targets \subseteq Targets /\ found \cup left = targets

LEMMA FreshStep ==
  ASSUME Fresh, [Next]_vars
  PROVE  Fresh'
<1> USE DEF Fresh
<1>1. ASSUME NEW s \in Starts, Start(s) PROVE Fresh'
  BY <1>1 DEF Start
<1>2. CASE Step \/ Kill
  BY <1>2 DEF Step, OrgTargetPeers, HasPeerJoinedChannel, FilterTargetsJoinedChannel,
     CreateChannel, JoinChannel, JoinReturns, QueryInstantiated, ResetCC,
     DiscoverLocalPeers, InstallCC, InstallReturns, IsCCInstalled, QueryInstalled,
     InstantiateCC, InstantiateReturns, Panic, Kill, Down
<1>3. CASE Network
  BY <1>3 DEF Network, PeerJoins, PeerInstalls, PeerLearns, Commit, process
<1>4. CASE UNCHANGED vars
  BY <1>4 DEF vars, process
<1> QED
  BY <1>1, <1>2, <1>3, <1>4 DEF Next

\* What the network does late leaves a settled network settled, and a start alone.
LEMMA SettledStays ==
  ASSUME Settled, [Next]_vars
  PROVE  Settled'
<1> USE DEF Settled
<1>1. CASE Network
  BY <1>1 DEF Network, PeerJoins, PeerInstalls, PeerLearns, Commit
<1>2. CASE Step \/ Kill \/ (\E s \in Starts : Start(s)) \/ UNCHANGED vars
  BY <1>2 DEF vars, network, Start, Step, OrgTargetPeers, HasPeerJoinedChannel,
     FilterTargetsJoinedChannel, CreateChannel, JoinChannel, JoinReturns,
     QueryInstantiated, ResetCC, DiscoverLocalPeers, InstallCC, InstallReturns,
     IsCCInstalled, QueryInstalled, InstantiateCC, InstantiateReturns, Panic, Kill, Down
<1> QED
  BY <1>1, <1>2 DEF Next

LEMMA ResetsOnlyStep ==
  ASSUME NEW s \in Starts, ResetsOnly(s), [Next]_vars
  PROVE  ResetsOnly(s)'
<1>1. Settled'
  BY SettledStays DEF ResetsOnly
<1> USE DEF ResetsOnly, OnlyResets
<1>2. ASSUME NEW other \in Starts, Start(other) PROVE ResetsOnly(s)'
  BY <1>1, <1>2 DEF Start
<1>3. CASE OrgTargetPeers
  BY <1>1, <1>3, BootstrapAssumption DEF OrgTargetPeers
<1>4. CASE HasPeerJoinedChannel
  BY <1>1, <1>4 DEF HasPeerJoinedChannel, Ask, Settled
<1>5. CASE FilterTargetsJoinedChannel
  BY <1>1, <1>5 DEF FilterTargetsJoinedChannel
<1>6. CASE QueryInstantiated
  BY <1>1, <1>6 DEF QueryInstantiated, Settled
<1>7. CASE ResetCC \/ Panic \/ Kill
  BY <1>1, <1>7 DEF ResetCC, Panic, Kill, Down
<1>8. CASE \/ CreateChannel \/ JoinChannel \/ JoinReturns \/ DiscoverLocalPeers
           \/ InstallCC \/ InstallReturns \/ IsCCInstalled \/ QueryInstalled
           \/ InstantiateCC \/ InstantiateReturns
  BY <1>1, <1>8 DEF CreateChannel, JoinChannel, JoinReturns, DiscoverLocalPeers,
     InstallCC, InstallReturns, IsCCInstalled, QueryInstalled, InstantiateCC,
     InstantiateReturns
<1>9. CASE Network
  BY <1>1, <1>9 DEF Network, PeerJoins, PeerInstalls, PeerLearns, Commit, process
<1>10. CASE UNCHANGED vars
  BY <1>1, <1>10 DEF vars, process
<1> QED
  BY <1>2, <1>3, <1>4, <1>5, <1>6, <1>7, <1>8, <1>9, <1>10 DEF Next, Step

\* A start of a network on which every peer has joined and knows the chaincode
\* only resets it, whatever starts before it have left under way.
THEOREM SettledStartsReset == Spec => SettledStartResets
<1>1. Init => Fresh
  BY DEF Init, Fresh
<1>2. Fresh /\ [Next]_vars => Fresh'
  BY FreshStep
<1>3. ASSUME NEW s \in Starts
      PROVE  Spec => [](pc = "configure" /\ start = s /\ Settled
                          => [](start = s => pc \in OnlyResets))
  <2>1. Fresh /\ pc = "configure" /\ start = s /\ Settled => ResetsOnly(s)
    BY DEF Fresh, ResetsOnly, OnlyResets
  <2>2. ResetsOnly(s) /\ [Next]_vars => ResetsOnly(s)'
    BY ResetsOnlyStep
  <2>3. ResetsOnly(s) => (start = s => pc \in OnlyResets)
    BY DEF ResetsOnly
  <2> QED
    BY <1>1, <1>2, <2>1, <2>2, <2>3, PTL DEF Spec
<1> QED
  BY <1>3 DEF SettledStartResets, OnlyResets

(***************************************************************************)
(* The work of a start.                                                    *)
(***************************************************************************)

\* The rounds of queryInstalledCC are counted.
Rounds == tries \in 0..MaxTries

LEMMA RoundsStep ==
  ASSUME Rounds, [Next]_vars
  PROVE  Rounds'
<1> USE BootstrapAssumption DEF Rounds
<1>1. CASE \E s \in Starts : Start(s)
  BY <1>1 DEF Start
<1>2. CASE QueryInstalled
  BY <1>2 DEF QueryInstalled
<1>3. CASE (Step /\ ~QueryInstalled) \/ Kill
  BY <1>3 DEF Step, OrgTargetPeers, HasPeerJoinedChannel, FilterTargetsJoinedChannel,
     CreateChannel, JoinChannel, JoinReturns, QueryInstantiated, ResetCC,
     DiscoverLocalPeers, InstallCC, InstallReturns, IsCCInstalled, InstantiateCC,
     InstantiateReturns, Panic, Kill, Down
<1>4. CASE Network
  BY <1>4 DEF Network, PeerJoins, PeerInstalls, PeerLearns, Commit, process
<1>5. CASE UNCHANGED vars
  BY <1>5 DEF vars, process
<1> QED
  BY <1>1, <1>2, <1>3, <1>4, <1>5 DEF Next

\* A step of a start under way ends a stage, or asks a peer, or begins a round.
LEMMA StartStep ==
  ASSUME Rounds, [Next]_vars, process' # process, pc \in Starting
  PROVE  \/ StagesLeft' < StagesLeft
         \/ /\ StagesLeft' = StagesLeft
            /\ \/ left' \subseteq left /\ left' # left /\ tries' = tries
               \/ tries < tries' /\ tries' <= MaxTries
<1>1. \A s \in Starts : ~ Start(s)
  BY DEF Start, Starting, InitializesChannel, PreparesCC
<1>2. ~ Network /\ ~ UNCHANGED vars
  BY DEF Network, PeerJoins, PeerInstalls, PeerLearns, Commit, vars
<1>3. CASE HasPeerJoinedChannel
  <2>1. left' \subseteq left /\ left' # left /\ tries' = tries /\ pc' = pc
    BY <1>3 DEF HasPeerJoinedChannel, Ask
  <2> QED
    BY <2>1 DEF StagesLeft
<1>4. CASE IsCCInstalled
  <2>1. left' \subseteq left /\ left' # left /\ tries' = tries /\ pc' = pc
    BY <1>4 DEF IsCCInstalled, Ask
  <2> QED
    BY <2>1 DEF StagesLeft
<1>5. CASE QueryInstalled
  <2>1. CASE pc = "verify" /\ pc' = "instantiate"
    BY <2>1 DEF StagesLeft
  <2>2. CASE tries < MaxTries /\ tries' = tries + 1 /\ pc' = pc
    BY <2>2, BootstrapAssumption DEF StagesLeft, Rounds
  <2> QED
    BY <1>5, <2>1, <2>2 DEF QueryInstalled
<1>6. CASE OrgTargetPeers \/ FilterTargetsJoinedChannel \/ CreateChannel \/ JoinChannel
           \/ JoinReturns \/ QueryInstantiated \/ ResetCC
  <2>1. \/ pc = "configure" /\ pc' = "filter"
        \/ pc = "filter" /\ pc' \in {"query", "create"}
        \/ pc = "create" /\ pc' \in {"join", "down"}
        \/ pc = "join" /\ pc' = "joining"
        \/ pc = "joining" /\ pc' = "query"
        \/ pc = "query" /\ pc' \in {"reset", "discover"}
        \/ pc = "reset" /\ pc' = "serving"
    BY <1>6 DEF OrgTargetPeers, FilterTargetsJoinedChannel, CreateChannel, JoinChannel,
       JoinReturns, QueryInstantiated, ResetCC
  <2> QED
    BY <2>1 DEF StagesLeft
<1>7. CASE DiscoverLocalPeers \/ InstallCC \/ InstallReturns \/ InstantiateCC
           \/ InstantiateReturns
  <2>1. \/ pc = "discover" /\ pc' = "install"
        \/ pc = "install" /\ pc' = "installing"
        \/ pc = "installing" /\ pc' = "verify"
        \/ pc = "instantiate" /\ pc' = "commit"
        \/ pc = "commit" /\ pc' \in {"serving", "down"}
    BY <1>7 DEF DiscoverLocalPeers, InstallCC, InstallReturns, InstantiateCC,
       InstantiateReturns
  <2> QED
    BY <2>1 DEF StagesLeft
<1>8. CASE Panic \/ Kill
  <2>1. pc' = "down"
    BY <1>8 DEF Panic, Kill, Down
  <2>2. StagesLeft' = 0
    BY <2>1 DEF StagesLeft
  <2>3. StagesLeft \in 1..13
    BY DEF StagesLeft, Starting, InitializesChannel, PreparesCC
  <2> QED
    BY <2>2, <2>3
<1> QED
  BY <1>1, <1>2, <1>3, <1>4, <1>5, <1>6, <1>7, <1>8 DEF Next, Step

\* A start goes through its stages once, with each peer asked once a round and with
\* at most MaxTries rounds more: the safety half of StartEnds, for any constants.
THEOREM StartsDoBoundedWork == Spec => StartsAreBounded
<1>1. Init => Rounds
  BY BootstrapAssumption DEF Init, Rounds
<1>2. Rounds /\ [Next]_vars => Rounds'
  BY RoundsStep
<1>3. Rounds /\ [Next]_vars =>
        (process' # process /\ pc \in Starting =>
           \/ StagesLeft' < StagesLeft
           \/ /\ StagesLeft' = StagesLeft
              /\ \/ left' \subseteq left /\ left' # left /\ tries' = tries
                 \/ tries < tries' /\ tries' <= MaxTries)
  BY StartStep
<1> QED
  BY <1>1, <1>2, <1>3, PTL DEF Spec, StartsAreBounded

(***************************************************************************)
(* The refinement of Deployment.  Each step climbs a rung, begins, ends or *)
(* completes a start, or is one that Deployment does not see.              *)
(***************************************************************************)

\* What the steps owe Deployment beside BootstrapInv: a start that is under way has
\* begun, and what is at the orderer is of such starts and was endorsed by a peer
\* in the channel that has the package.
Endorsed ==
  /\ pc # "down" => start \in past
  /\ pending \subseteq past
  /\ pending # {} => joined \cap installed # {}

DeploymentInv == BootstrapInv /\ Endorsed

LEMMA EndorsedStep ==
  ASSUME Endorsed, [Next]_vars
  PROVE  Endorsed'
<1> USE DEF Endorsed
<1>1. ASSUME NEW s \in Starts, Start(s) PROVE Endorsed'
  BY <1>1 DEF Start, network
<1>2. CASE OrgTargetPeers \/ HasPeerJoinedChannel \/ FilterTargetsJoinedChannel
           \/ JoinReturns \/ QueryInstantiated \/ ResetCC \/ DiscoverLocalPeers
  BY <1>2 DEF OrgTargetPeers, HasPeerJoinedChannel, FilterTargetsJoinedChannel,
     JoinReturns, QueryInstantiated, ResetCC, DiscoverLocalPeers, network
<1>3. CASE InstallReturns \/ IsCCInstalled \/ QueryInstalled \/ InstantiateReturns
           \/ Panic \/ Kill
  BY <1>3 DEF InstallReturns, IsCCInstalled, QueryInstalled, InstantiateReturns,
     Panic, Kill, Down, network
<1>4. CASE CreateChannel \/ JoinChannel \/ InstallCC
  BY <1>4 DEF CreateChannel, JoinChannel, InstallCC
<1>5. CASE InstantiateCC
  BY <1>5 DEF InstantiateCC
<1>6. CASE Network
  BY <1>6 DEF Network, PeerJoins, PeerInstalls, PeerLearns, Commit, process
<1>7. CASE UNCHANGED vars
  BY <1>7 DEF vars, process, network
<1> QED
  BY <1>1, <1>2, <1>3, <1>4, <1>5, <1>6, <1>7 DEF Next, Step

\* A step of a start that does not serve yet, and asks the network for nothing or
\* for what it may do later, shows only when it begins to serve.
LEMMA QuietStep ==
  ASSUME UNCHANGED <<past, start, channel, joined, installed, winner, knows>>,
         pc # "serving", pc' # "serving"
  PROVE  UNCHANGED Deployed!deploymentVars
BY DEF Deployed!deploymentVars, Deployed!ladder

LEMMA ServeStep ==
  ASSUME UNCHANGED <<past, start, channel, joined, installed, winner, knows>>,
         pc # "serving", pc' = "serving", winner # Nobody, start \in past
  PROVE  Deployed!Serve
BY DEF Deployed!Serve, Deployed!ladder

\* Steps of the process.
LEMMA ProcessMaps ==
  ASSUME DeploymentInv, (\E s \in Starts : Start(s)) \/ Step \/ Kill
  PROVE  Deployed!Next \/ UNCHANGED Deployed!deploymentVars
<1>1. ASSUME NEW s \in Starts, Start(s)
      PROVE  Deployed!Begin(s)
  BY <1>1 DEF Start, network, Deployed!Begin, Deployed!ladder
<1>2. CASE OrgTargetPeers \/ HasPeerJoinedChannel \/ FilterTargetsJoinedChannel
           \/ JoinReturns \/ QueryInstantiated \/ DiscoverLocalPeers
  BY <1>2, QuietStep DEF OrgTargetPeers, HasPeerJoinedChannel,
     FilterTargetsJoinedChannel, JoinReturns, QueryInstantiated, DiscoverLocalPeers,
     network
<1>3. CASE InstallReturns \/ IsCCInstalled \/ QueryInstalled
  BY <1>3, QuietStep DEF InstallReturns, IsCCInstalled, QueryInstalled, network
<1>4. CASE JoinChannel \/ InstallCC \/ InstantiateCC
  BY <1>4, QuietStep DEF JoinChannel, InstallCC, InstantiateCC
<1>5. CASE CreateChannel
  <2>1. CASE channel
    BY <1>5, <2>1, QuietStep DEF CreateChannel
  <2>2. CASE ~channel
    <3>1. UNCHANGED <<past, start, joined, installed, winner, knows>>
            /\ channel' = TRUE /\ (pc = "serving") = (pc' = "serving")
      BY <1>5 DEF CreateChannel
    <3> QED
      BY <2>2, <3>1 DEF Deployed!Next, Deployed!Create, Deployed!Climb
  <2> QED
    BY <2>1, <2>2
<1>6. CASE ResetCC
  BY <1>6, ServeStep
  DEF ResetCC, network, DeploymentInv, BootstrapInv, Instantiated, Endorsed, Deployed!Next
<1>7. CASE InstantiateReturns
  <2>1. CASE winner = start
    <3>1. winner # Nobody /\ start \in past
      BY <1>7, <2>1, BootstrapAssumption
      DEF InstantiateReturns, DeploymentInv, BootstrapInv, Instantiated, Endorsed
    <3> QED
      BY <1>7, <2>1, <3>1, ServeStep DEF InstantiateReturns, network, Deployed!Next
  <2>2. CASE winner # start
    BY <1>7, <2>2, QuietStep DEF InstantiateReturns, network
  <2> QED
    BY <2>1, <2>2
<1>8. CASE Panic \/ Kill
  <2>1. UNCHANGED <<past, start, channel, joined, installed, winner, knows>> /\ pc' = "down"
    BY <1>8 DEF Panic, Kill, Down, network
  <2>2. CASE pc = "serving"
    BY <2>1, <2>2 DEF Deployed!Next, Deployed!Stop, Deployed!ladder
  <2> QED
    BY <2>1, <2>2, QuietStep
<1> QED
  BY <1>1, <1>2, <1>3, <1>4, <1>5, <1>6, <1>7, <1>8 DEF Step, Deployed!Next

\* Steps of the network: each is a rung, or what was asked for does not happen.
LEMMA NetworkMaps ==
  ASSUME DeploymentInv, Network
  PROVE  Deployed!Next \/ UNCHANGED Deployed!deploymentVars
<1>1. UNCHANGED <<past, start, pc>> /\ (pc = "serving") = (pc' = "serving")
  BY DEF Network, PeerJoins, PeerInstalls, PeerLearns, Commit, process
<1>2. ASSUME NEW t \in Targets, PeerJoins(t)
      PROVE  Deployed!Join(t) \/ UNCHANGED Deployed!deploymentVars
  BY <1>1, <1>2
  DEF PeerJoins, Deployed!Join, Deployed!Climb, Deployed!deploymentVars, Deployed!ladder
<1>3. ASSUME NEW t \in Targets, PeerInstalls(t)
      PROVE  Deployed!Install(t) \/ UNCHANGED Deployed!deploymentVars
  BY <1>1, <1>3
  DEF PeerInstalls, Deployed!Install, Deployed!Climb, Deployed!deploymentVars, Deployed!ladder
<1>4. ASSUME NEW t \in Targets, PeerLearns(t)
      PROVE  Deployed!Learn(t)
  BY <1>1, <1>4 DEF PeerLearns, Deployed!Learn, Deployed!Climb
<1>5. ASSUME NEW s \in Starts, Commit(s)
      PROVE  Deployed!Instantiate(s) \/ UNCHANGED Deployed!deploymentVars
  <2>1. CASE winner = Nobody
    <3>1. /\ s \in past /\ joined \cap installed # {}
          /\ installed \in {I \in SUBSET Targets : Cardinality(I) >= Expected}
      BY <1>5 DEF Commit, DeploymentInv, BootstrapInv, Counted, InstantiatedIsInstalled,
         Endorsed
    <3>2. /\ winner' = s /\ channel' = channel /\ joined' = joined
          /\ installed' = installed /\ knows' = knows
      BY <1>5, <2>1 DEF Commit
    <3> QED
      BY <1>1, <2>1, <3>1, <3>2 DEF Deployed!Instantiate, Deployed!Climb
  <2>2. CASE winner # Nobody
    BY <1>1, <1>5, <2>2 DEF Commit, Deployed!deploymentVars, Deployed!ladder
  <2> QED
    BY <2>1, <2>2
<1> QED
  BY <1>2, <1>3, <1>4, <1>5 DEF Network, Deployed!Next

\* The starts implement Deployment: for any number of starts and peers, whatever is
\* killed where, and however late peers and orderer are.
THEOREM BootstrapImplementsDeployment == Spec => ImplementsDeployment
<1>1. Init => Deployed!Init
  BY DEF Init, Deployed!Init
<1>2. Init => Endorsed
  BY DEF Init, Endorsed
<1>3. DeploymentInv /\ [Next]_vars =>
        Endorsed' /\ [Deployed!Next]_(Deployed!deploymentVars)
  <2> SUFFICES ASSUME DeploymentInv, [Next]_vars
               PROVE  Endorsed' /\ (Deployed!Next \/ UNCHANGED Deployed!deploymentVars)
    OBVIOUS
  <2>1. Endorsed'
    BY EndorsedStep DEF DeploymentInv
  <2>2. CASE UNCHANGED vars
    BY <2>1, <2>2 DEF vars, process, network, Deployed!deploymentVars, Deployed!ladder
  <2> QED
    BY <2>1, <2>2, ProcessMaps, NetworkMaps DEF Next
<1>4. DeploymentInv <=> BootstrapInv /\ Endorsed
  BY DEF DeploymentInv
<1> QED
  BY <1>1, <1>2, <1>3, <1>4, BootstrapInvariant, PTL DEF Spec, ImplementsDeployment, Deployed!Spec
=============================================================================
