----------------------------- MODULE Bootstrap -----------------------------
(***************************************************************************)
(* What a start of the gateway does to the network before it serves:       *)
(* Runner.Initialize, BaseSetupImpl.Initialize, InitializeChannel and      *)
(* PrepareCC of service/.  It reads its configuration, creates the channel *)
(* and joins the peers the configuration lists, unless all are in it; then *)
(* it resets the chaincode, or installs, verifies and instantiates it when *)
(* a peer picked at random does not know it yet.                           *)
(*                                                                         *)
(* Every step is a remote call that may fail, which ends the start in a    *)
(* panic (but for the join, whose failure is dropped), and the process may *)
(* be killed at any point.  What it has asked of a peer or of the orderer  *)
(* may still happen after that, in the middle of the next start.           *)
(***************************************************************************)
EXTENDS Integers, FiniteSets

CONSTANTS
  Starts,      \* starts of the process; each is used once
  Targets,     \* the organisation's peers
  Listings,    \* what its configuration may list of them
  Expected,    \* orgExpectedPeers[org] (2)
  MaxTries,    \* TestRetryOpts.Attempts, the rounds of queryInstalledCC
  Nobody       \* no start

ASSUME BootstrapAssumption ==
  /\ IsFiniteSet(Targets)
  /\ Listings \subseteq SUBSET Targets
  /\ Expected \in Nat
  /\ MaxTries \in Nat \ {0}
  /\ Nobody \notin Starts

VARIABLES
  pc,          \* where the process is
  start,       \* the start it belongs to
  past,        \* the starts so far
  targets,     \* setup.Targets, the peers its configuration lists
  left,        \* peers still to be asked, or whose install is awaited
  found,       \* peers that have answered yes
  tries,       \* rounds of queryInstalledCC that have failed
  peers,       \* what DiscoverLocalPeers has returned
  channel,     \* the orderer has the channel
  joining,     \* join requests on their way
  joined,      \* peers in the channel
  sending,     \* install requests on their way
  installed,   \* peers that have the chaincode package
  pending,     \* starts whose instantiate transaction is at the orderer
  winner,      \* the start whose instantiate transaction was valid
  knows        \* peers that have committed its block

process == <<pc, start, past, targets, left, found, tries, peers>>
network == <<channel, joining, joined, sending, installed, pending, winner, knows>>
vars    == <<process, network>>

InitializesChannel == {"filter", "create", "join", "joining"}
PreparesCC ==
  {"query", "reset", "discover", "install", "installing", "verify",
   "instantiate", "commit"}
Starting == {"configure"} \cup InitializesChannel \cup PreparesCC

Init ==
  /\ pc = "down" /\ start = Nobody /\ past = {} /\ targets = {}
  /\ left = {} /\ found = {} /\ tries = 0 /\ peers = {}
  /\ channel = FALSE
  /\ joining = {} /\ joined = {}
  /\ sending = {} /\ installed = {}
  /\ pending = {} /\ winner = Nobody /\ knows = {}

(***************************************************************************)
(* The configuration.                                                      *)
(***************************************************************************)
Start(s) ==
  /\ pc = "down"
  /\ s \notin past
  /\ pc' = "configure" /\ start' = s /\ past' = past \cup {s}
  /\ targets' = {} /\ left' = {} /\ found' = {} /\ tries' = 0 /\ peers' = {}
  /\ UNCHANGED network

\* The configuration, the client and the channel file are there, or the start
\* panics.  An organisation without peers is not an error.
OrgTargetPeers ==
  /\ pc = "configure"
  /\ targets' \in Listings
  /\ left' = targets'
  /\ pc' = "filter"
  /\ UNCHANGED <<start, past, found, tries, peers, network>>

(***************************************************************************)
(* InitializeChannel.                                                      *)
(***************************************************************************)

\* A peer says whether it has what it is asked for.
Ask(t, yes) ==
  /\ t \in left
  /\ left' = left \ {t}
  /\ found' = IF yes THEN found \cup {t} ELSE found

HasPeerJoinedChannel ==
  /\ pc = "filter"
  /\ \E t \in targets : Ask(t, t \in joined)
  /\ UNCHANGED <<pc, start, past, targets, tries, peers, network>>

\* Mutant of FilterTargetsJoinedChannel: the loop is left after one target.
FilterOneTarget ==
  /\ pc = "filter"
  /\ left # targets
  /\ pc' = IF found = targets THEN "query" ELSE "create"
  /\ UNCHANGED <<start, past, targets, left, found, tries, peers, network>>

FilterTargetsJoinedChannel ==
  /\ pc = "filter"
  /\ left = {}
  /\ pc' = IF found = targets THEN "query" ELSE "create"
  /\ UNCHANGED <<start, past, targets, left, found, tries, peers, network>>

CreateChannel ==
  /\ pc = "create"
  /\ channel' = TRUE
  /\ pc' \in {"join", "down"}
  /\ UNCHANGED <<start, past, targets, left, found, tries, peers,
                 joining, joined, sending, installed, pending, winner, knows>>

\* All targets are asked at once, or none when the genesis block is not had.
JoinChannel ==
  /\ pc = "join"
  /\ joining' \in {joining, joining \cup targets}
  /\ pc' = "joining"
  /\ UNCHANGED <<start, past, targets, left, found, tries, peers,
                 channel, joined, sending, installed, pending, winner, knows>>

\* JoinChannel returns, and its error, if any, is dropped.
JoinReturns ==
  /\ pc = "joining"
  /\ pc' = "query"
  /\ UNCHANGED <<start, past, targets, left, found, tries, peers, network>>

(***************************************************************************)
(* PrepareCC.                                                              *)
(***************************************************************************)

\* One peer of the channel, picked at random, says whether it is instantiated.
QueryInstantiated ==
  /\ pc = "query"
  /\ \E t \in joined : pc' = IF t \in knows THEN "reset" ELSE "discover"
  /\ UNCHANGED <<start, past, targets, left, found, tries, peers, network>>

ResetCC ==
  /\ pc = "reset"
  /\ pc' = "serving"
  /\ UNCHANGED <<start, past, targets, left, found, tries, peers, network>>

DiscoverLocalPeers ==
  /\ pc = "discover"
  /\ peers' \in {D \in SUBSET Targets : Cardinality(D) >= Expected}
  /\ pc' = "install"
  /\ UNCHANGED <<start, past, targets, left, found, tries, network>>

\* InstallCC discovers its targets anew and asks those that do not have it.
InstallCC ==
  /\ pc = "install"
  /\ left' \in SUBSET Targets \ {{}}
  /\ sending' = sending \cup (left' \ installed)
  /\ pc' = "installing"
  /\ UNCHANGED <<start, past, targets, found, tries, peers,
                 channel, joining, joined, installed, pending, winner, knows>>

InstallReturns ==
  /\ pc = "installing"
  /\ left \subseteq installed
  /\ pc' = "verify" /\ left' = peers /\ found' = {}
  /\ UNCHANGED <<start, past, targets, tries, peers, network>>

IsCCInstalled ==
  /\ pc = "verify"
  /\ \E t \in peers : Ask(t, t \in installed)
  /\ UNCHANGED <<pc, start, past, targets, tries, peers, network>>

\* Mutants of QueryInstalled: one peer is enough, and rounds are not counted.
QueryInstalledAny ==
  /\ pc = "verify"
  /\ \/ /\ left = {} /\ found # {}
        /\ pc' = "instantiate" /\ UNCHANGED <<left, found, tries>>
     \/ /\ left = {} => found = {}
        /\ tries < MaxTries
        /\ tries' = tries + 1 /\ left' = peers /\ found' = {} /\ UNCHANGED pc
  /\ UNCHANGED <<start, past, targets, peers, network>>

QueryInstalledForever ==
  /\ pc = "verify"
  /\ \/ /\ left = {} /\ found = peers
        /\ pc' = "instantiate" /\ UNCHANGED <<left, found>>
     \/ /\ left = {} => found # peers
        /\ left' = peers /\ found' = {} /\ UNCHANGED pc
  /\ UNCHANGED <<start, past, targets, tries, peers, network>>

\* A round of queryInstalledCC ends with every peer found, or there is another
\* round: a peer was not found, or could not be asked, and attempts are left.
QueryInstalled ==
  /\ pc = "verify"
  /\ \/ /\ left = {} /\ found = peers
        /\ pc' = "instantiate" /\ UNCHANGED <<left, found, tries>>
     \/ /\ left = {} => found # peers
        /\ tries < MaxTries
        /\ tries' = tries + 1 /\ left' = peers /\ found' = {} /\ UNCHANGED pc
  /\ UNCHANGED <<start, past, targets, peers, network>>

\* Mutant of InstantiateCC: it does not wait for the block.
InstantiateNoWait ==
  /\ pc = "instantiate"
  /\ (joined \cap installed) \ knows # {}
  /\ pending' = pending \cup {start}
  /\ pc' = "serving"
  /\ UNCHANGED <<start, past, targets, left, found, tries, peers,
                 channel, joining, joined, sending, installed, winner, knows>>

\* Endorsed by peers that have the package and do not know the chaincode yet.
InstantiateCC ==
  /\ pc = "instantiate"
  /\ (joined \cap installed) \ knows # {}
  /\ pending' = pending \cup {start}
  /\ pc' = "commit"
  /\ UNCHANGED <<start, past, targets, left, found, tries, peers,
                 channel, joining, joined, sending, installed, winner, knows>>

\* The status of the transaction arrives: valid, or not the first one.
InstantiateReturns ==
  /\ pc = "commit"
  /\ start \notin pending
  /\ pc' = IF winner = start THEN "serving" ELSE "down"
  /\ UNCHANGED <<start, past, targets, left, found, tries, peers, network>>

\* A step of the start fails or times out, or the process is killed.
Down ==
  /\ pc' = "down"
  /\ UNCHANGED <<start, past, targets, left, found, tries, peers, network>>

Panic == pc \in Starting \ {"joining"} /\ Down
Kill  == pc \in {"joining", "serving"} /\ Down

(***************************************************************************)
(* The network: it acts on what it has been asked, late or never.          *)
(***************************************************************************)
PeerJoins(t) ==
  /\ t \in joining
  /\ joining' = joining \ {t}
  /\ joined' \in {joined} \cup (IF channel THEN {joined \cup {t}} ELSE {})
  /\ UNCHANGED <<process, channel, sending, installed, pending, winner, knows>>

PeerInstalls(t) ==
  /\ t \in sending
  /\ sending' = sending \ {t}
  /\ installed' \in {installed, installed \cup {t}}
  /\ UNCHANGED <<process, channel, joining, joined, pending, winner, knows>>

Commit(s) ==
  /\ s \in pending
  /\ pending' = pending \ {s}
  /\ winner' = IF winner = Nobody THEN s ELSE winner
  /\ UNCHANGED <<process, channel, joining, joined, sending, installed, knows>>

PeerLearns(t) ==
  /\ winner # Nobody
  /\ t \in joined \ knows
  /\ knows' = knows \cup {t}
  /\ UNCHANGED <<process, channel, joining, joined, sending, installed, pending, winner>>

Network ==
  \/ \E t \in Targets : PeerJoins(t) \/ PeerInstalls(t) \/ PeerLearns(t)
  \/ \E s \in Starts : Commit(s)

Step ==
  \/ OrgTargetPeers \/ HasPeerJoinedChannel \/ FilterTargetsJoinedChannel
  \/ CreateChannel \/ JoinChannel \/ JoinReturns
  \/ QueryInstantiated \/ ResetCC
  \/ DiscoverLocalPeers \/ InstallCC \/ InstallReturns
  \/ IsCCInstalled \/ QueryInstalled \/ InstantiateCC \/ InstantiateReturns
  \/ Panic

Next ==
  \/ \E s \in Starts : Start(s)
  \/ Step
  \/ Kill
  \/ Network

Spec == Init /\ [][Next]_vars

\* The start runs: every call in it has a deadline, after which it fails.
FairSpec == Spec /\ WF_vars(Step)
-----------------------------------------------------------------------------
\* An instantiate transaction is sent only when the chaincode is on the peers
\* DiscoverLocalPeers has found, at least as many as are expected, whichever
\* peers InstallCC happened to reach (base.go:177-243).
InstantiatedIsInstalled ==
  pending # {} \/ winner # Nobody => Cardinality(installed) >= Expected

\* A gateway that serves has a chaincode to call: its start has reset it, or has
\* seen its own instantiation committed, whatever earlier starts left under way.
ServingIsInstantiated ==
  pc = "serving" => winner # Nobody

\* A start comes to an end, whatever peers and orderer do.
StartEnds == pc \in Starting ~> pc \in {"serving", "down"}

\* The stages of a start, in their order; a reset is the last stage of its own way.
StagesLeft ==
  CASE pc = "configure" -> 13 [] pc = "filter" -> 12     [] pc = "create" -> 11
    [] pc = "join" -> 10      [] pc = "joining" -> 9     [] pc = "query" -> 8
    [] pc = "discover" -> 7   [] pc = "install" -> 6     [] pc = "installing" -> 5
    [] pc = "verify" -> 4     [] pc = "instantiate" -> 3 [] pc = "commit" -> 2
    [] pc = "reset" -> 1      [] OTHER -> 0

\* A start does bounded work: each of its steps ends its stage for good, or has one
\* peer less to ask in it, or begins one of the rounds that are permitted: nothing
\* that peers or orderer do sends it back (utils.go:141-159, prepare.go:32-77,
\* base.go:177-243).
StartsAreBounded ==
  [][process' # process /\ pc \in Starting =>
       \/ StagesLeft' < StagesLeft
       \/ /\ StagesLeft' = StagesLeft
          /\ \/ left' \subseteq left /\ left' # left /\ tries' = tries
             \/ tries < tries' /\ tries' <= MaxTries]_vars

\* A start that begins when every peer is in the channel and knows the chaincode
\* only resets it: nothing is created, joined, installed or instantiated again,
\* whatever earlier starts have left under way, and whichever of the peers its
\* configuration lists (utils.go:148, prepare.go:39-45).
Settled == joined = Targets /\ knows = Targets

SettledStartResets ==
  \A s \in Starts :
    [](pc = "configure" /\ start = s /\ Settled
         => [](start = s => pc \in {"configure", "filter", "query", "reset",
                                    "serving", "down"}))

\* InitializeChannel returns an error when the join fails (utils.go:155-158), so
\* a start that goes on to the chaincode has all its targets in the channel.
PassedIsJoined == pc \in PreparesCC \cup {"serving"} => targets \subseteq joined
=============================================================================
