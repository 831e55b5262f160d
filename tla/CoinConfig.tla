----------------------------- MODULE CoinConfig -----------------------------
(***************************************************************************)
(* The coin registry that every service of the platform vendors            *)
(* (src/coins): what a node resolves from its bundled coin files, its      *)
(* environment and a sidecar file, and the consensus pin its bundle is     *)
(* verified against when it boots.                                         *)
(*                                                                         *)
(* The nodes of one network are installed by different operators, each     *)
(* with a bundle, a pin and an environment of its own.  A coin file is cut *)
(* down to one field per way a field is treated: hashed as it is, hashed   *)
(* and overridable, left out of the hash.  The hash of a subset is the     *)
(* subset itself: sha256 is taken to be one-to-one.                        *)
(***************************************************************************)
EXTENDS Integers

CONSTANTS
    Nodes,
    Coins,         \* ALLOWED_COINS
    Bundles,       \* the coin files a node may be installed with
    Pins,          \* the CONSENSUS_CONFIG_PINs of the network it may have
    OperatorEnvs,  \* the environments it may run in
    Sidecars,      \* the contents of its fullnode.regtest.json
    NotSet,        \* an absent variable, sidecar or pin
    Down           \* a node that does not run

Networks == {"mainnet", "testnet", "regtest"}

ASSUME CoinsAssumption == NotSet \in Sidecars
ASSUME DepthAssumption ==
    \A bundle \in Bundles, c \in Coins : bundle[c].confirmations \in Nat \ {0}
ASSUME DepthOverrideAssumption ==
    \A env \in OperatorEnvs, c \in Coins : env.depth[c] \in Int /\ env.p2pDepth[c] \in Int

VARIABLES
    network,  \* the network they all join
    running,  \* what each node's process was started with, or Down
    sidecar   \* its sidecar file, read whenever a coin is resolved

coinVars == <<network, running, sidecar>>

-----------------------------------------------------------------------------
(* The pin.                                                                *)

\* Addresses go in except the display-only roles; confirmations, the payment mode
\* and the block-0 hash do not.
consensusSubset_NoWireFormat(coin) ==
    [params |-> coin.params, FEE_DESTINATION |-> coin.FEE_DESTINATION,
     FULLNODE |-> coin.FULLNODE]
consensusSubset(coin) ==
    [params |-> coin.params, wireFormat |-> coin.wireFormat,
     FEE_DESTINATION |-> coin.FEE_DESTINATION, FULLNODE |-> coin.FULLNODE]

\* A null pin skips the network, a coin without one is skipped by itself.
Pinned(pin, c) == pin # NotSet /\ pin[c] # NotSet

verifyConsensusPin(bundle, pin) ==
    \A c \in Coins : Pinned(pin, c) => pin[c] = consensusSubset(bundle[c])

-----------------------------------------------------------------------------
(* What a running node resolves.                                           *)

FeeDestination_Overridable(n, c) ==
    LET override == running[n].env.fee[c]
    IN  IF override # NotSet THEN override ELSE running[n].bundle[c].FEE_DESTINATION
FeeDestination(n, c) ==
    LET override == running[n].env.fee[c]
    IN  IF override # NotSet /\ network = "regtest"
        THEN override
        ELSE running[n].bundle[c].FEE_DESTINATION

\* In increasing precedence: the bundle, the sidecar, the environment.
Fullnode(n, c) ==
    CASE network # "regtest" -> running[n].bundle[c].FULLNODE
      [] network = "regtest" /\ running[n].env.fullnode # NotSet -> running[n].env.fullnode
      [] network = "regtest" /\ running[n].env.fullnode = NotSet /\ sidecar[n] # NotSet ->
             sidecar[n]
      [] OTHER -> running[n].bundle[c].FULLNODE

\* What of getCoinConfig decides how blocks and actions are read.
getCoinConfig(n, c) ==
    [params |-> running[n].bundle[c].params, wireFormat |-> running[n].bundle[c].wireFormat,
     FEE_DESTINATION |-> FeeDestination(n, c), FULLNODE |-> Fullnode(n, c)]

\* 0 stands for an override that is absent, zero or no number.
resolveConfirmations(n, c) ==
    LET own     == running[n].env.depth[c]
        p2p     == running[n].env.p2pDepth[c]
        bundled == running[n].bundle[c].confirmations
        wanted  == IF own # 0 THEN own ELSE IF p2p # 0 THEN p2p ELSE bundled
        floored == network \in {"mainnet", "testnet"}
    IN  IF wanted <= 0 \/ (floored /\ wanted < bundled) THEN bundled ELSE wanted

-----------------------------------------------------------------------------
\* A node whose bundle does not match its pin halts instead.
Boots(n, bundle, pin, env) ==
    /\ running[n] = Down
    /\ verifyConsensusPin(bundle, pin)
    /\ running' = [running EXCEPT ![n] = [bundle |-> bundle, pin |-> pin, env |-> env]]
    /\ UNCHANGED <<network, sidecar>>

Stops(n) ==
    /\ running[n] # Down
    /\ running' = [running EXCEPT ![n] = Down]
    /\ UNCHANGED <<network, sidecar>>

EditsSidecar(n, content) ==
    /\ sidecar' = [sidecar EXCEPT ![n] = content]
    /\ UNCHANGED <<network, running>>

CoinInit ==
    /\ network \in Networks
    /\ running = [n \in Nodes |-> Down]
    /\ sidecar = [n \in Nodes |-> NotSet]

CoinNext == \E n \in Nodes :
    \/ \E bundle \in Bundles, pin \in Pins, env \in OperatorEnvs :
           Boots(n, bundle, pin, env)
    \/ Stops(n)
    \/ \E content \in Sidecars : EditsSidecar(n, content)

CoinSpec == CoinInit /\ [][CoinNext]_coinVars

-----------------------------------------------------------------------------
(* Correctness.                                                            *)

CoinTypeOK ==
    /\ network \in Networks
    /\ running \in [Nodes -> {Down} \cup [bundle : Bundles, pin : Pins, env : OperatorEnvs]]
    /\ sidecar \in [Nodes -> Sidecars]

Up == {n \in Nodes : running[n] # Down}

\* On a network of several operators a verified pin is an assurance: nodes that
\* verified a coin against the same pin resolve the same consensus values for it,
\* whatever their environments and sidecars say, and none takes fewer
\* confirmations than its bundle (resolveFeeDestination, consensusSubset,
\* resolveConfirmations).
VerifiedAgree ==
    network # "regtest" =>
        /\ \A m, n \in Up, c \in Coins :
               Pinned(running[m].pin, c) /\ running[m].pin = running[n].pin =>
                   getCoinConfig(m, c) = getCoinConfig(n, c)
        /\ \A n \in Up, c \in Coins :
               resolveConfirmations(n, c) >= running[n].bundle[c].confirmations

-----------------------------------------------------------------------------
(* What has to be known besides to carry the agreement through a step.     *)

BootedVerified ==
    \A n \in Up : /\ running[n].bundle \in Bundles /\ running[n].env \in OperatorEnvs
                  /\ verifyConsensusPin(running[n].bundle, running[n].pin)

CoinInv == CoinTypeOK /\ BootedVerified

=============================================================================
