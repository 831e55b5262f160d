-------------------------- MODULE CoinConfigProofs --------------------------
(***************************************************************************)
(* Proofs about CoinConfig: for any number of nodes and coins, any bundles,*)
(* pins and environments, a verified pin is an assurance on every network  *)
(* of several operators.                                                   *)
(***************************************************************************)
EXTENDS CoinConfig, TLAPS

\* Off regtest a node resolves nothing but its bundle.
LEMMA BundleResolved ==
    ASSUME NEW n \in Nodes, NEW c \in Coins, network # "regtest"
    PROVE  getCoinConfig(n, c) = consensusSubset(running[n].bundle[c])
BY DEF getCoinConfig, consensusSubset, FeeDestination, Fullnode

\* Off regtest an override of the depth only raises it.
LEMMA DepthFloored ==
    ASSUME NEW n \in Nodes, NEW c \in Coins, network \in Networks, network # "regtest",
           running[n].bundle \in Bundles, running[n].env \in OperatorEnvs
    PROVE  resolveConfirmations(n, c) >= running[n].bundle[c].confirmations
<1> DEFINE own     == running[n].env.depth[c]
           p2p     == running[n].env.p2pDepth[c]
           bundled == running[n].bundle[c].confirmations
           wanted  == IF own # 0 THEN own ELSE IF p2p # 0 THEN p2p ELSE bundled
<1>1. bundled \in Nat \ {0}
  BY DepthAssumption
<1>2. own \in Int /\ p2p \in Int
  BY DepthOverrideAssumption
<1>3. wanted \in Int
  BY <1>1, <1>2
<1>4. resolveConfirmations(n, c) = IF wanted <= 0 \/ wanted < bundled THEN bundled ELSE wanted
  BY DEF resolveConfirmations, Networks
<1> HIDE DEF wanted, bundled
<1>5. resolveConfirmations(n, c) >= bundled
  BY <1>1, <1>3, <1>4
<1> QED
  BY <1>5 DEF bundled

\* The types are kept, and whatever runs was verified when it booted.
LEMMA CoinInvInit == CoinInit => CoinInv
<1> SUFFICES ASSUME CoinInit PROVE CoinInv
  OBVIOUS
<1>1. CoinTypeOK
  BY CoinsAssumption DEF CoinInit, CoinTypeOK
<1>2. BootedVerified
  BY DEF CoinInit, BootedVerified, Up
<1> QED
  BY <1>1, <1>2 DEF CoinInv

LEMMA CoinInvStep == CoinInv /\ [CoinNext]_coinVars => CoinInv'
<1> SUFFICES ASSUME CoinInv, [CoinNext]_coinVars PROVE CoinInv'
  OBVIOUS
<1> USE DEF CoinInv
<1>1. ASSUME NEW n \in Nodes, NEW bundle \in Bundles, NEW pin \in Pins,
             NEW env \in OperatorEnvs, Boots(n, bundle, pin, env)
      PROVE  CoinInv'
  <2>1. CoinTypeOK'
    BY <1>1 DEF Boots, CoinTypeOK
  <2>2. BootedVerified'
    <3> SUFFICES ASSUME NEW m \in Up'
                 PROVE  /\ running'[m].bundle \in Bundles /\ running'[m].env \in OperatorEnvs
                        /\ verifyConsensusPin(running'[m].bundle, running'[m].pin)
      BY DEF BootedVerified, Up, verifyConsensusPin, Pinned, consensusSubset
    <3>1. CASE m = n
      BY <1>1, <3>1 DEF Boots, CoinTypeOK
    <3>2. CASE m # n
      <4>1. running'[m] = running[m] /\ m \in Up
        BY <1>1, <3>2 DEF Boots, CoinTypeOK, Up
      <4> QED
        BY <4>1 DEF BootedVerified
    <3> QED
      BY <3>1, <3>2
  <2> QED
    BY <2>1, <2>2
<1>2. ASSUME NEW n \in Nodes, Stops(n)
      PROVE  CoinInv'
  <2>1. CoinTypeOK'
    BY <1>2 DEF Stops, CoinTypeOK
  <2>2. \A m \in Up' : m \in Up /\ running'[m] = running[m]
    BY <1>2 DEF Stops, CoinTypeOK, Up
  <2>3. BootedVerified'
    BY <2>2 DEF BootedVerified, Up, verifyConsensusPin, Pinned, consensusSubset
  <2> QED
    BY <2>1, <2>3
<1>3. ASSUME NEW n \in Nodes, NEW content \in Sidecars, EditsSidecar(n, content)
      PROVE  CoinInv'
  BY <1>3 DEF EditsSidecar, CoinTypeOK, BootedVerified, Up, verifyConsensusPin, Pinned,
              consensusSubset
<1>4. CASE UNCHANGED coinVars
  BY <1>4 DEF coinVars, CoinTypeOK, BootedVerified, Up, verifyConsensusPin, Pinned,
              consensusSubset
<1> QED
  BY <1>1, <1>2, <1>3, <1>4 DEF CoinNext

LEMMA CoinInvAlways == CoinSpec => []CoinInv
BY CoinInvInit, CoinInvStep, PTL DEF CoinSpec

\* Types of the registry's nodes.
THEOREM CoinTypesHold == CoinSpec => []CoinTypeOK
<1>1. CoinInv => CoinTypeOK
  BY DEF CoinInv
<1> QED
  BY <1>1, CoinInvAlways, PTL

\* On a network of several operators nodes that verified a coin against the same
\* pin resolve the same consensus values for it, and none takes fewer
\* confirmations than its bundle (verifyConsensusPin, resolveFeeDestination,
\* resolveConfirmations).
THEOREM PinAssures == CoinSpec => []VerifiedAgree
<1>1. CoinInv => VerifiedAgree
  <2> SUFFICES ASSUME CoinInv, network # "regtest" PROVE VerifiedAgree
    BY DEF VerifiedAgree
  <2>1. ASSUME NEW m \in Up, NEW n \in Up, NEW c \in Coins,
               Pinned(running[m].pin, c), running[m].pin = running[n].pin
        PROVE  getCoinConfig(m, c) = getCoinConfig(n, c)
    <3>1. /\ running[m].pin[c] = consensusSubset(running[m].bundle[c])
          /\ running[n].pin[c] = consensusSubset(running[n].bundle[c])
      BY <2>1 DEF CoinInv, BootedVerified, verifyConsensusPin, Pinned
    <3>2. /\ getCoinConfig(m, c) = consensusSubset(running[m].bundle[c])
          /\ getCoinConfig(n, c) = consensusSubset(running[n].bundle[c])
      BY BundleResolved DEF Up
    <3> QED
      BY <2>1, <3>1, <3>2
  <2>2. ASSUME NEW n \in Up, NEW c \in Coins
        PROVE  resolveConfirmations(n, c) >= running[n].bundle[c].confirmations
    BY DepthFloored DEF CoinInv, CoinTypeOK, BootedVerified, Up
  <2> QED
    BY <2>1, <2>2 DEF VerifiedAgree
<1> QED
  BY <1>1, CoinInvAlways, PTL

=============================================================================
