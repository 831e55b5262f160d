-------------------------- MODULE LifecycleProofs --------------------------
(***************************************************************************)
(* Proofs about Lifecycle: for every environment, chain, latency, refresh  *)
(* interval and number of reorgs, the types, the check of the chain and    *)
(* the bound on how long a funded balance outlives the funds.              *)
(***************************************************************************)
EXTENDS Lifecycle, TLAPS

\* The actions that leave the wallet, the balance and its reads alone.
BalanceStands ==
    \/ ValidatesEnv \/ NodeNamesChain \/ NodeIsSilent \/ PrepareFails \/ StartsLoop
    \/ PassGoesOn \/ PassEnds \/ LoopLeaves \/ SetsMining \/ Signal \/ ServerCloses
    \/ Failsafe \/ GraceEnds \/ Over

\* Those of start()'s flow that do not, those of a reorg, and the world's.
FlowReads ==
    \/ AddressReady \/ FindsFunds \/ FindsEmpty \/ WarmUpReturns \/ PollsEmpty
    \/ PassRefreshes \/ RefreshReturns

LEMMA StepCases ==
    ASSUME [Next]_vars
    PROVE  \/ BalanceStands \/ UNCHANGED vars \/ FlowReads
           \/ \E r \in Reorgs : ReorgReads(r) \/ ReorgReadReturns(r)
           \/ NodeActs \/ Tick
BY DEF Next, Booting, LoopStep, Serving, BalanceStands, FlowReads

LEMMA StandingBalance ==
    ASSUME BalanceStands \/ UNCHANGED vars
    PROVE  UNCHANGED <<wallet, drainedAge, balance, balanceAge, asked, seen>>
<1>1. CASE UNCHANGED vars
  BY <1>1 DEF vars, balanceVars
<1>2. CASE BalanceStands
  <2>1. CASE ValidatesEnv
    BY <2>1 DEF ValidatesEnv, balanceVars
  <2>2. CASE NodeNamesChain
    BY <2>2 DEF NodeNamesChain, balanceVars
  <2>3. CASE NodeIsSilent
    BY <2>3 DEF NodeIsSilent, balanceVars
  <2>4. CASE PrepareFails
    BY <2>4 DEF PrepareFails, balanceVars
  <2>5. CASE StartsLoop
    BY <2>5 DEF StartsLoop, balanceVars
  <2>6. CASE PassGoesOn
    BY <2>6 DEF PassGoesOn, balanceVars
  <2>7. CASE PassEnds
    BY <2>7 DEF PassEnds, balanceVars
  <2>8. CASE LoopLeaves
    BY <2>8 DEF LoopLeaves, balanceVars
  <2>9. CASE SetsMining
    BY <2>9 DEF SetsMining, balanceVars
  <2>10. CASE Signal
    BY <2>10 DEF Signal, balanceVars
  <2>11. CASE ServerCloses
    BY <2>11 DEF ServerCloses, balanceVars
  <2>12. CASE Failsafe
    BY <2>12 DEF Failsafe, balanceVars
  <2>13. CASE GraceEnds
    BY <2>13 DEF GraceEnds, balanceVars
  <2>14. CASE Over
    BY <2>14 DEF Over, balanceVars, vars
  <2> QED
    BY <1>2, <2>1, <2>2, <2>3, <2>4, <2>5, <2>6, <2>7, <2>8, <2>9, <2>10, <2>11, <2>12, <2>13, <2>14 DEF BalanceStands
<1> QED
  BY <1>1, <1>2

-----------------------------------------------------------------------------
(* Types.                                                                  *)

\* A call that is asked for or settled.
LEMMA CallTypes ==
    ASSUME BalanceTypeOK, NEW r \in Readers, Asks(r) \/ Settles(r)
    PROVE  /\ asked' \in [Readers -> {NotSet} \cup 0 .. Latency]
           /\ seen' \in [Readers -> {"none"} \cup Holdings]
BY BalanceAssumption DEF BalanceTypeOK, Asks, Settles

LEMMA AppliedTypes ==
    ASSUME BalanceTypeOK, NEW r \in Readers, Applies(r)
    PROVE  balance' \in Holdings
BY DEF BalanceTypeOK, Applies, Holdings

LEMMA AgedTypes ==
    ASSUME NEW most \in Nat, NEW age \in {NotSet} \cup 0 .. most
    PROVE  /\ Aged(age, most) \in {NotSet} \cup 0 .. most
           /\ age # NotSet => Aged(age, most) \in 0 .. most
BY DEF Aged, NotSet

LEMMA MainReads == "main" \in Readers /\ Reorgs \subseteq Readers
BY DEF Readers

LEMMA BalanceTypesStep ==
    ASSUME TypeOK, [Next]_vars
    PROVE  BalanceTypeOK'
<1> USE MainReads, BalanceAssumption, LifecycleAssumption DEF TypeOK
<1>1. CASE BalanceStands \/ UNCHANGED vars
  BY <1>1, StandingBalance DEF BalanceTypeOK
<1>2. CASE FlowReads
  <2>1. CASE AddressReady
    BY <2>1, CallTypes DEF AddressReady, BalanceTypeOK
  <2>2. CASE FindsFunds
    BY <2>2, CallTypes, AppliedTypes DEF FindsFunds, BalanceSettled, BalanceTypeOK
  <2>3. CASE FindsEmpty
    BY <2>3, CallTypes, AppliedTypes DEF FindsEmpty, BalanceTypeOK
  <2>4. CASE WarmUpReturns
    <3>1. wallet' \in Holdings /\ drainedAge' \in 0 .. Horizon
      BY <2>4 DEF WarmUpReturns, BalanceTypeOK, Holdings
    <3> QED
      BY <2>4, <3>1, CallTypes DEF WarmUpReturns, BalanceTypeOK
  <2>5. CASE PollsEmpty
    <3>1. Asks("main") \/ Settles("main")
      BY <2>5 DEF PollsEmpty, PollsAgain
    <3> QED
      BY <2>5, <3>1, CallTypes, AppliedTypes DEF PollsEmpty, PollsAgain, BalanceTypeOK
  <2>6. CASE PassRefreshes
    BY <2>6, CallTypes DEF PassRefreshes, BalanceTypeOK
  <2>7. CASE RefreshReturns
    <3>1. Settles("main") /\ balance' \in {"unknown"} \cup Holdings /\ balanceAge' = 0
      BY <2>7, AppliedTypes DEF RefreshReturns, RefreshApplies, RefreshFails, BalanceUnread
    <3> QED
      BY <2>7, <3>1, CallTypes DEF RefreshReturns, BalanceTypeOK
  <2> QED
    BY <1>2, <2>1, <2>2, <2>3, <2>4, <2>5, <2>6, <2>7 DEF FlowReads
<1>3. ASSUME NEW r \in Reorgs, ReorgReads(r) PROVE BalanceTypeOK'
  BY <1>3, CallTypes DEF ReorgReads, BalanceTypeOK
<1>4. ASSUME NEW r \in Reorgs, ReorgReadReturns(r) PROVE BalanceTypeOK'
  <2>1. Settles(r) /\ balance' \in {"unknown"} \cup Holdings /\ balanceAge' = 0
    BY <1>4, AppliedTypes DEF ReorgReadReturns, RefreshApplies, RefreshFails, BalanceUnread
  <2> QED
    BY <1>4, <2>1, CallTypes DEF ReorgReadReturns, BalanceTypeOK
<1>5. CASE NodeActs
  <2>1. CASE WalletMoves
    BY <2>1 DEF WalletMoves, BalanceTypeOK
  <2>2. ASSUME NEW r \in Readers, NodeEvaluates(r) PROVE BalanceTypeOK'
    BY <2>2 DEF NodeEvaluates, BalanceTypeOK
  <2> QED
    BY <1>5, <2>1, <2>2 DEF NodeActs
<1>6. CASE Tick
  <2>1. TimePasses
    BY <1>6 DEF Tick
  <2>2. drainedAge' \in 0 .. Horizon
    <3>1. Aged(drainedAge, Horizon) \in 0 .. Horizon
      BY AgedTypes DEF BalanceTypeOK, NotSet
    <3> QED
      BY <2>1, <3>1 DEF TimePasses
  <2>3. balanceAge' \in {NotSet} \cup 0 .. RefreshInterval
    BY <2>1, AgedTypes DEF TimePasses, BalanceTypeOK
  <2>4. asked' \in [Readers -> {NotSet} \cup 0 .. Latency]
    BY <2>1, AgedTypes DEF TimePasses, BalanceTypeOK
  <2> QED
    BY <2>1, <2>2, <2>3, <2>4 DEF TimePasses, BalanceTypeOK
<1> QED
  BY <1>1, <1>2, <1>3, <1>4, <1>5, <1>6, StepCases

LEMMA PlaceTypesStep ==
    ASSUME TypeOK, [Next]_vars
    PROVE  PlaceTypeOK'
<1> USE LifecycleAssumption DEF TypeOK, PlaceTypeOK, Places, Preparing, Looping
<1>1. CASE BalanceStands
  <2>1. CASE ValidatesEnv
    BY <2>1 DEF ValidatesEnv, Ends, serviceVars, worldVars, balanceVars
  <2>2. CASE NodeNamesChain
    BY <2>2 DEF NodeNamesChain, Serves, Ends, worldVars
  <2>3. CASE NodeIsSilent
    BY <2>3 DEF NodeIsSilent, UnverifiedChain, Ends, serviceVars, worldVars
  <2>4. CASE PrepareFails
    BY <2>4 DEF PrepareFails, Ends, flowVars, worldVars
  <2>5. CASE StartsLoop
    BY <2>5 DEF StartsLoop, Flow, worldVars
  <2>6. CASE PassGoesOn
    BY <2>6 DEF PassGoesOn, Flow, serviceVars, worldVars
  <2>7. CASE PassEnds
    BY <2>7 DEF PassEnds, Flow, serviceVars, worldVars
  <2>8. CASE LoopLeaves
    BY <2>8 DEF LoopLeaves, Flow, serviceVars, worldVars
  <2>9. CASE SetsMining
    BY <2>9 DEF SetsMining, flowVars, worldVars
  <2>10. CASE Signal
    BY <2>10 DEF Signal, Ends, flowVars
  <2>11. CASE ServerCloses
    BY <2>11 DEF ServerCloses, Ends, flowVars, worldVars
  <2>12. CASE Failsafe
    BY <2>12 DEF Failsafe, Ends, flowVars, worldVars
  <2>13. CASE GraceEnds
    BY <2>13 DEF GraceEnds, flowVars, serviceVars
  <2>14. CASE Over
    BY <2>14 DEF Over, vars, flowVars, serviceVars, worldVars
  <2> QED
    BY <1>1, <2>1, <2>2, <2>3, <2>4, <2>5, <2>6, <2>7, <2>8, <2>9, <2>10, <2>11, <2>12, <2>13, <2>14 DEF BalanceStands
<1>2. CASE FlowReads
  <2>1. CASE AddressReady
    BY <2>1 DEF AddressReady, Flow, serviceVars, worldVars
  <2>2. CASE FindsFunds
    BY <2>2 DEF FindsFunds, BalanceSettled, serviceVars, worldVars
  <2>3. CASE FindsEmpty
    BY <2>3 DEF FindsEmpty, Flow, serviceVars, worldVars
  <2>4. CASE WarmUpReturns
    BY <2>4 DEF WarmUpReturns, Flow, serviceVars, worldVars
  <2>5. CASE PollsEmpty
    BY <2>5 DEF PollsEmpty, PollsAgain, Ends, serviceVars, worldVars
  <2>6. CASE PassRefreshes
    BY <2>6 DEF PassRefreshes, Flow, serviceVars, worldVars
  <2>7. CASE RefreshReturns
    BY <2>7 DEF RefreshReturns, Flow, serviceVars, worldVars
  <2> QED
    BY <1>2, <2>1, <2>2, <2>3, <2>4, <2>5, <2>6, <2>7 DEF FlowReads
<1>3. ASSUME NEW r \in Reorgs, ReorgReads(r) PROVE PlaceTypeOK'
  BY <1>3 DEF ReorgReads, flowVars, serviceVars, worldVars
<1>4. ASSUME NEW r \in Reorgs, ReorgReadReturns(r) PROVE PlaceTypeOK'
  BY <1>4 DEF ReorgReadReturns, flowVars, serviceVars, worldVars
<1>5. CASE NodeActs
  BY <1>5 DEF NodeActs, flowVars, serviceVars, worldVars
<1>6. CASE Tick
  BY <1>6, AgedTypes DEF Tick, serviceVars, worldVars, NotSet
<1>7. CASE UNCHANGED vars
  BY <1>7 DEF vars, flowVars, serviceVars, worldVars
<1> QED
  BY <1>1, <1>2, <1>3, <1>4, <1>5, <1>6, <1>7, StepCases

LEMMA FlagTypesStep ==
    ASSUME TypeOK, [Next]_vars
    PROVE  FlagTypeOK'
<1> USE DEF TypeOK, FlagTypeOK
<1>1. CASE BalanceStands
  <2>1. CASE ValidatesEnv
    BY <2>1 DEF ValidatesEnv, Ends, serviceVars, worldVars, balanceVars
  <2>2. CASE NodeNamesChain
    <3>1. env.portFree \in BOOLEAN
      BY EnvironmentsAssumption DEF PlaceTypeOK, AllEnvironments
    <3>2. listening' \in BOOLEAN
      BY <2>2, <3>1 DEF NodeNamesChain, Serves, Ends
    <3> QED
      BY <2>2, <3>2 DEF NodeNamesChain, Serves, Ends, worldVars
  <2>3. CASE NodeIsSilent
    BY <2>3 DEF NodeIsSilent, UnverifiedChain, Ends, serviceVars, worldVars
  <2>4. CASE PrepareFails
    BY <2>4 DEF PrepareFails, Ends, flowVars, worldVars
  <2>5. CASE StartsLoop
    BY <2>5 DEF StartsLoop, Flow, worldVars
  <2>6. CASE PassGoesOn
    BY <2>6 DEF PassGoesOn, Flow, serviceVars, worldVars
  <2>7. CASE PassEnds
    BY <2>7 DEF PassEnds, Flow, serviceVars, worldVars
  <2>8. CASE LoopLeaves
    BY <2>8 DEF LoopLeaves, Flow, serviceVars, worldVars
  <2>9. CASE SetsMining
    BY <2>9 DEF SetsMining, flowVars, worldVars
  <2>10. CASE Signal
    BY <2>10 DEF Signal, Ends, flowVars
  <2>11. CASE ServerCloses
    BY <2>11 DEF ServerCloses, Ends, flowVars, worldVars
  <2>12. CASE Failsafe
    BY <2>12 DEF Failsafe, Ends, flowVars, worldVars
  <2>13. CASE GraceEnds
    BY <2>13 DEF GraceEnds, flowVars, serviceVars
  <2>14. CASE Over
    BY <2>14 DEF Over, vars, flowVars, serviceVars, worldVars
  <2> QED
    BY <1>1, <2>1, <2>2, <2>3, <2>4, <2>5, <2>6, <2>7, <2>8, <2>9, <2>10, <2>11, <2>12, <2>13, <2>14 DEF BalanceStands
<1>2. CASE FlowReads
  <2>1. CASE AddressReady
    BY <2>1 DEF AddressReady, Flow, serviceVars, worldVars
  <2>2. CASE FindsFunds
    BY <2>2 DEF FindsFunds, BalanceSettled, serviceVars, worldVars
  <2>3. CASE FindsEmpty
    BY <2>3 DEF FindsEmpty, Flow, serviceVars, worldVars
  <2>4. CASE WarmUpReturns
    BY <2>4 DEF WarmUpReturns, Flow, serviceVars, worldVars
  <2>5. CASE PollsEmpty
    BY <2>5 DEF PollsEmpty, PollsAgain, Ends, serviceVars, worldVars
  <2>6. CASE PassRefreshes
    BY <2>6 DEF PassRefreshes, Flow, serviceVars, worldVars
  <2>7. CASE RefreshReturns
    BY <2>7 DEF RefreshReturns, Flow, serviceVars, worldVars
  <2> QED
    BY <1>2, <2>1, <2>2, <2>3, <2>4, <2>5, <2>6, <2>7 DEF FlowReads
<1>3. ASSUME NEW r \in Reorgs, ReorgReads(r) PROVE FlagTypeOK'
  BY <1>3 DEF ReorgReads, flowVars, serviceVars, worldVars
<1>4. ASSUME NEW r \in Reorgs, ReorgReadReturns(r) PROVE FlagTypeOK'
  BY <1>4 DEF ReorgReadReturns, flowVars, serviceVars, worldVars
<1>5. CASE NodeActs
  BY <1>5 DEF NodeActs, flowVars, serviceVars, worldVars
<1>6. CASE Tick
  BY <1>6 DEF Tick, serviceVars, worldVars
<1>7. CASE UNCHANGED vars
  BY <1>7 DEF vars, flowVars, serviceVars, worldVars
<1> QED
  BY <1>1, <1>2, <1>3, <1>4, <1>5, <1>6, <1>7, StepCases

LEMMA TypesInit ==
    ASSUME Init
    PROVE  TypeOK
<1>1. BalanceTypeOK
  BY BalanceAssumption DEF Init, BalanceInit, BalanceTypeOK, Holdings, NotSet
<1>2. PlaceTypeOK
  BY LifecycleAssumption DEF Init, PlaceTypeOK, Places
<1>3. FlagTypeOK
  BY DEF Init, FlagTypeOK
<1> QED
  BY <1>1, <1>2, <1>3 DEF TypeOK

\* For every instance the service's state keeps its types: the attempts, the
\* polls and the passes stay within their bounds.
THEOREM ServiceTypesHold == Spec => []TypeOK
<1>1. Init => TypeOK
  BY TypesInit
<1>2. TypeOK /\ [Next]_vars => TypeOK'
  BY BalanceTypesStep, PlaceTypesStep, FlagTypesStep DEF TypeOK
<1> QED
  BY <1>1, <1>2, PTL DEF Spec

-----------------------------------------------------------------------------
(* The check of the chain.                                                 *)

LEMMA RegtestMatches == MatchingChains("regtest") = {"regtest"}
BY Zenon DEF MatchingChains

LEMMA TestnetMatches == MatchingChains("testnet") = {"test", "testnet4"}
<1>1. "testnet" # "regtest"
  OBVIOUS
<1> QED
  BY <1>1, Zenon DEF MatchingChains

LEMMA WorldStands ==
    ASSUME [Next]_vars
    PROVE  env' = env /\ chain' = chain
<1> USE DEF worldVars
<1>1. CASE BalanceStands \/ UNCHANGED vars
  BY <1>1 DEF BalanceStands, vars, ValidatesEnv, NodeNamesChain, NodeIsSilent, PrepareFails,
      StartsLoop, PassGoesOn, PassEnds, LoopLeaves, SetsMining, Signal, ServerCloses,
      Failsafe, GraceEnds, Over
<1>2. CASE FlowReads
  BY <1>2 DEF FlowReads, AddressReady, FindsFunds, FindsEmpty, WarmUpReturns, PollsEmpty, PollsAgain,
      PassRefreshes, RefreshReturns
<1>3. CASE \E r \in Reorgs : ReorgReads(r) \/ ReorgReadReturns(r)
  BY <1>3 DEF ReorgReads, ReorgReadReturns
<1>4. CASE NodeActs \/ Tick
  BY <1>4 DEF NodeActs, Tick
<1> QED
  BY <1>1, <1>2, <1>3, <1>4, StepCases

LEMMA ChainStep ==
    ASSUME TypeOK, ChainInv, [Next]_vars
    PROVE  ChainInv'
<1> DEFINE Checked == Preparing \cup Looping
<1>1. env' = env /\ chain' = chain
  BY WorldStands
<1>2. MatchingChains(env.network)' = MatchingChains(env.network)
  BY <1>1
<1>3. CASE at' = at /\ (listening' => listening)
  BY <1>1, <1>2, <1>3 DEF ChainInv
<1>4. CASE at \in Checked /\ at' \in Checked
  BY <1>1, <1>2, <1>4 DEF ChainInv, Preparing, Looping
<1>5. CASE at' = "verify" /\ EnvValid /\ listening' = listening /\ at = "config"
  BY <1>1, <1>5 DEF ChainInv, EnvValid, Preparing, Looping
<1>6. CASE at = "verify" /\ at' = "address" /\ chain \in MatchingChains(env.network)
  BY <1>1, <1>2, <1>6 DEF ChainInv, Preparing
<1>7. \/ at' = at /\ (listening' => listening)
      \/ at \in Checked /\ at' \in Checked
      \/ at' = "verify" /\ EnvValid /\ listening' = listening /\ at = "config"
      \/ at = "verify" /\ at' = "address" /\ chain \in MatchingChains(env.network)
  <2> USE DEF flowVars, serviceVars
  <2>1. CASE UNCHANGED vars
    BY <2>1 DEF vars
  <2>2. CASE BalanceStands
    <3>1. CASE ValidatesEnv
      BY <3>1 DEF ValidatesEnv, Ends
    <3>2. CASE NodeNamesChain
      BY <3>2 DEF NodeNamesChain, Serves, Ends
    <3>3. CASE NodeIsSilent
      BY <3>3 DEF NodeIsSilent, UnverifiedChain, Ends
    <3>4. CASE PrepareFails \/ Signal \/ ServerCloses \/ Failsafe
      BY <3>4 DEF PrepareFails, Signal, ServerCloses, Failsafe, Ends
    <3>5. CASE StartsLoop \/ PassGoesOn \/ PassEnds \/ LoopLeaves
      BY <3>5 DEF StartsLoop, PassGoesOn, PassEnds, LoopLeaves, Flow, Preparing, Looping
    <3>6. CASE SetsMining \/ GraceEnds \/ Over
      BY <3>6 DEF SetsMining, GraceEnds, Over, vars
    <3> QED
      BY <2>2, <3>1, <3>2, <3>3, <3>4, <3>5, <3>6 DEF BalanceStands
  <2>3. CASE FlowReads
    BY <2>3 DEF FlowReads, AddressReady, FindsFunds, BalanceSettled, FindsEmpty,
        WarmUpReturns, PollsEmpty, PollsAgain, Ends, PassRefreshes, RefreshReturns, Flow, Preparing, Looping
  <2>4. CASE \E r \in Reorgs : ReorgReads(r) \/ ReorgReadReturns(r)
    BY <2>4 DEF ReorgReads, ReorgReadReturns
  <2>5. CASE NodeActs \/ Tick
    BY <2>5 DEF NodeActs, Tick
  <2> QED
    BY <2>1, <2>2, <2>3, <2>4, <2>5, StepCases
<1> QED
  BY <1>3, <1>4, <1>5, <1>6, <1>7

LEMMA ChainInit ==
    ASSUME Init
    PROVE  ChainInv
BY DEF Init, ChainInv, Preparing, Looping

LEMMA ChainFollows ==
    ASSUME ChainInv
    PROVE  ChainChecked
<1> SUFFICES ASSUME listening \/ at \in Preparing \cup Looping
             PROVE  /\ chain \notin {"main", "none"}
                    /\ chain = "regtest" <=> env.network = "regtest"
  BY DEF ChainChecked
<1>1. at \in Preparing \cup Looping
  BY DEF ChainInv
<1>2. env.network \in {"regtest", "testnet"} /\ chain \in MatchingChains(env.network)
  BY <1>1 DEF ChainInv, Preparing, Looping
<1>3. CASE env.network = "regtest"
  BY <1>2, <1>3, RegtestMatches
<1>4. CASE env.network = "testnet"
  BY <1>2, <1>4, TestnetMatches
<1> QED
  BY <1>2, <1>3, <1>4

\* For every environment and chain: no wallet RPC goes out and no call is served
\* before the node has named a chain that fits NETWORK (verifyNodeChain).
THEOREM ChainsChecked == Spec => []ChainChecked
<1>1. Init => ChainInv
  BY ChainInit
<1>2. TypeOK /\ ChainInv /\ [Next]_vars => ChainInv'
  BY ChainStep
<1>3. ChainInv => ChainChecked
  BY ChainFollows
<1> QED
  BY <1>1, <1>2, <1>3, ServiceTypesHold, PTL DEF Spec

-----------------------------------------------------------------------------
(* The age of a funded balance.                                            *)

\* What a step does to the reads under way.
LEMMA ReadCases ==
    ASSUME [Next]_vars
    PROVE  \/ UNCHANGED <<drainedAge, asked, seen>>
           \/ /\ \E r \in Readers : Asks(r) \/ Settles(r)
              /\ drainedAge' \in {0, drainedAge}
           \/ NodeActs \/ Tick
<1> USE MainReads
<1>1. CASE BalanceStands \/ UNCHANGED vars
  BY <1>1, StandingBalance
<1>2. CASE FlowReads
  <2>1. (Asks("main") \/ Settles("main")) /\ drainedAge' \in {0, drainedAge}
    BY <1>2 DEF FlowReads, AddressReady, FindsFunds, BalanceSettled, FindsEmpty,
        WarmUpReturns, PollsEmpty, PollsAgain, PassRefreshes, RefreshReturns, RefreshApplies, RefreshFails
  <2> QED
    BY <2>1
<1>3. CASE \E r \in Reorgs : ReorgReads(r) \/ ReorgReadReturns(r)
  BY <1>3 DEF ReorgReads, ReorgReadReturns, RefreshApplies, RefreshFails
<1> QED
  BY <1>1, <1>2, <1>3, StepCases

\* What it does to the exported balance.
LEMMA StampCases ==
    ASSUME [Next]_vars
    PROVE  \/ balance' = balance /\ balanceAge' = balanceAge /\ drainedAge' \in {0, drainedAge}
           \/ balance' = "funded" =>
                  /\ \E r \in Readers : Applies(r)
                  /\ drainedAge' = drainedAge /\ balanceAge' = 0
           \/ Tick
<1> USE MainReads
<1>1. CASE BalanceStands \/ UNCHANGED vars
  BY <1>1, StandingBalance
<1>2. CASE FlowReads
  <2>1. CASE AddressReady \/ WarmUpReturns \/ PassRefreshes
    BY <2>1 DEF AddressReady, WarmUpReturns, PassRefreshes
  <2>2. CASE FindsFunds
    BY <2>2 DEF FindsFunds, BalanceSettled
  <2>3. CASE FindsEmpty \/ PollsEmpty
    BY <2>3 DEF FindsEmpty, PollsEmpty, PollsAgain
  <2>4. CASE RefreshReturns
    BY <2>4 DEF RefreshReturns, RefreshApplies, RefreshFails, BalanceUnread
  <2> QED
    BY <1>2, <2>1, <2>2, <2>3, <2>4 DEF FlowReads
<1>3. CASE \E r \in Reorgs : ReorgReads(r) \/ ReorgReadReturns(r)
  BY <1>3 DEF ReorgReads, ReorgReadReturns, RefreshApplies, RefreshFails, BalanceUnread
<1>4. CASE NodeActs
  BY <1>4 DEF NodeActs, WalletMoves, NodeEvaluates
<1> QED
  BY <1>1, <1>2, <1>3, <1>4, StepCases

\* And to the place of the flow and its own call.
LEMMA WayCases ==
    ASSUME TypeOK, [Next]_vars
    PROVE  \/ at' = at /\ passAge' = passAge /\ asked'["main"] = asked["main"]
           \/ at' \notin {"pin", "pass", "top", "refresh", "left"}
           \/ StartsLoop \/ PassGoesOn \/ PassEnds \/ PassRefreshes \/ LoopLeaves
           \/ FindsFunds \/ RefreshReturns \/ Tick
<1> USE DEF flowVars, serviceVars
<1>1. CASE UNCHANGED vars
  BY <1>1 DEF vars, balanceVars
<1>2. CASE BalanceStands
  <2>1. asked' = asked
    BY <1>2, StandingBalance
  <2>2. CASE ValidatesEnv
    BY <2>1, <2>2 DEF ValidatesEnv
  <2>3. CASE NodeNamesChain
    BY <2>1, <2>3 DEF NodeNamesChain, Serves
  <2>4. CASE NodeIsSilent
    BY <2>1, <2>4 DEF NodeIsSilent, UnverifiedChain
  <2>5. CASE PrepareFails \/ Signal \/ ServerCloses \/ Failsafe \/ SetsMining \/ GraceEnds
    BY <2>1, <2>5 DEF PrepareFails, Signal, ServerCloses, Failsafe, SetsMining, GraceEnds
  <2>6. CASE Over
    BY <2>1, <2>6 DEF Over, vars
  <2> QED
    BY <1>2, <2>2, <2>3, <2>4, <2>5, <2>6 DEF BalanceStands
<1>3. CASE FlowReads
  BY <1>3 DEF FlowReads, AddressReady, FindsEmpty, WarmUpReturns, PollsEmpty, PollsAgain, Flow
<1>4. ASSUME NEW r \in Reorgs, ReorgReads(r) \/ ReorgReadReturns(r)
      PROVE  at' = at /\ passAge' = passAge /\ asked'["main"] = asked["main"]
  <2>1. r # "main" /\ asked \in [Readers -> {NotSet} \cup 0 .. Latency]
    BY BalanceAssumption DEF TypeOK, BalanceTypeOK
  <2>2. at' = at /\ passAge' = passAge
    BY <1>4 DEF ReorgReads, ReorgReadReturns
  <2>3. Asks(r) \/ Settles(r)
    BY <1>4 DEF ReorgReads, ReorgReadReturns, RefreshApplies, RefreshFails
  <2> QED
    BY <2>1, <2>2, <2>3, MainReads DEF Asks, Settles
<1>5. CASE NodeActs
  BY <1>5 DEF NodeActs, WalletMoves, NodeEvaluates
<1> QED
  BY <1>1, <1>2, <1>3, <1>4, <1>5, StepCases

LEMMA TypesStep ==
    ASSUME TypeOK, [Next]_vars
    PROVE  TypeOK'
BY BalanceTypesStep, PlaceTypesStep, FlagTypesStep DEF TypeOK

\* What a reply tells of funds was true a latency ago.
LEMMA ReplyIsRecent ==
    ASSUME TypeOK, ReadsHonest, NEW r \in Readers, Applies(r), balance' = "funded"
    PROVE  drainedAge <= Latency
<1>1. seen[r] = "funded" /\ asked[r] # NotSet /\ drainedAge <= asked[r]
  BY DEF Applies, ReadsHonest
<1>2. asked[r] \in 0 .. Latency /\ drainedAge \in 0 .. Horizon
  BY <1>1 DEF TypeOK, BalanceTypeOK
<1> QED
  BY <1>1, <1>2, BalanceAssumption

LEMMA AgedByOne ==
    ASSUME NEW most \in Nat, NEW age \in 0 .. most
    PROVE  /\ Aged(age, most) \in 0 .. most
           /\ Aged(age, most) <= age + 1
           /\ age < most => Aged(age, most) = age + 1
BY DEF Aged, NotSet

LEMMA TickAges ==
    ASSUME TypeOK, FreshInv, Tick
    PROVE  /\ wallet' = wallet /\ seen' = seen /\ balance' = balance /\ at' = at
           /\ drainedAge' \in Nat /\ drainedAge' <= drainedAge + 1
           /\ wallet = "funded" => drainedAge' = 0
<1>1. drainedAge \in 0 .. Horizon
  BY DEF TypeOK, BalanceTypeOK
<1>2. /\ Aged(drainedAge, Horizon) \in 0 .. Horizon
      /\ Aged(drainedAge, Horizon) <= drainedAge + 1
  BY <1>1, AgedByOne, BalanceAssumption
<1>3. drainedAge' \in Nat /\ drainedAge' <= drainedAge + 1
  BY <1>1, <1>2, BalanceAssumption DEF Tick, TimePasses
<1> QED
  BY <1>3 DEF Tick, TimePasses

LEMMA ReadsStep ==
    ASSUME TypeOK, FreshInv, env.rpcTimeout, [Next]_vars
    PROVE  ReadsHonest'
<1> SUFFICES ASSUME NEW q \in Readers, seen'[q] = "funded"
             PROVE  asked'[q] # NotSet /\ drainedAge' <= asked'[q]
  BY DEF ReadsHonest, Readers
<1>1. /\ asked \in [Readers -> {NotSet} \cup 0 .. Latency]
      /\ seen \in [Readers -> {"none"} \cup Holdings]
      /\ drainedAge \in Nat
  BY BalanceAssumption DEF TypeOK, BalanceTypeOK
<1>2. seen[q] = "funded" => asked[q] # NotSet /\ drainedAge <= asked[q]
  BY DEF FreshInv, ReadsHonest
<1>3. CASE UNCHANGED <<drainedAge, asked, seen>>
  BY <1>2, <1>3
<1>4. ASSUME NEW r \in Readers, Asks(r) \/ Settles(r), drainedAge' \in {0, drainedAge}
      PROVE  asked'[q] # NotSet /\ drainedAge' <= asked'[q]
  <2>1. q # r /\ seen'[q] = seen[q] /\ asked'[q] = asked[q]
    BY <1>1, <1>4 DEF Asks, Settles
  <2> QED
    BY <1>1, <1>2, <1>4, <2>1 DEF NotSet
<1>5. CASE NodeActs
  <2>1. CASE WalletMoves
    BY <1>1, <1>2, <2>1 DEF WalletMoves, NotSet
  <2>2. ASSUME NEW r \in Readers, NodeEvaluates(r)
        PROVE  asked'[q] # NotSet /\ drainedAge' <= asked'[q]
    <3>1. CASE q = r
      <4>1. wallet = "funded" /\ asked[q] # NotSet
        BY <1>1, <2>2, <3>1 DEF NodeEvaluates
      <4>2. drainedAge = 0
        BY <4>1 DEF FreshInv
      <4> QED
        BY <1>1, <2>2, <4>1, <4>2 DEF NodeEvaluates, NotSet
    <3>2. CASE q # r
      BY <1>1, <1>2, <2>2, <3>2 DEF NodeEvaluates
    <3> QED
      BY <3>1, <3>2
  <2> QED
    BY <1>5, <2>1, <2>2 DEF NodeActs
<1>6. CASE Tick
  <2>1. seen'[q] = seen[q] /\ drainedAge' <= drainedAge + 1 /\ drainedAge' \in Nat
    BY <1>6, TickAges
  <2>2. asked[q] \in 0 .. Latency /\ drainedAge <= asked[q] /\ asked[q] < Latency
    BY <1>1, <1>2, <1>6, <2>1 DEF Tick, CallsInTime
  <2>3. asked'[q] = asked[q] + 1
    <3>1. asked'[q] = Aged(asked[q], Latency)
      BY <1>6 DEF Tick, TimePasses
    <3> QED
      BY <2>2, <3>1, AgedByOne, BalanceAssumption
  <2> QED
    BY <1>1, <2>1, <2>2, <2>3, BalanceAssumption DEF NotSet
<1> QED
  BY <1>3, <1>4, <1>5, <1>6, ReadCases

LEMMA StampedStep ==
    ASSUME TypeOK, FreshInv, env.rpcTimeout, [Next]_vars
    PROVE  FreshWhenStamped'
<1> SUFFICES ASSUME balance' = "funded", balanceAge' # NotSet, balanceAge' < RefreshInterval
             PROVE  drainedAge' <= Latency + balanceAge'
  BY DEF FreshWhenStamped
<1>1. /\ drainedAge \in Nat /\ Latency \in Nat /\ RefreshInterval \in Nat
      /\ balanceAge \in {NotSet} \cup 0 .. RefreshInterval
      /\ balanceAge' \in {NotSet} \cup 0 .. RefreshInterval
  BY BalanceAssumption, TypesStep DEF TypeOK, BalanceTypeOK
<1>2. FreshWhenStamped /\ ReadsHonest
  BY DEF FreshInv
<1>3. CASE balance' = balance /\ balanceAge' = balanceAge /\ drainedAge' \in {0, drainedAge}
  BY <1>1, <1>2, <1>3 DEF FreshWhenStamped, NotSet
<1>4. ASSUME NEW r \in Readers, Applies(r), drainedAge' = drainedAge, balanceAge' = 0
      PROVE  drainedAge' <= Latency + balanceAge'
  BY <1>1, <1>2, <1>4, ReplyIsRecent
<1>5. CASE Tick
  <2>1. balance = "funded" /\ drainedAge' <= drainedAge + 1 /\ drainedAge' \in Nat
    BY <1>5, TickAges
  <2>2. balanceAge' = Aged(balanceAge, RefreshInterval)
    BY <1>5 DEF Tick, TimePasses
  <2>3. balanceAge \in 0 .. RefreshInterval
    BY <1>1, <2>2 DEF Aged
  <2>4. balanceAge < RefreshInterval /\ balanceAge' = balanceAge + 1
    BY <1>1, <2>2, <2>3 DEF Aged, NotSet
  <2> QED
    BY <1>1, <1>2, <2>1, <2>3, <2>4 DEF FreshWhenStamped, NotSet
<1> QED
  BY <1>3, <1>4, <1>5, StampCases

\* The balance stands and is no older; the flow goes on.
LEMMA WayOfStanding ==
    ASSUME TypeOK, FreshInv, env.rpcTimeout, [Next]_vars, ~Tick, balance = "funded",
           balance' = balance, drainedAge' \in {0, drainedAge},
           ~FindsFunds, ~RefreshReturns
    PROVE  FreshOnTheWay'
<1> USE BalanceAssumption, LifecycleAssumption DEF FreshOnTheWay, NotSet
<1>1. /\ drainedAge \in Nat /\ passAge \in 0 .. PassLength /\ passAge' \in 0 .. PassLength
      /\ asked["main"] \in {NotSet} \cup 0 .. Latency
      /\ asked'["main"] \in {NotSet} \cup 0 .. Latency
      /\ balanceAge \in {NotSet} \cup 0 .. RefreshInterval
  BY TypesStep, MainReads DEF TypeOK, BalanceTypeOK, PlaceTypeOK
<1>2. FreshOnTheWay /\ FreshWhenStamped /\ (at = "refresh" => asked["main"] # NotSet)
  BY DEF FreshInv
<1>3. CASE at' = at /\ passAge' = passAge /\ asked'["main"] = asked["main"]
  BY <1>1, <1>2, <1>3
<1>4. CASE at' \notin {"pin", "pass", "top", "refresh", "left"}
  BY <1>4
<1>5. CASE StartsLoop
  BY <1>1, <1>2, <1>5 DEF StartsLoop, Flow
<1>6. CASE PassGoesOn
  <2>1. at' = "pass" /\ passAge' = 0 /\ balanceAge # NotSet /\ balanceAge < RefreshInterval
    BY <1>1, <1>6 DEF PassGoesOn, Flow, WalletRefreshDue
  <2>2. drainedAge <= Latency + balanceAge
    BY <1>2, <2>1 DEF FreshWhenStamped
  <2> QED
    BY <1>1, <2>1, <2>2
<1>7. CASE PassEnds
  BY <1>1, <1>2, <1>7 DEF PassEnds, Flow
<1>8. CASE PassRefreshes
  <2>1. asked'["main"] = 0
    BY <1>8, MainReads DEF PassRefreshes, Asks, TypeOK, BalanceTypeOK
  <2> QED
    BY <1>1, <1>2, <1>8, <2>1 DEF PassRefreshes, Flow
<1>9. CASE LoopLeaves
  BY <1>9 DEF LoopLeaves, Flow
<1> QED
  BY <1>3, <1>4, <1>5, <1>6, <1>7, <1>8, <1>9, WayCases

LEMMA PlainStep ==
    ASSUME TypeOK, FreshInv, [Next]_vars
    PROVE  /\ wallet' = "funded" => drainedAge' = 0
           /\ at' = "left" => shutdown'
           /\ at' = "refresh" => asked'["main"] # NotSet
<1>1. wallet' = "funded" => drainedAge' = 0
  <2>1. wallet = "funded" => drainedAge = 0
    BY DEF FreshInv
  <2>2. CASE BalanceStands \/ UNCHANGED vars
    BY <2>1, <2>2, StandingBalance
  <2>3. CASE FlowReads
    BY <2>1, <2>3 DEF FlowReads, AddressReady, FindsFunds, FindsEmpty, WarmUpReturns,
        PollsEmpty, PollsAgain, PassRefreshes, RefreshReturns
  <2>4. CASE \E r \in Reorgs : ReorgReads(r) \/ ReorgReadReturns(r)
    BY <2>1, <2>4 DEF ReorgReads, ReorgReadReturns
  <2>5. CASE NodeActs
    BY <2>1, <2>5 DEF NodeActs, WalletMoves, NodeEvaluates
  <2>6. CASE Tick
    BY <2>6, TickAges
  <2> QED
    BY <2>2, <2>3, <2>4, <2>5, <2>6, StepCases
<1>2. at' = "left" => shutdown'
  <2>1. shutdown => shutdown'
    <3> USE DEF serviceVars
    <3>1. CASE BalanceStands \/ UNCHANGED vars
      BY <3>1 DEF BalanceStands, vars, ValidatesEnv, NodeNamesChain, Serves, NodeIsSilent,
          UnverifiedChain, PrepareFails, StartsLoop, PassGoesOn, PassEnds, LoopLeaves,
          SetsMining, Signal, ServerCloses, Failsafe, GraceEnds, Over, Ends
    <3>2. CASE FlowReads
      BY <3>2 DEF FlowReads, AddressReady, FindsFunds, BalanceSettled, FindsEmpty,
          WarmUpReturns, PollsEmpty, PollsAgain, PassRefreshes, RefreshReturns, Ends
    <3>3. CASE \E r \in Reorgs : ReorgReads(r) \/ ReorgReadReturns(r)
      BY <3>3 DEF ReorgReads, ReorgReadReturns
    <3>4. CASE NodeActs \/ Tick
      BY <3>4 DEF NodeActs, Tick
    <3> QED
      BY <3>1, <3>2, <3>3, <3>4, StepCases
  <2>2. at = "left" => shutdown
    BY DEF FreshInv
  <2>3. at' = "left" => at = "left" \/ shutdown
    BY WayCases DEF StartsLoop, PassGoesOn, PassEnds, PassRefreshes, LoopLeaves, FindsFunds,
        BalanceSettled, RefreshReturns, Tick, Flow
  <2> QED
    BY <2>1, <2>2, <2>3
<1>3. at' = "refresh" => asked'["main"] # NotSet
  <2>1. at = "refresh" => asked["main"] # NotSet
    BY DEF FreshInv
  <2>2. CASE at' = at /\ asked'["main"] = asked["main"]
    BY <2>1, <2>2
  <2>3. CASE PassRefreshes
    BY <2>3, MainReads DEF PassRefreshes, Asks, TypeOK, BalanceTypeOK, NotSet
  <2>4. CASE Tick
    <3>1. at' = at /\ asked'["main"] = Aged(asked["main"], Latency)
      BY <2>4, MainReads DEF Tick, TimePasses
    <3>2. asked["main"] \in {NotSet} \cup 0 .. Latency
      BY MainReads DEF TypeOK, BalanceTypeOK
    <3> QED
      BY <2>1, <3>1, <3>2, BalanceAssumption DEF Aged, NotSet
  <2> QED
    BY <2>2, <2>3, <2>4, WayCases DEF StartsLoop, PassGoesOn, PassEnds, LoopLeaves, FindsFunds,
        BalanceSettled, RefreshReturns, Flow
<1> QED
  BY <1>1, <1>2, <1>3

LEMMA RecentIsFresh ==
    ASSUME NEW d \in Nat, NEW l \in Nat, NEW i \in Nat \ {0}, NEW p \in Nat, NEW a \in Nat,
           d <= l
    PROVE  d <= l + a /\ d <= l + i - 1 + a /\ d <= l + i - 1 + p /\ d <= l + i - 1 + p + a
<1>1. 0 <= i - 1
  OBVIOUS
<1> QED
  BY <1>1

LEMMA WayStep ==
    ASSUME TypeOK, FreshInv, env.rpcTimeout, [Next]_vars
    PROVE  FreshOnTheWay'
<1>1. /\ drainedAge \in Nat /\ passAge \in 0 .. PassLength /\ passAge' \in 0 .. PassLength
      /\ asked["main"] \in {NotSet} \cup 0 .. Latency
      /\ asked'["main"] \in {NotSet} \cup 0 .. Latency
      /\ Latency \in Nat /\ RefreshInterval \in Nat \ {0} /\ PassLength \in Nat
  BY TypesStep, MainReads, BalanceAssumption, LifecycleAssumption
     DEF TypeOK, BalanceTypeOK, PlaceTypeOK
<1>2. at' = "refresh" => asked'["main"] # NotSet
  BY PlainStep
<1>3. CASE balance' # "funded"
  BY <1>3 DEF FreshOnTheWay
<1>4. ASSUME NEW r \in Readers, Applies(r), drainedAge' = drainedAge, balance' = "funded"
      PROVE  FreshOnTheWay'
  <2>1. drainedAge' <= Latency
    BY <1>4, ReplyIsRecent DEF FreshInv
  <2>2. at' = "refresh" => asked'["main"] \in Nat
    BY <1>1, <1>2 DEF NotSet
  <2>3. drainedAge' \in Nat
    BY <1>1, <1>4
  <2>4. passAge' \in Nat
    BY <1>1
  <2>5. /\ drainedAge' <= Latency + passAge'
        /\ drainedAge' <= Latency + RefreshInterval - 1 + passAge'
        /\ drainedAge' <= Latency + RefreshInterval - 1 + PassLength
    BY <1>1, <2>1, <2>3, <2>4, RecentIsFresh
  <2>6. at' = "refresh" =>
          drainedAge' <= Latency + RefreshInterval - 1 + PassLength + asked'["main"]
    BY <1>1, <2>1, <2>2, <2>3, RecentIsFresh
  <2> QED
    BY <2>5, <2>6 DEF FreshOnTheWay
<1>5. CASE Tick /\ balance' = "funded"
  <2>1. /\ balance = "funded" /\ at' = at
        /\ drainedAge' <= drainedAge + 1 /\ drainedAge' \in Nat
    BY <1>5, TickAges
  <2>2. at # "top"
    BY <1>5 DEF Tick
  <2>3. at \in {"pin", "pass"} => passAge' = passAge + 1
    <3>1. at \in {"pin", "pass"} => passAge < PassLength /\ passAge' = Aged(passAge, PassLength)
      BY <1>5 DEF Tick
    <3> QED
      BY <1>1, <3>1, AgedByOne
  <2>4. at = "refresh" => asked["main"] # NotSet /\ asked'["main"] = asked["main"] + 1
    <3>1. at = "refresh" => asked["main"] # NotSet
      BY DEF FreshInv
    <3>2. asked["main"] < Latency /\ asked'["main"] = Aged(asked["main"], Latency)
      BY <1>5, MainReads DEF Tick, CallsInTime, TimePasses
    <3> QED
      BY <1>1, <3>1, <3>2, AgedByOne
  <2>5. FreshOnTheWay
    BY DEF FreshInv
  <2>6. at = "pin" => drainedAge' <= Latency + passAge'
    BY <1>1, <2>1, <2>3, <2>5 DEF FreshOnTheWay
  <2>7. at = "pass" => drainedAge' <= Latency + RefreshInterval - 1 + passAge'
    BY <1>1, <2>1, <2>3, <2>5 DEF FreshOnTheWay
  <2>8. at = "refresh" =>
          drainedAge' <= Latency + RefreshInterval - 1 + PassLength + asked'["main"]
    <3>1. asked["main"] \in Int
      BY <1>1 DEF NotSet
    <3> QED
      BY <1>1, <2>1, <2>4, <2>5, <3>1 DEF FreshOnTheWay
  <2> QED
    BY <2>1, <2>2, <2>6, <2>7, <2>8 DEF FreshOnTheWay
<1>6. CASE balance' = balance /\ drainedAge' \in {0, drainedAge} /\ balance = "funded"
  <2>1. CASE Tick
    BY <1>3, <1>5, <2>1
  <2>2. CASE FindsFunds \/ RefreshReturns
    <3>1. balance' = "funded" => Applies("main") /\ drainedAge' = drainedAge
      BY <2>2 DEF FindsFunds, RefreshReturns, RefreshApplies, RefreshFails, BalanceUnread
    <3> QED
      BY <1>3, <1>4, <3>1, MainReads
  <2>3. CASE ~Tick /\ ~FindsFunds /\ ~RefreshReturns
    BY <1>6, <2>3, WayOfStanding
  <2> QED
    BY <2>1, <2>2, <2>3
<1> QED
  BY <1>3, <1>4, <1>5, <1>6, StampCases

LEMMA FreshInit ==
    ASSUME Init
    PROVE  FreshInv
BY DEF Init, BalanceInit, FreshInv, ReadsHonest, FreshWhenStamped, FreshOnTheWay, NotSet

LEMMA FreshStep ==
    ASSUME TypeOK, FreshInv, [Next]_vars
    PROVE  FreshInv'
<1>1. env' = env
  BY WorldStands
<1>2. env.rpcTimeout => ReadsHonest' /\ FreshWhenStamped' /\ FreshOnTheWay'
  BY ReadsStep, StampedStep, WayStep
<1> QED
  BY <1>1, <1>2, PlainStep DEF FreshInv

LEMMA RecentFollows ==
    ASSUME TypeOK, FreshInv
    PROVE  FundedIsRecent
<1> USE BalanceAssumption, LifecycleAssumption
<1> SUFFICES ASSUME env.rpcTimeout, ~shutdown, miningStarted, balance = "funded"
             PROVE  drainedAge < RefreshInterval + PassLength + 2 * Latency
  BY DEF FundedIsRecent
<1>1. /\ drainedAge \in Nat /\ passAge \in 0 .. PassLength
      /\ asked["main"] \in {NotSet} \cup 0 .. Latency
  BY MainReads DEF TypeOK, BalanceTypeOK, PlaceTypeOK
<1>2. at \in {"top", "refresh", "pass"}
  BY DEF miningStarted, Looping, FreshInv
<1>3. FreshOnTheWay
  BY DEF FreshInv
<1> QED
  BY <1>1, <1>2, <1>3 DEF FreshOnTheWay, NotSet

\* For every latency, interval, pass and number of reorgs: with an RPC timeout a
\* funded balance outlives the funds by less than an interval, a pass and two
\* latencies, whichever read was overtaken (refreshWalletFunds, walletRefreshDue).
THEOREM FundsAreRecent == Spec => []FundedIsRecent
<1>1. Init => FreshInv
  BY FreshInit
<1>2. TypeOK /\ FreshInv /\ [Next]_vars => FreshInv'
  BY FreshStep
<1>3. TypeOK /\ FreshInv => FundedIsRecent
  BY RecentFollows
<1> QED
  BY <1>1, <1>2, <1>3, ServiceTypesHold, PTL DEF Spec

-----------------------------------------------------------------------------
(* The boot runs out of RPCs.                                              *)

\* Whoever does not boot leaves the boot alone.
LEMMA BootOrNot ==
    ASSUME [Next]_vars
    PROVE  Booting \/ UNCHANGED <<at, attempts>> \/ at' \in Looping
<1> USE DEF Looping
<1>1. CASE LoopStep
  BY <1>1 DEF LoopStep, PassRefreshes, RefreshReturns, PassGoesOn, PassEnds, LoopLeaves, Flow
<1>2. ASSUME NEW r \in Reorgs, Serving(r) PROVE UNCHANGED <<at, attempts>>
  BY <1>2 DEF Serving, ReorgReads, ReorgReadReturns, flowVars
<1>3. CASE SetsMining \/ Signal \/ ServerCloses \/ Failsafe
  BY <1>3 DEF SetsMining, Signal, ServerCloses, Failsafe, flowVars
<1>4. CASE NodeActs \/ GraceEnds \/ Tick
  BY <1>4 DEF NodeActs, GraceEnds, Tick, flowVars
<1>5. CASE Over \/ UNCHANGED vars
  BY <1>5 DEF Over, vars, flowVars
<1> QED
  BY <1>1, <1>2, <1>3, <1>4, <1>5 DEF Next

LEMMA BootLeftFalls ==
    ASSUME TypeOK, AttemptsInv, Booting
    PROVE  AttemptsInv' /\ BootLeft' \in 0 .. BootLeft - 1
<1>1. attempts \in Nat /\ VerifyAttempts \in Nat \ {0} /\ BalancePolls \in Nat \ {0}
  BY LifecycleAssumption DEF TypeOK, PlaceTypeOK
<1> USE DEF AttemptsInv, BootLeft, Up, miningStarted, Looping
<1>2. CASE ValidatesEnv
  BY <1>1, <1>2 DEF ValidatesEnv, Ends, serviceVars
<1>3. CASE NodeNamesChain
  BY <1>1, <1>3 DEF NodeNamesChain, Serves, Ends, serviceVars
<1>4. CASE NodeIsSilent
  BY <1>1, <1>4 DEF NodeIsSilent, UnverifiedChain, Ends, serviceVars
<1>5. CASE AddressReady
  BY <1>1, <1>5 DEF AddressReady, Flow, serviceVars
<1>6. CASE FindsFunds
  BY <1>1, <1>6 DEF FindsFunds, BalanceSettled, serviceVars
<1>7. CASE FindsEmpty
  BY <1>1, <1>7 DEF FindsEmpty, Flow, serviceVars
<1>8. CASE WarmUpReturns
  BY <1>1, <1>8 DEF WarmUpReturns, Flow, serviceVars
<1>9. CASE PollsEmpty
  BY <1>1, <1>9 DEF PollsEmpty, PollsAgain, Ends, serviceVars
<1>10. CASE PrepareFails
  BY <1>1, <1>10 DEF PrepareFails, Ends, flowVars, Preparing
<1>11. CASE StartsLoop
  BY <1>1, <1>11 DEF StartsLoop, Flow
<1> QED
  BY <1>2, <1>3, <1>4, <1>5, <1>6, <1>7, <1>8, <1>9, <1>10, <1>11 DEF Booting

LEMMA AttemptsStep ==
    ASSUME TypeOK, AttemptsInv, [Next]_vars
    PROVE  AttemptsInv'
<1>1. CASE Booting
  BY <1>1, BootLeftFalls
<1>2. CASE UNCHANGED <<at, attempts>>
  BY <1>2 DEF AttemptsInv
<1>3. CASE at' \in Looping
  BY <1>3 DEF AttemptsInv, Looping
<1> QED
  BY <1>1, <1>2, <1>3, BootOrNot

\* Every step of the boot leaves it a smaller number of RPCs, for every number of
\* attempts and of polls: a silent or empty node holds it up only so long
\* (verifyNodeChain, settleStartupBalance).
THEOREM BootAlwaysRunsOut == Spec => BootRunsOut
<1>1. Init => AttemptsInv
  BY LifecycleAssumption DEF Init, AttemptsInv
<1>2. Spec => []AttemptsInv
  BY <1>1, AttemptsStep, ServiceTypesHold, PTL DEF Spec
<1>3. TypeOK /\ AttemptsInv /\ [Next]_vars => [Booting => BootLeft' \in 0 .. BootLeft - 1]_vars
  BY BootLeftFalls
<1> QED
  BY <1>2, <1>3, ServiceTypesHold, PTL DEF Spec, BootRunsOut

=============================================================================
