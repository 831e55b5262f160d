------------------------- MODULE WalletFundingProofs -------------------------
(***************************************************************************)
(* The miner's wallet, for any number of sends and any bounds on the       *)
(* retries: nobody takes another's load or create for a missing wallet, a  *)
(* boot nothing disturbs ends on the miner's own wallet, a node restart is *)
(* healed by the next send, and a send that healed one is capped.          *)
(***************************************************************************)
EXTENDS WalletFunding, TLAPS

LEMMA WalletInit == Init => WalletInv
  <1> SUFFICES ASSUME Init PROVE WalletInv
    OBVIOUS
  <1>1. TypeOK
    <2>1. foreign \in BOOLEAN
      BY Zenon DEF Init
    <2>2. ours \in {"absent", "unloaded", "loading", "loaded"}
      BY DEF Init
    <2>3. pc \in [Procs -> Phases] /\ tries \in [Procs -> Nat]
      BY DEF Init, Phases, BootPhases, Ends
    <2>4. \A p \in Procs : tries[p] < LoadAttempts \/ tries[p] < ProbeAttempts
      BY AttemptsAssumption DEF Init, AttemptsAssumption
    <2>5. sent \in [Sends -> [from : {"none", "ours", "foreign"}, capped : BOOLEAN,
                              retried : BOOLEAN]]
      BY DEF Init, NotSent
    <2> QED BY <2>1, <2>2, <2>3, <2>4, <2>5 DEF Init, TypeOK
  <1>2. /\ pc[Main] = "probe" /\ \A s \in Sends : pc[s] = "idle"
        /\ ours # "loading"
    BY ProcsAssumption DEF Init, Procs, ProcsAssumption
  <1>3. RateInv
    BY <1>2 DEF Init, RateInv, TakesRate
  <1>4. LoadInv
    BY <1>2 DEF LoadInv, OnItsWay, Procs
  <1>5. BootInv
    BY <1>2 DEF BootInv, NoSendLoads, LoadPhases
  <1>6. HistoryInv
    BY <1>2 DEF Init, HistoryInv, AtWork, Ends
  <1>7. TriesInv
    BY AttemptsAssumption DEF Init, TriesInv, AttemptsAssumption
  <1> QED BY <1>1, <1>3, <1>4, <1>5, <1>6, <1>7 DEF WalletInv

LEMMA TypeStep == TypeOK /\ [Next]_vars => TypeOK'
  <1> SUFFICES ASSUME TypeOK, [Next]_vars PROVE TypeOK'
    OBVIOUS
  <1>0. Main \in Procs /\ \A s \in Sends : s \in Procs
    BY DEF Procs
  <1> DEFINE Record == [from : {"none", "ours", "foreign"}, capped : BOOLEAN,
                        retried : BOOLEAN]
  <1>1. CASE NodeStep
    <2>1. CASE Restart
      BY <2>1 DEF Restart, TypeOK, minerVars
    <2>2. CASE LoadCompletes
      BY <2>2 DEF LoadCompletes, TypeOK, minerVars
    <2>3. CASE OperatorMovesWallet
      BY <2>3 DEF OperatorMovesWallet, TypeOK, minerVars
    <2> QED BY <1>1, <2>1, <2>2, <2>3 DEF NodeStep
  <1>2. ASSUME NEW p \in Procs, LoadStep(p) PROVE TypeOK'
    <2>1. CASE LoadWallet(p)
      BY <2>1 DEF LoadWallet, Loaded, Goto, AfterLoad, TypeOK, Phases, LoadPhases,
         BootPhases, minerVars
    <2>2. CASE CheckLoaded(p)
      <3>1. /\ tries' \in [Procs -> Nat]
            /\ \A q \in Procs : tries'[q] < LoadAttempts \/ tries'[q] < ProbeAttempts
        BY <2>2, AttemptsAssumption DEF CheckLoaded, NextTry, RetriesLeft, TypeOK,
           AttemptsAssumption
      <3>2. pc' \in [Procs -> Phases] /\ pinned' \in BOOLEAN
        BY <2>2 DEF CheckLoaded, Loaded, GiveUp, Goto, AfterLoad, TypeOK, Phases,
           LoadPhases, BootPhases, Ends, minerVars
      <3>3. UNCHANGED <<nodeVars, deployment, feeRate, probed, rewards, walletReady,
                        sent, late, disturbed>>
        BY <2>2 DEF CheckLoaded, Loaded, GiveUp, minerVars
      <3> QED BY <3>1, <3>2, <3>3 DEF TypeOK, nodeVars
    <2>3. CASE CreateWallet(p)
      BY <2>3 DEF CreateWallet, Loaded, Goto, AfterLoad, TypeOK, Phases, LoadPhases,
         BootPhases, minerVars
    <2>4. CASE RecheckLoaded(p)
      BY <2>4 DEF RecheckLoaded, Loaded, GiveUp, Goto, AfterLoad, TypeOK, Phases,
         LoadPhases, BootPhases, Ends, minerVars, nodeVars
    <2>5. CASE PinFundingFeeRate(p)
      BY <2>5 DEF PinFundingFeeRate, PinByFeeRate, PinBySetTxFee, FallbackRate, Goto,
         Answered, TypeOK, Phases, Ends
    <2> QED BY <1>2, <2>1, <2>2, <2>3, <2>4, <2>5 DEF LoadStep
  <1>3. CASE BootStep
    <2>1. CASE ProbeWallet
      <3>1. /\ tries' \in [Procs -> Nat]
            /\ \A q \in Procs : tries'[q] < LoadAttempts \/ tries'[q] < ProbeAttempts
        BY <1>0, <2>1, AttemptsAssumption DEF ProbeWallet, StartLoading, TypeOK,
           minerVars, AttemptsAssumption
      <3>2. pc' \in [Procs -> Phases] /\ probed' \in {"none", "ours", "foreign"}
        BY <1>0, <2>1 DEF ProbeWallet, StartLoading, Goto, Answered, TypeOK, Phases,
           LoadPhases, BootPhases, minerVars
      <3>3. UNCHANGED <<nodeVars, deployment, pinned, feeRate, rewards, walletReady,
                        sent, late, disturbed>>
        BY <2>1 DEF ProbeWallet, minerVars
      <3> QED BY <3>1, <3>2, <3>3 DEF TypeOK, nodeVars
    <2>2. CASE BindProbedWallet
      <3>1. /\ tries' \in [Procs -> Nat]
            /\ \A q \in Procs : tries'[q] < LoadAttempts \/ tries'[q] < ProbeAttempts
        BY <1>0, <2>2, AttemptsAssumption DEF BindProbedWallet, StartLoading, TypeOK,
           minerVars, AttemptsAssumption
      <3>2. pc' \in [Procs -> Phases] /\ rewards' \in {"none", "ours", "foreign"}
        BY <1>0, <2>2 DEF BindProbedWallet, StartLoading, Goto, TypeOK, Phases,
           LoadPhases, BootPhases, minerVars
      <3>3. pinned' \in BOOLEAN
        BY <2>2 DEF BindProbedWallet, TypeOK, minerVars
      <3>4. UNCHANGED <<nodeVars, deployment, feeRate, probed, walletReady, sent, late,
                        disturbed>>
        BY <2>2 DEF BindProbedWallet, minerVars
      <3> QED BY <3>1, <3>2, <3>3, <3>4 DEF TypeOK, nodeVars
    <2>3. CASE AddressForRewards
      BY <1>0, <2>3 DEF AddressForRewards, GiveUp, Goto, Answered, TypeOK, Phases,
         BootPhases, Ends, minerVars, nodeVars
    <2>4. CASE SettleStartupBalance
      BY <1>0, <2>4 DEF SettleStartupBalance, Goto, TypeOK, Phases, Ends, minerVars,
         nodeVars
    <2> QED BY <1>0, <1>2, <1>3, <2>1, <2>2, <2>3, <2>4 DEF BootStep
  <1>4. ASSUME NEW s \in Sends, SendFunds(s) \/ Resend(s) PROVE TypeOK'
    <2>1. ASSUME NodeSends, Executes(s) PROVE sent' \in [Sends -> Record]
      BY <2>1 DEF TypeOK, Executes, NodeSends, Answered
    <2>2. CASE SendFunds(s)
      BY <1>0, <2>1, <2>2, AttemptsAssumption DEF SendFunds, Refused, StartLoading, Goto,
         TypeOK, Phases, LoadPhases, Ends, minerVars, nodeVars, AttemptsAssumption
    <2>3. CASE Resend(s)
      BY <1>0, <2>1, <2>3 DEF Resend, Refused, Goto, TypeOK, Phases, Ends, minerVars,
         nodeVars
    <2> QED BY <1>4, <2>2, <2>3
  <1>5. CASE UNCHANGED vars
    BY <1>5 DEF vars, nodeVars, minerVars, TypeOK
  <1> QED BY <1>0, <1>1, <1>2, <1>3, <1>4, <1>5 DEF Next

\* What pins the rate, and that nothing else does.
LEMMA RateStep == WalletInv /\ [Next]_vars => RateInv'
  <1> SUFFICES ASSUME WalletInv, [Next]_vars PROVE RateInv'
    OBVIOUS
  <1>0. /\ Main \in Procs /\ \A s \in Sends : s \in Procs /\ s # Main
        /\ pc \in [Procs -> Phases]
    BY ProcsAssumption DEF Procs, ProcsAssumption, WalletInv, TypeOK
  <1>1. ASSUME UNCHANGED <<deployment, feeRate, walletReady>>,
               pc'[Main] = "ready" <=> pc[Main] = "ready"
        PROVE  RateInv'
    BY <1>1 DEF WalletInv, RateInv, HasFeeRate, TakesRate
  <1>2. CASE NodeStep \/ UNCHANGED vars
    BY <1>1, <1>2 DEF NodeStep, Restart, LoadCompletes, OperatorMovesWallet, vars, minerVars
  <1>3. ASSUME NEW p \in Procs, LoadStep(p) PROVE RateInv'
    <2>1. CASE LoadWallet(p)
      <3>1. UNCHANGED <<deployment, feeRate, walletReady>>
        BY <2>1 DEF LoadWallet, Loaded, minerVars
      <3>2. pc[p] = "load" /\ \E phase \in {"create", "check", "address", "pin"} :
                (pc' = [pc EXCEPT ![p] = phase]) /\ (phase = "pin" => p # Main)
        BY <2>1 DEF LoadWallet, Loaded, Goto, AfterLoad
      <3> QED BY <1>0, <1>1, <3>1, <3>2
    <2>2. CASE CheckLoaded(p) \/ CreateWallet(p) \/ RecheckLoaded(p)
      <3>1. UNCHANGED <<deployment, feeRate, walletReady>>
        BY <2>2 DEF CheckLoaded, CreateWallet, RecheckLoaded, Loaded, GiveUp, minerVars
      <3>2. pc[p] # "ready" /\ \E phase \in Phases \ {"ready"} :
                pc' = [pc EXCEPT ![p] = phase]
        BY <2>2 DEF CheckLoaded, CreateWallet, RecheckLoaded, Loaded, GiveUp, Goto,
           AfterLoad, Phases, LoadPhases, BootPhases, Ends
      <3> QED BY <1>0, <1>1, <3>1, <3>2
    <2>3. CASE PinFundingFeeRate(p)
      <3>1. deployment' = deployment /\ deployment \in Deployments
        BY <2>3 DEF PinFundingFeeRate, WalletInv, TypeOK
      <3>2. walletReady' <=> pc'[Main] = "ready"
        <4>1. CASE p = Main
          BY <1>0, <2>3, <4>1 DEF PinFundingFeeRate, Goto
        <4>2. CASE p # Main
          <5>1. pc'[Main] = pc[Main]
            BY <1>0, <2>3, <4>2 DEF PinFundingFeeRate, Goto
          <5>2. walletReady' <=> walletReady
            BY <2>3, <4>2, Zenon DEF PinFundingFeeRate
          <5> QED BY <5>1, <5>2 DEF WalletInv, RateInv
        <4> QED BY <4>1, <4>2
      <3>3. HasFeeRate => feeRate'
        BY <2>3 DEF PinFundingFeeRate, PinByFeeRate, PinBySetTxFee, FallbackRate,
           HasFeeRate, HasSetTxFee
      <3>4. CoinsNamed /\ ~HasFeeRate => ~feeRate'
        BY <2>3, <3>1 DEF PinFundingFeeRate, PinByFeeRate, PinBySetTxFee, FallbackRate,
           HasFeeRate, CoinsNamed
      <3> QED BY <3>1, <3>2, <3>3, <3>4 DEF RateInv, HasFeeRate, TakesRate
    <2> QED BY <1>3, <2>1, <2>2, <2>3 DEF LoadStep
  <1>4. CASE ProbeWallet \/ BindProbedWallet \/ AddressForRewards \/ SettleStartupBalance
    <2>1. UNCHANGED <<deployment, feeRate, walletReady>>
      BY <1>4 DEF ProbeWallet, BindProbedWallet, AddressForRewards, SettleStartupBalance,
         GiveUp, minerVars
    <2>2. pc[Main] # "ready" /\ (pc' = pc \/ \E phase \in Phases \ {"ready"} :
              pc' = [pc EXCEPT ![Main] = phase])
      BY <1>4 DEF ProbeWallet, BindProbedWallet, AddressForRewards, SettleStartupBalance,
         StartLoading, GiveUp, Goto, Phases, LoadPhases, BootPhases, Ends
    <2> QED BY <1>0, <1>1, <2>1, <2>2
  <1>5. ASSUME NEW s \in Sends, SendFunds(s) \/ Resend(s) PROVE RateInv'
    <2>1. UNCHANGED <<deployment, feeRate, walletReady>>
      BY <1>5 DEF SendFunds, Resend, minerVars
    <2>2. pc'[Main] = pc[Main]
      BY <1>0, <1>5 DEF SendFunds, Resend, Refused, StartLoading, Goto
    <2> QED BY <1>1, <2>1, <2>2
  <1> QED BY <1>0, <1>2, <1>3, <1>4, <1>5 DEF Next, BootStep

\* No step but a restart of the node takes the wallet away, none unpins it.
LEMMA WalletKept ==
  ASSUME TypeOK, [Next]_vars
  PROVE  /\ deployment' = deployment
         /\ pinned => pinned'
         /\ disturbed \subseteq disturbed'
         /\ Restart \/ (/\ ours = "loaded" => ours' = "loaded"
                        /\ ours \in {"absent", "loaded"} => ours' \in {"absent", "loaded"}
                        /\ disturbed' = disturbed)
  <1>1. CASE NodeStep \/ UNCHANGED vars
    <2>1. CASE Restart
      <3>1. pinned' = pinned
        BY <2>1, Zenon DEF Restart, minerVars
      <3> QED BY <2>1, <3>1 DEF Restart
    <2>2. CASE LoadCompletes \/ OperatorMovesWallet \/ UNCHANGED vars
      <3>1. pinned' = pinned
        BY <2>2, Zenon DEF LoadCompletes, OperatorMovesWallet, minerVars, vars
      <3> QED BY <2>2, <3>1 DEF LoadCompletes, OperatorMovesWallet, vars, nodeVars
    <2> QED BY <1>1, <2>1, <2>2 DEF NodeStep
  <1>2. ASSUME NEW p \in Procs, LoadStep(p) PROVE
            /\ deployment' = deployment /\ disturbed' = disturbed
            /\ pinned => pinned'
            /\ ours = "loaded" => ours' = "loaded"
            /\ ours \in {"absent", "loaded"} => ours' \in {"absent", "loaded"}
    <2>1. CASE LoadWallet(p)
      BY <2>1 DEF LoadWallet, Loaded, MustCreate, minerVars
    <2>2. CASE CheckLoaded(p) \/ RecheckLoaded(p)
      BY <2>2 DEF CheckLoaded, RecheckLoaded, Loaded, GiveUp, minerVars, nodeVars
    <2>3. CASE CreateWallet(p)
      BY <2>3 DEF CreateWallet, Loaded, minerVars
    <2>4. CASE PinFundingFeeRate(p)
      BY <2>4 DEF PinFundingFeeRate
    <2> QED BY <1>2, <2>1, <2>2, <2>3, <2>4 DEF LoadStep
  <1>3. CASE ProbeWallet \/ BindProbedWallet \/ AddressForRewards \/ SettleStartupBalance
    <2>1. pinned => pinned'
      BY <1>3 DEF ProbeWallet, BindProbedWallet, AddressForRewards, SettleStartupBalance,
         GiveUp, minerVars
    <2> QED BY <1>3, <2>1 DEF ProbeWallet, BindProbedWallet, AddressForRewards,
            SettleStartupBalance, nodeVars
  <1>4. ASSUME NEW s \in Sends, SendFunds(s) \/ Resend(s) PROVE
            UNCHANGED <<deployment, disturbed, pinned, ours>>
    BY <1>4 DEF SendFunds, Resend, nodeVars, minerVars
  <1>5. Main \in Procs /\ \A s \in Sends : s \in Procs
    BY DEF Procs
  <1> QED BY <1>1, <1>2, <1>3, <1>4, <1>5 DEF Next, BootStep

\* A process moves only by a step of its own.
LEMMA OwnStep ==
  ASSUME TypeOK, [Next]_vars, NEW p \in Procs, pc'[p] # pc[p]
  PROVE  \/ LoadStep(p)
         \/ p = Main /\ BootStep
         \/ p \in Sends /\ (SendFunds(p) \/ Resend(p))
  <1>0. Main \in Procs /\ (\A s \in Sends : s \in Procs) /\ pc \in [Procs -> Phases]
    BY DEF Procs, TypeOK
  <1>1. pc' # pc
    OBVIOUS
  <1>2. ~NodeStep /\ ~UNCHANGED vars
    BY <1>1 DEF NodeStep, Restart, LoadCompletes, OperatorMovesWallet, vars
  <1>3. ASSUME NEW q \in Procs, q # p PROVE ~LoadStep(q)
    BY <1>0, <1>3 DEF LoadStep, LoadWallet, CheckLoaded, CreateWallet, RecheckLoaded,
       PinFundingFeeRate, Loaded, GiveUp, Goto
  <1>4. ASSUME p # Main PROVE ~BootStep
    BY <1>0, <1>1, <1>3, <1>4 DEF BootStep, ProbeWallet, BindProbedWallet,
       AddressForRewards, SettleStartupBalance, StartLoading, GiveUp, Goto
  <1>5. ASSUME NEW s \in Sends, s # p PROVE ~SendFunds(s) /\ ~Resend(s)
    BY <1>0, <1>5 DEF SendFunds, Resend, Refused, StartLoading, Goto
  <1> QED BY <1>0, <1>2, <1>3, <1>4, <1>5 DEF Next

\* Once a send is past its load, the fee rate it came for stays, whoever pins.
LEMMA RateKept ==
  ASSUME TypeOK, [Next]_vars, ~Restart, Named, ~RpcFails, ours = "loaded", pinned,
         feeRate \/ "ours" \in ceilings
  PROVE  feeRate' \/ "ours" \in ceilings'
  <1>1. Answered /\ Answering = "ours"
    BY DEF Answered, Answering
  <1>2. ASSUME NEW p \in Procs, PinFundingFeeRate(p)
        PROVE  feeRate' \/ "ours" \in ceilings'
    <2>1. CASE PinByFeeRate
      BY <2>1 DEF PinByFeeRate
    <2>2. CASE PinBySetTxFee
      BY <1>1, <2>2 DEF PinBySetTxFee, FallbackRate, HasSetTxFee
    <2> QED BY <1>2, <2>1, <2>2 DEF PinFundingFeeRate
  <1>3. CASE UNCHANGED <<feeRate, ceilings>>
    <2>1. feeRate' = feeRate
      BY <1>3, Zenon
    <2> QED BY <1>3, <2>1
  <1>4. CASE NodeStep \/ UNCHANGED vars
    <2>1. feeRate' = feeRate
      BY <1>4, Zenon DEF NodeStep, Restart, LoadCompletes, OperatorMovesWallet, vars, minerVars
    <2>2. "ours" \in ceilings => "ours" \in ceilings'
      BY <1>4 DEF NodeStep, LoadCompletes, OperatorMovesWallet, vars, nodeVars
    <2> QED BY <2>1, <2>2
  <1>5. ASSUME NEW p \in Procs, LoadStep(p) PROVE feeRate' \/ "ours" \in ceilings'
    <2>1. CASE LoadWallet(p) \/ CheckLoaded(p) \/ CreateWallet(p) \/ RecheckLoaded(p)
      <3>1. feeRate' = feeRate
        BY <2>1, Zenon DEF LoadWallet, CheckLoaded, CreateWallet, RecheckLoaded, Loaded,
           GiveUp, minerVars
      <3>2. ceilings' = ceilings
        BY <2>1 DEF LoadWallet, CheckLoaded, CreateWallet, RecheckLoaded, nodeVars
      <3> QED BY <3>1, <3>2
    <2> QED BY <1>2, <1>5, <2>1 DEF LoadStep
  <1>6. CASE ProbeWallet \/ BindProbedWallet \/ AddressForRewards \/ SettleStartupBalance
    <2>1. feeRate' = feeRate
      BY <1>6, Zenon DEF ProbeWallet, BindProbedWallet, AddressForRewards,
         SettleStartupBalance, GiveUp, minerVars
    <2>2. ceilings' = ceilings
      BY <1>6 DEF ProbeWallet, BindProbedWallet, AddressForRewards, SettleStartupBalance,
         nodeVars
    <2> QED BY <2>1, <2>2
  <1>7. ASSUME NEW s \in Sends, SendFunds(s) \/ Resend(s)
        PROVE  feeRate' \/ "ours" \in ceilings'
    <2>1. feeRate' = feeRate
      BY <1>7, Zenon DEF SendFunds, Resend, minerVars
    <2>2. ceilings' = ceilings
      BY <1>7 DEF SendFunds, Resend, nodeVars
    <2> QED BY <2>1, <2>2
  <1>8. Main \in Procs /\ \A s \in Sends : s \in Procs
    BY DEF Procs
  <1> QED BY <1>4, <1>5, <1>6, <1>7, <1>8 DEF Next, BootStep

LEMMA LoadStepInv == WalletInv /\ [Next]_vars => LoadInv'
  <1> SUFFICES ASSUME WalletInv, [Next]_vars, Named', ~RpcFails,
                      NEW p \in Procs \ disturbed'
               PROVE  OnItsWay(p)'
    BY DEF LoadInv
  <1>0. /\ TypeOK /\ pc \in [Procs -> Phases] /\ p \in Procs
        /\ \A s \in Sends : s # Main
    BY ProcsAssumption DEF WalletInv, TypeOK, ProcsAssumption
  <1>1. /\ Named /\ p \notin disturbed
        /\ pinned => pinned'
        /\ Restart \/ (/\ ours = "loaded" => ours' = "loaded"
                       /\ ours \in {"absent", "loaded"} => ours' \in {"absent", "loaded"})
    BY <1>0, WalletKept DEF Named
  <1>2. OnItsWay(p)
    BY <1>1 DEF WalletInv, LoadInv
  <1>3. CASE Restart
    <2>1. pc'[p] = pc[p] /\ pc[p] \in Ends
      BY <1>3 DEF Restart, AtWork
    <2> QED BY <1>2, <2>1 DEF OnItsWay, Ends
  <1>4. CASE pc'[p] = pc[p] /\ ~Restart
    <2>1. ours = "loaded" /\ pinned /\ (feeRate \/ "ours" \in ceilings)
              => feeRate' \/ "ours" \in ceilings'
      BY <1>0, <1>1, <1>4, RateKept
    <2> QED BY <1>1, <1>2, <1>4, <2>1 DEF OnItsWay
  <1>5. ASSUME ~Restart, LoadStep(p) PROVE OnItsWay(p)'
    <2>0. ASSUME Loaded(p), ours' = "loaded" PROVE OnItsWay(p)'
      BY <1>0, <2>0, ProcsAssumption DEF Loaded, Goto, AfterLoad, OnItsWay, Procs,
         ProcsAssumption
    <2>1. CASE LoadWallet(p)
      BY <1>0, <1>1, <2>0, <2>1 DEF LoadWallet, MustCreate, Goto, OnItsWay
    <2>2. CASE CheckLoaded(p)
      BY <1>0, <1>1, <2>0, <2>2 DEF CheckLoaded, ListedLoaded, GiveUp, Goto, OnItsWay,
         nodeVars
    <2>3. CASE CreateWallet(p)
      BY <1>0, <1>1, <1>2, <2>0, <2>3 DEF CreateWallet, Goto, OnItsWay
    <2>4. CASE RecheckLoaded(p)
      BY <1>0, <1>1, <1>2, <2>0, <2>4 DEF RecheckLoaded, RecheckCreated, ListedLoaded,
         ListedUnloaded, OnItsWay, nodeVars
    <2>5. CASE PinFundingFeeRate(p)
      <3>1. CASE p = Main
        BY <1>0, <2>5, <3>1 DEF PinFundingFeeRate, Goto, OnItsWay
      <3>2. CASE p # Main
        <4>1. p \in Sends /\ ours = "loaded" /\ pinned /\ pc'[p] = "resend"
              /\ ours' = ours /\ pinned'
          BY <1>0, <1>1, <1>2, <2>5, <3>2 DEF PinFundingFeeRate, Goto, OnItsWay, Procs
        <4>2. Answered /\ Answering = "ours"
          BY <4>1 DEF Answered, Answering
        <4>3. CASE PinByFeeRate
          BY <4>1, <4>3 DEF PinByFeeRate, OnItsWay
        <4>4. CASE PinBySetTxFee
          <5>1. feeRate' \/ "ours" \in ceilings'
            BY <4>2, <4>4 DEF PinBySetTxFee, FallbackRate, HasSetTxFee
          <5> QED BY <4>1, <5>1 DEF OnItsWay
        <4> QED BY <2>5, <4>3, <4>4 DEF PinFundingFeeRate
      <3> QED BY <3>1, <3>2
    <2> QED BY <1>5, <2>1, <2>2, <2>3, <2>4, <2>5 DEF LoadStep
  <1>6. ASSUME p = Main, ProbeWallet \/ BindProbedWallet \/ AddressForRewards
                         \/ SettleStartupBalance
        PROVE  OnItsWay(p)'
    <2>1. pc'[p] = pc[p] \/ pc'[p] \in {"info", "load", "settle", "failed", "pin"}
      BY <1>0, <1>6 DEF ProbeWallet, BindProbedWallet, AddressForRewards,
         SettleStartupBalance, StartLoading, GiveUp, Goto
    <2>2. pc[p] \notin {"create", "recheck", "resend", "cannotCreate"}
      BY <1>6 DEF ProbeWallet, BindProbedWallet, AddressForRewards, SettleStartupBalance
    <2>3. pc'[p] = "address" => ours' = "loaded" /\ pinned'
      BY <1>0, <1>6, <2>2 DEF ProbeWallet, BindProbedWallet, AddressForRewards,
         SettleStartupBalance, StartLoading, GiveUp, Goto
    <2> QED BY <1>0, <1>6, <2>1, <2>2, <2>3 DEF OnItsWay
  <1>7. ASSUME p \in Sends, SendFunds(p) \/ Resend(p) PROVE OnItsWay(p)'
    BY <1>0, <1>7 DEF SendFunds, Resend, Refused, StartLoading, Goto, OnItsWay
  <1> QED BY <1>0, <1>3, <1>4, <1>5, <1>6, <1>7, OwnStep DEF BootStep

\* What a step does to a call: nothing to what it sent, unless it is its own send.
LEMMA SendStep ==
  ASSUME TypeOK, [Next]_vars, NEW s \in Sends
  PROVE  \/ SendFunds(s) \/ Resend(s)
         \/ /\ sent'[s] = sent[s]
            /\ s \in late' => s \in late
            /\ pc'[s] = "idle" => pc[s] = "idle"
            /\ pc'[s] = "failed" => pc[s] = "failed"
  <1>0. /\ pc \in [Procs -> Phases] /\ s \in Procs /\ s # Main
        /\ sent \in [Sends -> [from : {"none", "ours", "foreign"}, capped : BOOLEAN,
                               retried : BOOLEAN]]
    BY ProcsAssumption DEF TypeOK, Procs, ProcsAssumption
  <1>1. CASE SendFunds(s) \/ Resend(s)
    BY <1>1
  <1>2. CASE ~SendFunds(s) /\ ~Resend(s)
    <2>1. sent'[s] = sent[s] /\ (s \in late' => s \in late)
      <3>1. ASSUME NEW t \in Sends, t # s, SendFunds(t) \/ Resend(t)
            PROVE  sent'[s] = sent[s] /\ (s \in late' => s \in late)
        BY <1>0, <3>1 DEF SendFunds, Resend, Refused, Executes
      <3>2. CASE NodeStep \/ UNCHANGED vars
        BY <3>2 DEF NodeStep, Restart, LoadCompletes, OperatorMovesWallet, vars
      <3>3. ASSUME NEW p \in Procs, LoadStep(p) PROVE UNCHANGED <<sent, late>>
        BY <3>3 DEF LoadStep, LoadWallet, CheckLoaded, CreateWallet, RecheckLoaded,
           PinFundingFeeRate
      <3>4. CASE ProbeWallet \/ BindProbedWallet \/ AddressForRewards
                 \/ SettleStartupBalance
        BY <3>4 DEF ProbeWallet, BindProbedWallet, AddressForRewards, SettleStartupBalance
      <3>5. Main \in Procs /\ \A t \in Sends : t \in Procs
        BY DEF Procs
      <3> QED BY <1>2, <3>1, <3>2, <3>3, <3>4, <3>5 DEF Next, BootStep
    <2>2. pc'[s] = pc[s] \/ LoadStep(s)
      BY <1>0, <1>2, OwnStep
    <2>3. LoadStep(s) => pc'[s] \notin {"idle", "failed"}
      BY <1>0 DEF LoadStep, LoadWallet, CheckLoaded, CreateWallet, RecheckLoaded,
         PinFundingFeeRate, Loaded, GiveUp, Goto, AfterLoad
    <2> QED BY <2>1, <2>2, <2>3
  <1> QED BY <1>1, <1>2

\* A call has sent nothing before it begins, and is late once the wallet is ready.
LEMMA HistoryStep == WalletInv /\ [Next]_vars => HistoryInv'
  <1> SUFFICES ASSUME WalletInv, [Next]_vars PROVE HistoryInv'
    OBVIOUS
  <1>0. /\ TypeOK /\ HistoryInv /\ pc \in [Procs -> Phases]
        /\ \A s \in Sends : s \in Procs /\ s # Main
        /\ late' \subseteq Sends
    BY ProcsAssumption, TypeStep DEF WalletInv, TypeOK, Procs, ProcsAssumption
  <1>1. walletReady => walletReady'
    <2>1. ASSUME NEW p \in Procs, LoadStep(p) PROVE walletReady => walletReady'
      BY <2>1 DEF LoadStep, LoadWallet, CheckLoaded, CreateWallet, RecheckLoaded,
         PinFundingFeeRate, Loaded, GiveUp, minerVars
    <2>2. CASE ~\E p \in Procs : LoadStep(p)
      <3>1. walletReady' = walletReady
        BY <1>0, <2>2, Zenon DEF Next, BootStep, NodeStep, Restart, LoadCompletes,
           OperatorMovesWallet, ProbeWallet, BindProbedWallet, AddressForRewards,
           SettleStartupBalance, SendFunds, Resend, GiveUp, Procs, vars, minerVars
      <3> QED BY <3>1
    <2> QED BY <2>1, <2>2
  <1>2. late' # {} => walletReady'
    <2>1. CASE late' \subseteq late
      BY <1>0, <1>1, <2>1 DEF HistoryInv
    <2>2. CASE \E s \in Sends : SendFunds(s) \/ Resend(s)
      <3>1. late' \subseteq late \/ walletReady
        BY <2>2 DEF SendFunds, Resend
      <3> QED BY <1>1, <2>1, <3>1
    <2>3. CASE ~\E s \in Sends : SendFunds(s) \/ Resend(s)
      BY <1>0, <2>1, <2>3, SendStep
    <2> QED BY <2>2, <2>3
  <1>3. ASSUME NEW s \in Sends, pc'[s] = "idle" PROVE sent'[s] = NotSent /\ s \notin late'
    <2>1. ~SendFunds(s) /\ ~Resend(s)
      BY <1>0, <1>3 DEF SendFunds, Resend, Refused, StartLoading, Goto
    <2> QED BY <1>0, <1>3, <2>1, SendStep DEF HistoryInv
  <1>4. ASSUME ~Named', NEW s \in Sends PROVE ~AtWork(s)'
    <2>1. ~Named /\ ~AtWork(s)
      BY <1>0, <1>4, WalletKept DEF HistoryInv, Named
    <2>2. CASE pc'[s] = pc[s]
      BY <2>1, <2>2 DEF AtWork
    <2>3. ~LoadStep(s)
      BY <2>1 DEF LoadStep, LoadWallet, CheckLoaded, CreateWallet, RecheckLoaded,
         PinFundingFeeRate, AtWork, Ends
    <2>4. SendFunds(s) \/ Resend(s) => ~AtWork(s)'
      BY <1>0, <2>1 DEF SendFunds, Resend, Refused, WalletMissing, Goto, AtWork, Ends
    <2> QED BY <1>0, <2>2, <2>3, <2>4, OwnStep
  <1> QED BY <1>2, <1>3, <1>4 DEF HistoryInv

\* While the operator leaves his wallet alone, only a restart moves it; and once
\* the miner's own is loaded and alone, or pinned, it goes on answering.
LEMMA ForeignKept ==
  ASSUME TypeOK, [Next]_vars, ~Restart, ~ForeignMoves
  PROVE  foreign' = foreign
  <1>1. CASE \E p \in Procs : LoadStep(p)
    BY <1>1 DEF LoadStep, LoadWallet, CheckLoaded, CreateWallet, RecheckLoaded,
       PinFundingFeeRate, nodeVars
  <1>2. CASE ~\E p \in Procs : LoadStep(p)
    BY <1>2, Zenon DEF Next, BootStep, NodeStep, LoadCompletes, OperatorMovesWallet,
       ProbeWallet, BindProbedWallet, AddressForRewards, SettleStartupBalance, SendFunds,
       Resend, Procs, vars, nodeVars
  <1> QED BY <1>1, <1>2

\* A send goes to reload the wallet only when the node misses it by name, which
\* it does not while another's, alone and unnamed, answers in its place.
LEMMA NoSendLoadsKept ==
  ASSUME TypeOK, [Next]_vars, ~Restart, Named, NoSendLoads, Answering # "missing",
         pc[Main] \notin LoadPhases
  PROVE  NoSendLoads' /\ ours' = ours /\ (pinned' = pinned \/ pc[Main] = "info")
  <1>0. /\ pc \in [Procs -> Phases] /\ Main \in Procs
        /\ \A s \in Sends : s \in Procs /\ s # Main
    BY ProcsAssumption DEF TypeOK, Procs, ProcsAssumption
  <1>1. CASE NodeStep \/ UNCHANGED vars
    <2>1. pc' = pc /\ ours' = ours
      BY <1>1 DEF NodeStep, LoadCompletes, OperatorMovesWallet, NoSendLoads, vars, nodeVars
    <2>2. pinned' = pinned
      BY <1>1, Zenon DEF NodeStep, Restart, LoadCompletes, OperatorMovesWallet, vars, minerVars
    <2> QED BY <2>1, <2>2 DEF NoSendLoads
  <1>2. ASSUME NEW p \in Procs, LoadStep(p)
        PROVE  NoSendLoads' /\ ours' = ours /\ pinned' = pinned
    <2>1. PinFundingFeeRate(p)
      BY <1>2 DEF LoadStep, LoadWallet, CheckLoaded, CreateWallet, RecheckLoaded,
         NoSendLoads, LoadPhases, Procs
    <2>2. ours' = ours
      BY <2>1 DEF PinFundingFeeRate
    <2>3. pinned' = pinned
      BY <2>1, Zenon DEF PinFundingFeeRate
    <2>4. \A s \in Sends : pc'[s] = pc[s] \/ pc'[s] = "resend"
      BY <1>0, <2>1 DEF PinFundingFeeRate, Goto
    <2> QED BY <2>2, <2>3, <2>4 DEF NoSendLoads, LoadPhases
  <1>3. CASE ProbeWallet \/ BindProbedWallet \/ AddressForRewards \/ SettleStartupBalance
    <2>1. ours' = ours /\ \A s \in Sends : pc'[s] = pc[s]
      BY <1>0, <1>3 DEF ProbeWallet, BindProbedWallet, AddressForRewards,
         SettleStartupBalance, StartLoading, GiveUp, Goto, nodeVars
    <2>2. pinned' = pinned \/ pc[Main] = "info"
      BY <1>3, Zenon DEF ProbeWallet, BindProbedWallet, AddressForRewards,
         SettleStartupBalance, GiveUp, minerVars
    <2> QED BY <2>1, <2>2 DEF NoSendLoads
  <1>4. ASSUME NEW s \in Sends, SendFunds(s) \/ Resend(s)
        PROVE  NoSendLoads' /\ ours' = ours /\ pinned' = pinned
    <2>1. ours' = ours
      BY <1>4 DEF SendFunds, Resend, nodeVars
    <2>2. pinned' = pinned
      BY <1>4, Zenon DEF SendFunds, Resend, minerVars
    <2>3. \A t \in Sends : pc'[t] = pc[t] \/ pc'[t] \in {"sent", "failed"}
      BY <1>0, <1>4 DEF SendFunds, Resend, Refused, WalletMissing, Goto
    <2> QED BY <2>1, <2>2, <2>3 DEF NoSendLoads, LoadPhases
  <1> QED BY <1>0, <1>1, <1>2, <1>3, <1>4 DEF Next, BootStep

\* The boot finds its way to the miner's own wallet.
LEMMA BootStepInv == WalletInv /\ [Next]_vars => BootInv'
  <1> SUFFICES ASSUME WalletInv, [Next]_vars, Named', Main \notin disturbed', ~RpcFails,
                      ~ForeignMoves
               PROVE  /\ pc'[Main] = "probe" /\ foreign' /\ ~pinned' => NoSendLoads'
                      /\ pc'[Main] = "info" =>
                           \/ probed' = "ours" /\ Answering' = "ours"
                           \/ /\ probed' = "foreign" /\ Answering' = "foreign"
                              /\ NoSendLoads'
                      /\ pc'[Main] \in {"settle", "pin", "ready"} =>
                           rewards' = "ours" /\ pinned'
    BY DEF BootInv
  <1>0. TypeOK /\ pc \in [Procs -> Phases] /\ Main \in Procs
    BY DEF WalletInv, TypeOK, Procs
  <1>1. /\ Named /\ Main \notin disturbed
        /\ pinned => pinned'
        /\ Restart \/ (ours = "loaded" => ours' = "loaded")
    BY <1>0, WalletKept DEF Named
  <1>2. /\ pc[Main] = "probe" /\ foreign /\ ~pinned => NoSendLoads
        /\ pc[Main] = "info" =>
             \/ probed = "ours" /\ Answering = "ours"
             \/ probed = "foreign" /\ Answering = "foreign" /\ NoSendLoads
        /\ pc[Main] \in {"settle", "pin", "ready"} => rewards = "ours" /\ pinned
    BY <1>1 DEF WalletInv, BootInv
  <1>3. CASE Restart
    <2>1. pc'[Main] = pc[Main] /\ pc[Main] \in Ends /\ rewards' = rewards
      BY <1>0, <1>3 DEF Restart, AtWork, minerVars
    <2> QED BY <1>1, <1>2, <2>1 DEF Ends
  <1>4. ASSUME ~Restart PROVE foreign' = foreign
    BY <1>0, <1>4, ForeignKept
  \* The probed wallet and the rewards are the boot's own.
  <1>5. ASSUME ~Restart, pc'[Main] = pc[Main] PROVE probed' = probed /\ rewards' = rewards
    <2>1. CASE \E p \in Procs : LoadStep(p)
      BY <2>1 DEF LoadStep, LoadWallet, CheckLoaded, CreateWallet, RecheckLoaded,
         PinFundingFeeRate, Loaded, GiveUp, minerVars
    <2>2. CASE NodeStep \/ UNCHANGED vars \/ \E s \in Sends : SendFunds(s) \/ Resend(s)
      BY <2>2 DEF NodeStep, Restart, LoadCompletes, OperatorMovesWallet, SendFunds, Resend,
         vars, minerVars
    <2>3. CASE ProbeWallet \/ BindProbedWallet \/ AddressForRewards \/ SettleStartupBalance
      BY <1>0, <1>5, <2>3 DEF ProbeWallet, BindProbedWallet, AddressForRewards,
         SettleStartupBalance, StartLoading, GiveUp, Goto, minerVars
    <2>4. Main \in Procs /\ \A s \in Sends : s \in Procs
      BY DEF Procs
    <2> QED BY <2>1, <2>2, <2>3, <2>4 DEF Next, BootStep
  <1>6. CASE ~Restart /\ pc'[Main] = pc[Main]
    <2>1. CASE pc[Main] = "probe"
      <3>1. ASSUME foreign', ~pinned' PROVE NoSendLoads'
        <4>1. foreign /\ ~pinned
          BY <1>1, <1>4, <1>6, <3>1
        <4>2. Answering # "missing"
          BY <4>1 DEF Answering
        <4> QED BY <1>0, <1>1, <1>2, <1>6, <2>1, <4>1, <4>2, NoSendLoadsKept DEF LoadPhases
      <3> QED BY <1>6, <2>1, <3>1
    <2>2. CASE pc[Main] = "info"
      <3>1. CASE probed = "ours" /\ Answering = "ours"
        <4>1. ours = "loaded" /\ (pinned \/ ~foreign)
          BY <3>1 DEF Answering
        <4>2. Answering' = "ours"
          BY <1>1, <1>4, <1>6, <4>1 DEF Answering
        <4> QED BY <1>5, <1>6, <2>2, <3>1, <4>2
      <3>2. CASE probed = "foreign" /\ Answering = "foreign" /\ NoSendLoads
        <4>1. ours # "loaded" /\ ~pinned /\ foreign
          BY <3>2 DEF Answering
        <4>2. NoSendLoads' /\ ours' = ours
          BY <1>0, <1>1, <1>6, <2>2, <3>2, NoSendLoadsKept DEF LoadPhases
        <4>3. pinned' = pinned
          <5>1. ~BootStep
            BY <1>0, <1>6, <2>2 DEF BootStep, ProbeWallet, BindProbedWallet, AddressForRewards,
               SettleStartupBalance, LoadStep, LoadWallet, CheckLoaded, CreateWallet,
               RecheckLoaded, PinFundingFeeRate, StartLoading, Goto
          <5>2. ASSUME NEW s \in Sends, LoadStep(s) PROVE pinned' = pinned
            <6>1. PinFundingFeeRate(s)
              BY <3>2, <5>2 DEF LoadStep, LoadWallet, CheckLoaded, CreateWallet,
                 RecheckLoaded, NoSendLoads, LoadPhases
            <6> QED BY <6>1, Zenon DEF PinFundingFeeRate
          <5>3. CASE NodeStep \/ UNCHANGED vars \/ \E s \in Sends : SendFunds(s) \/ Resend(s)
            BY <5>3, Zenon DEF NodeStep, Restart, LoadCompletes, OperatorMovesWallet,
               SendFunds, Resend, vars, minerVars
          <5> QED BY <5>1, <5>2, <5>3 DEF Next
        <4>4. Answering' = "foreign"
          BY <1>4, <1>6, <4>1, <4>2, <4>3 DEF Answering
        <4> QED BY <1>5, <1>6, <2>2, <3>2, <4>2, <4>4
      <3> QED BY <1>2, <2>2, <3>1, <3>2
    <2>3. CASE pc[Main] \notin {"probe", "info"}
      BY <1>1, <1>2, <1>5, <1>6, <2>3
    <2> QED BY <2>1, <2>2, <2>3
  <1>7. CASE ~Restart /\ ProbeWallet /\ pc'[Main] # pc[Main]
    <2>1. pc'[Main] \in {"info", "load"} /\ pc[Main] = "probe"
      BY <1>0, <1>7 DEF ProbeWallet, StartLoading, Goto
    <2>2. CASE pc'[Main] = "info"
      <3>1. Answered /\ probed' = Answering
        BY <1>0, <1>7, <2>2 DEF ProbeWallet, StartLoading, Goto
      <3>2. ours' = ours /\ \A s \in Sends : pc'[s] = pc[s]
        <4>1. \A s \in Sends : s # Main /\ s \in Procs
          BY ProcsAssumption DEF Procs, ProcsAssumption
        <4>2. pc' = [pc EXCEPT ![Main] = "info"]
          BY <1>0, <1>7, <2>2 DEF ProbeWallet, StartLoading, Goto
        <4>3. ours' = ours
          BY <1>7 DEF ProbeWallet, nodeVars
        <4> QED BY <1>0, <4>1, <4>2, <4>3
      <3>3. pinned' = pinned
        BY <1>7, Zenon DEF ProbeWallet, minerVars
      <3>4. Answering' = Answering /\ (NoSendLoads => NoSendLoads')
        BY <1>4, <1>7, <3>2, <3>3 DEF Answering, NoSendLoads
      <3>5. Answering = "foreign" => NoSendLoads
        BY <1>2, <2>1 DEF Answering
      <3> QED BY <2>2, <3>1, <3>4, <3>5 DEF Answered
    <2> QED BY <2>1, <2>2
  <1>8. CASE ~Restart /\ BindProbedWallet
    <2>1. pc[Main] = "info" /\ pc'[Main] \in {"settle", "load"}
      BY <1>0, <1>8 DEF BindProbedWallet, StartLoading, Goto
    <2>2. CASE pc'[Main] = "settle"
      <3>1. ~SwapsForeign \/ Answering = "ours"
        BY <1>0, <1>8, <2>2, <1>1 DEF BindProbedWallet, StartLoading, StaysOnBaseURL,
           SwapsForeign, Answered, Goto
      <3>2. probed = "ours" /\ Answering = "ours"
        BY <1>1, <1>2, <2>1, <3>1 DEF SwapsForeign
      <3>3. rewards' = "ours" /\ pinned'
        BY <1>0, <1>1, <1>8, <2>2, <3>2 DEF BindProbedWallet, StartLoading, StaysOnBaseURL,
           SwapsForeign, Answered, Goto
      <3> QED BY <2>2, <3>3
    <2> QED BY <2>1, <2>2
  <1>9. CASE ~Restart /\ AddressForRewards
    <2>1. ours = "loaded" /\ pinned
      BY <1>0, <1>1, <1>9 DEF AddressForRewards, WalletInv, LoadInv, OnItsWay
    <2>2. Answering = "ours"
      BY <2>1 DEF Answering
    <2> QED BY <1>0, <1>1, <1>9, <2>1, <2>2 DEF AddressForRewards, GiveUp, Goto
  <1>10. CASE ~Restart /\ SettleStartupBalance
    <2>1. rewards' = rewards /\ pc[Main] = "settle" /\ pc'[Main] \in {"pin", "failed"}
      BY <1>0, <1>10 DEF SettleStartupBalance, Goto, minerVars
    <2> QED BY <1>1, <1>2, <2>1
  <1>11. CASE ~Restart /\ LoadStep(Main)
    <2>1. CASE PinFundingFeeRate(Main)
      <3>1. rewards' = rewards /\ pc[Main] = "pin" /\ pc'[Main] = "ready"
        BY <1>0, <2>1 DEF PinFundingFeeRate, Goto
      <3> QED BY <1>1, <1>2, <3>1
    <2>2. CASE ~PinFundingFeeRate(Main)
      <3>1. pc'[Main] \in LoadPhases \cup {"address", "gaveUp", "cannotCreate"}
        BY <1>0, <1>11, <2>2 DEF LoadStep, LoadWallet, CheckLoaded, CreateWallet,
           RecheckLoaded, Loaded, GiveUp, Goto, AfterLoad, LoadPhases
      <3> QED BY <3>1 DEF LoadPhases
    <2> QED BY <2>1, <2>2
  <1> QED BY <1>0, <1>3, <1>6, <1>7, <1>8, <1>9, <1>10, <1>11, OwnStep, ProcsAssumption
          DEF BootStep, ProcsAssumption

-----------------------------------------------------------------------------
(* How a process moves from RPC to RPC, and what its attempts then are.    *)

\* A move of p from one phase to another.
Move(p, froms, tos) == pc[p] \in froms /\ \E to \in tos : pc' = [pc EXCEPT ![p] = to]

Onwards(p) ==
    /\ tries' = tries
    /\ \/ Move(p, {"load"}, {"address", "pin", "create", "check"})
       \/ Move(p, {"check"}, {"address", "pin", "gaveUp"})
       \/ Move(p, {"create"}, {"address", "pin", "recheck"})
       \/ Move(p, {"recheck"}, {"address", "pin", "cannotCreate"})
       \/ Move(p, {"pin"}, {"ready", "resend"})
       \/ Move(p, {"probe"}, {"info"}) \/ Move(p, {"info"}, {"settle"})
       \/ Move(p, {"address"}, {"settle", "failed"})
       \/ Move(p, {"settle"}, {"pin", "failed"})
       \/ Move(p, {"idle", "resend"}, {"sent", "failed"})

Again(p) ==
    /\ tries' = [tries EXCEPT ![p] = tries[p] + 1]
    /\ \/ Move(p, {"check"}, {"load"}) /\ tries[p] + 1 < LoadAttempts
       \/ pc[p] = "probe" /\ pc' = pc /\ tries[p] + 1 < ProbeAttempts

Begins(p) ==
    /\ tries' = [tries EXCEPT ![p] = 0]
    /\ Move(p, {"probe", "info", "idle"}, {"load"})

LEMMA NextMoves ==
  ASSUME [Next]_vars
  PROVE  UNCHANGED <<pc, tries>> \/ \E p \in Procs : Onwards(p) \/ Again(p) \/ Begins(p)
  <1>0. Main \in Procs /\ \A s \in Sends : s \in Procs
    BY DEF Procs
  <1> USE DEF Onwards, Again, Begins, Move, Goto
  <1>1. CASE NodeStep \/ UNCHANGED vars
    BY <1>1 DEF NodeStep, Restart, LoadCompletes, OperatorMovesWallet, vars
  <1>2. ASSUME NEW p \in Procs, LoadStep(p) PROVE Onwards(p) \/ Again(p)
    <2>1. CASE LoadWallet(p)
      BY <2>1 DEF LoadWallet, Loaded, AfterLoad
    <2>2. CASE CheckLoaded(p)
      BY <2>2 DEF CheckLoaded, Loaded, AfterLoad, GiveUp, RetriesLeft, NextTry
    <2>3. CASE CreateWallet(p)
      BY <2>3 DEF CreateWallet, Loaded, AfterLoad
    <2>4. CASE RecheckLoaded(p)
      BY <2>4 DEF RecheckLoaded, Loaded, AfterLoad, GiveUp
    <2>5. CASE PinFundingFeeRate(p)
      BY <2>5 DEF PinFundingFeeRate
    <2> QED BY <1>2, <2>1, <2>2, <2>3, <2>4, <2>5 DEF LoadStep
  <1>3. CASE ProbeWallet
    BY <1>0, <1>3 DEF ProbeWallet, StartLoading
  <1>4. CASE BindProbedWallet
    BY <1>0, <1>4 DEF BindProbedWallet, StartLoading
  <1>5. CASE AddressForRewards \/ SettleStartupBalance
    BY <1>0, <1>5 DEF AddressForRewards, SettleStartupBalance, GiveUp
  <1>6. ASSUME NEW s \in Sends, SendFunds(s) \/ Resend(s)
        PROVE  \E p \in Procs : Onwards(p) \/ Again(p) \/ Begins(p)
    <2>1. CASE SendFunds(s)
      BY <1>0, <2>1 DEF SendFunds, Refused, StartLoading
    <2>2. CASE Resend(s)
      BY <1>0, <2>2 DEF Resend, Refused
    <2> QED BY <1>6, <2>1, <2>2
  <1> QED BY <1>0, <1>1, <1>2, <1>3, <1>4, <1>5, <1>6 DEF Next, BootStep

\* The attempts of each loop stay under its bound.
LEMMA TriesStep == TypeOK /\ TriesInv /\ [Next]_vars => TriesInv'
  <1> SUFFICES ASSUME TypeOK, TriesInv, [Next]_vars PROVE TriesInv'
    OBVIOUS
  <1> USE DEF TriesInv, Move
  <1>0. /\ pc \in [Procs -> Phases] /\ tries \in [Procs -> Nat]
        /\ LoadAttempts \in Nat \ {0}
    BY AttemptsAssumption DEF TypeOK, AttemptsAssumption
  <1>1. CASE UNCHANGED <<pc, tries>>
    BY <1>1
  <1>2. ASSUME NEW p \in Procs, Onwards(p) PROVE TriesInv'
    BY <1>0, <1>2 DEF Onwards
  <1>3. ASSUME NEW p \in Procs, Again(p) PROVE TriesInv'
    BY <1>0, <1>3 DEF Again
  <1>4. ASSUME NEW p \in Procs, Begins(p) PROVE TriesInv'
    BY <1>0, <1>4 DEF Begins
  <1> QED BY <1>1, <1>2, <1>3, <1>4, NextMoves

\* And so do its steps.
LEMMA StepsLeftFall ==
  ASSUME TypeOK, TriesInv, [Next]_vars, NEW p \in Procs
  PROVE  \/ UNCHANGED <<pc[p], tries[p]>>
         \/ StepsLeft(p)' \in 0 .. StepsLeft(p) - 1
  <1>0. /\ pc \in [Procs -> Phases] /\ tries \in [Procs -> Nat]
        /\ LoadAttempts \in Nat \ {0} /\ ProbeAttempts \in Nat \ {0}
        /\ tries[p] \in Nat
    BY AttemptsAssumption DEF TypeOK, AttemptsAssumption
  <1>1. CASE UNCHANGED <<pc, tries>>
    BY <1>1
  <1>2. ASSUME NEW q \in Procs, q # p, Onwards(q) \/ Again(q) \/ Begins(q)
        PROVE  UNCHANGED <<pc[p], tries[p]>>
    BY <1>0, <1>2 DEF Onwards, Again, Begins, Move
  <1>3. CASE Onwards(p)
    <2>1. tries'[p] = tries[p] /\ pc[p] \in Phases
      BY <1>0, <1>3 DEF Onwards
    <2>2. CASE pc[p] = "load"
      BY <1>0, <1>3, <2>1, <2>2 DEF Onwards, Move, StepsLeft, TriesInv
    <2>3. CASE pc[p] = "check"
      BY <1>0, <1>3, <2>1, <2>3 DEF Onwards, Move, StepsLeft, TriesInv
    <2>4. CASE pc[p] = "probe"
      BY <1>0, <1>3, <2>1, <2>4 DEF Onwards, Move, StepsLeft, TriesInv
    <2>5. CASE pc[p] \notin {"load", "check", "probe"}
      BY <1>0, <1>3, <2>1, <2>5 DEF Onwards, Move, StepsLeft
    <2> QED BY <2>2, <2>3, <2>4, <2>5
  <1>4. CASE Again(p)
    BY <1>0, <1>4 DEF Again, Move, StepsLeft, TriesInv
  <1>5. CASE Begins(p)
    BY <1>0, <1>5 DEF Begins, Move, StepsLeft, TriesInv
  <1> QED BY <1>1, <1>2, <1>3, <1>4, <1>5, NextMoves

\* WalletInv holds throughout every run, with any sends and any bounds.
THEOREM WalletInvariant == Spec => []WalletInv
  <1>1. WalletInv /\ [Next]_vars => WalletInv'
    BY TypeStep, TriesStep, RateStep, LoadStepInv, BootStepInv, HistoryStep DEF WalletInv
  <1> QED BY WalletInit, <1>1, PTL DEF Spec

-----------------------------------------------------------------------------
(* What was promised.                                                      *)

\* The wallet state keeps its types.
THEOREM WalletTypeCorrect == Spec => []TypeOK
  <1>1. WalletInv => TypeOK
    BY DEF WalletInv
  <1> QED BY <1>1, WalletInvariant, PTL

\* The boot and every send have boundedly many steps ahead of them, whatever the
\* node and the others do meanwhile (probeWalletAddress, loadWalletOnce,
\* sendFundsToAddress).
THEOREM EveryoneRunsOut == Spec => StepsRunOut
  <1>1. WalletInv /\ [Next]_vars =>
          [\A p \in Procs : \/ UNCHANGED <<pc[p], tries[p]>>
                            \/ StepsLeft(p)' \in 0 .. StepsLeft(p) - 1]_vars
    BY StepsLeftFall DEF WalletInv
  <1> QED BY <1>1, WalletInvariant, PTL DEF Spec, StepsRunOut

\* createwallet is final only for a process a restart came in between of: the
\* losers of a race to load or create find the wallet the winner left
\* (createMissingWallet, loadWalletOnce).
THEOREM WalletCreatedOnce == Spec => []NoCreateClash
  <1>1. WalletInv => NoCreateClash
    BY DEF WalletInv, LoadInv, OnItsWay, NoCreateClash
  <1> QED BY <1>1, WalletInvariant, PTL

\* A send executed once the boot is done carries the rate, and comes from the
\* miner's own wallet if the boot was not disturbed.
LEMMA LateSend ==
  ASSUME WalletInv, walletReady, NEW s \in Sends, NodeSends, Executes(s)
  PROVE  /\ HasFeeRate => sent'[s].capped
         /\ Named /\ Main \notin disturbed /\ ~RpcFails /\ ~ForeignMoves
              => sent'[s].from = "ours"
  <1>1. sent'[s] = [from |-> Answering, capped |-> feeRate \/ Answering \in ceilings,
                    retried |-> pc[s] = "resend"]
    BY DEF Executes, WalletInv, TypeOK
  <1>2. HasFeeRate => feeRate
    BY DEF WalletInv, RateInv
  <1>3. ASSUME Named, Main \notin disturbed, ~RpcFails, ~ForeignMoves
        PROVE  Answering = "ours"
    <2>1. pc[Main] = "ready"
      BY DEF WalletInv, RateInv
    <2>2. pinned
      BY <1>3, <2>1 DEF WalletInv, BootInv
    <2> QED BY <2>2 DEF NodeSends, Answered, Answering
  <1>4. sent'[s].capped = (feeRate \/ Answering \in ceilings)
    BY <1>1
  <1>5. HasFeeRate => sent'[s].capped
    BY <1>2, <1>4, Zenon
  <1> QED BY <1>1, <1>3, <1>5

\* Where the node takes a rate with each send, none goes out without the ceiling
\* once the wallet is ready, whatever is lost or restarted (pinFundingFeeRate,
\* buildSendToAddressData).
THEOREM EverySendCapped == Spec => []PerCallCeiling
  <1>1. Init => PerCallCeiling
    BY DEF Init, PerCallCeiling, CeilingKept
  <1>2. WalletInv /\ PerCallCeiling /\ [Next]_vars => PerCallCeiling'
    <2> SUFFICES ASSUME WalletInv, PerCallCeiling, [Next]_vars, HasFeeRate',
                        NEW s \in Sends, s \in late', sent'[s] # NotSent
                 PROVE  sent'[s].capped
      BY TypeStep DEF PerCallCeiling, CeilingKept, NotSent, WalletInv, TypeOK
    <2>0. TypeOK /\ HistoryInv /\ HasFeeRate
      BY WalletKept DEF WalletInv, HasFeeRate
    <2>1. CASE SendFunds(s)
      <3>1. walletReady
        BY <2>0, <2>1 DEF SendFunds, HistoryInv
      <3>2. NodeSends /\ Executes(s)
        BY <2>0, <2>1 DEF SendFunds, HistoryInv
      <3> QED BY <2>0, <3>1, <3>2, LateSend
    <2>2. CASE Resend(s)
      <3>1. walletReady
        BY <2>0, <2>2 DEF Resend, HistoryInv
      <3>2. (NodeSends /\ Executes(s)) \/ (sent' = sent /\ s \in late)
        BY <2>2 DEF Resend
      <3> QED BY <2>0, <3>1, <3>2, LateSend DEF PerCallCeiling, CeilingKept
    <2>3. CASE sent'[s] = sent[s] /\ s \in late
      BY <2>0, <2>3 DEF PerCallCeiling, CeilingKept
    <2> QED BY <2>0, <2>1, <2>2, <2>3, SendStep
  <1> QED BY <1>1, <1>2, WalletInvariant, PTL DEF Spec

\* A boot no restart disturbed ends on the miner's own wallet: rewards go to it,
\* and every send that begins afterwards spends from it (bindProbedWallet).
THEOREM BootEndsOnOwnWallet == Spec => []OwnWallet
  <1>1. Init => OwnWallet
    BY DEF Init, OwnWallet
  <1>2. WalletInv /\ OwnWallet /\ [Next]_vars => OwnWallet'
    <2> SUFFICES ASSUME WalletInv, OwnWallet, [Next]_vars, walletReady', Named',
                        Main \notin disturbed', ~RpcFails, ~ForeignMoves
                 PROVE  /\ rewards' = "ours"
                        /\ \A s \in late' : sent'[s] # NotSent => sent'[s].from = "ours"
      BY DEF OwnWallet, NotSent
    <2>0. /\ TypeOK /\ HistoryInv /\ Named /\ Main \notin disturbed
          /\ late' \subseteq Sends
      BY WalletKept, TypeStep DEF WalletInv, Named, TypeOK
    <2>1. rewards' = "ours"
      BY RateStep, BootStepInv DEF RateInv, BootInv
    <2>2. ASSUME NEW s \in Sends, s \in late', sent'[s] # NotSent
          PROVE  sent'[s].from = "ours"
      <3>1. CASE SendFunds(s)
        <4>1. walletReady /\ NodeSends /\ Executes(s)
          BY <2>0, <2>2, <3>1 DEF SendFunds, HistoryInv
        <4> QED BY <2>0, <4>1, LateSend
      <3>2. CASE Resend(s)
        <4>1. walletReady /\ s \in late
          BY <2>0, <2>2, <3>2 DEF Resend, HistoryInv
        <4>2. (NodeSends /\ Executes(s)) \/ sent' = sent
          BY <3>2 DEF Resend
        <4> QED BY <2>0, <2>2, <4>1, <4>2, LateSend DEF OwnWallet
      <3>3. CASE sent'[s] = sent[s] /\ s \in late
        <4>1. walletReady
          BY <2>0, <3>3 DEF HistoryInv
        <4> QED BY <2>0, <2>2, <3>3, <4>1 DEF OwnWallet
      <3> QED BY <2>0, <2>2, <3>1, <3>2, <3>3, SendStep
    <2> QED BY <2>0, <2>1, <2>2
  <1> QED BY <1>1, <1>2, WalletInvariant, PTL DEF Spec

\* A send that reloaded the wallet brought the ceiling back with it
\* (sendFundsToAddress, the re-pin).
THEOREM HealedSendsCapped == Spec => []RetriedSendsCapped
  <1>1. Init => RetriedSendsCapped
    BY DEF Init, RetriedSendsCapped, NotSent
  <1>2. WalletInv /\ RetriedSendsCapped /\ [Next]_vars => RetriedSendsCapped'
    <2> SUFFICES ASSUME WalletInv, RetriedSendsCapped, [Next]_vars, ~RpcFails,
                        NEW s \in Sends, s \notin disturbed', sent'[s] # NotSent,
                        sent'[s].retried
                 PROVE  sent'[s].capped
      BY DEF RetriedSendsCapped, NotSent
    <2>0. TypeOK /\ HistoryInv /\ s \notin disturbed /\ s \in Procs
      BY WalletKept DEF WalletInv, Procs
    <2>1. CASE SendFunds(s)
      <3>1. CASE Executes(s)
        <4>1. sent'[s].retried = (pc[s] = "resend")
          BY <3>1, <2>0 DEF Executes, TypeOK
        <4>2. ~sent'[s].retried
          BY <2>1, <4>1 DEF SendFunds
        <4> QED BY <4>2
      <3>2. CASE sent' = sent
        BY <2>0, <2>1, <3>2 DEF SendFunds, HistoryInv
      <3> QED BY <2>1, <3>1, <3>2 DEF SendFunds
    <2>2. CASE Resend(s)
      <3>1. CASE NodeSends /\ Executes(s)
        <4>1. Named /\ pc[s] = "resend"
          BY <2>0, <2>2 DEF Resend, HistoryInv, AtWork, Ends
        <4>2. ours = "loaded" /\ pinned /\ (feeRate \/ "ours" \in ceilings)
          BY <2>0, <4>1 DEF WalletInv, LoadInv, OnItsWay
        <4>3. feeRate \/ Answering \in ceilings
          BY <4>2 DEF Answering
        <4>4. sent'[s].capped = (feeRate \/ Answering \in ceilings)
          BY <2>0, <3>1 DEF Executes, TypeOK
        <4> QED BY <4>3, <4>4, Zenon
      <3>2. CASE sent' = sent
        BY <2>0, <3>2 DEF RetriedSendsCapped
      <3> QED BY <2>2, <3>1, <3>2 DEF Resend
    <2>3. CASE sent'[s] = sent[s]
      BY <2>0, <2>3 DEF RetriedSendsCapped
    <2> QED BY <2>0, <2>1, <2>2, <2>3, SendStep
  <1> QED BY <1>1, <1>2, WalletInvariant, PTL DEF Spec

\* A node restart is healed by the next send, where NETWORK names the coin of a
\* daemon without a rate per call (sendFundsToAddress, sendError).
THEOREM NextSendHeals ==
  ASSUME CoinsNamed
  PROVE  Spec => []SendHeals
  <1>1. Init => SendHeals
    BY DEF Init, SendHeals
  <1>2. WalletInv /\ SendHeals /\ [Next]_vars => SendHeals'
    <2> SUFFICES ASSUME WalletInv, SendHeals, [Next]_vars, Named',
                        Main \notin disturbed', ~RpcFails, ~ForeignMoves,
                        NEW s \in Sends, s \in late', s \notin disturbed'
                 PROVE  pc'[s] \notin {"failed", "cannotCreate"}
      BY TypeStep DEF SendHeals, WalletInv, TypeOK
    <2>0. /\ TypeOK /\ HistoryInv /\ Named /\ s \in Procs /\ pc \in [Procs -> Phases]
          /\ Main \notin disturbed /\ s \notin disturbed /\ TakesRate
      BY WalletKept DEF WalletInv, Named, Procs, TypeOK, RateInv
    <2>1. pc'[s] # "cannotCreate"
      BY <2>0, LoadStepInv, WalletKept DEF LoadInv, OnItsWay, Named
    <2>2. CASE SendFunds(s)
      <3>1. walletReady
        BY <2>0, <2>2 DEF SendFunds, HistoryInv
      <3>2. pinned
        <4>1. pc[Main] = "ready"
          BY <3>1 DEF WalletInv, RateInv
        <4> QED BY <2>0, <4>1 DEF WalletInv, BootInv
      <3>3. Answering = "ours" \/ Answering = "missing"
        BY <3>2 DEF Answering
      <3>4. NodeSends \/ WalletMissing
        BY <2>0, <3>3 DEF NodeSends, Answered, WalletMissing
      <3> QED BY <2>0, <2>2, <3>4 DEF SendFunds, Refused, StartLoading, Goto
    <2>3. CASE Resend(s)
      <3>1. ours = "loaded" /\ pinned
        BY <2>0, <2>3 DEF Resend, WalletInv, LoadInv, OnItsWay
      <3>2. NodeSends /\ ~WalletMissing
        BY <2>0, <3>1 DEF NodeSends, Answered, Answering, WalletMissing
      <3> QED BY <2>0, <2>3, <3>2 DEF Resend, Refused, Goto
    <2>4. CASE s \in late /\ (pc'[s] = "failed" => pc[s] = "failed")
      BY <2>0, <2>1, <2>4 DEF SendHeals
    <2> QED BY <2>0, <2>1, <2>2, <2>3, <2>4, SendStep
  <1> QED BY <1>1, <1>2, WalletInvariant, PTL DEF Spec

=============================================================================
