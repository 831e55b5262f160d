---------------------------- MODULE WalletFunding ----------------------------
(***************************************************************************)
(* The miner's wallet on the node: how prepareWallet finds, loads, creates *)
(* and pins it, how a funding send finds it gone after a node restart and  *)
(* brings it back, and what keeps the fee of a send under its ceiling.     *)
(*                                                                         *)
(* The API listens while the wallet is being prepared, so sends, of        *)
(* send_funds and of a fill, run beside start() and beside each other, and *)
(* the node may be restarted at any await.  One RPC, with the continuation *)
(* its reply runs, is one action: the continuations only touch the         *)
(* connector's wallet name and the fee rate, which no reply depends on.    *)
(***************************************************************************)
EXTENDS Naturals

CONSTANTS
    Sends,          \* calls of sendFundsToAddress, each at most once
    Main,           \* start(), in prepareWallet
    Deployments,    \* the nodes and NETWORK settings the miner may run with
    ProbeAttempts,  \* PROBE_MAX_ATTEMPTS
    LoadAttempts,   \* WALLET_LOAD_MAX_ATTEMPTS
    Restarts,       \* the node may be restarted
    RpcFails,       \* an RPC may fail, or its reply be lost, for no such reason
    ForeignMoves    \* the operator's own wallet is loaded and unloaded at will

ASSUME ProcsAssumption == Main \notin Sends
ASSUME AttemptsAssumption == {ProbeAttempts, LoadAttempts} \subseteq Nat \ {0}
ASSUME SwitchAssumption == {Restarts, RpcFails, ForeignMoves} \subseteq BOOLEAN

\* Bitcoin Core 31 has fee_rate and no settxfee, Litecoin 0.21 the reverse;
\* Dogecoin 1.14 has one wallet, which it loads itself.  NETWORK names the coin
\* or only says regtest.
Daemons == {"core", "ltc", "doge"}
ASSUME DeploymentsAssumption ==
    Deployments \subseteq [daemon : Daemons, coinKnown : BOOLEAN]

Procs == Sends \cup {Main}

VARIABLES
    deployment,  \* the node and the NETWORK setting, fixed at the start
    ours,        \* the miner's wallet on the node
    foreign,     \* the operator's own wallet is loaded on the node
    ceilings,    \* the loaded wallets a settxfee is in force on
    pinned,      \* the connector's walletName is set
    feeRate,     \* fundingFeeRateSatPerVb is set
    probed,      \* the wallet that answered the probe
    rewards,     \* the wallet that owns walletAddress
    walletReady, \* prepareWallet is done
    pc,          \* the RPC a process is parked on, or how it ended
    tries,       \* attempts of the probe, or of the load, so far
    sent,        \* history: what the node sent for a call
    late,        \* history: the calls begun once the wallet was ready
    disturbed    \* history: the processes a node restart found at work

nodeVars  == <<ours, foreign, ceilings>>
minerVars == <<pinned, feeRate, probed, rewards, walletReady>>
vars == <<deployment, nodeVars, minerVars, pc, tries, sent, late, disturbed>>

Named       == deployment.daemon # "doge"
HasSetTxFee == deployment.daemon # "core"
HasFeeRate  == deployment.daemon = "core"

LoadPhases == {"load", "check", "create", "recheck"}
BootPhases == {"probe", "info", "address", "settle"}
Ends == {"idle", "ready", "sent", "failed", "gaveUp", "cannotCreate"}
Phases == LoadPhases \cup BootPhases \cup {"pin", "resend"} \cup Ends

AtWork(p) == pc[p] \notin Ends
Goto(p, phase) == pc' = [pc EXCEPT ![p] = phase]

\* startMinerDetached exits the process when the boot fails.
Alive == pc[Main] \notin {"failed", "gaveUp", "cannotCreate"}

-----------------------------------------------------------------------------
(* The node.                                                               *)

\* Who answers a wallet RPC: the wallet named in the URL or, on the base URL,
\* the only one loaded.
Answering ==
    CASE ours = "loaded" /\ (pinned \/ ~foreign) -> "ours"
      [] ~pinned /\ foreign /\ ours = "loaded"   -> "ambiguous"
      [] ~pinned /\ foreign /\ ours # "loaded"   -> "foreign"
      [] OTHER                                   -> "missing"

Answered == Answering \in {"ours", "foreign"}

Restart ==
    /\ Restarts
    /\ ours' = IF ours = "absent" THEN "absent" ELSE "unloaded"
    /\ foreign' \in {foreign, FALSE}
    /\ ceilings' = {}
    /\ disturbed' = disturbed \cup {p \in Procs : AtWork(p)}
    /\ UNCHANGED <<deployment, minerVars, pc, tries, sent, late>>

\* A load somebody asked for ends; Dogecoin's starts by itself.
LoadCompletes ==
    /\ ours = "loading" \/ (ours = "unloaded" /\ ~Named)
    /\ ours' = "loaded"
    /\ UNCHANGED <<deployment, foreign, ceilings, minerVars, pc, tries, sent,
                   late, disturbed>>

OperatorMovesWallet ==
    /\ ForeignMoves /\ Named
    /\ foreign' = ~foreign
    /\ ceilings' = ceilings \ {"foreign"}
    /\ UNCHANGED <<deployment, ours, minerVars, pc, tries, sent, late, disturbed>>

-----------------------------------------------------------------------------
(* ensureWalletLoaded, for the boot and for a send.                        *)

\* loadWalletOnce resolved true: the wallet is pinned by name.
AfterLoad_NoPin(p) == IF p = Main THEN "address" ELSE "resend"
AfterLoad(p) == IF p = Main THEN "address" ELSE "pin"

Loaded(p) ==
    /\ pinned' = TRUE
    /\ Goto(p, AfterLoad(p))
    /\ UNCHANGED <<feeRate, probed, rewards, walletReady>>

MustCreate_OnAnyError == ours # "loaded"
MustCreate == ours = "absent" \/ ~Named

\* loadwallet: it may answer in time, or go on loading past the timeout.
LoadWallet(p) ==
    /\ pc[p] = "load"
    /\ \/ ours \in {"unloaded", "loaded"} /\ Named /\ ours' = "loaded" /\ Loaded(p)
       \/ MustCreate /\ Goto(p, "create") /\ UNCHANGED <<ours, minerVars>>
       \/ /\ ours = "loading" \/ (ours = "unloaded" /\ Named)
          /\ ours' = "loading"
          /\ Goto(p, "check")
          /\ UNCHANGED minerVars
       \/ RpcFails /\ Goto(p, "check") /\ UNCHANGED <<ours, minerVars>>
    /\ UNCHANGED <<deployment, foreign, ceilings, tries, sent, late, disturbed>>

GiveUp(p, end) == Goto(p, end) /\ UNCHANGED minerVars

\* isWalletAlreadyLoaded: a listwallets, false when it cannot say.
ListedLoaded   == ours = "loaded" /\ Named
ListedUnloaded == ours # "loaded" \/ ~Named \/ RpcFails

RetriesLeft(p) == tries[p] + 1 < LoadAttempts

NextTry_Same(p) == tries[p]
NextTry(p) == tries[p] + 1

CheckLoaded(p) ==
    /\ pc[p] = "check"
    /\ \/ ListedLoaded /\ Loaded(p) /\ UNCHANGED tries
       \/ /\ ListedUnloaded
          /\ RetriesLeft(p)
          /\ tries' = [tries EXCEPT ![p] = NextTry(p)]
          /\ Goto(p, "load")
          /\ UNCHANGED minerVars
       \/ ListedUnloaded /\ ~RetriesLeft(p) /\ GiveUp(p, "gaveUp") /\ UNCHANGED tries
    /\ UNCHANGED <<deployment, nodeVars, sent, late, disturbed>>

\* createwallet, with its own retries: "Database already exists" and an unknown
\* method are final, and a reply lost is followed by the former.
CreateWallet(p) ==
    /\ pc[p] = "create"
    /\ \/ ours = "absent" /\ ours' = "loaded" /\ Loaded(p)
       \/ ours # "absent" /\ Goto(p, "recheck") /\ UNCHANGED <<ours, minerVars>>
       \/ /\ RpcFails /\ ours = "absent"
          /\ ours' \in {"absent", "loaded"}
          /\ Goto(p, "recheck")
          /\ UNCHANGED minerVars
    /\ UNCHANGED <<deployment, foreign, ceilings, tries, sent, late, disturbed>>

\* createMissingWallet: somebody else may have created it between.
RecheckCreated_Never == FALSE
RecheckCreated == ListedLoaded

RecheckLoaded(p) ==
    /\ pc[p] = "recheck"
    /\ \/ RecheckCreated /\ Loaded(p)
       \/ (~RecheckCreated \/ ListedUnloaded) /\ GiveUp(p, "cannotCreate")
    /\ UNCHANGED <<deployment, nodeVars, tries, sent, late, disturbed>>

\* Enter the load path with its attempts fresh.
StartLoading(p) == Goto(p, "load") /\ tries' = [tries EXCEPT ![p] = 0]

-----------------------------------------------------------------------------
(* pinFundingFeeRate.                                                      *)

\* What is left when settxfee was refused: the per-call rate, unless the coin is
\* known not to have one.
FallbackRate_None == FALSE
FallbackRate == ~deployment.coinKnown

PinByFeeRate ==
    /\ deployment.coinKnown /\ deployment.daemon = "core"
    /\ feeRate' = TRUE
    /\ UNCHANGED ceilings

PinBySetTxFee ==
    /\ ~(deployment.coinKnown /\ deployment.daemon = "core")
    /\ \/ /\ HasSetTxFee /\ Answered
          /\ ceilings' = ceilings \cup {Answering}
          /\ feeRate' = FALSE
       \/ /\ ~HasSetTxFee \/ ~Answered \/ RpcFails
          /\ feeRate' = FallbackRate
          /\ \/ UNCHANGED ceilings
             \/ HasSetTxFee /\ Answered /\ ceilings' = ceilings \cup {Answering}

\* Last statement of the boot, or the step before a send is repeated.  A coin
\* known to be Bitcoin is pinned without an RPC; the step is kept apart there too,
\* which only adds interleavings.
PinFundingFeeRate(p) ==
    /\ pc[p] = "pin"
    /\ PinByFeeRate \/ PinBySetTxFee
    /\ Goto(p, IF p = Main THEN "ready" ELSE "resend")
    /\ walletReady' = (walletReady \/ p = Main)
    /\ UNCHANGED <<deployment, ours, foreign, pinned, probed, rewards, tries,
                   sent, late, disturbed>>

-----------------------------------------------------------------------------
(* prepareWallet.                                                          *)

\* probeWalletAddress: a getnewaddress on whatever wallet answers.
ProbeWallet ==
    /\ pc[Main] = "probe"
    /\ \/ /\ Answered
          /\ probed' = Answering
          /\ Goto(Main, "info")
          /\ UNCHANGED <<pinned, feeRate, rewards, walletReady, tries>>
       \/ /\ ~Answered \/ RpcFails
          /\ UNCHANGED minerVars
          /\ \/ /\ tries[Main] + 1 < ProbeAttempts
                /\ tries' = [tries EXCEPT ![Main] = @ + 1]
                /\ UNCHANGED pc
             \/ tries[Main] + 1 >= ProbeAttempts /\ StartLoading(Main)
    /\ UNCHANGED <<deployment, nodeVars, sent, late, disturbed>>

SwapsForeign_Never == FALSE
SwapsForeign == Named /\ Answering = "foreign"

\* bindProbedWallet: stay on the base URL, pin ours, or swap the other's for it.
StaysOnBaseURL == RpcFails \/ ~Answered \/ ~Named

BindProbedWallet ==
    /\ pc[Main] = "info"
    /\ \/ /\ \/ StaysOnBaseURL /\ UNCHANGED pinned
             \/ Named /\ Answering = "ours" /\ pinned' = TRUE
             \/ Answering = "foreign" /\ ~SwapsForeign /\ UNCHANGED pinned
          /\ rewards' = probed
          /\ Goto(Main, "settle")
          /\ UNCHANGED <<feeRate, probed, walletReady, tries>>
       \/ SwapsForeign /\ StartLoading(Main) /\ UNCHANGED minerVars
    /\ UNCHANGED <<deployment, nodeVars, sent, late, disturbed>>

AddressForRewards ==
    /\ pc[Main] = "address"
    /\ \/ /\ Answered
          /\ rewards' = Answering
          /\ Goto(Main, "settle")
          /\ UNCHANGED <<pinned, feeRate, probed, walletReady>>
       \/ (~Answered \/ RpcFails) /\ GiveUp(Main, "failed")
    /\ UNCHANGED <<deployment, nodeVars, tries, sent, late, disturbed>>

\* The balance read and settleStartupBalance: the wallet has coins, or is mined
\* to maturity, or the boot fails.
SettleStartupBalance ==
    /\ pc[Main] = "settle"
    /\ Goto(Main, "pin") \/ Goto(Main, "failed")
    /\ UNCHANGED <<deployment, nodeVars, minerVars, tries, sent, late, disturbed>>

-----------------------------------------------------------------------------
(* sendFundsToAddress.                                                     *)

\* A daemon without fee_rate refuses a send with named parameters, before it
\* looks for the wallet.
TakesRate == feeRate => HasFeeRate
NodeSends == Answered /\ TakesRate

NotSent == [from |-> "none", capped |-> FALSE, retried |-> FALSE]

Executes(s) ==
    sent' = [sent EXCEPT ![s] =
        [from    |-> Answering,
         capped  |-> feeRate \/ Answering \in ceilings,
         retried |-> pc[s] = "resend"]]

\* The error that has walletMissing set.
WalletMissing == Answering = "missing" /\ Named /\ TakesRate

Refused(s) ==
    /\ RpcFails \/ (~NodeSends /\ ~WalletMissing)
    /\ Goto(s, "failed")

SendFunds(s) ==
    /\ pc[s] = "idle"
    /\ late' = IF walletReady THEN late \cup {s} ELSE late
    /\ \/ NodeSends /\ Executes(s) /\ Goto(s, "sent") /\ UNCHANGED tries
       \/ NodeSends /\ RpcFails /\ Executes(s) /\ Goto(s, "failed") /\ UNCHANGED tries
       \/ Refused(s) /\ UNCHANGED <<sent, tries>>
       \/ WalletMissing /\ StartLoading(s) /\ UNCHANGED sent
    /\ UNCHANGED <<deployment, nodeVars, minerVars, disturbed>>

Resend(s) ==
    /\ pc[s] = "resend"
    /\ \/ NodeSends /\ Executes(s) /\ Goto(s, "sent")
       \/ NodeSends /\ RpcFails /\ Executes(s) /\ Goto(s, "failed")
       \/ Refused(s) /\ UNCHANGED sent
       \/ WalletMissing /\ Goto(s, "failed") /\ UNCHANGED sent
    /\ UNCHANGED <<deployment, nodeVars, minerVars, tries, late, disturbed>>

-----------------------------------------------------------------------------
Init ==
    /\ deployment \in Deployments
    /\ ours \in {"unloaded", "loaded"} \cup (IF Named THEN {"absent"} ELSE {})
    /\ foreign \in (IF Named THEN BOOLEAN ELSE {FALSE})
    /\ ceilings = {}
    /\ pinned = FALSE /\ feeRate = FALSE /\ walletReady = FALSE
    /\ probed = "none" /\ rewards = "none"
    /\ pc = [p \in Procs |-> IF p = Main THEN "probe" ELSE "idle"]
    /\ tries = [p \in Procs |-> 0]
    /\ sent = [s \in Sends |-> NotSent]
    /\ late = {} /\ disturbed = {}

NodeStep == Restart \/ LoadCompletes \/ OperatorMovesWallet

\* What the boot and a send have in common.
LoadStep(p) ==
    \/ LoadWallet(p)
    \/ CheckLoaded(p)
    \/ CreateWallet(p)
    \/ RecheckLoaded(p)
    \/ PinFundingFeeRate(p)

BootStep ==
    \/ ProbeWallet
    \/ BindProbedWallet
    \/ AddressForRewards
    \/ SettleStartupBalance
    \/ LoadStep(Main)

Next ==
    \/ Alive /\ BootStep
    \/ Alive /\ \E s \in Sends : SendFunds(s) \/ LoadStep(s) \/ Resend(s)
    \/ NodeStep
    \/ UNCHANGED vars

Spec == Init /\ [][Next]_vars

\* Every RPC ends, answered or timed out, and the event loop runs what follows.
\* Nothing is assumed of the node: a load may take for ever, restarts go on.
Fairness ==
    /\ WF_vars(Alive /\ BootStep)
    /\ \A s \in Sends : WF_vars(Alive /\ (LoadStep(s) \/ Resend(s)))

FairSpec == Spec /\ Fairness

-----------------------------------------------------------------------------
(* Correctness.                                                            *)

\* The types of the wallet state, the attempts under their bounds.
TypeOK ==
    /\ deployment \in Deployments
    /\ ours \in {"absent", "unloaded", "loading", "loaded"}
    /\ foreign \in BOOLEAN
    /\ ceilings \subseteq {"ours", "foreign"}
    /\ pinned \in BOOLEAN /\ feeRate \in BOOLEAN /\ walletReady \in BOOLEAN
    /\ probed \in {"none", "ours", "foreign"}
    /\ rewards \in {"none", "ours", "foreign"}
    /\ pc \in [Procs -> Phases]
    /\ tries \in [Procs -> Nat]
    /\ \A p \in Procs : tries[p] < LoadAttempts \/ tries[p] < ProbeAttempts
    /\ sent \in [Sends -> [from : {"none", "ours", "foreign"}, capped : BOOLEAN,
                          retried : BOOLEAN]]
    /\ late \subseteq Sends /\ disturbed \subseteq Procs

\* A boot no restart disturbed, beside an operator who leaves his wallet alone,
\* ends on the miner's own wallet, both for what it mines to and for what is
\* spent from then on, whoever answered the probe (bindProbedWallet).
OwnWallet ==
    walletReady /\ Named /\ Main \notin disturbed /\ ~RpcFails /\ ~ForeignMoves =>
        /\ rewards = "ours"
        /\ \A s \in late : sent[s] # NotSent => sent[s].from = "ours"

\* However many calls load or create the wallet at once, the losers do not take
\* it for missing: createwallet is final only for one a restart came in between,
\* as long as the node answers (createMissingWallet, loadWalletOnce).
NoCreateClash ==
    Named /\ ~RpcFails => \A p \in Procs : pc[p] = "cannotCreate" => p \in disturbed

\* A node restart is healed by the next send: a send that no restart disturbed
\* itself is not refused, at worst it gives up on a load that lasts
\* (sendFundsToAddress, sendError).
SendHeals ==
    Named /\ Main \notin disturbed /\ ~RpcFails /\ ~ForeignMoves =>
        \A s \in late \ disturbed : pc[s] \notin {"failed", "cannotCreate"}

\* A send goes out under the fee ceiling once the wallet is ready
\* (pinFundingFeeRate).
CeilingKept ==
    \A s \in late : sent[s] # NotSent => sent[s].capped

\* A send that reloaded the wallet brought the ceiling back with it
\* (sendFundsToAddress, the re-pin).
RetriedSendsCapped ==
    ~RpcFails => \A s \in Sends \ disturbed :
        sent[s] # NotSent /\ sent[s].retried => sent[s].capped

\* Where the node takes a rate with each send, none goes out without the ceiling
\* once the wallet is ready, whatever is lost or restarted (pinFundingFeeRate,
\* buildSendToAddressData).
PerCallCeiling == HasFeeRate => CeilingKept

\* The boot and every send come to an end, whatever the node does: each happens
\* once, so there is a moment from which nobody is at work (ensureWalletLoaded,
\* sendFundsToAddress).
EveryoneEnds == <>[](Alive => \A p \in Procs : ~AtWork(p))

\* How many steps a process that is parked on an RPC takes before it ends, at most.
StepsLeft(p) ==
    LET loads  == 2 * (LoadAttempts - tries[p])
        begun  == 2 * LoadAttempts
        probes == ProbeAttempts - tries[p]
    IN  CASE pc[p] = "probe" -> 7 + begun + probes
          [] pc[p] \in {"idle", "info"} -> 7 + begun
          [] pc[p] = "load"    -> 6 + loads  [] pc[p] = "check"  -> 5 + loads
          [] pc[p] = "create"  -> 6          [] pc[p] = "recheck" -> 5
          [] pc[p] = "address" -> 4          [] pc[p] = "settle" -> 3
          [] pc[p] = "pin"     -> 2          [] pc[p] = "resend" -> 1
          [] OTHER -> 0

\* Whatever the node answers, loses or restarts in between, and whoever else
\* loads, creates or pins, each step of the boot or of a send brings it nearer to
\* its end: no attempt is taken twice, and the load a send repeats is entered once
\* (probeWalletAddress, loadWalletOnce, sendFundsToAddress).
StepsRunOut ==
    [][\A p \in Procs :
           \/ UNCHANGED <<pc[p], tries[p]>>
           \/ StepsLeft(p)' \in 0 .. StepsLeft(p) - 1]_vars

-----------------------------------------------------------------------------
(* What has to be known besides to carry the invariants through a step.    *)

\* The attempts of a loop stay under the loop's own bound.
TriesInv == \A p \in Procs :
    /\ pc[p] \in {"load", "check"} => tries[p] < LoadAttempts
    /\ pc[p] = "probe" => tries[p] < ProbeAttempts

\* NETWORK names the coin wherever the daemon has no rate per call.
CoinsNamed == \A d \in Deployments : d.daemon # "core" => d.coinKnown

\* The rate per call is in force exactly where, and from when, it is needed.
RateInv ==
    /\ walletReady <=> pc[Main] = "ready"
    /\ HasFeeRate /\ walletReady => feeRate
    /\ CoinsNamed => TakesRate

\* Where a process is on its way to the wallet, as long as no restart throws it
\* back: who creates finds it absent or created, who is past the load, loaded.
OnItsWay(p) ==
    /\ pc[p] = "create" => ours \in {"absent", "loaded"}
    /\ pc[p] = "recheck" => ours = "loaded"
    /\ pc[p] = "address" => ours = "loaded" /\ pinned
    /\ p \in Sends /\ pc[p] \in {"pin", "resend"} => ours = "loaded" /\ pinned
    /\ pc[p] = "resend" => p \in Sends /\ (feeRate \/ "ours" \in ceilings)
    /\ pc[p] # "cannotCreate"
LoadInv == Named /\ ~RpcFails => \A p \in Procs \ disturbed : OnItsWay(p)

\* The boot, up to where it has the miner's own wallet: another's that answered
\* the probe still answers alone, for no send reloads ours behind it.
NoSendLoads == ours # "loading" /\ \A s \in Sends : pc[s] \notin LoadPhases
BootInv == Named /\ Main \notin disturbed /\ ~RpcFails /\ ~ForeignMoves =>
    /\ pc[Main] = "probe" /\ foreign /\ ~pinned => NoSendLoads
    /\ pc[Main] = "info" =>
           \/ probed = "ours" /\ Answering = "ours"
           \/ probed = "foreign" /\ Answering = "foreign" /\ NoSendLoads
    /\ pc[Main] \in {"settle", "pin", "ready"} => rewards = "ours" /\ pinned

\* The history: a call is late once the wallet is ready, has sent nothing before
\* it began, and goes on after a refusal only where wallets have names.
HistoryInv ==
    /\ late # {} => walletReady
    /\ \A s \in Sends : pc[s] = "idle" => sent[s] = NotSent /\ s \notin late
    /\ ~Named => \A s \in Sends : ~AtWork(s)

WalletInv == TypeOK /\ TriesInv /\ RateInv /\ LoadInv /\ BootInv /\ HistoryInv

=============================================================================
