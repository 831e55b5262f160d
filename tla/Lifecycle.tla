----------------------------- MODULE Lifecycle -----------------------------
(***************************************************************************)
(* The service from its environment to its exit: startApi's checks,        *)
(* start() with its wallet preparation and its loop, the API served beside *)
(* it, the health verdict and the signal handlers, over the balance of     *)
(* WalletBalance.                                                          *)
(*                                                                         *)
(* How the wallet is loaded is WalletFunding's subject, what the loop does *)
(* in a pass MiningLoop's and how calls exclude each other MineExclusion's.*)
(***************************************************************************)
EXTENDS WalletBalance

CONSTANTS
    Labels,         \* what NETWORK may end in
    Environments,   \* the environments the service may be started in
    Chains,         \* what getblockchaininfo may name, "none" for no chain
    VerifyAttempts, \* verifyNodeChain's attempts
    BalancePolls,   \* BALANCE_POLL_MAX_ATTEMPTS
    PassLength      \* what a pass of the loop takes past its refresh, at most

ASSUME LifecycleAssumption ==
    /\ {VerifyAttempts, BalancePolls, PassLength} \subseteq Nat \ {0}
    /\ Horizon >= RefreshInterval + PassLength + 2 * Latency

VARIABLES
    env,        \* the environment the service is started in
    chain,      \* the chain of the node at NODE_URL
    at,         \* where startApi and start() are
    attempts,   \* verifyNodeChain's failed calls, then the warm-up's polls
    passAge,    \* of the pass, or of the fee pin before the first
    process,    \* "up", or how it ended
    listening,  \* the API port accepts calls
    keepMining,
    shutdown,   \* _shutdown
    graceOver   \* the uptime is past MINER_WALLET_GRACE_MS

flowVars == <<at, attempts, passAge>>
serviceVars == <<process, listening, keepMining, shutdown>>
worldVars == <<env, chain, graceOver>>
vars == <<balanceVars, flowVars, serviceVars, worldVars>>

\* idleInterval tells what setIdleMineInterval makes of the variable, unset or set;
\* without rpcTimeout (NODE_RPC_TIMEOUT=0) an RPC may hang.
AllEnvironments ==
    [complete: BOOLEAN, network: Labels, idleInterval: {"valid", "invalid"},
     rpcTimeout: BOOLEAN, portFree: BOOLEAN]

ASSUME EnvironmentsAssumption == Environments \subseteq AllEnvironments

Preparing == {"address", "balance", "warmup", "poll", "pin"}
Looping   == {"top", "refresh", "pass", "left"}
Places    == {"config", "verify"} \cup Preparing \cup Looping

Up == process = "up"
miningStarted == at \in Looping
walletReady   == at \in Looping

Flow(from, to) == Up /\ at = from /\ at' = to

\* process.exit, or a signal's default action: nothing runs any more.
Ends(how) == process' = how /\ listening' = FALSE /\ UNCHANGED <<keepMining, shutdown>>

-----------------------------------------------------------------------------
(* startApi.                                                               *)

\* chainMatchesNetwork; testnet4 stands for testnet with or without a number.
MatchingChains(network) ==
    CASE network = "regtest" -> {"regtest"}
      [] network = "testnet" -> {"test", "testnet4"}
      [] OTHER -> {}

\* validateEnvVars: every variable, the ports and the label.
EnvValid == env.complete /\ env.network \in {"regtest", "testnet"}

ValidatesEnv ==
    /\ Up /\ at = "config"
    /\ IF EnvValid THEN at' = "verify" /\ UNCHANGED serviceVars
                   ELSE Ends("failed") /\ UNCHANGED at
    /\ UNCHANGED <<balanceVars, attempts, passAge, worldVars>>

\* setIdleMineInterval takes the interval, start() runs up to its first RPC and
\* the port opens, in one turn; a port in use leaves start() running without it.
Serves ==
    IF env.idleInterval = "invalid" THEN Ends("failed") /\ UNCHANGED at
    ELSE /\ at' = "address"
         /\ listening' = env.portFree
         /\ UNCHANGED <<process, keepMining, shutdown>>

NodeNamesChain ==
    /\ Up /\ at = "verify"
    /\ IF chain \in MatchingChains(env.network) THEN Serves
                                                ELSE Ends("failed") /\ UNCHANGED at
    /\ attempts' = 0
    /\ UNCHANGED <<balanceVars, passAge, worldVars>>

\* getblockchaininfo failed for the last time.
UnverifiedChain_GoesOn == Serves
UnverifiedChain == Ends("failed") /\ UNCHANGED at

NodeIsSilent ==
    /\ Up /\ at = "verify"
    /\ IF attempts + 1 < VerifyAttempts
         THEN attempts' = attempts + 1 /\ UNCHANGED <<at, serviceVars>>
         ELSE attempts' = 0 /\ UnverifiedChain
    /\ UNCHANGED <<balanceVars, passAge, worldVars>>

-----------------------------------------------------------------------------
(* start(): prepareWallet up to walletReady.                               *)

AddressReady ==
    /\ Flow("address", "balance")
    /\ Asks("main")
    /\ UNCHANGED <<wallet, drainedAge, balance, balanceAge, attempts, passAge,
                   serviceVars, worldVars>>

\* The read found a spendable balance, or none: these reads are not refreshes,
\* only the last is stamped.
BalanceSettled ==
    /\ at' = "pin" /\ passAge' = 0
    /\ balanceAge' = 0
    /\ Settles("main")
    /\ UNCHANGED <<attempts, serviceVars>>

FindsFunds ==
    /\ Up /\ at \in {"balance", "poll"}
    /\ Applies("main") /\ balance' = "funded"
    /\ BalanceSettled
    /\ UNCHANGED <<wallet, drainedAge, worldVars>>

FindsEmpty ==
    /\ Flow("balance", "warmup")
    /\ Applies("main") /\ balance' = "empty"
    /\ Settles("main")
    /\ UNCHANGED <<wallet, drainedAge, balanceAge, attempts, passAge, serviceVars,
                   worldVars>>

\* 101 blocks: the coinbase is spendable, unless somebody else was quicker.
WarmUpReturns ==
    /\ Flow("warmup", "poll")
    /\ wallet' \in {wallet, "funded"}
    /\ drainedAge' = IF wallet' = wallet THEN drainedAge ELSE 0
    /\ Asks("main")
    /\ attempts' = 1
    /\ UNCHANGED <<balance, balanceAge, passAge, serviceVars, worldVars>>

PollsAgain_Uncounted == Asks("main") /\ UNCHANGED attempts
PollsAgain == Asks("main") /\ attempts' = attempts + 1

\* Another poll, a second later, or prepareWallet throws.
PollsEmpty ==
    /\ Up /\ at = "poll"
    /\ Applies("main") /\ balance' = "empty"
    /\ IF attempts < BalancePolls
         THEN PollsAgain /\ UNCHANGED serviceVars
         ELSE Settles("main") /\ Ends("failed") /\ UNCHANGED attempts
    /\ UNCHANGED <<wallet, drainedAge, balanceAge, at, passAge, worldVars>>

\* Whatever prepareWallet throws ends the process (startMinerDetached).
PrepareFails ==
    /\ Up /\ at \in Preparing \ {"pin"}
    /\ Ends("failed")
    /\ UNCHANGED <<balanceVars, flowVars, worldVars>>

\* The handlers are installed and mining is on, whatever was asked meanwhile.
StartsLoop ==
    /\ Flow("pin", "top")
    /\ keepMining' = TRUE
    /\ UNCHANGED <<balanceVars, attempts, passAge, process, listening, shutdown,
                   worldVars>>

-----------------------------------------------------------------------------
(* runMineLoop, as far as the balance and the exit go.                     *)

PassRefreshes ==
    /\ Flow("top", "refresh")
    /\ ~shutdown
    /\ WalletRefreshDue
    /\ Asks("main")
    /\ UNCHANGED <<wallet, drainedAge, balance, balanceAge, attempts, passAge,
                   serviceVars, worldVars>>

RefreshReturns ==
    /\ Flow("refresh", "pass")
    /\ RefreshApplies("main") \/ RefreshFails("main")
    /\ passAge' = 0
    /\ UNCHANGED <<wallet, drainedAge, attempts, serviceVars, worldVars>>

PassGoesOn ==
    /\ Flow("top", "pass")
    /\ ~shutdown
    /\ ~WalletRefreshDue
    /\ passAge' = 0
    /\ UNCHANGED <<balanceVars, attempts, serviceVars, worldVars>>

\* Every pass sleeps a poll at least, back-offs included.
PassEnds ==
    /\ Flow("pass", "top")
    /\ passAge > 0
    /\ UNCHANGED <<balanceVars, attempts, passAge, serviceVars, worldVars>>

LoopLeaves ==
    /\ Flow("top", "left")
    /\ shutdown
    /\ UNCHANGED <<balanceVars, attempts, passAge, serviceVars, worldVars>>

-----------------------------------------------------------------------------
(* Calls, served from the moment the port is open.                         *)

ReorgReads(r) ==
    /\ Up /\ listening
    /\ asked[r] = NotSet
    /\ Asks(r)
    /\ UNCHANGED <<wallet, drainedAge, balance, balanceAge, flowVars, serviceVars,
                   worldVars>>

ReorgReadReturns(r) ==
    /\ Up
    /\ RefreshApplies(r) \/ RefreshFails(r)
    /\ UNCHANGED <<wallet, drainedAge, flowVars, serviceVars, worldVars>>

\* pause_mining and continue_mining; invalidate_block and a fill pause too.
SetsMining ==
    /\ Up /\ listening
    /\ keepMining' = ~keepMining
    /\ UNCHANGED <<balanceVars, flowVars, process, listening, shutdown, worldVars>>

\* evaluateMinerHealth, short of the streaks of MiningLoop.
Healthy_PauseFirst == graceOver => ~keepMining \/ (walletReady /\ miningStarted)
Healthy == graceOver => walletReady /\ miningStarted

-----------------------------------------------------------------------------
(* Signals.                                                                *)

\* Before the loop has installed its handlers a signal just terminates.
Signal ==
    /\ Up
    /\ IF miningStarted
         THEN shutdown' = TRUE /\ listening' = FALSE /\ UNCHANGED <<process, keepMining>>
         ELSE Ends("killed")
    /\ UNCHANGED <<balanceVars, flowVars, env, chain, graceOver>>

\* server.close waits for the calls being served.
ServerCloses ==
    /\ Up /\ shutdown
    /\ \A r \in Reorgs : asked[r] = NotSet
    /\ Ends("done")
    /\ UNCHANGED <<balanceVars, flowVars, worldVars>>

\* The forced exit, 2000 ms later.
FailsafeDue_Never == FALSE
FailsafeDue == shutdown

Failsafe ==
    /\ Up /\ FailsafeDue
    /\ Ends("done")
    /\ UNCHANGED <<balanceVars, flowVars, worldVars>>

-----------------------------------------------------------------------------
(* The world around.                                                       *)

NodeActs ==
    /\ Up
    /\ WalletMoves \/ \E r \in Readers : NodeEvaluates(r)
    /\ UNCHANGED <<flowVars, serviceVars, worldVars>>

GraceEnds ==
    /\ Up /\ ~graceOver
    /\ graceOver' = TRUE
    /\ UNCHANGED <<balanceVars, flowVars, serviceVars, env, chain>>

\* A poll passes.  With a timeout no RPC outlasts it, and no pass its length;
\* the top of a pass takes no time.
Tick ==
    /\ Up /\ at # "top"
    /\ env.rpcTimeout => CallsInTime /\ (at \in {"pin", "pass"} => passAge < PassLength)
    /\ TimePasses
    /\ passAge' = IF at \in {"pin", "pass"} THEN Aged(passAge, PassLength) ELSE passAge
    /\ UNCHANGED <<at, attempts, serviceVars, worldVars>>

-----------------------------------------------------------------------------
Init ==
    /\ BalanceInit
    /\ env \in Environments
    /\ chain \in Chains
    /\ at = "config" /\ attempts = 0 /\ passAge = 0
    /\ process = "up" /\ listening = FALSE /\ keepMining = FALSE /\ shutdown = FALSE
    /\ graceOver = FALSE

Booting ==
    \/ ValidatesEnv
    \/ NodeNamesChain
    \/ NodeIsSilent
    \/ AddressReady
    \/ FindsFunds
    \/ FindsEmpty
    \/ WarmUpReturns
    \/ PollsEmpty
    \/ PrepareFails
    \/ StartsLoop

LoopStep ==
    \/ PassRefreshes
    \/ RefreshReturns
    \/ PassGoesOn
    \/ PassEnds
    \/ LoopLeaves

Serving(r) == ReorgReads(r) \/ ReorgReadReturns(r)

Over == ~Up /\ UNCHANGED vars

Next ==
    \/ Booting
    \/ LoopStep
    \/ \E r \in Reorgs : Serving(r)
    \/ SetsMining
    \/ Signal
    \/ ServerCloses
    \/ Failsafe
    \/ NodeActs
    \/ GraceEnds
    \/ Tick
    \/ Over

Spec == Init /\ [][Next]_vars

\* Timers fire, and with an RPC timeout the loop and the calls go on.  Nothing
\* is assumed of the boot, whose RPCs may hang without one, or of callers.
Fairness ==
    /\ WF_vars(GraceEnds) /\ WF_vars(ServerCloses) /\ WF_vars(Failsafe)
    /\ WF_vars(env.rpcTimeout /\ LoopStep)
    /\ \A r \in Readers : WF_vars(env.rpcTimeout /\ NodeEvaluates(r)
                                    /\ UNCHANGED <<flowVars, serviceVars, worldVars>>)
    /\ \A r \in Reorgs : WF_vars(env.rpcTimeout /\ ReorgReadReturns(r))
    /\ WF_vars(Tick)

FairSpec == Spec /\ Fairness

-----------------------------------------------------------------------------
(* Correctness.                                                            *)

\* The types of the service's state.
PlaceTypeOK ==
    /\ env \in Environments /\ chain \in Chains
    /\ at \in Places
    /\ attempts \in 0 .. VerifyAttempts + BalancePolls
    /\ passAge \in 0 .. PassLength
    /\ process \in {"up", "done", "failed", "killed"}

FlagTypeOK ==
    /\ listening \in BOOLEAN /\ keepMining \in BOOLEAN
    /\ shutdown \in BOOLEAN /\ graceOver \in BOOLEAN

TypeOK == BalanceTypeOK /\ PlaceTypeOK /\ FlagTypeOK

\* No wallet RPC goes out and no call is served before the node itself has named
\* a chain that is not the main one and is the one NETWORK asks for, whatever
\* the label says and however often the node was silent (verifyNodeChain).
ChainChecked ==
    listening \/ at \in Preparing \cup Looping =>
        /\ chain \notin {"main", "none"}
        /\ chain = "regtest" <=> env.network = "regtest"

\* A funded balance was true lately: whichever read, of the loop or of a reorg,
\* was overtaken by another, and whether the node answers or fails, the export
\* outlives the funds by the reads' latency, the interval and a pass at most
\* (refreshWalletFunds, walletRefreshDue).
FundedIsRecent ==
    env.rpcTimeout /\ Up /\ ~shutdown /\ miningStarted /\ balance = "funded" =>
        drainedAge < RefreshInterval + PassLength + 2 * Latency

\* Once the wallet rests and the node answers, the exported balance tells the
\* truth for good, paused or not (runMineLoop's refresh above its pause gate).
BalanceSettles ==
    <>[](env.rpcTimeout /\ Up /\ miningStarted /\ ~shutdown) =>
    (<>[][wallet' = wallet /\ \A r \in Readers : ~RefreshFails(r)]_vars =>
     <>[](balance = wallet))

\* A signal ends the service, whatever it is waiting for (installShutdownHandlers).
SignalEnds == shutdown ~> ~Up

\* A preparation that never ends is reported as a stall, past the grace and
\* whatever operators pause meanwhile (evaluateMinerHealth).
StallReported == <>[](Up /\ listening /\ ~miningStarted) => <>[](~Healthy)

\* What the boot may still ask the node: whether it answers, its address, its
\* balance, the warm-up, a balance again and again, and the fee.
BootLeft ==
    IF ~Up \/ miningStarted THEN 0
    ELSE [config  |-> VerifyAttempts + BalancePolls + 5,
          verify  |-> VerifyAttempts - attempts + BalancePolls + 4,
          address |-> BalancePolls + 4,
          balance |-> BalancePolls + 3,
          warmup  |-> BalancePolls + 2,
          poll    |-> BalancePolls - attempts + 2,
          pin     |-> 1][at]

\* Every step of the boot leaves it fewer, on a node that is silent, never shows a
\* spendable balance or refuses: the loop or the exit is a bounded number of RPCs
\* away (verifyNodeChain's attempts and prepareWallet's polls).
BootRunsOut == [][Booting => BootLeft' \in 0 .. BootLeft - 1]_vars

-----------------------------------------------------------------------------
(* What has to be known besides to carry the invariants through a step.    *)

\* The boot's two counters, each within its loop.
AttemptsInv ==
    /\ at \in {"config", "verify"} => attempts \in 0 .. VerifyAttempts - 1
    /\ at = "poll" => attempts \in 1 .. BalancePolls

\* Past the verification the environment was valid and the node named its chain.
ChainInv ==
    /\ at # "config" => env.network \in {"regtest", "testnet"}
    /\ at \in Preparing \cup Looping => chain \in MatchingChains(env.network)
    /\ listening => at \in Preparing \cup Looping

\* A reply that tells of funds is no staler than its call is old.
ReadsHonest ==
    \A r \in Readers : seen[r] = "funded" => asked[r] # NotSet /\ drainedAge <= asked[r]

\* Whoever stamped the balance, it was stale by one call's latency at most.
FreshWhenStamped ==
    balance = "funded" /\ balanceAge # NotSet /\ balanceAge < RefreshInterval =>
        drainedAge <= Latency + balanceAge

\* What each place of the flow adds.
FreshOnTheWay ==
    balance = "funded" =>
        /\ at = "pin" => drainedAge <= Latency + passAge
        /\ at = "pass" => drainedAge <= Latency + RefreshInterval - 1 + passAge
        /\ at = "top" => drainedAge <= Latency + RefreshInterval - 1 + PassLength
        /\ at = "refresh" =>
               drainedAge <= Latency + RefreshInterval - 1 + PassLength + asked["main"]

FreshInv ==
    /\ wallet = "funded" => drainedAge = 0
    /\ at = "left" => shutdown
    /\ at = "refresh" => asked["main"] # NotSet
    /\ env.rpcTimeout => ReadsHonest /\ FreshWhenStamped /\ FreshOnTheWay

LifecycleInv == TypeOK /\ AttemptsInv /\ ChainInv /\ FreshInv

=============================================================================
