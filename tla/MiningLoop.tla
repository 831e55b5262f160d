----------------------------- MODULE MiningLoop -----------------------------
(***************************************************************************)
(* The auto-mine loop: what makes it mine, and what it reports.            *)
(*                                                                         *)
(* One pass refreshes the wallet balance when that is due, mines a mempool *)
(* whose timers have expired, reads the mempool, rearms the timers from    *)
(* what it read, and mines an empty block when the heartbeat is due.  Who  *)
(* may mine next to it is MineExclusion's subject; here operators pause,   *)
(* fill, mine and reconfigure at any await of the loop.                    *)
(*                                                                         *)
(* Time is counted in polls of CHECK_BLOCK_DELAY_MS.  A timestamp is kept  *)
(* as its age, which stops growing at Horizon: the code only ever compares *)
(* an age with an interval.                                                *)
(***************************************************************************)
EXTENDS Integers, FiniteSets

CONSTANTS
    MaxTxs,          \* bound on the mempool
    Horizon,         \* bound on ages, beyond every interval
    MiningTimes,     \* what set_mining_time may install, [max, added] records
    DefaultTimes,    \* what set_default_mining_time installs
    IdleIntervals,   \* what set_idle_mine_interval may install, 0 is off
    RefreshInterval, \* WALLET_BALANCE_REFRESH_MS
    MaxBackoff,      \* MAX_BACKOFF_MS
    ErrorThreshold,  \* the error streak the health probe calls a stall
    StreakCap,       \* bound on the streaks, beyond what backoff and probe tell
    NodeFails,       \* generatetoaddress and getrawmempool may fail
    NodeSlow         \* time passes while an RPC is outstanding

ASSUME BoundsAssumption ==
    /\ MaxTxs \in Nat \ {0}
    /\ Horizon \in Nat /\ RefreshInterval \in Nat \ {0}
    /\ RefreshInterval < Horizon
    /\ MaxBackoff \in Nat \ {0} /\ ErrorThreshold \in Nat \ {0}
    /\ StreakCap \in Nat /\ ErrorThreshold <= StreakCap /\ MaxBackoff <= 2 ^ StreakCap
\* Arithmetic, for the provers: they have no theory of exponentiation.
ASSUME PowersAssumption == \A n \in 0 .. StreakCap : 2 ^ n \in Nat
ASSUME SettingsAssumption ==
    /\ \A t \in MiningTimes \cup {DefaultTimes} :
           t.max \in 1 .. Horizon /\ t.added \in 1 .. Horizon
    /\ IdleIntervals \subseteq 0 .. Horizon
ASSUME NodeAssumption == NodeFails \in BOOLEAN /\ NodeSlow \in BOOLEAN

NotSet == -1

VARIABLES
    mempool,              \* the node's mempool, as a number of transactions
    keepMining,           \* auto-mining is on
    fillMempoolRunning,   \* a fill_mempool runs
    miningTimes,          \* maxTimeToMineTxs and addedTimeToMineTxs
    idleMineInterval,     \* idleMineIntervalMs
    initialAge,           \* of loop.initialStartToMine, NotSet for its 0
    extendedAge,          \* of loop.extendedStartToMine, NotSet for its 0
    lastRawMempoolLength, \* loop.lastRawMempoolLength
    consecutiveErrors,    \* loop.consecutiveErrors, exported unchanged
    mineFailures,         \* _mineFailures
    mineAge,              \* of _lastMineAt, or of loop.watchingSince before it
    balanceAge,           \* of _balanceReadAt
    phase,                \* the await the loop is parked on, "top" or "gate"
    reply,                \* the mempool length a getrawmempool reply carries
    sleepLeft             \* of the sleep the loop is parked on

operatorVars == <<keepMining, fillMempoolRunning, miningTimes, idleMineInterval>>
timerVars    == <<initialAge, extendedAge, lastRawMempoolLength>>
streakVars   == <<consecutiveErrors, mineFailures>>
vars == <<mempool, operatorVars, timerVars, streakVars, mineAge, balanceAge,
          phase, reply, sleepLeft>>

Mines  == {"timerMine", "idleMine"}
Awaits == {"refresh", "read", "reply"} \cup Mines
Phases == {"top", "gate", "sleep"} \cup Awaits

LoopMayMine == keepMining /\ ~fillMempoolRunning

-----------------------------------------------------------------------------
(* The steps of a pass.                                                    *)

Sleep(polls) == phase' = "sleep" /\ sleepLeft' = polls
Park(await)  == phase' = await /\ UNCHANGED sleepLeft

Capped(n, top) == IF n < top THEN n ELSE top

Backoff(errors) == Capped(2 ^ errors, MaxBackoff)

RefreshDue_WhileMining == LoopMayMine /\ balanceAge >= RefreshInterval
RefreshDue == balanceAge >= RefreshInterval

LoopRefreshes ==
    /\ phase = "top"
    /\ RefreshDue
    /\ Park("refresh")
    /\ UNCHANGED <<mempool, operatorVars, timerVars, streakVars, mineAge,
                   balanceAge, reply>>

\* refreshWalletFunds stamps a failed read too, and never throws.
RefreshReturns ==
    /\ phase = "refresh"
    /\ balanceAge' = 0
    /\ Park("gate")
    /\ UNCHANGED <<mempool, operatorVars, timerVars, streakVars, mineAge, reply>>

AtGate == phase = "gate" \/ (phase = "top" /\ ~RefreshDue)

TimerMineDue ==
    /\ initialAge # NotSet /\ extendedAge # NotSet
    /\ initialAge >= miningTimes.max \/ extendedAge >= miningTimes.added

\* Paused, or a fill runs: the pass only sleeps.
LoopHolds ==
    /\ AtGate
    /\ ~LoopMayMine
    /\ Sleep(1)
    /\ UNCHANGED <<mempool, operatorVars, timerVars, streakVars, mineAge,
                   balanceAge, reply>>

LoopTimerMine ==
    /\ AtGate
    /\ LoopMayMine
    /\ TimerMineDue
    /\ Park("timerMine")
    /\ UNCHANGED <<mempool, operatorVars, timerVars, streakVars, mineAge,
                   balanceAge, reply>>

LoopReads ==
    /\ AtGate
    /\ LoopMayMine
    /\ ~TimerMineDue
    /\ Park("read")
    /\ UNCHANGED <<mempool, operatorVars, timerVars, streakVars, mineAge,
                   balanceAge, reply>>

\* What the node may leave of its mempool when it mines a block: nothing, or
\* what did not fit.
AfterBlock == IF mempool = 0 THEN {0} ELSE 0 .. mempool - 1

\* The node mined for the loop, and answered.
MineSucceeds ==
    /\ phase \in Mines
    /\ mempool' \in AfterBlock
    /\ mineAge' = 0

\* generateBlocks rejected; a timeout or a lost reply leaves a block behind.
MineFails ==
    /\ NodeFails
    /\ phase \in Mines
    /\ mempool' \in {mempool} \cup AfterBlock
    /\ UNCHANGED mineAge

\* A failure extends the streak and backs off for longer each time.
BackOff ==
    /\ consecutiveErrors' = Capped(consecutiveErrors + 1, StreakCap)
    /\ Sleep(Backoff(consecutiveErrors'))

LoopMineFails ==
    /\ MineFails
    /\ BackOff
    /\ mineFailures' = Capped(mineFailures + 1, StreakCap)
    /\ UNCHANGED <<operatorVars, timerVars, balanceAge, reply>>

ClearErrorStreak_Always(mined) == consecutiveErrors' = 0 /\ mineFailures' = 0
ClearErrorStreak(mined) ==
    /\ consecutiveErrors' = 0
    /\ mineFailures' = IF mined THEN 0 ELSE mineFailures

ResetTimers_KeepLength ==
    initialAge' = NotSet /\ extendedAge' = NotSet /\ UNCHANGED lastRawMempoolLength
ResetTimers_KeepAges == lastRawMempoolLength' = 0 /\ UNCHANGED <<initialAge, extendedAge>>
ResetTimers ==
    initialAge' = NotSet /\ extendedAge' = NotSet /\ lastRawMempoolLength' = 0

\* The pass goes on to its getrawmempool.
TimerMineSucceeds ==
    /\ phase = "timerMine"
    /\ MineSucceeds
    /\ ClearErrorStreak(TRUE)
    /\ ResetTimers
    /\ Park("read")
    /\ UNCHANGED <<operatorVars, balanceAge, reply>>

IdleMineSucceeds ==
    /\ phase = "idleMine"
    /\ MineSucceeds
    /\ ClearErrorStreak(TRUE)
    /\ Sleep(1)
    /\ UNCHANGED <<operatorVars, timerVars, balanceAge, reply>>

\* The node answers getrawmempool; the reply is on its way while others act.
NodeAnswers ==
    /\ phase = "read"
    /\ reply' = mempool
    /\ Park("reply")
    /\ UNCHANGED <<mempool, operatorVars, timerVars, streakVars, mineAge, balanceAge>>

ReadFails ==
    /\ NodeFails
    /\ phase = "read"
    /\ BackOff
    /\ UNCHANGED <<mempool, operatorVars, timerVars, mineFailures, mineAge,
                   balanceAge, reply>>

\* trackMempool: only growth rearms the timers.
TrackMempool ==
    IF reply = 0 THEN ResetTimers
    ELSE /\ lastRawMempoolLength' = reply
         /\ IF reply > lastRawMempoolLength
              THEN /\ extendedAge' = 0
                   /\ initialAge' = IF initialAge = NotSet THEN 0 ELSE initialAge
              ELSE UNCHANGED <<initialAge, extendedAge>>

IdleMineDue_Exactly == idleMineInterval > 0 /\ mineAge = idleMineInterval
IdleMineDue == idleMineInterval > 0 /\ mineAge >= idleMineInterval

\* The flags are read again after the await, then the pass mines or sleeps.
ReadReturns ==
    /\ phase = "reply"
    /\ ClearErrorStreak(FALSE)
    /\ TrackMempool
    /\ IF reply = 0 /\ IdleMineDue /\ LoopMayMine THEN Park("idleMine") ELSE Sleep(1)
    /\ reply' = 0
    /\ UNCHANGED <<mempool, operatorVars, mineAge, balanceAge>>

Wakes ==
    /\ phase = "sleep" /\ sleepLeft = 0
    /\ Park("top")
    /\ UNCHANGED <<mempool, operatorVars, timerVars, streakVars, mineAge,
                   balanceAge, reply>>

-----------------------------------------------------------------------------
(* What goes on around the loop.                                           *)

TxArrives ==
    /\ mempool < MaxTxs
    /\ mempool' = mempool + 1
    /\ UNCHANGED <<operatorVars, timerVars, streakVars, mineAge, balanceAge,
                   phase, reply, sleepLeft>>

\* A mine the loop did not ask for: generate_blocks, or a fill's own.
OthersMine ==
    /\ mempool' \in AfterBlock
    /\ mineAge' = 0
    /\ UNCHANGED <<operatorVars, timerVars, streakVars, balanceAge, phase,
                   reply, sleepLeft>>

Operate ==
    UNCHANGED <<mempool, timerVars, streakVars, mineAge, balanceAge, phase,
                reply, sleepLeft>>

PauseMining ==
    /\ keepMining' = FALSE
    /\ Operate /\ UNCHANGED <<fillMempoolRunning, miningTimes, idleMineInterval>>

ContinueMining ==
    /\ keepMining' = TRUE
    /\ Operate /\ UNCHANGED <<fillMempoolRunning, miningTimes, idleMineInterval>>

FillMempool ==
    /\ ~fillMempoolRunning
    /\ fillMempoolRunning' = TRUE /\ keepMining' = FALSE
    /\ Operate /\ UNCHANGED <<miningTimes, idleMineInterval>>

FillEnds ==
    /\ fillMempoolRunning
    /\ fillMempoolRunning' = FALSE
    /\ Operate /\ UNCHANGED <<keepMining, miningTimes, idleMineInterval>>

SetMiningTime ==
    /\ miningTimes' \in MiningTimes
    /\ Operate /\ UNCHANGED <<keepMining, fillMempoolRunning, idleMineInterval>>

SetDefaultMiningTime ==
    /\ miningTimes' = DefaultTimes
    /\ Operate /\ UNCHANGED <<keepMining, fillMempoolRunning, idleMineInterval>>

SetIdleMineInterval ==
    /\ idleMineInterval' \in IdleIntervals
    /\ Operate /\ UNCHANGED <<keepMining, fillMempoolRunning, miningTimes>>

Older(age) == IF age = NotSet THEN NotSet ELSE Capped(age + 1, Horizon)

\* A poll's worth of time passes while the loop sleeps or awaits a slow node.
Tick ==
    /\ \/ phase = "sleep" /\ sleepLeft > 0 /\ sleepLeft' = sleepLeft - 1
       \/ phase \in Awaits /\ NodeSlow /\ UNCHANGED sleepLeft
    /\ initialAge' = Older(initialAge)
    /\ extendedAge' = Older(extendedAge)
    /\ mineAge' = Older(mineAge)
    /\ balanceAge' = Older(balanceAge)
    /\ UNCHANGED <<mempool, operatorVars, lastRawMempoolLength, streakVars,
                   phase, reply>>

-----------------------------------------------------------------------------
\* start() has just entered its loop.  Calls served while the wallet was being
\* prepared may have mined, changed the settings, or be filling still.
Init ==
    /\ mempool \in 0 .. MaxTxs
    /\ keepMining = TRUE
    /\ fillMempoolRunning \in BOOLEAN
    /\ miningTimes \in MiningTimes \cup {DefaultTimes}
    /\ idleMineInterval \in IdleIntervals
    /\ initialAge = NotSet /\ extendedAge = NotSet
    /\ lastRawMempoolLength = 0
    /\ consecutiveErrors = 0 /\ mineFailures = 0
    /\ mineAge \in 0 .. Horizon
    /\ balanceAge = 0
    /\ phase = "top"
    /\ reply = 0
    /\ sleepLeft = 0

LoopStep ==
    \/ LoopRefreshes
    \/ RefreshReturns
    \/ LoopHolds
    \/ LoopTimerMine
    \/ LoopReads
    \/ ReadReturns
    \/ Wakes

NodeStep ==
    \/ TimerMineSucceeds
    \/ IdleMineSucceeds
    \/ LoopMineFails
    \/ NodeAnswers
    \/ ReadFails

Around ==
    \/ TxArrives
    \/ OthersMine
    \/ PauseMining
    \/ ContinueMining
    \/ FillMempool
    \/ FillEnds
    \/ SetMiningTime
    \/ SetDefaultMiningTime
    \/ SetIdleMineInterval

Next == LoopStep \/ NodeStep \/ Around \/ Tick

Spec == Init /\ [][Next]_vars

\* The event loop runs the loop's continuations, its sleeps end, and an RPC is
\* answered or times out.  Nothing is assumed of callers or transactions.
Fairness == WF_vars(LoopStep) /\ WF_vars(NodeStep) /\ WF_vars(Tick)

FairSpec == Spec /\ Fairness

\* A node that keeps being asked does not fail for ever.
NodeRecovers ==
    /\ SF_vars(NodeAnswers)
    /\ SF_vars(TimerMineSucceeds)
    /\ SF_vars(IdleMineSucceeds)

RecoveringSpec == FairSpec /\ NodeRecovers

-----------------------------------------------------------------------------
(* Correctness.                                                            *)

Ages == {NotSet} \cup 0 .. Horizon

\* The types of the loop's state.
TypeOK ==
    /\ mempool \in 0 .. MaxTxs
    /\ keepMining \in BOOLEAN /\ fillMempoolRunning \in BOOLEAN
    /\ miningTimes \in MiningTimes \cup {DefaultTimes}
    /\ idleMineInterval \in IdleIntervals
    /\ initialAge \in Ages /\ extendedAge \in Ages
    /\ lastRawMempoolLength \in 0 .. MaxTxs
    /\ consecutiveErrors \in 0 .. StreakCap
    /\ mineFailures \in 0 .. StreakCap
    /\ mineAge \in 0 .. Horizon /\ balanceAge \in 0 .. Horizon
    /\ phase \in Phases
    /\ reply \in 0 .. MaxTxs
    /\ sleepLeft \in 0 .. MaxBackoff

\* The timers run exactly while the last read found transactions: a length
\* left behind by a mine would keep the next, smaller mempool from arming them
\* (trackMempool and the reset after a timer mine).
TimersCoherent ==
    /\ initialAge = NotSet <=> lastRawMempoolLength = 0
    /\ extendedAge = NotSet <=> lastRawMempoolLength = 0
    /\ extendedAge <= initialAge

\* The exported balance is never staler than WALLET_BALANCE_REFRESH_MS by more
\* than one back-off, paused or not, filling or not, as long as the node answers
\* promptly (getStatus, walletRefreshDue).
BalanceBounded == ~NodeSlow => balanceAge < RefreshInterval + MaxBackoff

\* While the loop may mine, what waits in the mempool is mined: new arrivals
\* put the block off only so long (timerMineDue, trackMempool).
PendingIsMined == mempool > 0 ~> mempool = 0 \/ mineAge = 0 \/ ~LoopMayMine

\* With the heartbeat on and the loop free to mine, the chain never stops
\* growing, transactions or not (runMineLoop, idleMineDue).
Heartbeat ==
    <>[](LoopMayMine /\ idleMineInterval > 0) => []<>(mineAge = 0)

\* With the heartbeat off, a chain without transactions comes to rest, whoever
\* mined the transactions the timers were armed for: a timer left armed by an
\* earlier pass costs an empty block, not one after another (timerMineDue,
\* trackMempool, setIdleMineInterval's 0).
QuietWhenOff ==
    <>[](mempool = 0 /\ idleMineInterval = 0) => <>[](phase \notin Mines)

\* evaluateMinerHealth, past its grace and once the loop runs.
Healthy ==
    ~keepMining \/ (consecutiveErrors < ErrorThreshold /\ mineFailures < ErrorThreshold)

\* A miner whose every mine fails ends up reported as a stall, and stays so:
\* neither the mempool reads in between nor the blocks operators mine hide it
\* (initStatusFields, clearErrorStreak, evaluateMinerHealth).
BrokenMinerReported ==
    <>[][~TimerMineSucceeds /\ ~IdleMineSucceeds]_vars /\ []<><<LoopMineFails>>_vars
        => <>[](keepMining => ~Healthy)

\* Once reported it stays reported while mining is on: only a mine of the loop that
\* succeeds takes the verdict back, not a read, a pause and resume, or a block of
\* an operator's (clearErrorStreak, evaluateMinerHealth).
StallStands ==
    [][mineFailures >= ErrorThreshold /\ ~TimerMineSucceeds /\ ~IdleMineSucceeds
           => mineFailures' >= ErrorThreshold /\ (keepMining' => ~Healthy')]_vars

\* Nothing waits, nothing is remembered as waiting and no heartbeat is due, ever.
Resting ==
    /\ mempool = 0 /\ reply = 0 /\ lastRawMempoolLength = 0
    /\ idleMineInterval = 0
    /\ phase \notin Mines

\* A miner at rest rests until a transaction arrives or the heartbeat is turned
\* on: no timer of an earlier mempool, no pause, fill, failure or block of
\* somebody else's has it mine an empty block (trackMempool, timerMineDue).
RestsUntilAsked ==
    [][Resting /\ mempool' = 0 /\ idleMineInterval' = 0 => Resting']_vars

-----------------------------------------------------------------------------
\* What a prompt node leaves of the refresh interval, await by await: past the
\* gate a pass started with a fresh balance, and a sleep runs out in time.
BalancePaced == ~NodeSlow =>
    /\ phase \in {"top", "refresh"} => balanceAge < RefreshInterval + MaxBackoff
    /\ phase \in Phases \ {"top", "refresh", "sleep"} => balanceAge < RefreshInterval
    /\ phase = "sleep" => balanceAge + sleepLeft < RefreshInterval + MaxBackoff

=============================================================================
