-------------------------- MODULE MiningLoopProofs --------------------------
(***************************************************************************)
(* The loop's timers stay coherent, and with a node that answers promptly  *)
(* the exported balance is bounded in age, for every setting of the        *)
(* intervals, the back-off and the mempool bound.                          *)
(***************************************************************************)
EXTENDS MiningLoop, TLAPS

\* Capping keeps a number below the cap.
LEMMA CappedRange ==
  ASSUME NEW n \in Nat, NEW top \in Nat
  PROVE  Capped(n, top) \in 0 .. top
  BY DEF Capped

LEMMA BackoffRange ==
  ASSUME NEW n \in 0 .. StreakCap
  PROVE  Backoff(n) \in 0 .. MaxBackoff
  <1>1. 2 ^ n \in Nat
    BY PowersAssumption
  <1> QED BY <1>1, CappedRange, BoundsAssumption DEF Backoff, BoundsAssumption

LEMMA OlderRange ==
  ASSUME NEW age \in Ages
  PROVE  /\ Older(age) \in Ages
         /\ age = NotSet <=> Older(age) = NotSet
         /\ age # NotSet => Older(age) \in 0 .. Horizon /\ Older(age) <= age + 1
         /\ \A b \in Ages : age <= b => Older(age) <= Older(b)
  BY BoundsAssumption DEF Older, Ages, Capped, NotSet, BoundsAssumption

LEMMA TypeInit == Init => TypeOK
  <1> SUFFICES ASSUME Init PROVE TypeOK
    OBVIOUS
  <1>1. keepMining \in BOOLEAN /\ fillMempoolRunning \in BOOLEAN
    BY Zenon DEF Init
  <1>2. /\ mempool \in 0 .. MaxTxs /\ lastRawMempoolLength \in 0 .. MaxTxs
        /\ reply \in 0 .. MaxTxs /\ sleepLeft \in 0 .. MaxBackoff
        /\ mineAge \in 0 .. Horizon /\ balanceAge \in 0 .. Horizon
        /\ consecutiveErrors \in 0 .. StreakCap /\ mineFailures \in 0 .. StreakCap
        /\ miningTimes \in MiningTimes \cup {DefaultTimes}
        /\ idleMineInterval \in IdleIntervals
    BY BoundsAssumption DEF Init, BoundsAssumption
  <1>3. initialAge \in Ages /\ extendedAge \in Ages /\ phase \in Phases
    BY DEF Init, Ages, Phases
  <1> QED BY <1>1, <1>2, <1>3 DEF TypeOK

LEMMA TypeStep == TypeOK /\ [Next]_vars => TypeOK'
  <1> SUFFICES ASSUME TypeOK, [Next]_vars PROVE TypeOK'
    OBVIOUS
  <1> USE BoundsAssumption DEF TypeOK, Phases, Awaits, Mines
  <1>1. AfterBlock \subseteq 0 .. MaxTxs
    BY DEF AfterBlock, BoundsAssumption
  <1>2. ASSUME LoopStep \/ NodeAnswers PROVE TypeOK'
    <2>1. CASE LoopRefreshes \/ RefreshReturns \/ LoopTimerMine \/ LoopReads \/ Wakes
               \/ NodeAnswers
      BY <2>1 DEF LoopRefreshes, RefreshReturns, LoopTimerMine, LoopReads, Wakes,
         NodeAnswers, Park, operatorVars, timerVars, streakVars, BoundsAssumption
    <2>2. CASE LoopHolds
      BY <2>2 DEF LoopHolds, Sleep, operatorVars, timerVars, streakVars, BoundsAssumption
    <2>3. CASE ReadReturns
      <3>1. /\ initialAge' \in Ages /\ extendedAge' \in Ages
            /\ lastRawMempoolLength' \in 0 .. MaxTxs
        BY <2>3 DEF ReadReturns, TrackMempool, ResetTimers, Ages, BoundsAssumption
      <3>2. phase' \in {"idleMine", "sleep"} /\ sleepLeft' \in 0 .. MaxBackoff
        BY <2>3 DEF ReadReturns, Park, Sleep, BoundsAssumption
      <3>3. consecutiveErrors' = 0 /\ mineFailures' = mineFailures
        BY <2>3 DEF ReadReturns, ClearErrorStreak
      <3> QED
        BY <2>3, <3>1, <3>2, <3>3 DEF ReadReturns, operatorVars, BoundsAssumption
    <2> QED BY <1>2, <2>1, <2>2, <2>3 DEF LoopStep
  <1>3. ASSUME BackOff PROVE /\ consecutiveErrors' \in 0 .. StreakCap
                             /\ phase' = "sleep" /\ sleepLeft' \in 0 .. MaxBackoff
    <2>1. consecutiveErrors' \in 0 .. StreakCap
      BY <1>3, CappedRange DEF BackOff, BoundsAssumption
    <2>2. phase' = "sleep" /\ sleepLeft' = Backoff(consecutiveErrors')
      BY <1>3 DEF BackOff, Sleep
    <2> QED BY <2>1, <2>2, BackoffRange DEF BoundsAssumption
  <1>4. CASE LoopMineFails
    <2>1. mineFailures' \in 0 .. StreakCap
      BY <1>4, CappedRange DEF LoopMineFails, BoundsAssumption
    <2> QED
      BY <1>1, <1>3, <1>4, <2>1 DEF LoopMineFails, MineFails, operatorVars, timerVars
  <1>5. CASE ReadFails
    BY <1>3, <1>5 DEF ReadFails, operatorVars, timerVars
  <1>6. CASE TimerMineSucceeds \/ IdleMineSucceeds
    <2>1. /\ mempool' \in 0 .. MaxTxs /\ mineAge' = 0
          /\ UNCHANGED operatorVars /\ balanceAge' = balanceAge /\ reply' = reply
      BY <1>1, <1>6 DEF TimerMineSucceeds, IdleMineSucceeds, MineSucceeds
    <2>2. consecutiveErrors' = 0 /\ mineFailures' = 0
      BY <1>6, Zenon DEF TimerMineSucceeds, IdleMineSucceeds, ClearErrorStreak
    <2>3. /\ initialAge' \in Ages /\ extendedAge' \in Ages
          /\ lastRawMempoolLength' \in 0 .. MaxTxs
      <3>1. CASE TimerMineSucceeds
        BY <3>1 DEF TimerMineSucceeds, ResetTimers, Ages, BoundsAssumption
      <3>2. CASE IdleMineSucceeds
        BY <3>2 DEF IdleMineSucceeds, timerVars
      <3> QED BY <1>6, <3>1, <3>2
    <2>4. phase' \in {"read", "sleep"} /\ sleepLeft' \in 0 .. MaxBackoff
      <3>1. CASE TimerMineSucceeds
        BY <3>1 DEF TimerMineSucceeds, Park
      <3>2. CASE IdleMineSucceeds
        BY <3>2 DEF IdleMineSucceeds, Sleep, BoundsAssumption
      <3> QED BY <1>6, <3>1, <3>2
    <2> QED BY <2>1, <2>2, <2>3, <2>4 DEF operatorVars, BoundsAssumption
  <1>7. CASE Around
    <2>1. UNCHANGED <<timerVars, streakVars, balanceAge, phase, reply, sleepLeft>>
      BY <1>7 DEF Around, TxArrives, OthersMine, Operate, PauseMining, ContinueMining,
         FillMempool, FillEnds, SetMiningTime, SetDefaultMiningTime, SetIdleMineInterval
    <2>2. mempool' \in 0 .. MaxTxs /\ mineAge' \in 0 .. Horizon
      <3>1. CASE TxArrives
        BY <3>1 DEF TxArrives, BoundsAssumption
      <3>2. CASE OthersMine
        BY <3>2, <1>1 DEF OthersMine, BoundsAssumption
      <3>3. CASE Operate
        BY <3>3 DEF Operate
      <3> QED
        BY <1>7, <3>1, <3>2, <3>3 DEF Around, PauseMining, ContinueMining, FillMempool,
           FillEnds, SetMiningTime, SetDefaultMiningTime, SetIdleMineInterval
    <2>3. keepMining' \in BOOLEAN /\ fillMempoolRunning' \in BOOLEAN
      BY <1>7, Zenon DEF Around, TxArrives, OthersMine, PauseMining,
         ContinueMining, FillMempool, FillEnds, SetMiningTime, SetDefaultMiningTime,
         SetIdleMineInterval, operatorVars
    <2>4. /\ miningTimes' \in MiningTimes \cup {DefaultTimes}
          /\ idleMineInterval' \in IdleIntervals
      BY <1>7 DEF Around, TxArrives, OthersMine, PauseMining,
         ContinueMining, FillMempool, FillEnds, SetMiningTime, SetDefaultMiningTime,
         SetIdleMineInterval, operatorVars
    <2> QED BY <2>1, <2>2, <2>3, <2>4 DEF timerVars, streakVars
  <1>8. CASE Tick
    <2>1. /\ initialAge' \in Ages /\ extendedAge' \in Ages
          /\ mineAge' \in 0 .. Horizon /\ balanceAge' \in 0 .. Horizon
      BY <1>8, OlderRange DEF Tick, Ages, NotSet, BoundsAssumption
    <2>2. sleepLeft' \in 0 .. MaxBackoff
      BY <1>8 DEF Tick, BoundsAssumption
    <2> QED BY <1>8, <2>1, <2>2 DEF Tick, operatorVars, streakVars
  <1>9. CASE UNCHANGED vars
    BY <1>9 DEF vars, operatorVars, timerVars, streakVars
  <1> QED
    BY <1>2, <1>4, <1>5, <1>6, <1>7, <1>8, <1>9 DEF Next, NodeStep

\* The loop's variables keep their types, for every setting.
THEOREM LoopTypeCorrect == Spec => []TypeOK
  BY TypeInit, TypeStep, PTL DEF Spec

-----------------------------------------------------------------------------
LEMMA TimersInit == Init => TimersCoherent
  BY DEF Init, TimersCoherent, NotSet

LEMMA TimersStep == TypeOK /\ TimersCoherent /\ [Next]_vars => TimersCoherent'
  <1> SUFFICES ASSUME TypeOK, TimersCoherent, [Next]_vars PROVE TimersCoherent'
    OBVIOUS
  <1> USE BoundsAssumption DEF TimersCoherent
  <1>1. CASE ReadReturns
    <2>1. CASE reply = 0
      BY <1>1, <2>1 DEF ReadReturns, TrackMempool, ResetTimers, NotSet
    <2>2. CASE reply > lastRawMempoolLength
      BY <1>1, <2>2 DEF ReadReturns, TrackMempool, ResetTimers, NotSet, TypeOK, Ages,
         BoundsAssumption
    <2>3. CASE reply # 0 /\ ~(reply > lastRawMempoolLength)
      BY <1>1, <2>3 DEF ReadReturns, TrackMempool, TypeOK, BoundsAssumption
    <2> QED BY <2>1, <2>2, <2>3
  <1>2. CASE TimerMineSucceeds
    BY <1>2 DEF TimerMineSucceeds, ResetTimers, NotSet
  <1>3. CASE Tick
    BY <1>3, OlderRange DEF Tick, TypeOK
  <1>4. CASE UNCHANGED timerVars
    BY <1>4 DEF timerVars
  <1>5. [Next]_vars => ReadReturns \/ TimerMineSucceeds \/ Tick \/ UNCHANGED timerVars
    BY DEF Next, LoopStep, NodeStep, Around, LoopRefreshes, RefreshReturns, LoopHolds,
       LoopTimerMine, LoopReads, Wakes, IdleMineSucceeds, LoopMineFails, NodeAnswers,
       ReadFails, TxArrives, OthersMine, Operate, PauseMining, ContinueMining,
       FillMempool, FillEnds, SetMiningTime, SetDefaultMiningTime,
       SetIdleMineInterval, vars
  <1> QED BY <1>1, <1>2, <1>3, <1>4, <1>5

\* Timers run exactly while the last read found transactions, whatever the
\* intervals and however large the mempool grows.
THEOREM TimersStayCoherent == Spec => []TimersCoherent
  BY LoopTypeCorrect, TimersInit, TimersStep, PTL DEF Spec

-----------------------------------------------------------------------------
\* A sleep that starts with a fresh balance, and one that goes on.
LEMMA SleepStarts ==
  ASSUME NEW age \in Int, NEW sleep \in Int, NEW interval \in Int, NEW backoff \in Int,
         age < interval, sleep <= backoff
  PROVE  age + sleep < interval + backoff
  OBVIOUS

LEMMA SleepGoesOn ==
  ASSUME NEW age \in Int, NEW later \in Int, NEW sleep \in Int, NEW bound \in Int,
         age + sleep < bound, later <= age + 1
  PROVE  later + (sleep - 1) < bound
  OBVIOUS

LEMMA PacedInit == Init => BalancePaced
  BY BoundsAssumption DEF Init, BalancePaced, BoundsAssumption, Phases

LEMMA PacedStep == TypeOK /\ TypeOK' /\ BalancePaced /\ [Next]_vars => BalancePaced'
  <1> SUFFICES ASSUME TypeOK, TypeOK', BalancePaced, [Next]_vars, ~NodeSlow
               PROVE  BalancePaced'
    BY DEF BalancePaced
  <1>a. /\ balanceAge \in 0 .. Horizon /\ balanceAge' \in 0 .. Horizon
        /\ sleepLeft' \in 0 .. MaxBackoff /\ sleepLeft \in 0 .. MaxBackoff
        /\ RefreshInterval \in Nat /\ MaxBackoff \in Nat \ {0}
        /\ RefreshInterval > 0 /\ Horizon \in Nat
    BY BoundsAssumption DEF TypeOK, BoundsAssumption
  <1>c. /\ balanceAge \in Int /\ balanceAge' \in Int
        /\ sleepLeft \in Int /\ sleepLeft' \in Int /\ sleepLeft' <= MaxBackoff
        /\ RefreshInterval \in Int /\ MaxBackoff \in Int
        /\ RefreshInterval + MaxBackoff \in Int
    BY <1>a
  \* Past the gate: on to another await, or to a sleep.
  <1>b. ASSUME balanceAge < RefreshInterval, balanceAge' = balanceAge,
               phase' \in Phases
        PROVE  BalancePaced'
    <2>1. balanceAge' < RefreshInterval /\ balanceAge' < RefreshInterval + MaxBackoff
      BY <1>a, <1>b
    <2>2. balanceAge' + sleepLeft' < RefreshInterval + MaxBackoff
      BY <1>b, <1>c, SleepStarts
    <2> QED BY <2>1, <2>2 DEF BalancePaced
  <1>1. CASE LoopRefreshes \/ RefreshReturns
    BY <1>1, <1>a DEF LoopRefreshes, RefreshReturns, Park, BalancePaced
  <1>2. CASE LoopHolds \/ LoopTimerMine \/ LoopReads
    <2>1. balanceAge < RefreshInterval
      BY <1>2, <1>a DEF LoopHolds, LoopTimerMine, LoopReads, AtGate, RefreshDue,
         BalancePaced, Phases
    <2>2. balanceAge' = balanceAge
      BY <1>2 DEF LoopHolds, LoopTimerMine, LoopReads
    <2> QED BY <2>1, <2>2, <1>b DEF TypeOK
  <1>3. CASE NodeStep \/ ReadReturns
    <2>1. phase \in {"timerMine", "idleMine", "read", "reply"}
      BY <1>3 DEF NodeStep, ReadReturns, TimerMineSucceeds, IdleMineSucceeds,
         LoopMineFails, MineFails, NodeAnswers, ReadFails, Mines
    <2>2. balanceAge' = balanceAge
      BY <1>3 DEF NodeStep, ReadReturns, TimerMineSucceeds, IdleMineSucceeds,
         LoopMineFails, NodeAnswers, ReadFails
    <2>3. balanceAge < RefreshInterval
      BY <2>1 DEF BalancePaced, Phases, Awaits, Mines
    <2> QED BY <2>2, <2>3, <1>b DEF TypeOK
  <1>4. CASE Wakes
    BY <1>4, <1>a DEF Wakes, Park, BalancePaced
  <1>5. CASE UNCHANGED <<balanceAge, phase, sleepLeft>>
    BY <1>5 DEF BalancePaced
  <1>6. CASE Tick
    <2>1. /\ phase = "sleep" /\ phase' = "sleep"
          /\ sleepLeft > 0 /\ sleepLeft' = sleepLeft - 1
      BY <1>6 DEF Tick
    <2>2. balanceAge' <= balanceAge + 1
      BY <1>6, <1>a, OlderRange DEF Tick, Ages, NotSet
    <2>3. balanceAge + sleepLeft < RefreshInterval + MaxBackoff
      BY <2>1 DEF BalancePaced
    <2>4. balanceAge' + sleepLeft' < RefreshInterval + MaxBackoff
      <3>1. balanceAge' + (sleepLeft - 1) < RefreshInterval + MaxBackoff
        BY <2>2, <2>3, <1>c, SleepGoesOn
      <3> QED BY <3>1, <2>1
    <2> QED BY <2>1, <2>4 DEF BalancePaced, Phases
  <1>7. Around => UNCHANGED <<balanceAge, phase, sleepLeft>>
    BY DEF Around, TxArrives, OthersMine, Operate, PauseMining, ContinueMining,
       FillMempool, FillEnds, SetMiningTime, SetDefaultMiningTime, SetIdleMineInterval
  <1>8. UNCHANGED vars => UNCHANGED <<balanceAge, phase, sleepLeft>>
    BY DEF vars
  <1> QED
    BY <1>1, <1>2, <1>3, <1>4, <1>5, <1>6, <1>7, <1>8 DEF Next, LoopStep

\* The balance is never older than its interval and one back-off, if the node
\* answers promptly: a pause, a fill or a failing node does not silence it.
THEOREM BalanceStaysBounded == Spec => []BalanceBounded
  <1>1. TypeOK /\ BalancePaced => BalanceBounded
    BY BoundsAssumption DEF TypeOK, BalancePaced, BalanceBounded, BoundsAssumption, Phases
  <1> QED BY <1>1, LoopTypeCorrect, PacedInit, PacedStep, PTL DEF Spec

-----------------------------------------------------------------------------
(* The verdict on a miner that cannot mine, and the miner at rest.         *)

\* What a step does to the streak of failed mines.
LEMMA StreakCases ==
  ASSUME [Next]_vars, ~TimerMineSucceeds, ~IdleMineSucceeds
  PROVE  mineFailures' \in {mineFailures, Capped(mineFailures + 1, StreakCap)}
  <1>1. CASE LoopStep
    BY <1>1 DEF LoopStep, LoopRefreshes, RefreshReturns, LoopHolds, LoopTimerMine,
       LoopReads, ReadReturns, ClearErrorStreak, Wakes, streakVars
  <1>2. CASE NodeStep
    BY <1>2 DEF NodeStep, LoopMineFails, NodeAnswers, ReadFails, streakVars
  <1>3. CASE Around
    BY <1>3 DEF Around, TxArrives, OthersMine, Operate, PauseMining, ContinueMining,
       FillMempool, FillEnds, SetMiningTime, SetDefaultMiningTime, SetIdleMineInterval,
       streakVars
  <1>4. CASE Tick \/ UNCHANGED vars
    BY <1>4 DEF Tick, streakVars, vars
  <1> QED BY <1>1, <1>2, <1>3, <1>4 DEF Next

LEMMA StallStep ==
  ASSUME TypeOK, [Next]_vars, mineFailures >= ErrorThreshold,
         ~TimerMineSucceeds, ~IdleMineSucceeds
  PROVE  mineFailures' >= ErrorThreshold /\ (keepMining' => ~Healthy')
  <1>1. /\ ErrorThreshold \in Nat /\ StreakCap \in Nat /\ ErrorThreshold <= StreakCap
        /\ mineFailures \in 0 .. StreakCap
    BY BoundsAssumption DEF TypeOK
  <1>2. Capped(mineFailures + 1, StreakCap) >= mineFailures
    BY <1>1 DEF Capped
  <1>3. mineFailures' \in 0 .. StreakCap
    BY TypeStep DEF TypeOK
  <1>4. mineFailures' >= ErrorThreshold
    <2>1. CASE mineFailures' = mineFailures
      BY <2>1
    <2>2. CASE mineFailures' = Capped(mineFailures + 1, StreakCap)
      BY <1>1, <1>2, <1>3, <2>2
    <2> QED BY <2>1, <2>2, StreakCases
  <1>5. ~(mineFailures' < ErrorThreshold)
    BY <1>1, <1>3, <1>4
  <1> QED BY <1>4, <1>5 DEF Healthy

\* Whatever the threshold and the cap of the streaks, only a mine of the loop that
\* succeeds takes back the verdict on one whose mines fail (clearErrorStreak).
THEOREM StallStandsAlways == Spec => StallStands
  <1>1. TypeOK /\ [Next]_vars =>
            [mineFailures >= ErrorThreshold /\ ~TimerMineSucceeds /\ ~IdleMineSucceeds
                => mineFailures' >= ErrorThreshold /\ (keepMining' => ~Healthy')]_vars
    BY StallStep
  <1> QED BY <1>1, LoopTypeCorrect, PTL DEF Spec, StallStands

LEMMA RestStep ==
  ASSUME TypeOK, TimersCoherent, [Next]_vars,
         Resting, mempool' = 0, idleMineInterval' = 0
  PROVE  Resting'
  <1> USE DEF Resting, Mines
  <1>1. initialAge = NotSet /\ ~TimerMineDue
    BY DEF TimersCoherent, TimerMineDue
  <1>2. CASE LoopStep
    <2>1. CASE ReadReturns
      <3>1. reply' = 0 /\ lastRawMempoolLength' = 0
        BY <2>1 DEF ReadReturns, TrackMempool, ResetTimers
      <3>2. ~IdleMineDue
        BY DEF IdleMineDue
      <3>3. phase' = "sleep"
        BY <2>1, <3>2 DEF ReadReturns, Sleep
      <3> QED BY <3>1, <3>3
    <2>2. CASE LoopRefreshes \/ RefreshReturns \/ LoopHolds \/ LoopTimerMine \/ LoopReads
               \/ Wakes
      BY <1>1, <2>2 DEF LoopRefreshes, RefreshReturns, LoopHolds, LoopTimerMine, LoopReads,
         Wakes, Park, Sleep, timerVars
    <2> QED BY <1>2, <2>1, <2>2 DEF LoopStep
  <1>3. CASE NodeStep
    BY <1>3 DEF NodeStep, TimerMineSucceeds, IdleMineSucceeds, LoopMineFails, MineFails,
       NodeAnswers, ReadFails, BackOff, Park, Sleep, timerVars
  <1>4. CASE Around
    BY <1>4 DEF Around, TxArrives, OthersMine, Operate, PauseMining, ContinueMining,
       FillMempool, FillEnds, SetMiningTime, SetDefaultMiningTime, SetIdleMineInterval,
       timerVars
  <1>5. CASE Tick \/ UNCHANGED vars
    BY <1>5 DEF Tick, vars, timerVars
  <1> QED BY <1>2, <1>3, <1>4, <1>5 DEF Next

\* A miner at rest mines nothing before a transaction arrives or the heartbeat is
\* turned on, whatever its settings (trackMempool, timerMineDue).
THEOREM AlwaysRestsUntilAsked == Spec => RestsUntilAsked
  <1>1. TypeOK /\ TimersCoherent /\ [Next]_vars =>
            [Resting /\ mempool' = 0 /\ idleMineInterval' = 0 => Resting']_vars
    BY RestStep
  <1> QED BY <1>1, LoopTypeCorrect, TimersStayCoherent, PTL DEF Spec, RestsUntilAsked

=============================================================================
