------------------------ MODULE MineExclusionProofs ------------------------
(***************************************************************************)
(* Proofs about MineExclusion, for any set of calls and any RpcTimeout.    *)
(***************************************************************************)
EXTENDS MineExclusion, FiniteSetTheorems, TLAPS

-----------------------------------------------------------------------------
(* Type correctness.                                                       *)

LEMMA FlagsInit == Init => FlagsOK
  BY Zenon DEF Init, FlagsOK

LEMMA CountersInit == Init => CountersOK
  BY DEF Init, CountersOK

LEMMA QueueInit == Init => QueueOK
  BY DEF Init, QueueOK

LEMMA PhasesInit == Init => PhasesOK
  <1>1. {"prepare"} \subseteq MainPhases /\ {"idle"} \subseteq CallPhases
    BY DEF MainPhases, CallPhases
  <1> QED BY <1>1, CallsAssumption DEF Init, PhasesOK, Procs

LEMMA FlagsStep == FlagsOK /\ [Next]_vars => FlagsOK'
  <1> SUFFICES ASSUME FlagsOK, [Next]_vars PROVE FlagsOK'
    OBVIOUS
  <1> DEFINE flags == <<stateVars, miningStarted, fillMempoolRunning, pauseVars, history>>
  <1>a. ASSUME UNCHANGED flags PROVE FlagsOK'
    BY <1>a, Zenon DEF FlagsOK, stateVars, pauseVars, history
  <1> HIDE DEF flags
  <1>1. CASE MainStep
    <2>1. CASE StartLoop
      BY <2>1, Zenon DEF FlagsOK, StartLoop, Resume, AsksToMine, pauseVars
    <2>2. CASE UNCHANGED flags
      BY <2>2, <1>a
    <2> QED
      BY <1>1, <2>1, <2>2 DEF flags, MainStep, WarmUpMine, BootFails, LoopTimerMine,
         LoopPolls, LoopIdles, LoopIdleMine, LoopSkipsIdleMine, vars
  <1>2. CASE MainMineReturns
    BY <1>2, <1>a DEF flags, MainMineReturns, WarmUpReturns, LoopMineReturns
  <1>3. ASSUME NEW c \in Calls, Arrive(c) PROVE FlagsOK'
    <2>1. CASE Refuse(c) \/ GenerateBlocks(c)
      BY <2>1, <1>a DEF flags, Refuse, GenerateBlocks
    <2>2. CASE PauseMining(c)
      BY <2>2, Zenon DEF FlagsOK, PauseMining, ClaimPause, AsksToStop, pauseVars
    <2>3. CASE ContinueMining(c)
      BY <2>3, Zenon DEF FlagsOK, ContinueMining, Resume, AsksToMine, pauseVars
    <2>4. CASE FillMempool(c)
      BY <2>4, Zenon DEF FlagsOK, FillMempool, ClaimPause, AsksToStop, pauseVars
    <2>5. CASE InvalidateBlock(c)
      BY <2>5, Zenon DEF FlagsOK, InvalidateBlock, ClaimPause, AsksToStop, pauseVars
    <2>6. CASE ReconsiderBlock(c)
      BY <2>6, Zenon DEF FlagsOK, ReconsiderBlock, EnterReorgPause, ClaimPause, history
    <2> QED BY <1>3, <2>1, <2>2, <2>3, <2>4, <2>5, <2>6 DEF Arrive
  <1>4. ASSUME NEW c \in Calls, CallStep(c) PROVE FlagsOK'
    <2>a. ASSUME ExitReorgPause, UNCHANGED <<miningStarted, fillMempoolRunning, history>>
          PROVE  FlagsOK'
      BY <2>a, Zenon DEF FlagsOK, ExitReorgPause, Resume, stateVars, history
    <2>b. ASSUME UNCHANGED <<stateVars, miningStarted, pauseVars, history>>,
                 UNCHANGED fillMempoolRunning \/ fillMempoolRunning' = FALSE
          PROVE  FlagsOK'
      BY <2>b, Zenon DEF FlagsOK, stateVars, pauseVars, history
    <2>1. CASE FillEnds(c)
      BY <2>1, <2>b DEF FillEnds
    <2>2. ASSUME NEW outcome \in Outcomes, FillMineReturns(c, outcome) PROVE FlagsOK'
      BY <2>2, <2>b DEF FillMineReturns
    <2>3. ASSUME NEW outcome \in Outcomes, ReconsiderReturns(c, outcome) PROVE FlagsOK'
      <3>1. CASE outcome = "ok"
        BY <2>3, <3>1, <2>b DEF ReconsiderReturns
      <3>2. CASE outcome # "ok"
        BY <2>3, <3>2, <2>a DEF ReconsiderReturns
      <3> QED BY <3>1, <3>2
    <2>4. CASE ReconsiderRefreshed(c)
      BY <2>4, <2>a DEF ReconsiderRefreshed
    <2>5. CASE UNCHANGED flags
      BY <2>5, <1>a
    <2> QED
      BY <1>4, <2>1, <2>2, <2>3, <2>4, <2>5 DEF flags, CallStep, PauseDrained,
         FillDrained, FillMine, ReorgDispatches, InvalidateRefreshed, GenerateReturns,
         InvalidateReturns
  <1>5. ASSUME NEW p \in Procs, Dispatch(p) PROVE FlagsOK'
    BY <1>5, <1>a DEF flags, Dispatch
  <1>6. ASSUME NEW kind \in abandoned, NodeFinishes(kind) PROVE FlagsOK'
    BY <1>6, <1>a DEF flags, NodeFinishes
  <1>7. CASE UNCHANGED vars
    BY <1>7, <1>a DEF flags, vars
  <1> QED BY <1>1, <1>2, <1>3, <1>4, <1>5, <1>6, <1>7 DEF Next

LEMMA CountersStep == CountersOK /\ [Next]_vars => CountersOK'
  <1> SUFFICES ASSUME CountersOK, [Next]_vars PROVE CountersOK'
    OBVIOUS
  <1> USE DEF CountersOK, stateVars, pauseVars, ClaimPause, Resume
  <1>1. CASE MainStep
    BY <1>1 DEF MainStep, WarmUpMine, BootFails, StartLoop, LoopTimerMine, LoopPolls,
       LoopIdles, LoopIdleMine, LoopSkipsIdleMine, vars
  <1>2. CASE MainMineReturns
    BY <1>2 DEF MainMineReturns, WarmUpReturns, LoopMineReturns
  <1>3. ASSUME NEW c \in Calls, Arrive(c) PROVE CountersOK'
    BY <1>3 DEF Arrive, Refuse, PauseMining, ContinueMining, GenerateBlocks, FillMempool,
       InvalidateBlock, ReconsiderBlock, EnterReorgPause
  <1>4. ASSUME NEW c \in Calls, CallStep(c) PROVE CountersOK'
    <2>1. CASE ExitReorgPause
      BY <2>1 DEF ExitReorgPause
    <2>2. CASE UNCHANGED <<stateVars, pauseVars>>
      BY <2>2
    <2> QED
      BY <1>4, <2>1, <2>2 DEF CallStep, PauseDrained, FillDrained, FillMine, FillEnds,
         ReorgDispatches, InvalidateRefreshed, ReconsiderRefreshed, GenerateReturns,
         FillMineReturns, InvalidateReturns, ReconsiderReturns
  <1>5. ASSUME NEW p \in Procs, Dispatch(p) PROVE CountersOK'
    BY <1>5 DEF Dispatch
  <1>6. ASSUME NEW kind \in abandoned, NodeFinishes(kind) PROVE CountersOK'
    BY <1>6 DEF NodeFinishes
  <1>7. CASE UNCHANGED vars
    BY <1>7 DEF vars
  <1> QED BY <1>1, <1>2, <1>3, <1>4, <1>5, <1>6, <1>7 DEF Next

LEMMA PhasesStep == PhasesOK /\ [Next]_vars => PhasesOK'
  <1> SUFFICES ASSUME PhasesOK, [Next]_vars PROVE PhasesOK'
    OBVIOUS
  <1>a. \A c \in Calls : c # Main /\ c \in Procs
    BY CallsAssumption DEF Procs
  <1>b. ASSUME NEW phase \in MainPhases, Goto(Main, phase) PROVE PhasesOK'
    BY <1>a, <1>b DEF PhasesOK, Goto, Procs
  <1>c. ASSUME NEW c \in Calls, NEW phase \in CallPhases, Goto(c, phase) PROVE PhasesOK'
    BY <1>a, <1>c DEF PhasesOK, Goto
  <1>d. ASSUME UNCHANGED pc PROVE PhasesOK'
    BY <1>d DEF PhasesOK
  <1>e. {"prepare", "warmUp", "warmed", "loop", "poll", "exited", "timerMine",
         "idleMine"} \subseteq MainPhases
    BY DEF MainPhases, LoopMinePhases
  <1>f. {"answered", "pauseDrain", "generate", "fillDrain", "fillFund", "fillFunded",
         "fillSplit", "fillStress", "fillChunkMine", "fillLastMine", "fillSplitMine",
         "invDrain", "invNode", "invRefresh", "recDrain", "recNode", "recRefresh"}
           \subseteq CallPhases
    BY DEF CallPhases, PausePhases, GeneratePhases, FillPhases, FillMinePhases,
       InvalidatePhases, ReconsiderPhases
  <1>1. CASE MainStep
    BY <1>1, <1>b, <1>d, <1>e DEF MainStep, WarmUpMine, BootFails, StartLoop,
       LoopTimerMine, LoopPolls, LoopIdles, LoopIdleMine, LoopSkipsIdleMine, vars
  <1>2. CASE MainMineReturns
    BY <1>2, <1>b, <1>e DEF MainMineReturns, WarmUpReturns, LoopMineReturns
  <1>3. ASSUME NEW c \in Calls, Arrive(c) PROVE PhasesOK'
    BY <1>3, <1>c, <1>f DEF Arrive, Refuse, PauseMining, ContinueMining, GenerateBlocks,
       FillMempool, InvalidateBlock, ReconsiderBlock
  <1>4. ASSUME NEW c \in Calls, CallStep(c) PROVE PhasesOK'
    BY <1>4, <1>c, <1>f DEF CallStep, PauseDrained, FillDrained, FillMine, FillEnds,
       ReorgDispatches, InvalidateRefreshed, ReconsiderRefreshed, GenerateReturns,
       FillMineReturns, AfterFillMine, FillMinePhases, InvalidateReturns, ReconsiderReturns
  <1>5. ASSUME NEW p \in Procs, Dispatch(p) PROVE PhasesOK'
    BY <1>5, <1>d DEF Dispatch
  <1>6. ASSUME NEW kind \in abandoned, NodeFinishes(kind) PROVE PhasesOK'
    BY <1>6, <1>d DEF NodeFinishes
  <1>7. CASE UNCHANGED vars
    BY <1>7, <1>d DEF vars
  <1> QED BY <1>1, <1>2, <1>3, <1>4, <1>5, <1>6, <1>7 DEF Next

-----------------------------------------------------------------------------
(* What a step can do to the queue, the holds and the awaits.              *)

Involved == MinePhases \cup HoldPhases

\* p moves to one of the phases.
To(p, phases) == \E phase \in phases : Goto(p, phase)

ToUninvolved(p) == \E phase \in (CallPhases \cup MainPhases) \ Involved : Goto(p, phase)

Appends(p) ==
    /\ pc[p] \notin Involved
    /\ GenerateBlocksQueued(p)
    /\ To(p, MinePhases)
    /\ UNCHANGED <<holds, abandoned>>

Parks(c) ==
    /\ pc[c] \notin Involved
    /\ CaptureTail(c)
    /\ ToUninvolved(c)
    /\ UNCHANGED <<holds, abandoned>>

Raises(c) ==
    /\ pc[c] \notin Involved
    /\ CaptureTail(c)
    /\ EnterReorgMineHold(c)
    /\ To(c, DrainingReorg)
    /\ UNCHANGED abandoned

Runs(p) ==
    /\ Dispatch(p)
    /\ UNCHANGED <<behind, heldBy, holds, pc, abandoned>>

Settles(p) ==
    /\ pc[p] \in MinePhases
    /\ \E outcome \in Outcomes : Settle(p, outcome)
    /\ ToUninvolved(p)
    /\ UNCHANGED holds

Reaches(c) ==
    /\ pc[c] \in DrainingReorg
    /\ Drained(c)
    /\ To(c, RunningReorg)
    /\ UNCHANGED <<queueVars, holds, abandoned>>

Releases(c) ==
    /\ pc[c] \in RunningReorg
    /\ ExitReorgMineHold(c)
    /\ \E outcome \in Outcomes : Abandons("reorg", outcome)
    /\ ToUninvolved(c)

Moves(p) ==
    /\ pc[p] \notin Involved
    /\ ToUninvolved(p)
    /\ UNCHANGED <<queueVars, holds, abandoned>>

Rests ==
    /\ UNCHANGED <<queueVars, holds, pc>>
    /\ abandoned' \subseteq abandoned

QueueStep ==
    \/ \E p \in Procs : Appends(p) \/ Runs(p) \/ Settles(p) \/ Moves(p)
    \/ \E c \in Calls : Parks(c) \/ Raises(c) \/ Reaches(c) \/ Releases(c)
    \/ Rests

LEMMA NextIsQueueStep == [Next]_vars => QueueStep
  <1> SUFFICES ASSUME [Next]_vars PROVE QueueStep
    OBVIOUS
  <1>a. Main \in Procs /\ \A c \in Calls : c \in Procs
    BY DEF Procs
  <1>b. /\ {"warmUp", "generate", "timerMine", "idleMine", "fillChunkMine",
            "fillLastMine", "fillSplitMine"} = MinePhases
        /\ {"invDrain", "recDrain"} = DrainingReorg
        /\ {"invNode", "recNode"} = RunningReorg
    BY DEF MinePhases, LoopMinePhases, FillMinePhases, DrainingReorg, RunningReorg
  <1>c. {"prepare", "warmed", "loop", "poll", "exited", "idle", "answered", "pauseDrain",
         "fillDrain", "fillFund", "fillFunded", "fillSplit", "fillStress", "invRefresh",
         "recRefresh"} = (CallPhases \cup MainPhases) \ Involved
    BY DEF Involved, MinePhases, LoopMinePhases, FillMinePhases, HoldPhases, DrainingReorg,
       RunningReorg, CallPhases, MainPhases, PausePhases, GeneratePhases, FillPhases,
       InvalidatePhases, ReconsiderPhases
  <1>d. \A phase \in (CallPhases \cup MainPhases) \ Involved : phase \notin Involved
    OBVIOUS
  <1>1. CASE MainStep
    <2>1. CASE WarmUpMine \/ LoopTimerMine \/ LoopIdleMine
      <3>1. Appends(Main)
        BY <2>1, <1>b, <1>c, <1>d DEF WarmUpMine, LoopTimerMine, LoopIdleMine, Appends, To
      <3> QED BY <3>1, <1>a DEF QueueStep
    <2>2. CASE BootFails \/ StartLoop \/ LoopPolls \/ LoopSkipsIdleMine
      <3>1. Moves(Main)
        BY <2>2, <1>c, <1>d DEF BootFails, StartLoop, LoopPolls, LoopSkipsIdleMine, Moves,
           ToUninvolved
      <3> QED BY <3>1, <1>a DEF QueueStep
    <2>3. CASE LoopIdles
      BY <2>3 DEF LoopIdles, QueueStep, Rests, vars
    <2> QED BY <1>1, <2>1, <2>2, <2>3 DEF MainStep
  <1>2. CASE MainMineReturns
    <2>1. PICK outcome \in Outcomes : WarmUpReturns(outcome) \/ LoopMineReturns(outcome)
      BY <1>2 DEF MainMineReturns
    <2>2. Settles(Main)
      BY <2>1, <1>b, <1>c DEF WarmUpReturns, LoopMineReturns, LoopMinePhases, Settles,
         ToUninvolved
    <2> QED BY <2>2, <1>a DEF QueueStep
  <1>3. ASSUME NEW c \in Calls, Arrive(c) PROVE QueueStep
    <2>1. CASE Refuse(c) \/ ContinueMining(c)
      <3>1. Moves(c)
        BY <2>1, <1>c, <1>d DEF Refuse, ContinueMining, Moves, ToUninvolved
      <3> QED BY <3>1, <1>a DEF QueueStep
    <2>2. CASE PauseMining(c) \/ FillMempool(c)
      <3>1. Parks(c)
        BY <2>2, <1>c, <1>d DEF PauseMining, FillMempool, Parks, ToUninvolved
      <3> QED BY <3>1 DEF QueueStep
    <2>3. CASE GenerateBlocks(c)
      <3>1. Appends(c)
        BY <2>3, <1>b, <1>c, <1>d DEF GenerateBlocks, Appends, To
      <3> QED BY <3>1, <1>a DEF QueueStep
    <2>4. CASE InvalidateBlock(c) \/ ReconsiderBlock(c)
      <3>1. Raises(c)
        BY <2>4, <1>b, <1>c, <1>d DEF InvalidateBlock, ReconsiderBlock, Raises, To
      <3> QED BY <3>1 DEF QueueStep
    <2> QED BY <1>3, <2>1, <2>2, <2>3, <2>4 DEF Arrive
  <1>4. ASSUME NEW c \in Calls, CallStep(c) PROVE QueueStep
    <2>1. CASE PauseDrained(c) \/ FillDrained(c) \/ FillEnds(c) \/ InvalidateRefreshed(c)
               \/ ReconsiderRefreshed(c)
      <3>1. Moves(c)
        BY <2>1, <1>c, <1>d DEF PauseDrained, FillDrained, FillEnds, InvalidateRefreshed,
           ReconsiderRefreshed, Moves, ToUninvolved
      <3> QED BY <3>1, <1>a DEF QueueStep
    <2>2. CASE FillMine(c)
      <3>1. Appends(c)
        BY <2>2, <1>b, <1>c, <1>d DEF FillMine, Appends, To
      <3> QED BY <3>1, <1>a DEF QueueStep
    <2>3. CASE ReorgDispatches(c)
      <3>1. Reaches(c)
        BY <2>3, <1>b DEF ReorgDispatches, Reaches, To
      <3> QED BY <3>1 DEF QueueStep
    <2>4. ASSUME NEW outcome \in Outcomes,
                 GenerateReturns(c, outcome) \/ FillMineReturns(c, outcome)
          PROVE  QueueStep
      <3>1. Settles(c)
        BY <2>4, <1>b, <1>c DEF GenerateReturns, FillMineReturns, FillMinePhases,
           AfterFillMine, Settles, ToUninvolved
      <3> QED BY <3>1, <1>a DEF QueueStep
    <2>5. ASSUME NEW outcome \in Outcomes,
                 InvalidateReturns(c, outcome) \/ ReconsiderReturns(c, outcome)
          PROVE  QueueStep
      <3>1. Releases(c)
        BY <2>5, <1>b, <1>c DEF InvalidateReturns, ReconsiderReturns, Releases, ToUninvolved
      <3> QED BY <3>1 DEF QueueStep
    <2> QED BY <1>4, <2>1, <2>2, <2>3, <2>4, <2>5 DEF CallStep
  <1>5. ASSUME NEW p \in Procs, Dispatch(p) PROVE QueueStep
    BY <1>5 DEF Dispatch, Runs, QueueStep
  <1>6. ASSUME NEW kind \in abandoned, NodeFinishes(kind) PROVE QueueStep
    BY <1>6 DEF NodeFinishes, Rests, QueueStep
  <1>7. CASE UNCHANGED vars
    BY <1>7 DEF vars, Rests, QueueStep
  <1> QED BY <1>1, <1>2, <1>3, <1>4, <1>5, <1>6, <1>7 DEF Next

-----------------------------------------------------------------------------
(* The mine queue and the holds.                                           *)

LEMMA QueueTypeStep == QueueOK /\ QueueStep => QueueOK'
  <1> SUFFICES ASSUME QueueOK, QueueStep PROVE QueueOK'
    OBVIOUS
  <1> USE DEF QueueOK
  <1>a. \A c \in Calls : c \in Procs
    BY DEF Procs
  <1>b. Unsettled \subseteq Procs
    BY DEF Unsettled
  <1>1. ASSUME NEW p \in Procs, Appends(p) PROVE QueueOK'
    BY <1>1, <1>b DEF Appends, GenerateBlocksQueued, QueueTail, HoldsSeen
  <1>2. ASSUME NEW p \in Procs, Runs(p) PROVE QueueOK'
    BY <1>2 DEF Runs, Dispatch
  <1>3. ASSUME NEW p \in Procs, Settles(p) PROVE QueueOK'
    BY <1>3 DEF Settles, Settle, Abandons
  <1>4. ASSUME NEW p \in Procs, Moves(p) PROVE QueueOK'
    BY <1>4 DEF Moves, queueVars
  <1>5. ASSUME NEW c \in Calls, Parks(c) PROVE QueueOK'
    BY <1>5, <1>a, <1>b DEF Parks, CaptureTail, QueueTail
  <1>6. ASSUME NEW c \in Calls, Raises(c) PROVE QueueOK'
    BY <1>6, <1>a, <1>b DEF Raises, CaptureTail, QueueTail, EnterReorgMineHold
  <1>7. ASSUME NEW c \in Calls, Reaches(c) PROVE QueueOK'
    BY <1>7 DEF Reaches, queueVars
  <1>8. ASSUME NEW c \in Calls, Releases(c) PROVE QueueOK'
    BY <1>8 DEF Releases, ExitReorgMineHold, Abandons
  <1>9. CASE Rests
    BY <1>9 DEF Rests, queueVars
  <1> QED BY <1>1, <1>2, <1>3, <1>4, <1>5, <1>6, <1>7, <1>8, <1>9 DEF QueueStep

\* The queue, the holds, the pauses and the phases keep their types, whatever
\* calls overlap.
THEOREM TypeCorrect == Spec => []TypeOK
  <1>1. Init => TypeOK
    BY FlagsInit, CountersInit, QueueInit, PhasesInit DEF TypeOK
  <1>2. TypeOK /\ [Next]_vars => TypeOK'
    BY FlagsStep, CountersStep, QueueTypeStep, PhasesStep, NextIsQueueStep DEF TypeOK
  <1> QED BY <1>1, <1>2, PTL DEF Spec

\* Where a step leaves the awaits of everybody but the one that takes it.
LEMMA GotoElsewhere ==
  ASSUME PhasesOK, NEW p \in Procs, NEW phase, Goto(p, phase)
  PROVE  pc'[p] = phase /\ \A q \in Procs : q # p => pc'[q] = pc[q]
  BY DEF PhasesOK, Goto

LEMMA MatchesStep ==
  ASSUME QueueOK, PhasesOK, QueueMatchesPhases, QueueStep
  PROVE  QueueMatchesPhases'
  <1> USE DEF QueueOK, QueueMatchesPhases
  <1>a. \A c \in Calls : c \in Procs
    BY DEF Procs
  <1>b. /\ MinePhases \cap HoldPhases = {}
        /\ DrainingReorg \subseteq HoldPhases /\ RunningReorg \subseteq HoldPhases
    BY DEF MinePhases, LoopMinePhases, FillMinePhases, HoldPhases, DrainingReorg,
       RunningReorg
  <1>1. ASSUME NEW p \in Procs, Appends(p) PROVE QueueMatchesPhases'
    BY <1>1, <1>a, <1>b, GotoElsewhere
       DEF Appends, To, Involved, GenerateBlocksQueued
  <1>2. ASSUME NEW p \in Procs, Runs(p) PROVE QueueMatchesPhases'
    BY <1>2 DEF Runs, Dispatch
  <1>3. ASSUME NEW p \in Procs, Settles(p) PROVE QueueMatchesPhases'
    BY <1>3, <1>a, <1>b, GotoElsewhere DEF Settles, ToUninvolved, Involved, Settle
  <1>4. ASSUME NEW p \in Procs, Moves(p) PROVE QueueMatchesPhases'
    BY <1>4, <1>a, GotoElsewhere DEF Moves, ToUninvolved, Involved, queueVars
  <1>5. ASSUME NEW c \in Calls, Parks(c) PROVE QueueMatchesPhases'
    BY <1>5, <1>a, GotoElsewhere DEF Parks, ToUninvolved, Involved, CaptureTail
  <1>6. ASSUME NEW c \in Calls, Raises(c) PROVE QueueMatchesPhases'
    BY <1>6, <1>a, <1>b, GotoElsewhere
       DEF Raises, To, Involved, CaptureTail, EnterReorgMineHold
  <1>7. ASSUME NEW c \in Calls, Reaches(c) PROVE QueueMatchesPhases'
    BY <1>7, <1>a, <1>b, GotoElsewhere DEF Reaches, To, queueVars
  <1>8. ASSUME NEW c \in Calls, Releases(c) PROVE QueueMatchesPhases'
    BY <1>8, <1>a, <1>b, GotoElsewhere
       DEF Releases, ToUninvolved, Involved, ExitReorgMineHold
  <1>9. CASE Rests
    BY <1>9 DEF Rests, queueVars
  <1> QED BY <1>1, <1>2, <1>3, <1>4, <1>5, <1>6, <1>7, <1>8, <1>9 DEF QueueStep

LEMMA WaitsStep ==
  ASSUME QueueOK, PhasesOK, QueueMatchesPhases, WaitsAreReal, QueueStep
  PROVE  WaitsAreReal'
  <1> USE DEF QueueOK, QueueMatchesPhases, WaitsAreReal, Unsettled, MinesAtNode, ReorgsAtNode
  <1>a. \A c \in Calls : c \in Procs
    BY DEF Procs
  <1>b. /\ MinePhases \cap HoldPhases = {}
        /\ DrainingReorg \subseteq HoldPhases /\ RunningReorg \subseteq HoldPhases
        /\ DrainingReorg \cap RunningReorg = {}
    BY DEF MinePhases, LoopMinePhases, FillMinePhases, HoldPhases, DrainingReorg,
       RunningReorg
  <1>1. ASSUME NEW p \in Procs, Appends(p) PROVE WaitsAreReal'
    <2>1. /\ job[p] = "none"
          /\ job' = [job EXCEPT ![p] = "queued"]
          /\ behind' = [behind EXCEPT ![p] = Unsettled]
          /\ heldBy' = [heldBy EXCEPT ![p] = holds]
          /\ holds' = holds
      BY <1>1 DEF Appends, Involved, GenerateBlocksQueued, QueueTail, HoldsSeen
    <2>2. pc[p] \notin RunningReorg /\ pc'[p] \notin RunningReorg
              /\ \A q \in Procs : q # p => pc'[q] = pc[q]
      BY <1>1, <1>b, GotoElsewhere DEF Appends, To, Involved
    <2> QED BY <1>a, <2>1, <2>2
  <1>2. ASSUME NEW p \in Procs, Runs(p) PROVE WaitsAreReal'
    BY <1>2 DEF Runs, Dispatch, MineMayRun
  <1>3. ASSUME NEW p \in Procs, Settles(p) PROVE WaitsAreReal'
    <2>1. /\ job' = [job EXCEPT ![p] = "none"]
          /\ heldBy[p] = {}
          /\ behind' = [q \in Procs |-> behind[q] \ {p}]
          /\ UNCHANGED <<heldBy, holds>>
      BY <1>3 DEF Settles, Settle
    <2>2. pc'[p] \notin RunningReorg /\ \A q \in Procs : q # p => pc'[q] = pc[q]
      BY <1>3, <1>b, GotoElsewhere DEF Settles, ToUninvolved, Involved
    <2>3. /\ \A q \in Procs : behind'[q] \subseteq Unsettled' \ {q}
          /\ \A q \in Procs : q # p => job'[q] = job[q]
      BY <2>1
    <2>4. \A q \in ReorgsAtNode' : q \in ReorgsAtNode
      BY <1>a, <2>2
    <2> QED BY <1>a, <2>1, <2>3, <2>4
  <1>4. ASSUME NEW p \in Procs, Moves(p) PROVE WaitsAreReal'
    <2>1. pc'[p] \notin RunningReorg /\ \A q \in Procs : q # p => pc'[q] = pc[q]
      BY <1>4, <1>b, GotoElsewhere DEF Moves, ToUninvolved, Involved
    <2> QED BY <1>a, <1>4, <2>1 DEF Moves, queueVars
  <1>5. ASSUME NEW c \in Calls, Parks(c) PROVE WaitsAreReal'
    <2>1. /\ job[c] = "none"
          /\ behind' = [behind EXCEPT ![c] = Unsettled]
          /\ UNCHANGED <<job, heldBy, holds>>
      BY <1>5, <1>a DEF Parks, Involved, CaptureTail, QueueTail
    <2>2. pc'[c] \notin RunningReorg /\ \A q \in Procs : q # c => pc'[q] = pc[q]
      BY <1>5, <1>a, <1>b, GotoElsewhere DEF Parks, ToUninvolved, Involved
    <2> QED BY <1>a, <2>1, <2>2
  <1>6. ASSUME NEW c \in Calls, Raises(c) PROVE WaitsAreReal'
    <2>1. /\ job[c] = "none"
          /\ behind' = [behind EXCEPT ![c] = Unsettled]
          /\ UNCHANGED <<job, heldBy>>
          /\ holds' = holds \cup {c}
      BY <1>6, <1>a DEF Raises, Involved, CaptureTail, QueueTail, EnterReorgMineHold
    <2>2. pc'[c] \notin RunningReorg /\ \A q \in Procs : q # c => pc'[q] = pc[q]
      BY <1>6, <1>a, <1>b, GotoElsewhere DEF Raises, To
    <2> QED BY <1>a, <2>1, <2>2
  <1>7. ASSUME NEW c \in Calls, Reaches(c) PROVE WaitsAreReal'
    <2>1. \A q \in Procs : q # c => pc'[q] = pc[q]
      BY <1>7, <1>a, GotoElsewhere DEF Reaches, To
    <2> QED BY <1>a, <1>7, <2>1 DEF Reaches, Drained, queueVars
  <1>8. ASSUME NEW c \in Calls, Releases(c) PROVE WaitsAreReal'
    <2>1. /\ holds' = holds \ {c}
          /\ heldBy' = [p \in Procs |-> heldBy[p] \ {c}]
          /\ UNCHANGED <<job, behind>>
      BY <1>8 DEF Releases, ExitReorgMineHold
    <2>2. pc'[c] \notin RunningReorg /\ \A q \in Procs : q # c => pc'[q] = pc[q]
      BY <1>8, <1>a, <1>b, GotoElsewhere DEF Releases, ToUninvolved, Involved
    <2> QED BY <1>a, <2>1, <2>2
  <1>9. CASE Rests
    BY <1>9 DEF Rests, queueVars
  <1> QED BY <1>1, <1>2, <1>3, <1>4, <1>5, <1>6, <1>7, <1>8, <1>9 DEF QueueStep

LEMMA OneWaiterStep ==
  ASSUME QueueOK, PhasesOK, QueueMatchesPhases, WaitsAreReal, OneWaiter, QueueStep
  PROVE  OneWaiter'
  <1> USE DEF QueueOK, QueueMatchesPhases, WaitsAreReal, OneWaiter, Unsettled
  <1>a. \A c \in Calls : c \in Procs
    BY DEF Procs
  <1>b. MinePhases \cap HoldPhases = {}
    BY DEF MinePhases, LoopMinePhases, FillMinePhases, HoldPhases, DrainingReorg,
       RunningReorg
  <1>c. \A c \in holds : c \in Procs /\ job[c] = "none"
    BY <1>a, <1>b
  <1>1. ASSUME NEW p \in Procs, Appends(p) PROVE OneWaiter'
    <2>1. /\ job[p] = "none" /\ p \notin holds
          /\ job' = [job EXCEPT ![p] = "queued"]
          /\ behind' = [behind EXCEPT ![p] = Unsettled]
          /\ heldBy' = [heldBy EXCEPT ![p] = holds]
          /\ holds' = holds
      BY <1>1 DEF Appends, Involved, GenerateBlocksQueued, QueueTail, HoldsSeen
    <2>2. \A q \in Procs : p \notin behind[q]
      BY <2>1
    <2> QED BY <1>c, <2>1, <2>2
  <1>2. ASSUME NEW p \in Procs, Runs(p) PROVE OneWaiter'
    BY <1>2 DEF Runs, Dispatch
  <1>3. ASSUME NEW p \in Procs, Settles(p) PROVE OneWaiter'
    BY <1>3, <1>c DEF Settles, Settle
  <1>4. ASSUME NEW p \in Procs, Moves(p) PROVE OneWaiter'
    BY <1>4 DEF Moves, queueVars
  <1>5. ASSUME NEW c \in Calls, Parks(c) PROVE OneWaiter'
    <2>1. /\ job[c] = "none" /\ c \notin holds
          /\ behind' = [behind EXCEPT ![c] = Unsettled]
          /\ UNCHANGED <<job, heldBy, holds>>
      BY <1>5, <1>a DEF Parks, Involved, CaptureTail, QueueTail
    <2> QED BY <1>a, <1>c, <2>1
  <1>6. ASSUME NEW c \in Calls, Raises(c) PROVE OneWaiter'
    <2>1. /\ job[c] = "none" /\ c \notin holds
          /\ behind' = [behind EXCEPT ![c] = Unsettled]
          /\ UNCHANGED <<job, heldBy>>
          /\ holds' = holds \cup {c}
      BY <1>6, <1>a DEF Raises, Involved, CaptureTail, QueueTail, EnterReorgMineHold
    <2> QED BY <1>a, <1>c, <2>1
  <1>7. ASSUME NEW c \in Calls, Reaches(c) PROVE OneWaiter'
    BY <1>7 DEF Reaches, queueVars
  <1>8. ASSUME NEW c \in Calls, Releases(c) PROVE OneWaiter'
    BY <1>8 DEF Releases, ExitReorgMineHold
  <1>9. CASE Rests
    BY <1>9 DEF Rests, queueVars
  <1> QED BY <1>1, <1>2, <1>3, <1>4, <1>5, <1>6, <1>7, <1>8, <1>9 DEF QueueStep

\* Without RPC timeouts nothing is ever abandoned at the node.
LEMMA AbandonedStep ==
  ASSUME RpcTimeout \/ abandoned = {}, QueueStep
  PROVE  RpcTimeout \/ abandoned' = {}
  <1> SUFFICES ASSUME ~RpcTimeout PROVE abandoned' = {}
    OBVIOUS
  <1>1. \A outcome \in Outcomes : outcome # "timeout"
    BY DEF Outcomes
  <1> QED
    BY <1>1 DEF QueueStep, Appends, Runs, Settles, Settle, Moves, Parks, Raises, Reaches,
       Releases, Abandons, Rests

LEMMA QueueInvInit == Init => QueueInv
  <1> SUFFICES ASSUME Init PROVE QueueInv
    OBVIOUS
  <1>1. "prepare" \notin Involved /\ "idle" \notin Involved
    BY DEF Involved, MinePhases, LoopMinePhases, FillMinePhases, HoldPhases,
       DrainingReorg, RunningReorg
  <1>2. \A c \in Calls : c \in Procs /\ c # Main
    BY CallsAssumption DEF Procs
  <1>3. QueueMatchesPhases
    BY <1>1, <1>2 DEF Init, QueueMatchesPhases, Involved
  <1>4. WaitsAreReal /\ OneWaiter /\ abandoned = {}
    BY <1>1, <1>2 DEF Init, WaitsAreReal, OneWaiter, Unsettled, MinesAtNode, ReorgsAtNode,
       Involved, HoldPhases
  <1> QED BY <1>3, <1>4 DEF QueueInv

LEMMA QueueInvStep ==
  ASSUME TypeOK, QueueInv, [Next]_vars
  PROVE  QueueInv'
  BY NextIsQueueStep, MatchesStep, WaitsStep, OneWaiterStep, AbandonedStep
     DEF TypeOK, QueueInv

\* The queue and the holds belong to the processes parked on them, nobody waits
\* for what is over, and every conflicting pair has its one waiter.
THEOREM QueueInvariant == Spec => []QueueInv
  BY QueueInvInit, QueueInvStep, TypeCorrect, PTL DEF Spec

\* Every mine/mine and mine/reorg pair has exactly one waiter.
THEOREM OneWaiterAlways == Spec => []OneWaiter
  <1>1. QueueInv => OneWaiter
    BY DEF QueueInv
  <1> QED BY <1>1, QueueInvariant, PTL

LEMMA DispatchesExclude == TypeOK /\ QueueInv => DispatchExclusion
  <1> SUFFICES ASSUME TypeOK, QueueInv PROVE DispatchExclusion
    OBVIOUS
  <1> USE DEF QueueInv, QueueMatchesPhases, WaitsAreReal, OneWaiter, Unsettled, MinesAtNode
  <1>1. \A p, q \in MinesAtNode : p = q
    OBVIOUS
  <1>2. ReorgsAtNode \subseteq holds
    BY DEF ReorgsAtNode, HoldPhases
  <1>3. ASSUME NEW p \in MinesAtNode, NEW c \in ReorgsAtNode PROVE FALSE
    BY <1>2, <1>3
  <1> QED BY <1>1, <1>3 DEF DispatchExclusion

\* The miner never has a mine and a reorg RPC, or two mines, outstanding.
THEOREM DispatchesExclusive == Spec => []DispatchExclusion
  BY DispatchesExclude, TypeCorrect, QueueInvariant, PTL

\* Without RPC timeouts the same holds of what the node itself runs.
THEOREM NodeExclusive == ~RpcTimeout => (Spec => []NodeExclusion)
  <1> SUFFICES ASSUME ~RpcTimeout PROVE Spec => []NodeExclusion
    OBVIOUS
  <1>1. DispatchExclusion /\ QueueInv => NodeExclusion
    BY DEF DispatchExclusion, QueueInv, NodeExclusion, ReorgSparesMines
  <1> QED BY <1>1, DispatchesExclusive, QueueInvariant, PTL

-----------------------------------------------------------------------------
(* Nobody waits in a circle, and so somebody always goes.                  *)

\* A step that adds no wait closes no circle.
LEMMA FewerWaitsNoCircle ==
  ASSUME NoCircularWait, \A p \in Procs : Awaits(p)' \subseteq Awaits(p)
  PROVE  NoCircularWait'
  <1> SUFFICES ASSUME NEW some \in SUBSET Procs, some # {}
               PROVE  \E p \in some : Awaits(p)' \cap some = {}
    BY DEF NoCircularWait
  <1>1. PICK p \in some : Awaits(p) \cap some = {}
    BY DEF NoCircularWait
  <1> QED BY <1>1

\* A newcomer may wait for anybody, as long as nobody waits for it.
LEMMA NewcomerNoCircle ==
  ASSUME NoCircularWait, NEW p \in Procs,
         \A q \in Procs : p \notin Awaits(q)',
         \A q \in Procs : q # p => Awaits(q)' \subseteq Awaits(q)
  PROVE  NoCircularWait'
  <1> SUFFICES ASSUME NEW some \in SUBSET Procs, some # {}
               PROVE  \E q \in some : Awaits(q)' \cap some = {}
    BY DEF NoCircularWait
  <1>1. CASE some \ {p} = {}
    BY <1>1
  <1>2. CASE some \ {p} # {}
    <2>1. PICK q \in some \ {p} : Awaits(q) \cap (some \ {p}) = {}
      BY <1>2 DEF NoCircularWait
    <2> QED BY <2>1
  <1> QED BY <1>1, <1>2

LEMMA NoCircleInit == Init => NoCircularWait
  BY DEF Init, NoCircularWait, Awaits

LEMMA NoCircleStep ==
  ASSUME QueueOK, QueueMatchesPhases, WaitsAreReal, NoCircularWait, QueueStep
  PROVE  NoCircularWait'
  <1> USE DEF QueueOK, WaitsAreReal, Awaits
  <1>a. \A c \in Calls : c \in Procs
    BY DEF Procs
  <1>b. MinePhases \cap HoldPhases = {}
    BY DEF MinePhases, LoopMinePhases, FillMinePhases, HoldPhases, DrainingReorg,
       RunningReorg
  <1>c. \A p \in Procs : pc[p] \notin Involved => p \notin Unsettled \cup holds
    BY DEF QueueMatchesPhases, Involved, Unsettled
  <1>1. ASSUME NEW p \in Procs, Appends(p) PROVE NoCircularWait'
    <2>1. /\ p \notin Unsettled \cup holds
          /\ behind' = [behind EXCEPT ![p] = Unsettled]
          /\ heldBy' = [heldBy EXCEPT ![p] = holds]
      BY <1>1, <1>c DEF Appends, GenerateBlocksQueued, QueueTail, HoldsSeen
    <2>2. \A q \in Procs : p \notin Awaits(q)'
      BY <2>1
    <2>3. \A q \in Procs : q # p => Awaits(q)' = Awaits(q)
      BY <2>1
    <2> QED BY <2>2, <2>3, NewcomerNoCircle
  <1>2. ASSUME NEW p \in Procs, Runs(p) \/ Moves(p) PROVE NoCircularWait'
    BY <1>2, FewerWaitsNoCircle DEF Runs, Moves, queueVars
  <1>3. ASSUME NEW p \in Procs, Settles(p) PROVE NoCircularWait'
    BY <1>3, FewerWaitsNoCircle DEF Settles, Settle
  <1>4. ASSUME NEW c \in Calls, Parks(c) \/ Raises(c) PROVE NoCircularWait'
    <2>1. /\ c \notin Unsettled \cup holds
          /\ behind' = [behind EXCEPT ![c] = Unsettled]
          /\ heldBy' = heldBy
      BY <1>4, <1>a, <1>c DEF Parks, Raises, CaptureTail, QueueTail
    <2>2. \A q \in Procs : c \notin Awaits(q)'
      BY <1>a, <2>1
    <2>3. \A q \in Procs : q # c => Awaits(q)' = Awaits(q)
      BY <2>1
    <2> QED BY <1>a, <2>2, <2>3, NewcomerNoCircle
  <1>5. ASSUME NEW c \in Calls, Reaches(c) PROVE NoCircularWait'
    BY <1>5, FewerWaitsNoCircle DEF Reaches, queueVars
  <1>6. ASSUME NEW c \in Calls, Releases(c) PROVE NoCircularWait'
    BY <1>6, FewerWaitsNoCircle DEF Releases, ExitReorgMineHold
  <1>7. CASE Rests
    BY <1>7, FewerWaitsNoCircle DEF Rests, queueVars
  <1> QED BY <1>1, <1>2, <1>3, <1>4, <1>5, <1>6, <1>7 DEF QueueStep

\* Whatever mines, reorgs and barriers overlap, no set of them waits in a circle.
THEOREM NobodyWaitsInACircle == Spec => []NoCircularWait
  <1>1. TypeOK /\ QueueInv /\ NoCircularWait /\ [Next]_vars => NoCircularWait'
    BY NextIsQueueStep, NoCircleStep DEF TypeOK, QueueInv
  <1> QED BY <1>1, NoCircleInit, TypeCorrect, QueueInvariant, PTL DEF Spec

\* Some waiter waits for none of the others; what it still waits for is at the
\* node, and when nothing is there its own turn has come.
LEMMA WaiterGoes ==
  ASSUME TypeOK, QueueInv, NoCircularWait
  PROVE  SomebodyGoes
  <1> SUFFICES ASSUME \E p \in Procs : Waiting(p),
                      MinesAtNode = {}, ReorgsAtNode = {}
               PROVE  \/ \E p \in Procs : job[p] = "queued" /\ MineMayRun(p)
                      \/ \E p \in Procs : job[p] = "none" /\ Waiting(p) /\ Drained(p)
    BY DEF SomebodyGoes
  <1> DEFINE waiters == {p \in Procs : Waiting(p)}
  <1>1. PICK p \in waiters : Awaits(p) \cap waiters = {}
    BY DEF NoCircularWait
  <1>2. Unsettled \subseteq waiters
    BY DEF Unsettled, Waiting, MinesAtNode, TypeOK, QueueOK
  <1>3. holds \subseteq waiters
    BY DEF QueueInv, QueueMatchesPhases, HoldPhases, ReorgsAtNode, Waiting, Procs
  <1>4. behind[p] = {} /\ heldBy[p] = {}
    BY <1>1, <1>2, <1>3 DEF Awaits, QueueInv, WaitsAreReal
  <1>5. CASE job[p] = "queued"
    BY <1>4, <1>5 DEF MineMayRun
  <1>6. CASE job[p] # "queued"
    <2>1. job[p] = "none"
      BY <1>6 DEF MinesAtNode, TypeOK, QueueOK
    <2> QED BY <1>4, <2>1 DEF Drained
  <1> QED BY <1>5, <1>6

\* The miner never stands still on its own account: where somebody waits, the
\* node has an answer to give or some waiter may go.
THEOREM SomebodyAlwaysGoes == Spec => []SomebodyGoes
  BY WaiterGoes, TypeCorrect, QueueInvariant, NobodyWaitsInACircle, PTL

-----------------------------------------------------------------------------
(* Every call gets nearer to its answer.                                   *)

LEMMA AwaitsShrink ==
  ASSUME QueueOK, NEW p, NEW q \in Procs, q # p,
         \/ GenerateBlocksQueued(p) \/ CaptureTail(p) \/ ExitReorgMineHold(p)
         \/ UNCHANGED queueVars
         \/ \E outcome \in Outcomes : Settle(p, outcome)
         \/ UNCHANGED <<behind, heldBy>>
  PROVE  Awaits(q)' \subseteq Awaits(q)
  BY DEF QueueOK, Awaits, GenerateBlocksQueued, CaptureTail, ExitReorgMineHold, queueVars,
     Settle

\* A process that takes a step stays, or goes on, and lets nobody in ahead of the
\* others.
StepBy(p) ==
    /\ \A q \in Procs : q # p => pc'[q] = pc[q] /\ Awaits(q)' \subseteq Awaits(q)
    /\ p \in Calls => AwaitsLeft(pc'[p]) < AwaitsLeft(pc[p])

LEMMA AwaitsLeftIs ==
  /\ AwaitsLeft("idle") = 9
  /\ AwaitsLeft("fillDrain") = 8 /\ AwaitsLeft("fillFund") = 7
  /\ AwaitsLeft("fillChunkMine") = 6 /\ AwaitsLeft("fillFunded") = 5
  /\ AwaitsLeft("fillLastMine") = 4 /\ AwaitsLeft("fillSplit") = 3
  /\ AwaitsLeft("fillSplitMine") = 2 /\ AwaitsLeft("fillStress") = 1
  /\ AwaitsLeft("invDrain") = 3 /\ AwaitsLeft("recDrain") = 3
  /\ AwaitsLeft("invNode") = 2 /\ AwaitsLeft("recNode") = 2
  /\ AwaitsLeft("invRefresh") = 1 /\ AwaitsLeft("recRefresh") = 1
  /\ AwaitsLeft("pauseDrain") = 1 /\ AwaitsLeft("generate") = 1
  /\ AwaitsLeft("answered") = 0
  BY DEF AwaitsLeft, DrainingReorg, RunningReorg

LEMMA ArrivalGetsNearer ==
  ASSUME QueueOK, PhasesOK, NEW c \in Calls, Arrive(c)
  PROVE  StepBy(c)
  <1>a. c \in Procs
    BY DEF Procs
  <1>1. PICK phase \in {"answered", "pauseDrain", "generate", "fillDrain", "invDrain",
                        "recDrain"} : Goto(c, phase)
    BY DEF Arrive, Refuse, PauseMining, ContinueMining, GenerateBlocks, FillMempool,
       InvalidateBlock, ReconsiderBlock
  <1>2. pc'[c] = phase /\ \A q \in Procs : q # c => pc'[q] = pc[q]
    BY <1>a, <1>1, GotoElsewhere
  <1>3. pc[c] = "idle"
    BY DEF Arrive, Refuse, PauseMining, ContinueMining, GenerateBlocks, FillMempool,
       InvalidateBlock, ReconsiderBlock
  <1>4. AwaitsLeft(phase) < AwaitsLeft("idle")
    BY AwaitsLeftIs
  <1>5. UNCHANGED queueVars \/ CaptureTail(c) \/ GenerateBlocksQueued(c)
    BY DEF Arrive, Refuse, PauseMining, ContinueMining, GenerateBlocks, FillMempool,
       InvalidateBlock, ReconsiderBlock
  <1>6. \A q \in Procs : q # c => Awaits(q)' \subseteq Awaits(q)
    BY <1>5, AwaitsShrink
  <1> QED BY <1>2, <1>3, <1>4, <1>6 DEF StepBy

LEMMA CallStepGetsNearer ==
  ASSUME QueueOK, PhasesOK, NEW c \in Calls, CallStep(c)
  PROVE  StepBy(c)
  <1>a. c \in Procs
    BY DEF Procs
  <1>1. ASSUME NEW phase, Goto(c, phase), AwaitsLeft(phase) < AwaitsLeft(pc[c]),
               \/ UNCHANGED queueVars \/ GenerateBlocksQueued(c) \/ ExitReorgMineHold(c)
               \/ \E outcome \in Outcomes : Settle(c, outcome)
        PROVE  StepBy(c)
    <2>1. pc'[c] = phase /\ \A q \in Procs : q # c => pc'[q] = pc[q]
      BY <1>a, <1>1, GotoElsewhere
    <2>2. \A q \in Procs : q # c => Awaits(q)' \subseteq Awaits(q)
      BY <1>1, AwaitsShrink
    <2> QED BY <1>1, <2>1, <2>2 DEF StepBy
  <1> USE AwaitsLeftIs
  <1>2. CASE PauseDrained(c) \/ InvalidateRefreshed(c) \/ ReconsiderRefreshed(c)
    BY <1>1, <1>2 DEF PauseDrained, InvalidateRefreshed, ReconsiderRefreshed
  <1>3. CASE FillDrained(c)
    BY <1>1, <1>3 DEF FillDrained
  <1>4. CASE FillMine(c)
    BY <1>1, <1>4 DEF FillMine
  <1>5. CASE FillEnds(c)
    BY <1>1, <1>5 DEF FillEnds
  <1>6. CASE ReorgDispatches(c)
    BY <1>1, <1>6 DEF ReorgDispatches
  <1>7. ASSUME NEW outcome \in Outcomes, GenerateReturns(c, outcome) PROVE StepBy(c)
    BY <1>1, <1>7 DEF GenerateReturns
  <1>8. ASSUME NEW outcome \in Outcomes, FillMineReturns(c, outcome) PROVE StepBy(c)
    <2>1. Settle(c, outcome) /\ pc[c] \in FillMinePhases
      BY <1>8 DEF FillMineReturns
    <2>2. Goto(c, AfterFillMine(pc[c])) \/ Goto(c, "answered")
      BY <1>8 DEF FillMineReturns
    <2>3. /\ AwaitsLeft(AfterFillMine(pc[c])) < AwaitsLeft(pc[c])
          /\ AwaitsLeft("answered") < AwaitsLeft(pc[c])
      BY <2>1 DEF FillMinePhases, AfterFillMine
    <2> QED BY <1>1, <2>1, <2>2, <2>3
  <1>9. ASSUME NEW outcome \in Outcomes,
               InvalidateReturns(c, outcome) \/ ReconsiderReturns(c, outcome)
        PROVE  StepBy(c)
    BY <1>1, <1>9 DEF InvalidateReturns, ReconsiderReturns
  <1> QED
    BY <1>2, <1>3, <1>4, <1>5, <1>6, <1>7, <1>8, <1>9 DEF CallStep

LEMMA MainLetsAll ==
  ASSUME QueueOK, PhasesOK, MainStep \/ MainMineReturns
  PROVE  StepBy(Main) \/ UNCHANGED vars
  <1>a. Main \in Procs /\ Main \notin Calls
    BY CallsAssumption DEF Procs
  <1> SUFFICES ASSUME ~UNCHANGED vars PROVE StepBy(Main)
    OBVIOUS
  <1>1. \E phase : Goto(Main, phase)
    BY DEF MainStep, WarmUpMine, BootFails, StartLoop, LoopTimerMine, LoopPolls, LoopIdles,
       LoopIdleMine, LoopSkipsIdleMine, MainMineReturns, WarmUpReturns, LoopMineReturns
  <1>2. \A q \in Procs : q # Main => pc'[q] = pc[q]
    BY <1>a, <1>1, GotoElsewhere
  <1>3. \/ UNCHANGED queueVars \/ GenerateBlocksQueued(Main)
        \/ \E outcome \in Outcomes : Settle(Main, outcome)
    BY DEF MainStep, WarmUpMine, BootFails, StartLoop, LoopTimerMine, LoopPolls, LoopIdles,
       LoopIdleMine, LoopSkipsIdleMine, MainMineReturns, WarmUpReturns, LoopMineReturns
  <1>4. \A q \in Procs : q # Main => Awaits(q)' \subseteq Awaits(q)
    BY <1>3, AwaitsShrink
  <1> QED BY <1>a, <1>2, <1>4 DEF StepBy

\* Whatever the others do, a call goes on or stays with no more to wait for.
THEOREM EveryCallGetsNearer == Spec => CallsGetNearer
  <1> DEFINE Nearer(c) == \/ AwaitsLeft(pc'[c]) < AwaitsLeft(pc[c])
                          \/ pc'[c] = pc[c] /\ Awaits(c)' \subseteq Awaits(c)
  <1>1. ASSUME TypeOK, [Next]_vars PROVE \A c \in Calls : Nearer(c)
    <2>a. \A c \in Calls : c \in Procs
      BY DEF Procs
    <2>b. QueueOK /\ PhasesOK
      BY <1>1 DEF TypeOK
    <2>1. ASSUME NEW p \in Procs, StepBy(p) PROVE \A c \in Calls : Nearer(c)
      BY <2>a, <2>1 DEF StepBy
    <2>2. ASSUME UNCHANGED <<behind, heldBy, pc>> PROVE \A c \in Calls : Nearer(c)
      BY <2>2 DEF Awaits
    <2> HIDE DEF Nearer
    <2>3. CASE MainStep \/ MainMineReturns
      <3>1. Main \in Procs
        BY DEF Procs
      <3> QED BY <2>b, <2>1, <2>2, <2>3, <3>1, MainLetsAll DEF vars, queueVars
    <2>4. ASSUME NEW c \in Calls, Arrive(c) \/ CallStep(c) PROVE \A d \in Calls : Nearer(d)
      BY <2>a, <2>b, <2>1, <2>4, ArrivalGetsNearer, CallStepGetsNearer
    <2>5. ASSUME NEW p \in Procs, Dispatch(p) PROVE \A c \in Calls : Nearer(c)
      BY <2>2, <2>5 DEF Dispatch
    <2>6. ASSUME NEW kind \in abandoned, NodeFinishes(kind) PROVE \A c \in Calls : Nearer(c)
      BY <2>2, <2>6 DEF NodeFinishes, queueVars
    <2>7. CASE UNCHANGED vars
      BY <2>2, <2>7 DEF vars, queueVars
    <2> QED BY <1>1, <2>3, <2>4, <2>5, <2>6, <2>7 DEF Next
  <1>2. TypeOK /\ [Next]_vars => [\A c \in Calls : Nearer(c)]_vars
    BY <1>1
  <1> QED BY <1>2, TypeCorrect, PTL DEF Spec, CallsGetNearer

-----------------------------------------------------------------------------
(* The writers of keepMining, and the reconsiders in flight.               *)

Stops ==
    /\ ClaimPause
    /\ intended' = FALSE
    /\ UNCHANGED <<pauseVars, Reconsidering>>

Resumes ==
    /\ Resume
    /\ intended' = TRUE
    /\ UNCHANGED <<pauseVars, Reconsidering>>

Joins(c) ==
    /\ EnterReorgPause
    /\ UNCHANGED intended
    /\ c \notin Reconsidering
    /\ Reconsidering' = Reconsidering \cup {c}

Parts(c) ==
    /\ ExitReorgPause
    /\ UNCHANGED intended
    /\ c \in Reconsidering
    /\ Reconsidering' = Reconsidering \ {c}

Keeps == UNCHANGED <<stateVars, pauseVars, intended, Reconsidering>>

WriterStep == Stops \/ Resumes \/ Keeps \/ \E c \in Calls : Joins(c) \/ Parts(c)

\* Only a call that moves between a reconsider's awaits and the others enters
\* or leaves Reconsidering.
LEMMA ReconsideringMoves ==
  ASSUME PhasesOK, NEW p \in Procs, NEW phase, Goto(p, phase)
  PROVE  /\ (p \in Calls => (pc[p] \in ReconsiderPhases <=> phase \in ReconsiderPhases))
               => Reconsidering' = Reconsidering
         /\ p \in Calls /\ phase \in ReconsiderPhases
               => Reconsidering' = Reconsidering \cup {p}
         /\ p \in Calls /\ phase \notin ReconsiderPhases
               => Reconsidering' = Reconsidering \ {p}
  BY GotoElsewhere DEF Reconsidering, Procs

LEMMA NextIsWriterStep == PhasesOK /\ [Next]_vars => WriterStep
  <1> SUFFICES ASSUME PhasesOK, [Next]_vars PROVE WriterStep
    OBVIOUS
  <1>a. Main \in Procs /\ Main \notin Calls /\ \A c \in Calls : c \in Procs
    BY CallsAssumption DEF Procs
  <1>b. {"recDrain", "recNode", "recRefresh"} = ReconsiderPhases
    BY DEF ReconsiderPhases
  <1>c. ASSUME NEW phase, Goto(Main, phase) PROVE Reconsidering' = Reconsidering
    BY <1>a, <1>c, ReconsideringMoves
  <1>d. ASSUME NEW c \in Calls, NEW phase \in (CallPhases \ ReconsiderPhases), Goto(c, phase),
               pc[c] \notin ReconsiderPhases
        PROVE  Reconsidering' = Reconsidering
    BY <1>a, <1>d, ReconsideringMoves
  <1>e. {"answered", "pauseDrain", "generate", "fillDrain", "fillFund", "fillFunded",
         "fillSplit", "fillStress", "fillChunkMine", "fillLastMine", "fillSplitMine",
         "invDrain", "invNode", "invRefresh"} \subseteq CallPhases \ ReconsiderPhases
    BY DEF CallPhases, PausePhases, GeneratePhases, FillPhases, FillMinePhases,
       InvalidatePhases, ReconsiderPhases
  <1>f. UNCHANGED pc => Reconsidering' = Reconsidering
    BY DEF Reconsidering
  <1>1. CASE MainStep
    <2>1. CASE StartLoop
      BY <2>1, <1>c DEF StartLoop, AsksToMine, WriterStep, Resumes, pauseVars
    <2>2. CASE LoopIdles
      BY <2>2, <1>f DEF LoopIdles, vars, history, WriterStep, Keeps
    <2>3. CASE WarmUpMine \/ BootFails \/ LoopTimerMine \/ LoopPolls \/ LoopIdleMine
               \/ LoopSkipsIdleMine
      BY <2>3, <1>c DEF WarmUpMine, BootFails, LoopTimerMine, LoopPolls, LoopIdleMine,
         LoopSkipsIdleMine, history, WriterStep, Keeps
    <2> QED BY <1>1, <2>1, <2>2, <2>3 DEF MainStep
  <1>2. CASE MainMineReturns
    BY <1>2, <1>c DEF MainMineReturns, WarmUpReturns, LoopMineReturns, history,
       WriterStep, Keeps
  <1>3. ASSUME NEW c \in Calls, Arrive(c) PROVE WriterStep
    <2>0. pc[c] = "idle" /\ pc[c] \notin ReconsiderPhases
      BY <1>3, <1>b DEF Arrive, Refuse, PauseMining, ContinueMining, GenerateBlocks,
         FillMempool, InvalidateBlock, ReconsiderBlock
    <2>1. CASE Refuse(c) \/ GenerateBlocks(c)
      BY <2>0, <2>1, <1>d, <1>e DEF Refuse, GenerateBlocks, history, WriterStep, Keeps
    <2>2. CASE PauseMining(c) \/ FillMempool(c) \/ InvalidateBlock(c)
      BY <2>0, <2>2, <1>d, <1>e DEF PauseMining, FillMempool, InvalidateBlock, AsksToStop,
         WriterStep, Stops
    <2>3. CASE ContinueMining(c)
      BY <2>0, <2>3, <1>d, <1>e DEF ContinueMining, AsksToMine, WriterStep, Resumes
    <2>4. CASE ReconsiderBlock(c)
      <3>1. Reconsidering' = Reconsidering \cup {c}
        BY <2>4, <1>a, <1>b, ReconsideringMoves DEF ReconsiderBlock
      <3>2. c \notin Reconsidering
        BY <2>0 DEF Reconsidering
      <3> QED BY <2>4, <3>1, <3>2 DEF ReconsiderBlock, history, WriterStep, Joins
    <2> QED BY <1>3, <2>1, <2>2, <2>3, <2>4 DEF Arrive
  <1>4. ASSUME NEW c \in Calls, CallStep(c) PROVE WriterStep
    <2>1. CASE PauseDrained(c) \/ FillDrained(c) \/ FillMine(c) \/ FillEnds(c)
               \/ InvalidateRefreshed(c)
      BY <2>1, <1>b, <1>d, <1>e DEF PauseDrained, FillDrained, FillMine, FillEnds,
         InvalidateRefreshed, history, WriterStep, Keeps
    <2>2. CASE ReorgDispatches(c)
      <3>1. Reconsidering' = Reconsidering
        <4>1. CASE pc[c] = "invDrain"
          BY <4>1, <2>2, <1>b, <1>d, <1>e DEF ReorgDispatches
        <4>2. CASE pc[c] = "recDrain"
          BY <4>2, <2>2, <1>a, <1>b, ReconsideringMoves DEF ReorgDispatches
        <4> QED BY <4>1, <4>2, <2>2 DEF ReorgDispatches
      <3> QED BY <2>2, <3>1 DEF ReorgDispatches, history, WriterStep, Keeps
    <2>3. ASSUME NEW outcome \in Outcomes,
                 GenerateReturns(c, outcome) \/ FillMineReturns(c, outcome)
                   \/ InvalidateReturns(c, outcome)
          PROVE  WriterStep
      BY <2>3, <1>b, <1>d, <1>e DEF GenerateReturns, FillMineReturns, FillMinePhases,
         AfterFillMine, InvalidateReturns, history, WriterStep, Keeps
    <2>4. CASE ReconsiderRefreshed(c)
      <3>1. Reconsidering' = Reconsidering \ {c}
        BY <2>4, <1>a, <1>b, ReconsideringMoves DEF ReconsiderRefreshed
      <3>2. c \in Reconsidering
        BY <2>4, <1>b DEF ReconsiderRefreshed, Reconsidering
      <3> QED BY <2>4, <3>1, <3>2 DEF ReconsiderRefreshed, history, WriterStep, Parts
    <2>5. ASSUME NEW outcome \in Outcomes, ReconsiderReturns(c, outcome) PROVE WriterStep
      <3>0. c \in Reconsidering
        BY <2>5, <1>b DEF ReconsiderReturns, Reconsidering
      <3>1. CASE outcome = "ok"
        <4>1. Reconsidering' = Reconsidering
          BY <2>5, <3>1, <1>a, <1>b, ReconsideringMoves DEF ReconsiderReturns
        <4> QED BY <2>5, <3>1, <4>1 DEF ReconsiderReturns, history, WriterStep, Keeps
      <3>2. CASE outcome # "ok"
        <4>1. Reconsidering' = Reconsidering \ {c}
          BY <2>5, <3>2, <1>a, <1>b, ReconsideringMoves DEF ReconsiderReturns
        <4> QED
          BY <2>5, <3>0, <3>2, <4>1 DEF ReconsiderReturns, history, WriterStep, Parts
      <3> QED BY <3>1, <3>2
    <2> QED BY <1>4, <2>1, <2>2, <2>3, <2>4, <2>5 DEF CallStep
  <1>5. ASSUME NEW p \in Procs, Dispatch(p) PROVE WriterStep
    BY <1>5, <1>f DEF Dispatch, history, WriterStep, Keeps
  <1>6. ASSUME NEW kind \in abandoned, NodeFinishes(kind) PROVE WriterStep
    BY <1>6, <1>f DEF NodeFinishes, history, WriterStep, Keeps
  <1>7. CASE UNCHANGED vars
    BY <1>7, <1>f DEF vars, history, WriterStep, Keeps
  <1> QED BY <1>1, <1>2, <1>3, <1>4, <1>5, <1>6, <1>7 DEF Next

LEMMA ReconsideringFinite == IsFiniteSet(Reconsidering)
  BY CallsAssumption, FS_Subset DEF Reconsidering

LEMMA PauseCountInit == Init => PauseCount
  <1> SUFFICES ASSUME Init PROVE PauseCount
    OBVIOUS
  <1>1. Reconsidering = {}
    BY CallsAssumption DEF Init, Reconsidering, ReconsiderPhases, Procs
  <1> QED BY <1>1, FS_EmptySet DEF Init, PauseCount

LEMMA PauseCountStep ==
  ASSUME CountersOK, PauseCount, WriterStep
  PROVE  PauseCount'
  <1> USE DEF PauseCount
  <1>1. CASE Stops \/ Resumes \/ Keeps
    BY <1>1 DEF Stops, Resumes, Keeps, pauseVars
  <1>2. ASSUME NEW c \in Calls, Joins(c) PROVE PauseCount'
    <2>1. Cardinality(Reconsidering \cup {c}) = Cardinality(Reconsidering) + 1
      BY <1>2, ReconsideringFinite, FS_AddElement DEF Joins
    <2> QED BY <1>2, <2>1 DEF Joins, EnterReorgPause
  <1>3. ASSUME NEW c \in Calls, Parts(c) PROVE PauseCount'
    <2>1. /\ Cardinality(Reconsidering \ {c}) = Cardinality(Reconsidering) - 1
          /\ Cardinality(Reconsidering) \in Nat
          /\ Cardinality(Reconsidering) # 0
      BY <1>3, ReconsideringFinite, FS_RemoveElement, FS_CardinalityType, FS_EmptySet
         DEF Parts
    <2>2. reorgPauseDepth > 0 /\ reorgPauseDepth' = reorgPauseDepth - 1
      BY <1>3, <2>1 DEF Parts, ExitReorgPause
    <2> QED BY <1>3, <2>1, <2>2 DEF Parts
  <1> QED BY <1>1, <1>2, <1>3 DEF WriterStep

LEMMA PartsFromDepth ==
  ASSUME CountersOK, PauseCount, NEW c \in Calls, Parts(c)
  PROVE  reorgPauseDepth > 0
  BY ReconsideringFinite, FS_CardinalityType, FS_EmptySet DEF CountersOK, PauseCount, Parts

LEMMA ReorgPauseInvInit == Init => ReorgPauseInv
  <1>1. 0 <= 0 /\ ~(0 > 0)
    OBVIOUS
  <1> QED BY <1>1, Zenon DEF Init, ReorgPauseInv

LEMMA ReorgPauseInvStep ==
  ASSUME FlagsOK, CountersOK, PauseCount, ReorgPauseInv, WriterStep
  PROVE  ReorgPauseInv'
  <1>a. /\ reorgPauseDepth = 0 \/ reorgPauseDepth > 0
        /\ generation + 1 # reorgPauseGeneration
        /\ reorgPauseGeneration <= generation + 1
        /\ generation + 1 <= generation + 1
    BY DEF CountersOK, ReorgPauseInv
  <1>1. CASE Stops
    BY <1>1, <1>a, Zenon DEF Stops, ClaimPause, pauseVars, ReorgPauseInv
  <1>2. CASE Resumes
    BY <1>2, <1>a, Zenon DEF Resumes, Resume, pauseVars, ReorgPauseInv
  <1>3. CASE Keeps
    BY <1>3, Zenon DEF Keeps, stateVars, pauseVars, ReorgPauseInv
  <1>4. ASSUME NEW c \in Calls, Joins(c) PROVE ReorgPauseInv'
    <2>1. reorgPauseDepth' # 0
      BY <1>4 DEF Joins, EnterReorgPause, CountersOK
    <2>2. /\ keepMining' = FALSE
          /\ generation' = generation + 1
          /\ reorgPauseGeneration' = generation + 1
          /\ intended' = intended
          /\ reorgPauseWasMining' = IF Inherits THEN reorgPauseWasMining ELSE keepMining
      BY <1>4, Zenon DEF Joins, EnterReorgPause, ClaimPause
    <2>3. reorgPauseWasMining' = intended
      <3>1. CASE Inherits
        BY <2>2, <3>1, Zenon DEF Inherits, ReorgPauseInv
      <3>2. CASE ~Inherits
        BY <2>2, <3>2, <1>a, Zenon DEF Inherits, ReorgPauseInv
      <3> QED BY <3>1, <3>2
    <2> QED BY <1>a, <2>1, <2>2, <2>3, Zenon DEF ReorgPauseInv
  <1>5. ASSUME NEW c \in Calls, Parts(c) PROVE ReorgPauseInv'
    <2>0. reorgPauseDepth > 0 /\ intended' = intended
      BY <1>5, PartsFromDepth DEF Parts
    <2>1. /\ reorgPauseDepth' = reorgPauseDepth - 1
          /\ reorgPauseGeneration' = reorgPauseGeneration
      BY <1>5, <2>0 DEF Parts, ExitReorgPause
    <2>2. CASE reorgPauseDepth = 1
      <3>1. reorgPauseDepth' = 0 /\ ~(reorgPauseDepth' > 0)
        BY <2>1, <2>2 DEF CountersOK
      <3>2. CASE RestoreDue
        <4>1. Resume
          BY <1>5, <2>0, <2>2, <3>2 DEF Parts, ExitReorgPause, CountersOK
        <4>2. intended = TRUE
          BY <2>0, <3>2, Zenon DEF RestoreDue, ReorgPauseInv
        <4> QED BY <1>a, <2>0, <2>1, <3>1, <4>1, <4>2, Zenon DEF Resume, ReorgPauseInv
      <3>3. CASE ~RestoreDue
        <4>1. UNCHANGED stateVars
          BY <1>5, <2>0, <2>2, <3>3 DEF Parts, ExitReorgPause, CountersOK
        <4>2. keepMining = intended
          BY <2>0, <3>3, Zenon DEF RestoreDue, FlagsOK, ReorgPauseInv
        <4> QED
          BY <2>0, <2>1, <3>1, <4>1, <4>2, Zenon DEF stateVars, ReorgPauseInv
      <3> QED BY <3>2, <3>3
    <2>3. CASE reorgPauseDepth # 1
      <3>1. reorgPauseDepth' # 0
        BY <2>0, <2>1, <2>3 DEF CountersOK
      <3>2. UNCHANGED stateVars /\ reorgPauseWasMining' = reorgPauseWasMining
        BY <1>5, <2>0, <2>3 DEF Parts, ExitReorgPause, CountersOK
      <3> QED BY <2>0, <2>1, <3>1, <3>2, Zenon DEF stateVars, ReorgPauseInv
    <2> QED BY <2>2, <2>3
  <1> QED BY <1>1, <1>2, <1>3, <1>4, <1>5 DEF WriterStep

\* Once no reconsider is in flight, auto-mining is what was asked for last.
THEOREM IntentKept == Spec => []OperatorIntent
  <1>1. Init => PauseCount /\ ReorgPauseInv
    BY PauseCountInit, ReorgPauseInvInit
  <1>2. TypeOK /\ PauseCount /\ ReorgPauseInv /\ [Next]_vars => (PauseCount /\ ReorgPauseInv)'
    BY PauseCountStep, ReorgPauseInvStep, NextIsWriterStep DEF TypeOK
  <1>3. PauseCount /\ ReorgPauseInv => OperatorIntent
    <2> SUFFICES ASSUME PauseCount, ReorgPauseInv,
                        \A c \in Calls : pc[c] \notin ReconsiderPhases
                 PROVE  keepMining = intended
      BY DEF OperatorIntent
    <2>1. reorgPauseDepth = 0
      BY FS_EmptySet DEF PauseCount, Reconsidering
    <2> QED BY <2>1, Zenon DEF ReorgPauseInv
  <1> QED BY <1>1, <1>2, <1>3, TypeCorrect, PTL DEF Spec

-----------------------------------------------------------------------------
(* The pause barrier.                                                      *)

\* A stop that stands keeps the flag down, reconsiders or not.
LEMMA StandingMeansStopped ==
  ASSUME FlagsOK, CountersOK, ReorgPauseInv, StopInv, standing # {}
  PROVE  ~keepMining
  <1>1. reorgPauseDepth = 0 \/ reorgPauseDepth > 0
    BY DEF CountersOK
  <1>2. ~intended
    BY Zenon DEF StopInv
  <1> QED BY <1>1, <1>2, Zenon DEF FlagsOK, ReorgPauseInv

LEMMA StopInvInit == Init => StopInv
  BY Zenon DEF Init, StopInv

LEMMA StopInvStep ==
  ASSUME TypeOK, QueueInv, ReorgPauseInv, StopInv, [Next]_vars
  PROVE  StopInv'
  <1> USE DEF TypeOK
  <1> DEFINE Covered(c) == pc[c] \in DrainPhases /\ Main \in behind[c]
  <1>a. Main \in Procs /\ Main \notin Calls /\ \A c \in Calls : c \in Procs
    BY CallsAssumption DEF Procs
  <1>b. standing \subseteq Calls
    BY DEF FlagsOK
  \* Mining is asked for again, or the loop has no mine afterwards.
  <1>c. ASSUME AsksToMine PROVE StopInv'
    BY <1>c, Zenon DEF AsksToMine, StopInv
  <1>d. ASSUME UNCHANGED history, pc'[Main] \notin LoopMinePhases PROVE StopInv'
    BY <1>d, Zenon DEF history, StopInv
  \* A call that is not a draining stop with a mine to wait for takes a step.
  <1>e. ASSUME NEW c \in Calls, NEW phase, Goto(c, phase), UNCHANGED history,
               pc[c] \notin DrainPhases \/ Drained(c),
               \A d \in Calls : d # c => behind[d] \ {c} \subseteq behind'[d]
        PROVE  StopInv'
    <2>1. pc'[Main] = pc[Main] /\ \A d \in Calls : d # c => pc'[d] = pc[d]
      BY <1>a, <1>e, GotoElsewhere
    <2>2. ASSUME pc[Main] \in LoopMinePhases, NEW d \in standing PROVE Covered(d)'
      <3>1. Covered(d)
        BY <2>2 DEF StopInv
      <3>2. d # c
        BY <1>e, <3>1 DEF Drained
      <3> QED BY <1>a, <1>b, <1>e, <2>1, <3>1, <3>2
    <2>3. standing' = standing /\ intended' = intended
      BY <1>e DEF history
    <2> HIDE DEF Covered
    <2>4. ASSUME standing # {} PROVE ~intended'
      BY <2>3, <2>4, Zenon DEF StopInv
    <2>5. \A d \in standing' : pc'[Main] \in LoopMinePhases => Covered(d)'
      BY <2>1, <2>2, <2>3
    <2> QED BY <2>3, <2>4, <2>5, Zenon DEF StopInv, Covered
  <1>1. CASE MainStep
    <2>1. CASE StartLoop
      BY <2>1, <1>c DEF StartLoop
    <2>2. CASE LoopTimerMine \/ LoopIdleMine
      <3>1. keepMining
        BY <2>2 DEF LoopTimerMine, LoopIdleMine, IdleMineAllowed, LoopMayMine
      <3>2. standing = {}
        BY <3>1, StandingMeansStopped
      <3> QED BY <2>2, <3>2, Zenon DEF LoopTimerMine, LoopIdleMine, history, StopInv
    <2>3. CASE WarmUpMine \/ BootFails \/ LoopPolls \/ LoopSkipsIdleMine
      BY <2>3, <1>a, <1>d, GotoElsewhere DEF WarmUpMine, BootFails, LoopPolls,
         LoopSkipsIdleMine, LoopMinePhases
    <2>4. CASE LoopIdles
      BY <2>4, <1>d DEF LoopIdles, LoopMinePhases, vars
    <2> QED BY <1>1, <2>1, <2>2, <2>3, <2>4 DEF MainStep
  <1>2. CASE MainMineReturns
    BY <1>2, <1>a, <1>d, GotoElsewhere DEF MainMineReturns, WarmUpReturns, LoopMineReturns,
       LoopMinePhases
  <1>3. ASSUME NEW c \in Calls, Arrive(c) PROVE StopInv'
    <2>0. pc[c] \notin DrainPhases /\ pc[c] \notin MinePhases
      BY <1>3 DEF Arrive, Refuse, PauseMining, ContinueMining, GenerateBlocks, FillMempool,
         InvalidateBlock, ReconsiderBlock, DrainPhases, MinePhases, LoopMinePhases,
         FillMinePhases
    <2>1. CASE PauseMining(c) \/ FillMempool(c) \/ InvalidateBlock(c)
      <3>1. /\ intended' = FALSE
            /\ standing' = standing \cup {c}
            /\ behind' = [behind EXCEPT ![c] = Unsettled]
        BY <2>1 DEF PauseMining, FillMempool, InvalidateBlock, AsksToStop, CaptureTail,
           QueueTail
      <3>2. /\ pc'[c] \in DrainPhases
            /\ pc'[Main] = pc[Main] /\ \A d \in Calls : d # c => pc'[d] = pc[d]
        BY <2>1, <1>a, GotoElsewhere DEF PauseMining, FillMempool, InvalidateBlock,
           DrainPhases
      <3>3. ASSUME pc[Main] \in LoopMinePhases, NEW d \in standing' PROVE Covered(d)'
        <4>1. Main \in Unsettled
          BY <3>3, <1>a DEF QueueInv, QueueMatchesPhases, Unsettled, MinePhases
        <4>2. CASE d = c
          BY <4>1, <4>2, <1>a, <3>1, <3>2 DEF QueueOK
        <4>3. CASE d # c
          BY <4>3, <3>3, <1>a, <1>b, <3>1, <3>2 DEF QueueOK, StopInv
        <4> QED BY <4>2, <4>3
      <3> HIDE DEF Covered
      <3>4. \A d \in standing' : pc'[Main] \in LoopMinePhases => Covered(d)'
        BY <3>2, <3>3
      <3> QED BY <3>1, <3>4, Zenon DEF StopInv, Covered
    <2>2. CASE ContinueMining(c)
      BY <2>2, <1>c DEF ContinueMining
    <2>3. CASE Refuse(c) \/ GenerateBlocks(c) \/ ReconsiderBlock(c)
      <3>1. \A d \in Calls : d # c => behind'[d] = behind[d]
        BY <2>3, <1>a DEF QueueOK, Refuse, GenerateBlocks, ReconsiderBlock, queueVars,
           GenerateBlocksQueued, CaptureTail
      <3> QED BY <2>0, <2>3, <3>1, <1>e DEF Refuse, GenerateBlocks, ReconsiderBlock
    <2> QED BY <1>3, <2>1, <2>2, <2>3 DEF Arrive
  <1>4. ASSUME NEW c \in Calls, CallStep(c) PROVE StopInv'
    <2>0. {"fillFund", "fillFunded", "fillSplit", "fillStress", "fillChunkMine",
           "fillLastMine", "fillSplitMine", "generate", "invNode", "invRefresh", "recDrain",
           "recNode", "recRefresh"} \cap DrainPhases = {}
      BY DEF DrainPhases
    <2>1. CASE PauseDrained(c) \/ FillDrained(c) \/ ReorgDispatches(c)
      BY <2>1, <1>e DEF PauseDrained, FillDrained, ReorgDispatches, queueVars
    <2>2. CASE FillEnds(c) \/ InvalidateRefreshed(c) \/ ReconsiderRefreshed(c)
      BY <2>0, <2>2, <1>e DEF FillEnds, InvalidateRefreshed, ReconsiderRefreshed, queueVars
    <2>3. CASE FillMine(c)
      <3>1. \A d \in Calls : d # c => behind'[d] = behind[d]
        BY <2>3, <1>a DEF QueueOK, FillMine, GenerateBlocksQueued
      <3> QED BY <2>0, <2>3, <3>1, <1>e DEF FillMine
    <2>4. ASSUME NEW outcome \in Outcomes,
                 GenerateReturns(c, outcome) \/ FillMineReturns(c, outcome)
          PROVE  StopInv'
      <3>1. \A d \in Calls : behind'[d] = behind[d] \ {c}
        BY <2>4, <1>a DEF GenerateReturns, FillMineReturns, Settle
      <3> QED
        BY <2>0, <2>4, <3>1, <1>e DEF GenerateReturns, FillMineReturns, FillMinePhases
    <2>5. ASSUME NEW outcome \in Outcomes,
                 InvalidateReturns(c, outcome) \/ ReconsiderReturns(c, outcome)
          PROVE  StopInv'
      BY <2>0, <2>5, <1>e DEF InvalidateReturns, ReconsiderReturns, ExitReorgMineHold
    <2> QED BY <1>4, <2>1, <2>2, <2>3, <2>4, <2>5 DEF CallStep
  <1>5. CASE UNCHANGED <<history, pc, behind>>
    BY <1>5, Zenon DEF history, StopInv
  <1>6. ASSUME NEW p \in Procs, Dispatch(p) PROVE StopInv'
    BY <1>5, <1>6 DEF Dispatch
  <1>7. ASSUME NEW kind \in abandoned, NodeFinishes(kind) PROVE StopInv'
    BY <1>5, <1>7 DEF NodeFinishes, queueVars
  <1>8. CASE UNCHANGED vars
    BY <1>5, <1>8 DEF vars, queueVars
  <1> QED BY <1>1, <1>2, <1>3, <1>4, <1>6, <1>7, <1>8 DEF Next

\* Past its drain a stop has no loop mine left to fear until a resume.
THEOREM PauseBarrierHolds == Spec => []PauseBarrier
  <1>1. Init => PauseCount /\ ReorgPauseInv /\ StopInv
    BY PauseCountInit, ReorgPauseInvInit, StopInvInit
  <1>2. /\ TypeOK /\ QueueInv /\ PauseCount /\ ReorgPauseInv /\ StopInv
        /\ [Next]_vars
        => (PauseCount /\ ReorgPauseInv /\ StopInv)'
    BY PauseCountStep, ReorgPauseInvStep, NextIsWriterStep, StopInvStep DEF TypeOK
  <1>3. StopInv => PauseBarrier
    BY Zenon DEF StopInv, PauseBarrier
  <1> QED BY <1>1, <1>2, <1>3, TypeCorrect, QueueInvariant, PTL DEF Spec

-----------------------------------------------------------------------------
(* The fill's own queue.                                                   *)

LEMMA FillInvInit == Init => FillInv
  <1> SUFFICES ASSUME Init PROVE FillInv
    OBVIOUS
  <1>1. Filling = {}
    BY CallsAssumption DEF Init, Filling, FillPhases, FillMinePhases, Procs
  <1> QED BY <1>1, Zenon DEF Init, FillInv

LEMMA FillInvStep ==
  ASSUME TypeOK, QueueInv, FillInv, [Next]_vars
  PROVE  FillInv'
  <1> USE DEF TypeOK
  <1>a. Main \in Procs /\ Main \notin Calls /\ Main \notin Filling
            /\ \A c \in Calls : c \in Procs
    BY CallsAssumption DEF Procs, Filling
  <1>b. /\ {"fillDrain", "fillFund", "fillFunded", "fillSplit", "fillStress",
            "fillChunkMine", "fillLastMine", "fillSplitMine"} = FillPhases
        /\ {"fillChunkMine", "fillLastMine", "fillSplitMine"} = FillMinePhases
    BY DEF FillPhases, FillMinePhases
  <1> DEFINE Own(c, p) ==
               p = c \/ pc[p] = "warmUp" \/ (pc[c] = "fillDrain" /\ p \in behind[c])
             Undisturbed == \A c \in Filling : \A p \in Unsettled : Own(c, p)
             Alone == \A c, d \in Filling : c = d
  <1>c. Undisturbed /\ Alone
    BY DEF FillInv
  <1>d. ASSUME Filling' = Filling, UNCHANGED fillMempoolRunning, Undisturbed' PROVE FillInv'
    BY <1>d, Zenon DEF FillInv
  <1>e. ASSUME Filling' = {}, fillMempoolRunning' = FALSE PROVE FillInv'
    BY <1>e, Zenon DEF FillInv
  <1>f. GenerateAdmitted => Filling = {}
    BY Zenon DEF GenerateAdmitted, FillInv
  <1>g. ASSUME NEW p \in Procs, NEW phase, Goto(p, phase)
        PROVE  /\ p = Main => Filling' = Filling
               /\ (pc[p] \in FillPhases <=> phase \in FillPhases) => Filling' = Filling
               /\ p \in Calls /\ phase \in FillPhases => Filling' = Filling \cup {p}
               /\ phase \notin FillPhases => Filling' = Filling \ {p}
    BY <1>a, <1>g, GotoElsewhere DEF Filling
  \* A process steps and leaves the mutex alone.
  <1>h. ASSUME NEW p \in Procs, NEW phase, Goto(p, phase),
               p = Main \/ (pc[p] \in FillPhases <=> phase \in FillPhases),
               UNCHANGED fillMempoolRunning,
               pc[p] # "fillDrain" \/ Drained(p),
               \A q \in Procs : q # p => behind[q] \ {p} \subseteq behind'[q],
               Unsettled' \subseteq Unsettled \cup {p},
               p \in Unsettled' => p \in Filling \/ Filling = {} \/ phase = "warmUp"
        PROVE  FillInv'
    <2>1. Filling' = Filling
      BY <1>g, <1>h
    <2>2. pc'[p] = phase /\ \A q \in Procs : q # p => pc'[q] = pc[q]
      BY <1>h, GotoElsewhere
    <2>3. ASSUME NEW c \in Filling, NEW q \in Unsettled' PROVE Own(c, q)'
      <3>0. c \in Procs
        BY <1>a DEF Filling
      <3>1. CASE q = p
        BY <3>1, <1>c, <1>h, <2>2, <2>3
      <3>2. CASE q # p
        <4>1. q \in Unsettled /\ Own(c, q)
          BY <3>2, <1>c, <1>h, <2>3
        <4> QED BY <3>0, <3>2, <4>1, <1>h, <2>2 DEF Drained, Unsettled
      <3> QED BY <3>1, <3>2
    <2> QED BY <1>d, <1>h, <2>1, <2>3
  <1>i. Unsettled = {p \in Procs : pc[p] \in MinePhases}
    BY DEF QueueInv, QueueMatchesPhases, Unsettled
  <1>1. CASE MainStep
    <2>1. CASE WarmUpMine \/ LoopTimerMine \/ LoopIdleMine
      <3>1. /\ \A q \in Procs : q # Main => behind'[q] = behind[q]
            /\ Unsettled' \subseteq Unsettled \cup {Main}
        BY <2>1 DEF WarmUpMine, LoopTimerMine, LoopIdleMine, GenerateBlocksQueued,
           QueueOK, Unsettled
      <3> QED BY <2>1, <3>1, <1>a, <1>f, <1>h DEF WarmUpMine, LoopTimerMine, LoopIdleMine
    <2>2. CASE BootFails \/ StartLoop \/ LoopPolls \/ LoopSkipsIdleMine
      <3>1. Main \notin Unsettled
        BY <2>2, <1>a, <1>i DEF BootFails, StartLoop, LoopPolls, LoopSkipsIdleMine,
           MinePhases, LoopMinePhases, FillMinePhases
      <3>2. behind' = behind /\ Unsettled' = Unsettled
        BY <2>2 DEF BootFails, StartLoop, LoopPolls, LoopSkipsIdleMine, queueVars, Unsettled
      <3> QED
        BY <2>2, <3>1, <3>2, <1>a, <1>h DEF BootFails, StartLoop, LoopPolls,
           LoopSkipsIdleMine
    <2>3. CASE LoopIdles
      BY <2>3, <1>c, <1>d DEF LoopIdles, vars, queueVars, Filling, Unsettled
    <2> QED BY <1>1, <2>1, <2>2, <2>3 DEF MainStep
  <1>2. CASE MainMineReturns
    <2>1. PICK outcome \in Outcomes : WarmUpReturns(outcome) \/ LoopMineReturns(outcome)
      BY <1>2 DEF MainMineReturns
    <2>2. /\ \A q \in Procs : behind'[q] = behind[q] \ {Main}
          /\ Unsettled' = Unsettled \ {Main}
      BY <2>1 DEF WarmUpReturns, LoopMineReturns, Settle, QueueOK, Unsettled
    <2> QED
      BY <2>1, <2>2, <1>a, <1>h DEF WarmUpReturns, LoopMineReturns, LoopMinePhases
  <1>3. ASSUME NEW c \in Calls, Arrive(c) PROVE FillInv'
    <2>0. pc[c] = "idle" /\ pc[c] \notin FillPhases /\ c \notin Unsettled
      BY <1>3, <1>b, <1>i DEF Arrive, Refuse, PauseMining, ContinueMining, GenerateBlocks,
         FillMempool, InvalidateBlock, ReconsiderBlock, MinePhases, LoopMinePhases
    <2>1. CASE Refuse(c) \/ ContinueMining(c)
      <3>1. behind' = behind /\ Unsettled' = Unsettled
        BY <2>1 DEF Refuse, ContinueMining, queueVars, Unsettled
      <3> QED BY <2>0, <2>1, <3>1, <1>a, <1>b, <1>h DEF Refuse, ContinueMining
    <2>2. CASE PauseMining(c) \/ InvalidateBlock(c) \/ ReconsiderBlock(c)
      <3>1. /\ \A q \in Procs : q # c => behind'[q] = behind[q]
            /\ Unsettled' = Unsettled
        BY <2>2, <1>a DEF PauseMining, InvalidateBlock, ReconsiderBlock, CaptureTail,
           QueueOK, Unsettled
      <3> QED
        BY <2>0, <2>2, <3>1, <1>a, <1>b, <1>h DEF PauseMining, InvalidateBlock,
           ReconsiderBlock
    <2>3. CASE GenerateBlocks(c)
      <3>1. /\ \A q \in Procs : q # c => behind'[q] = behind[q]
            /\ Unsettled' \subseteq Unsettled \cup {c}
        BY <2>3, <1>a DEF GenerateBlocks, GenerateBlocksQueued, QueueOK, Unsettled
      <3> QED BY <2>0, <2>3, <3>1, <1>a, <1>b, <1>f, <1>h DEF GenerateBlocks
    <2>4. CASE FillMempool(c)
      <3>1. Filling = {}
        BY <2>4, Zenon DEF FillMempool, FillInv
      <3>2. Filling' = {c}
        BY <2>4, <3>1, <1>a, <1>b, <1>g DEF FillMempool
      <3>3. /\ behind'[c] = Unsettled /\ Unsettled' = Unsettled
            /\ pc'[c] = "fillDrain"
        BY <2>4, <1>a, GotoElsewhere DEF FillMempool, CaptureTail, QueueTail, QueueOK,
           Unsettled
      <3>4. fillMempoolRunning' = TRUE
        BY <2>4, Zenon DEF FillMempool
      <3> QED BY <3>2, <3>3, <3>4, Zenon DEF FillInv
    <2> QED BY <1>3, <2>1, <2>2, <2>3, <2>4 DEF Arrive
  <1>4. ASSUME NEW c \in Calls, CallStep(c) PROVE FillInv'
    \* A fill that ends leaves nobody filling.
    <2>a. ASSUME Goto(c, "answered"), pc[c] \in FillPhases, fillMempoolRunning' = FALSE
          PROVE  FillInv'
      <3>1. c \in Filling
        BY <2>a DEF Filling
      <3>2. Filling' = {}
        BY <2>a, <3>1, <1>a, <1>b, <1>c, <1>g
      <3> QED BY <2>a, <3>2, <1>e
    <2>1. CASE PauseDrained(c) \/ FillDrained(c) \/ ReorgDispatches(c)
               \/ InvalidateRefreshed(c) \/ ReconsiderRefreshed(c)
      <3>1. c \notin Unsettled
        BY <2>1, <1>a, <1>i DEF PauseDrained, FillDrained, ReorgDispatches,
           InvalidateRefreshed, ReconsiderRefreshed, MinePhases, LoopMinePhases,
           FillMinePhases
      <3>2. behind' = behind /\ Unsettled' = Unsettled
        BY <2>1 DEF PauseDrained, FillDrained, ReorgDispatches, InvalidateRefreshed,
           ReconsiderRefreshed, queueVars, Unsettled
      <3> QED
        BY <2>1, <3>1, <3>2, <1>a, <1>b, <1>h DEF PauseDrained, FillDrained,
           ReorgDispatches, InvalidateRefreshed, ReconsiderRefreshed
    <2>2. CASE FillMine(c)
      <3>1. /\ \A q \in Procs : q # c => behind'[q] = behind[q]
            /\ Unsettled' \subseteq Unsettled \cup {c}
        BY <2>2, <1>a DEF FillMine, GenerateBlocksQueued, QueueOK, Unsettled
      <3>2. c \in Filling
        BY <2>2, <1>b DEF FillMine, Filling
      <3> QED BY <2>2, <3>1, <3>2, <1>a, <1>b, <1>h DEF FillMine
    <2>3. CASE FillEnds(c)
      BY <2>3, <2>a, <1>b DEF FillEnds
    <2>4. ASSUME NEW outcome \in Outcomes, FillMineReturns(c, outcome) PROVE FillInv'
      <3>1. CASE outcome = "ok"
        <4>1. /\ \A q \in Procs : behind'[q] = behind[q] \ {c}
              /\ Unsettled' = Unsettled \ {c}
          BY <2>4, <1>a DEF FillMineReturns, Settle, QueueOK, Unsettled
        <4> QED
          BY <2>4, <3>1, <4>1, <1>a, <1>b, <1>h DEF FillMineReturns, AfterFillMine
      <3>2. CASE outcome # "ok"
        BY <2>4, <3>2, <2>a, <1>b DEF FillMineReturns
      <3> QED BY <3>1, <3>2
    <2>5. ASSUME NEW outcome \in Outcomes, GenerateReturns(c, outcome) PROVE FillInv'
      <3>1. /\ \A q \in Procs : behind'[q] = behind[q] \ {c}
            /\ Unsettled' = Unsettled \ {c}
        BY <2>5, <1>a DEF GenerateReturns, Settle, QueueOK, Unsettled
      <3> QED BY <2>5, <3>1, <1>a, <1>b, <1>h DEF GenerateReturns
    <2>6. ASSUME NEW outcome \in Outcomes,
                 InvalidateReturns(c, outcome) \/ ReconsiderReturns(c, outcome)
          PROVE  FillInv'
      <3>1. c \notin Unsettled
        BY <2>6, <1>a, <1>i DEF InvalidateReturns, ReconsiderReturns, MinePhases,
           LoopMinePhases, FillMinePhases
      <3>2. behind' = behind /\ Unsettled' = Unsettled
        BY <2>6 DEF InvalidateReturns, ReconsiderReturns, ExitReorgMineHold, Unsettled
      <3> QED
        BY <2>6, <3>1, <3>2, <1>a, <1>b, <1>h DEF InvalidateReturns, ReconsiderReturns
    <2> QED BY <1>4, <2>1, <2>2, <2>3, <2>4, <2>5, <2>6 DEF CallStep
  <1>5. CASE UNCHANGED <<pc, behind, fillMempoolRunning>> /\ Unsettled' = Unsettled
    BY <1>5, <1>c, <1>d DEF Filling
  <1>6. ASSUME NEW p \in Procs, Dispatch(p) PROVE FillInv'
    BY <1>5, <1>6 DEF Dispatch, QueueOK, Unsettled
  <1>7. ASSUME NEW kind \in abandoned, NodeFinishes(kind) PROVE FillInv'
    BY <1>5, <1>7 DEF NodeFinishes, queueVars, Unsettled
  <1>8. CASE UNCHANGED vars
    BY <1>5, <1>8 DEF vars, queueVars, Unsettled
  <1> QED BY <1>1, <1>2, <1>3, <1>4, <1>6, <1>7, <1>8 DEF Next

\* Past its barrier a fill shares the queue with start()'s warm-up at most.
THEOREM FillStaysUndisturbed == Spec => []FillUndisturbed
  <1>1. FillInv => FillUndisturbed
    BY DEF FillInv, FillUndisturbed, Filling
  <1> QED BY <1>1, FillInvInit, FillInvStep, TypeCorrect, QueueInvariant, PTL DEF Spec

-----------------------------------------------------------------------------
(* The queue and the holds implement the fair lock.                        *)

LEMMA LockModeCases ==
  ASSUME QueueOK, PhasesOK, QueueMatchesPhases
  PROVE  /\ \A p \in Procs : LockMode(p) \in Lock!MineModes <=> p \in Unsettled
         /\ \A p \in Procs : LockMode(p) \in Lock!ReorgModes <=> p \in holds
         /\ \A p \in Procs : LockMode(p) = "out" <=> p \notin Unsettled /\ p \notin holds
  <1>1. Main \notin holds /\ pc[Main] \notin HoldPhases
    BY CallsAssumption DEF QueueOK, PhasesOK, MainPhases, LoopMinePhases, HoldPhases,
       DrainingReorg, RunningReorg
  <1>2. \A p \in Procs : p \in holds <=> pc[p] \in HoldPhases
    BY <1>1 DEF QueueMatchesPhases, Procs
  <1>3. \A p \in holds : p \notin Unsettled
    BY DEF QueueMatchesPhases, Unsettled, MinePhases, LoopMinePhases, FillMinePhases,
       HoldPhases, DrainingReorg, RunningReorg
  <1> QED
    BY <1>2, <1>3 DEF LockMode, Unsettled, QueueOK, HoldPhases, DrainingReorg, RunningReorg,
       Lock!MineModes, Lock!ReorgModes

LEMMA LockSets ==
  ASSUME QueueOK, PhasesOK, QueueMatchesPhases
  PROVE  Lock!Mining = Unsettled /\ Lock!Reorging = holds
  <1>1. Unsettled \subseteq Procs /\ holds \subseteq Procs
    BY DEF Unsettled, QueueOK, Procs
  <1> QED BY <1>1, LockModeCases DEF Lock!Mining, Lock!Reorging, LockModes

LEMMA LockStarts == Init => Lock!LockInit
  <1> SUFFICES ASSUME Init PROVE Lock!LockInit
    OBVIOUS
  <1>1. \A p \in Procs : LockMode(p) = "out"
    BY DEF Init, LockMode, DrainingReorg, RunningReorg
  <1> QED BY <1>1 DEF Lock!LockInit, LockModes, LockAhead

LEMMA LockSteps ==
  ASSUME QueueOK, PhasesOK, QueueMatchesPhases, WaitsAreReal, QueueStep,
         QueueOK', PhasesOK', QueueMatchesPhases'
  PROVE  [Lock!LockNext]_(Lock!lockVars)
  <1> USE DEF QueueOK
  <1>a. \A c \in Calls : c \in Procs
    BY DEF Procs
  <1>b. /\ MinePhases \cap HoldPhases = {}
        /\ HoldPhases = DrainingReorg \cup RunningReorg
        /\ DrainingReorg \cap RunningReorg = {}
    BY DEF MinePhases, LoopMinePhases, FillMinePhases, HoldPhases, DrainingReorg,
       RunningReorg
  <1> DEFINE Mode(p) == LockModes[p]
             Ahead(p) == LockAhead[p]
  <1>c. \A p \in Procs : /\ Mode(p) = LockMode(p)
                         /\ Ahead(p) = IF LockMode(p) = "out" THEN {}
                                       ELSE behind[p] \cup heldBy[p]
    BY DEF LockModes, LockAhead
  <1>d. \A p \in Procs : /\ Mode(p)' = LockMode(p)'
                         /\ Ahead(p)' = IF LockMode(p)' = "out" THEN {}
                                        ELSE behind'[p] \cup heldBy'[p]
    BY DEF LockModes, LockAhead
  <1>e. ASSUME NEW p \in Procs, job'[p] = job[p], pc'[p] = pc[p]
        PROVE  LockMode(p)' = LockMode(p)
    BY <1>e DEF LockMode
  <1>1. ASSUME NEW p \in Procs, Appends(p) PROVE Lock!AskMine(p)
    <2>1. /\ job[p] = "none" /\ pc[p] \notin HoldPhases
          /\ job' = [job EXCEPT ![p] = "queued"]
          /\ behind' = [behind EXCEPT ![p] = Unsettled]
          /\ heldBy' = [heldBy EXCEPT ![p] = holds]
          /\ \A q \in Procs : q # p => pc'[q] = pc[q]
      BY <1>1, GotoElsewhere DEF QueueMatchesPhases, Appends, To, Involved,
         GenerateBlocksQueued, QueueTail, HoldsSeen
    <2>2. LockMode(p) = "out" /\ LockMode(p)' = "waitMine"
      BY <2>1, <1>b DEF LockMode
    <2>3. \A q \in Procs : q # p => LockMode(q)' = LockMode(q)
      BY <2>1, <1>e
    <2>4. LockModes' = [LockModes EXCEPT ![p] = "waitMine"]
      BY <2>2, <2>3 DEF LockModes
    <2>5. LockAhead' = [LockAhead EXCEPT ![p] = Unsettled \cup holds]
      BY <2>1, <2>2, <2>3 DEF LockAhead
    <2> QED BY <2>2, <2>4, <2>5, <1>c, LockSets DEF Lock!AskMine
  <1>2. ASSUME NEW p \in Procs, Runs(p) PROVE Lock!Enter(p)
    <2>1. /\ job[p] = "queued" /\ behind[p] = {} /\ heldBy[p] = {}
          /\ job' = [job EXCEPT ![p] = "node"]
          /\ UNCHANGED <<behind, heldBy, pc>>
      BY <1>2 DEF Runs, Dispatch, MineMayRun
    <2>2. LockMode(p) = "waitMine" /\ LockMode(p)' = "mine" /\ Ahead(p) = {}
      BY <2>1, <1>c DEF LockMode
    <2>3. \A q \in Procs : q # p => LockMode(q)' = LockMode(q)
      BY <2>1, <1>e
    <2>4. LockModes' = [LockModes EXCEPT ![p] = "mine"]
      BY <2>2, <2>3 DEF LockModes
    <2>5. LockAhead' = LockAhead
      BY <2>1, <2>2, <2>3 DEF LockAhead
    <2> QED BY <2>2, <2>4, <2>5, <1>c DEF Lock!Enter
  <1>3. ASSUME NEW p \in Procs, Settles(p) PROVE Lock!Leave(p)
    <2>1. /\ job[p] = "node" /\ behind[p] = {} /\ heldBy[p] = {}
          /\ \A q \in Procs : p \notin heldBy[q]
          /\ job' = [job EXCEPT ![p] = "none"]
          /\ behind' = [q \in Procs |-> behind[q] \ {p}]
          /\ heldBy' = heldBy
          /\ pc'[p] \notin HoldPhases
          /\ \A q \in Procs : q # p => pc'[q] = pc[q]
      <3>1. pc'[p] \notin HoldPhases /\ \A q \in Procs : q # p => pc'[q] = pc[q]
        BY <1>3, GotoElsewhere DEF Settles, ToUninvolved, Involved
      <3>2. job[p] = "node" /\ p \notin holds
        BY <1>3, <1>b DEF Settles, Settle, QueueMatchesPhases
      <3> QED BY <1>3, <3>1, <3>2 DEF Settles, Settle, WaitsAreReal, MinesAtNode
    <2>2. LockMode(p) = "mine" /\ LockMode(p)' = "out"
      BY <2>1, <1>b DEF LockMode
    <2>3. \A q \in Procs : q # p => LockMode(q)' = LockMode(q)
      BY <2>1, <1>e
    <2>4. LockModes' = [LockModes EXCEPT ![p] = "out"]
      BY <2>2, <2>3 DEF LockModes
    <2>5. LockAhead' = [q \in Procs |-> LockAhead[q] \ {p}]
      <3>1. ASSUME NEW q \in Procs PROVE Ahead(q)' = Ahead(q) \ {p}
        <4>1. CASE q = p
          <5>1. Ahead(q)' = {} /\ Ahead(q) = {}
            BY <4>1, <2>1, <2>2, <1>c, <1>d
          <5> QED BY <5>1
        <4>2. CASE q # p
          <5>1. LockMode(q)' = LockMode(q)
            BY <4>2, <2>3
          <5>2. behind'[q] = behind[q] \ {p} /\ heldBy'[q] = heldBy[q] \ {p}
            BY <2>1
          <5>3. behind'[q] \cup heldBy'[q] = (behind[q] \cup heldBy[q]) \ {p}
            BY <5>2
          <5> QED BY <5>1, <5>3, <1>c, <1>d
        <4> QED BY <4>1, <4>2
      <3> QED BY <3>1 DEF LockAhead
    <2> QED BY <2>2, <2>4, <2>5, <1>c DEF Lock!Leave
  \* Steps that leave every mode, and the waits of whoever is not out, alone.
  <1>f. ASSUME \A q \in Procs : LockMode(q)' = LockMode(q),
               \A q \in Procs : LockMode(q) # "out" =>
                   behind'[q] = behind[q] /\ heldBy'[q] = heldBy[q]
        PROVE  UNCHANGED <<LockModes, LockAhead>>
    BY <1>f DEF LockModes, LockAhead
  <1>g. ASSUME NEW p \in Procs, pc[p] \notin Involved, pc'[p] \notin Involved, job' = job,
               \A q \in Procs : q # p => pc'[q] = pc[q]
        PROVE  LockMode(p) = "out" /\ \A q \in Procs : LockMode(q)' = LockMode(q)
    <2>1. job[p] = "none"
      BY <1>g DEF QueueMatchesPhases, Involved
    <2> QED BY <1>b, <1>g, <2>1, <1>e DEF LockMode, Involved
  <1>4. ASSUME NEW p \in Procs, Moves(p) PROVE UNCHANGED <<LockModes, LockAhead>>
    <2>1. pc'[p] \notin Involved /\ \A q \in Procs : q # p => pc'[q] = pc[q]
      BY <1>4, GotoElsewhere DEF Moves, ToUninvolved
    <2> QED BY <1>4, <2>1, <1>f, <1>g DEF Moves, queueVars
  <1>5. ASSUME NEW c \in Calls, Parks(c) PROVE UNCHANGED <<LockModes, LockAhead>>
    <2>1. pc'[c] \notin Involved /\ \A q \in Procs : q # c => pc'[q] = pc[q]
      BY <1>5, <1>a, GotoElsewhere DEF Parks, ToUninvolved
    <2>2. LockMode(c) = "out" /\ \A q \in Procs : LockMode(q)' = LockMode(q)
      BY <1>5, <2>1, <1>a, <1>g DEF Parks, CaptureTail
    <2> QED BY <1>5, <2>2, <1>a, <1>f DEF Parks, CaptureTail
  <1>6. ASSUME NEW c \in Calls, Raises(c) PROVE Lock!AskReorg(c)
    <2>1. /\ job[c] = "none" /\ pc[c] \notin HoldPhases /\ heldBy[c] = {}
          /\ job' = job /\ heldBy' = heldBy
          /\ behind' = [behind EXCEPT ![c] = Unsettled]
          /\ pc'[c] \in DrainingReorg
          /\ \A q \in Procs : q # c => pc'[q] = pc[q]
      <3>1. pc'[c] \in DrainingReorg /\ \A q \in Procs : q # c => pc'[q] = pc[q]
        BY <1>6, <1>a, GotoElsewhere DEF Raises, To
      <3>2. job[c] = "none" /\ pc[c] \notin HoldPhases
        BY <1>6, <1>a DEF Raises, Involved, QueueMatchesPhases
      <3> QED
        BY <1>6, <1>a, <3>1, <3>2 DEF Raises, CaptureTail, QueueTail, WaitsAreReal
    <2>2. LockMode(c) = "out" /\ LockMode(c)' = "waitReorg"
      BY <2>1, <1>b DEF LockMode
    <2>3. \A q \in Procs : q # c => LockMode(q)' = LockMode(q)
      BY <2>1, <1>e
    <2>4. LockModes' = [LockModes EXCEPT ![c] = "waitReorg"]
      BY <2>2, <2>3 DEF LockModes
    <2>5. LockAhead' = [LockAhead EXCEPT ![c] = Unsettled]
      <3>1. Ahead(c)' = Unsettled
        <4>1. behind'[c] = Unsettled /\ heldBy'[c] = {}
          BY <2>1, <1>a
        <4>2. behind'[c] \cup heldBy'[c] = Unsettled
          BY <4>1
        <4> QED BY <4>2, <2>2, <1>a, <1>d
      <3>2. ASSUME NEW q \in Procs, q # c PROVE Ahead(q)' = Ahead(q)
        <4>1. LockMode(q)' = LockMode(q)
          BY <3>2, <2>3
        <4>2. behind'[q] = behind[q] /\ heldBy'[q] = heldBy[q]
          BY <3>2, <2>1, <1>a
        <4> QED BY <4>1, <4>2, <1>c, <1>d
      <3> QED BY <3>1, <3>2, <1>a DEF LockAhead
    <2> QED BY <2>2, <2>4, <2>5, <1>a, <1>c, LockSets DEF Lock!AskReorg
  <1>7. ASSUME NEW c \in Calls, Reaches(c) PROVE Lock!Enter(c)
    <2>1. /\ job[c] = "none" /\ pc[c] \in DrainingReorg
          /\ behind[c] = {} /\ heldBy[c] = {}
          /\ job' = job /\ behind' = behind /\ heldBy' = heldBy
          /\ pc'[c] \in RunningReorg
          /\ \A q \in Procs : q # c => pc'[q] = pc[q]
      <3>1. pc'[c] \in RunningReorg /\ \A q \in Procs : q # c => pc'[q] = pc[q]
        BY <1>7, <1>a, GotoElsewhere DEF Reaches, To
      <3>2. job[c] = "none" /\ pc[c] \in DrainingReorg
        BY <1>7, <1>a, <1>b DEF Reaches, QueueMatchesPhases
      <3> QED
        BY <1>7, <1>a, <3>1, <3>2 DEF Reaches, Drained, queueVars, WaitsAreReal
    <2>2. LockMode(c) = "waitReorg" /\ LockMode(c)' = "reorg" /\ Ahead(c) = {}
      BY <2>1, <1>a, <1>b, <1>c DEF LockMode
    <2>3. \A q \in Procs : q # c => LockMode(q)' = LockMode(q)
      BY <2>1, <1>e
    <2>4. LockModes' = [LockModes EXCEPT ![c] = "reorg"]
      BY <2>2, <2>3 DEF LockModes
    <2>5. LockAhead' = LockAhead
      BY <2>1, <2>2, <2>3 DEF LockAhead
    <2> QED BY <2>2, <2>4, <2>5, <1>a, <1>c DEF Lock!Enter
  <1>8. ASSUME NEW c \in Calls, Releases(c) PROVE Lock!Leave(c)
    <2>1. /\ job[c] = "none" /\ pc[c] \in RunningReorg
          /\ \A q \in Procs : c \notin behind[q]
          /\ job' = job /\ behind' = behind
          /\ heldBy' = [q \in Procs |-> heldBy[q] \ {c}]
          /\ pc'[c] \notin HoldPhases
          /\ \A q \in Procs : q # c => pc'[q] = pc[q]
      <3>1. pc'[c] \notin HoldPhases /\ \A q \in Procs : q # c => pc'[q] = pc[q]
        BY <1>8, <1>a, GotoElsewhere DEF Releases, ToUninvolved, Involved
      <3>2. job[c] = "none" /\ pc[c] \in RunningReorg
        BY <1>8, <1>a, <1>b DEF Releases, QueueMatchesPhases
      <3> QED
        BY <1>8, <1>a, <3>1, <3>2 DEF Releases, ExitReorgMineHold, WaitsAreReal, Unsettled
    <2>2. LockMode(c) = "reorg" /\ LockMode(c)' = "out"
      BY <2>1, <1>b DEF LockMode
    <2>3. \A q \in Procs : q # c => LockMode(q)' = LockMode(q)
      BY <2>1, <1>e
    <2>4. LockModes' = [LockModes EXCEPT ![c] = "out"]
      BY <2>2, <2>3 DEF LockModes
    <2>5. LockAhead' = [q \in Procs |-> LockAhead[q] \ {c}]
      <3>0. behind[c] = {} /\ heldBy[c] = {}
        BY <2>1, <1>a DEF WaitsAreReal, ReorgsAtNode
      <3>1. ASSUME NEW q \in Procs PROVE Ahead(q)' = Ahead(q) \ {c}
        <4>1. CASE q = c
          <5>1. Ahead(q)' = {} /\ Ahead(q) = {}
            BY <4>1, <2>2, <3>0, <1>a, <1>c, <1>d
          <5> QED BY <5>1
        <4>2. CASE q # c
          <5>1. LockMode(q)' = LockMode(q)
            BY <4>2, <2>3
          <5>2. behind'[q] = behind[q] \ {c} /\ heldBy'[q] = heldBy[q] \ {c}
            BY <2>1
          <5>3. behind'[q] \cup heldBy'[q] = (behind[q] \cup heldBy[q]) \ {c}
            BY <5>2
          <5> QED BY <5>1, <5>3, <1>c, <1>d
        <4> QED BY <4>1, <4>2
      <3> QED BY <3>1 DEF LockAhead
    <2> QED BY <2>2, <2>4, <2>5, <1>a, <1>c DEF Lock!Leave
  <1>9. ASSUME Rests PROVE UNCHANGED <<LockModes, LockAhead>>
    BY <1>9, <1>e, <1>f DEF Rests, queueVars
  <1> QED
    BY <1>1, <1>2, <1>3, <1>4, <1>5, <1>6, <1>7, <1>8, <1>9, <1>a
       DEF QueueStep, Lock!LockNext, Lock!lockVars

\* Mines and reorgs are granted the chain as by the fair lock.
THEOREM LockImplemented == Spec => ImplementsLock
  <1>1. /\ TypeOK /\ TypeOK' /\ QueueInv /\ QueueInv' /\ [Next]_vars
        => [Lock!LockNext]_(Lock!lockVars)
    BY LockSteps, NextIsQueueStep DEF TypeOK, QueueInv
  <1> QED
    BY <1>1, LockStarts, TypeCorrect, QueueInvariant, PTL
       DEF Spec, ImplementsLock, Lock!LockSpec

=============================================================================
