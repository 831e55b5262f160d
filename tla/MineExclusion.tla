--------------------------- MODULE MineExclusion ---------------------------
(***************************************************************************)
(* Who may mine, and when: the coordination state of XChainRegtestMiner.   *)
(*                                                                         *)
(* The miner is one Node.js process.  A JSON-RPC call, and the start()     *)
(* flow with its auto-mine loop, run from one await to the next without    *)
(* interruption; everything between two awaits is one action here.  They   *)
(* meet on four pieces of state:                                           *)
(*   - keepMining and the generation every writer of it bumps;             *)
(*   - the refcounted reorg pause that concurrent reconsider_block calls   *)
(*     share and the last of them restores mining from;                    *)
(*   - the promise chain _generateQueue: a mine waits for the mines        *)
(*     appended before it, and a barrier ("await this._generateQueue") for *)
(*     the mines appended before the barrier;                              *)
(*   - the mine-vs-reorg holds: a mine waits for the reorgs raised before  *)
(*     it was appended, a reorg for the mines appended before it.          *)
(*                                                                         *)
(* A promise is abstracted to what is still awaited: behind[p] are the     *)
(* unsettled mines the process p is parked on, heldBy[p] the reorgs its    *)
(* own mine snapshotted and that have not released it yet.                 *)
(***************************************************************************)
EXTENDS Naturals, FiniteSets

CONSTANTS
    Calls,      \* JSON-RPC requests, each of which arrives at most once
    Main,       \* the start() flow: wallet preparation, then the mining loop
    RpcTimeout  \* NODE_RPC_TIMEOUT > 0: axios abandons a slow node RPC

ASSUME CallsAssumption == IsFiniteSet(Calls) /\ Main \notin Calls
ASSUME TimeoutAssumption == RpcTimeout \in BOOLEAN

Procs == Calls \cup {Main}

VARIABLES
    keepMining,             \* auto-mining is on
    generation,             \* _miningStateGeneration
    miningStarted,          \* start() reached its loop
    fillMempoolRunning,     \* the fill_mempool mutex
    reorgPauseDepth,        \* _reorgPauseDepth
    reorgPauseWasMining,    \* _reorgPauseWasMining
    reorgPauseGeneration,   \* _reorgPauseGeneration
    holds,                  \* _reorgMineHolds, each hold keyed by its call
    job,                    \* the mine a process has on _generateQueue
    behind,                 \* the unsettled mines a process awaits
    heldBy,                 \* the unreleased holds its mine snapshotted
    pc,                     \* the await a process is parked on
    abandoned,              \* RPCs axios gave up on that the node still runs
    intended,               \* history: the last word said was "mine"
    standing                \* history: stops not followed by a resume

stateVars == <<keepMining, generation>>
pauseVars == <<reorgPauseDepth, reorgPauseWasMining, reorgPauseGeneration>>
queueVars == <<job, behind, heldBy>>
history   == <<intended, standing>>
vars == <<stateVars, miningStarted, fillMempoolRunning, pauseVars, holds,
          queueVars, pc, abandoned, history>>

-----------------------------------------------------------------------------
(* The awaits.                                                             *)

PausePhases     == {"pauseDrain"}
GeneratePhases  == {"generate"}
FillMinePhases  == {"fillChunkMine", "fillLastMine", "fillSplitMine"}
FillPhases      == {"fillDrain", "fillFund", "fillFunded", "fillSplit",
                    "fillStress"} \cup FillMinePhases
InvalidatePhases == {"invDrain", "invNode", "invRefresh"}
ReconsiderPhases == {"recDrain", "recNode", "recRefresh"}
CallPhases == {"idle", "answered"} \cup PausePhases \cup GeneratePhases
                \cup FillPhases \cup InvalidatePhases \cup ReconsiderPhases

LoopMinePhases == {"timerMine", "idleMine"}
MainPhases == {"prepare", "warmUp", "warmed", "loop", "poll", "exited"}
                \cup LoopMinePhases

MinePhases == {"warmUp", "generate"} \cup LoopMinePhases \cup FillMinePhases
DrainingReorg == {"invDrain", "recDrain"}
RunningReorg  == {"invNode", "recNode"}
HoldPhases == DrainingReorg \cup RunningReorg

Alive == pc[Main] # "exited"

Goto(p, phase) == pc' = [pc EXCEPT ![p] = phase]

-----------------------------------------------------------------------------
(* The mine queue and the holds.                                           *)

Unsettled == {p \in Procs : job[p] # "none"}

\* What a barrier or a mine joining the queue now has to wait for: the tail
\* settles once every mine appended so far has.
QueueTail == Unsettled

\* The holds generateBlocksQueued snapshots.
HoldsSeen_None == {}
HoldsSeen == holds

\* generateBlocksQueued: the process p appends a mine.
GenerateBlocksQueued(p) ==
    /\ job' = [job EXCEPT ![p] = "queued"]
    /\ behind' = [behind EXCEPT ![p] = QueueTail]
    /\ heldBy' = [heldBy EXCEPT ![p] = HoldsSeen]

\* await this._generateQueue: the process p captures the tail.
CaptureTail(p) ==
    /\ behind' = [behind EXCEPT ![p] = QueueTail]
    /\ UNCHANGED <<job, heldBy>>

Drained(p) == behind[p] = {}

\* mineWhenReorgIdle: the mine's turn has come and the reorgs it snapshotted
\* have released it.
MineMayRun_Unchained(p) == heldBy[p] = {}
MineMayRun_LiveHolds(p) == behind[p] = {} /\ holds = {}
MineMayRun(p) == behind[p] = {} /\ heldBy[p] = {}

Dispatch(p) ==
    /\ job[p] = "queued"
    /\ MineMayRun(p)
    /\ job' = [job EXCEPT ![p] = "node"]
    /\ UNCHANGED <<stateVars, miningStarted, fillMempoolRunning, pauseVars,
                   holds, behind, heldBy, pc, abandoned, history>>

\* How a node RPC ends for the miner.  "timeout" leaves the node running it.
Outcomes == {"ok", "error"} \cup (IF RpcTimeout THEN {"timeout"} ELSE {})

Abandons(kind, outcome) ==
    abandoned' = IF outcome = "timeout" THEN abandoned \cup {kind} ELSE abandoned

\* The mine of p settles, whatever its outcome: the chain is kept on
\* run.catch, so a failure releases the waiters as a success does.
Settle(p, outcome) ==
    /\ job[p] = "node"
    /\ job' = [job EXCEPT ![p] = "none"]
    /\ behind' = [q \in Procs |-> behind[q] \ {p}]
    /\ Abandons("mine", outcome)
    /\ UNCHANGED heldBy

EnterReorgMineHold(c) == holds' = holds \cup {c}

ExitReorgMineHold(c) ==
    /\ holds' = holds \ {c}
    /\ heldBy' = [p \in Procs |-> heldBy[p] \ {c}]
    /\ UNCHANGED <<job, behind>>

\* The node finishes the RPCs of a kind that axios had abandoned.
NodeFinishes(kind) ==
    /\ kind \in abandoned
    /\ abandoned' = abandoned \ {kind}
    /\ UNCHANGED <<stateVars, miningStarted, fillMempoolRunning, pauseVars,
                   holds, queueVars, pc, history>>

-----------------------------------------------------------------------------
(* The writers of keepMining.                                              *)

ClaimPause == keepMining' = FALSE /\ generation' = generation + 1

Resume == keepMining' = TRUE /\ generation' = generation + 1

\* History only: what the operator, or start(), last asked for.
AsksToStop(c) == intended' = FALSE /\ standing' = standing \cup {c}
AsksToMine    == intended' = TRUE /\ standing' = {}

\* Whether a reconsider joins the pause of the ones in flight.
Inherits_Never == FALSE
Inherits == reorgPauseDepth > 0 /\ generation = reorgPauseGeneration

EnterReorgPause ==
    /\ reorgPauseWasMining' = IF Inherits THEN reorgPauseWasMining ELSE keepMining
    /\ reorgPauseDepth' = reorgPauseDepth + 1
    /\ ClaimPause
    /\ reorgPauseGeneration' = generation + 1

RestoreDue_Always == reorgPauseWasMining
RestoreDue == reorgPauseWasMining /\ generation = reorgPauseGeneration

ExitReorgPause ==
    LET depth == IF reorgPauseDepth > 0 THEN reorgPauseDepth - 1 ELSE 0
        last  == depth = 0
    IN  /\ reorgPauseDepth' = depth
        /\ reorgPauseWasMining' = IF last THEN FALSE ELSE reorgPauseWasMining
        /\ IF last /\ RestoreDue THEN Resume ELSE UNCHANGED stateVars
        /\ UNCHANGED reorgPauseGeneration

-----------------------------------------------------------------------------
(* start(): wallet preparation, then the auto-mine loop.                   *)

\* settleStartupBalance found the wallet empty: 101 blocks, through the
\* entry a running fill does not close.
WarmUpMine ==
    /\ pc[Main] = "prepare"
    /\ GenerateBlocksQueued(Main)
    /\ Goto(Main, "warmUp")
    /\ UNCHANGED <<stateVars, miningStarted, fillMempoolRunning, pauseVars,
                   holds, abandoned, history>>

WarmUpReturns(outcome) ==
    /\ pc[Main] = "warmUp"
    /\ Settle(Main, outcome)
    /\ Goto(Main, IF outcome = "ok" THEN "warmed" ELSE "exited")
    /\ UNCHANGED <<stateVars, miningStarted, fillMempoolRunning, pauseVars,
                   holds, history>>

\* prepareWallet rejects: startMinerDetached exits the process.
BootFails ==
    /\ pc[Main] \in {"prepare", "warmed"}
    /\ Goto(Main, "exited")
    /\ UNCHANGED <<stateVars, miningStarted, fillMempoolRunning, pauseVars,
                   holds, queueVars, abandoned, history>>

StartLoop ==
    /\ pc[Main] \in {"prepare", "warmed"}
    /\ Resume
    /\ AsksToMine
    /\ miningStarted' = TRUE
    /\ Goto(Main, "loop")
    /\ UNCHANGED <<fillMempoolRunning, pauseVars, holds, queueVars, abandoned>>

LoopMayMine == keepMining /\ ~fillMempoolRunning

\* generateBlocks, the public entry, refuses while a fill is running.
GenerateAdmitted_Always == TRUE
GenerateAdmitted == ~fillMempoolRunning

\* A timer of a pending mempool is due.
LoopTimerMine ==
    /\ pc[Main] = "loop"
    /\ LoopMayMine
    /\ GenerateAdmitted
    /\ GenerateBlocksQueued(Main)
    /\ Goto(Main, "timerMine")
    /\ UNCHANGED <<stateVars, miningStarted, fillMempoolRunning, pauseVars,
                   holds, abandoned, history>>

\* No timer is due: the pass goes to its getrawmempool.
LoopPolls ==
    /\ pc[Main] = "loop"
    /\ LoopMayMine
    /\ Goto(Main, "poll")
    /\ UNCHANGED <<stateVars, miningStarted, fillMempoolRunning, pauseVars,
                   holds, queueVars, abandoned, history>>

\* A pass that finds mining stopped only sleeps.
LoopIdles ==
    /\ pc[Main] = "loop"
    /\ ~LoopMayMine
    /\ UNCHANGED vars

\* The flag is read again after the getrawmempool await, before an idle mine.
IdleMineAllowed_Unchecked == TRUE
IdleMineAllowed == LoopMayMine

\* The mempool is empty and the heartbeat is due.
LoopIdleMine ==
    /\ pc[Main] = "poll"
    /\ IdleMineAllowed
    /\ GenerateAdmitted
    /\ GenerateBlocksQueued(Main)
    /\ Goto(Main, "idleMine")
    /\ UNCHANGED <<stateVars, miningStarted, fillMempoolRunning, pauseVars,
                   holds, abandoned, history>>

\* The read failed, found transactions, the heartbeat is not due, or the loop
\* may no longer mine.
LoopSkipsIdleMine ==
    /\ pc[Main] = "poll"
    /\ Goto(Main, "loop")
    /\ UNCHANGED <<stateVars, miningStarted, fillMempoolRunning, pauseVars,
                   holds, queueVars, abandoned, history>>

\* After a timer mine the same pass reads the mempool; after an idle mine, or
\* a failure and its backoff, the loop starts over.
LoopMineReturns(outcome) ==
    /\ pc[Main] \in LoopMinePhases
    /\ Settle(Main, outcome)
    /\ Goto(Main, IF pc[Main] = "timerMine" /\ outcome = "ok" THEN "poll" ELSE "loop")
    /\ UNCHANGED <<stateVars, miningStarted, fillMempoolRunning, pauseVars,
                   holds, history>>

-----------------------------------------------------------------------------
(* pause_mining, continue_mining, generate_blocks.                         *)

\* A call whose arguments are refused, or that finds a fill running where it
\* may not: it answers an error and changes nothing.
Refuse(c) ==
    /\ pc[c] = "idle"
    /\ Goto(c, "answered")
    /\ UNCHANGED <<stateVars, miningStarted, fillMempoolRunning, pauseVars,
                   holds, queueVars, abandoned, history>>

PauseMining(c) ==
    /\ pc[c] = "idle"
    /\ ClaimPause
    /\ AsksToStop(c)
    /\ CaptureTail(c)
    /\ Goto(c, "pauseDrain")
    /\ UNCHANGED <<miningStarted, fillMempoolRunning, pauseVars, holds, abandoned>>

PauseDrained(c) ==
    /\ pc[c] = "pauseDrain"
    /\ Drained(c)
    /\ Goto(c, "answered")
    /\ UNCHANGED <<stateVars, miningStarted, fillMempoolRunning, pauseVars,
                   holds, queueVars, abandoned, history>>

ContinueMining(c) ==
    /\ pc[c] = "idle"
    /\ Resume
    /\ AsksToMine
    /\ Goto(c, "answered")
    /\ UNCHANGED <<miningStarted, fillMempoolRunning, pauseVars, holds,
                   queueVars, abandoned>>

GenerateBlocks(c) ==
    /\ pc[c] = "idle"
    /\ GenerateAdmitted
    /\ GenerateBlocksQueued(c)
    /\ Goto(c, "generate")
    /\ UNCHANGED <<stateVars, miningStarted, fillMempoolRunning, pauseVars,
                   holds, abandoned, history>>

GenerateReturns(c, outcome) ==
    /\ pc[c] = "generate"
    /\ Settle(c, outcome)
    /\ Goto(c, "answered")
    /\ UNCHANGED <<stateVars, miningStarted, fillMempoolRunning, pauseVars,
                   holds, history>>

-----------------------------------------------------------------------------
(* fill_mempool.  At most 20 chunks are funded (MAX_FILL_MEMPOOL_QUANTITY   *)
(* over 2500 outputs each), so the mine after every 20th happens at most    *)
(* once, and only a fill of the maximal size runs it.                       *)

FillMempool(c) ==
    /\ pc[c] = "idle"
    /\ ~fillMempoolRunning
    /\ fillMempoolRunning' = TRUE
    /\ ClaimPause
    /\ AsksToStop(c)
    /\ CaptureTail(c)
    /\ Goto(c, "fillDrain")
    /\ UNCHANGED <<miningStarted, pauseVars, holds, abandoned>>

FillDrained(c) ==
    /\ pc[c] = "fillDrain"
    /\ Drained(c)
    /\ Goto(c, "fillFund")
    /\ UNCHANGED <<stateVars, miningStarted, fillMempoolRunning, pauseVars,
                   holds, queueVars, abandoned, history>>

\* The funding sends, and the split transactions, succeeded: confirm them.
FillMine(c) ==
    /\ \/ pc[c] = "fillFund" /\ Goto(c, "fillChunkMine")
       \/ pc[c] \in {"fillFund", "fillFunded"} /\ Goto(c, "fillLastMine")
       \/ pc[c] = "fillSplit" /\ Goto(c, "fillSplitMine")
    /\ GenerateBlocksQueued(c)
    /\ UNCHANGED <<stateVars, miningStarted, fillMempoolRunning, pauseVars,
                   holds, abandoned, history>>

AfterFillMine_Refunds(phase) ==
    CASE phase = "fillChunkMine" -> "fillFund"
      [] phase = "fillLastMine"  -> "fillSplit"
      [] phase = "fillSplitMine" -> "fillStress"
AfterFillMine(phase) ==
    CASE phase = "fillChunkMine" -> "fillFunded"
      [] phase = "fillLastMine"  -> "fillSplit"
      [] phase = "fillSplitMine" -> "fillStress"

\* A failed mine unwinds through the finally, which frees the mutex and
\* nothing else: mining stays stopped until continue_mining.
FillMineReturns(c, outcome) ==
    /\ pc[c] \in FillMinePhases
    /\ Settle(c, outcome)
    /\ IF outcome = "ok"
         THEN Goto(c, AfterFillMine(pc[c])) /\ UNCHANGED fillMempoolRunning
         ELSE Goto(c, "answered") /\ fillMempoolRunning' = FALSE
    /\ UNCHANGED <<stateVars, miningStarted, pauseVars, holds, history>>

\* The stress loop ended, or a send, a lookup or a split failed for good.
FillEnds(c) ==
    /\ pc[c] \in {"fillFund", "fillSplit", "fillStress"}
    /\ fillMempoolRunning' = FALSE
    /\ Goto(c, "answered")
    /\ UNCHANGED <<stateVars, miningStarted, pauseVars, holds, queueVars,
                   abandoned, history>>

-----------------------------------------------------------------------------
(* invalidate_block and reconsider_block.                                  *)

InvalidateBlock(c) ==
    /\ pc[c] = "idle"
    /\ EnterReorgMineHold(c)
    /\ ClaimPause
    /\ AsksToStop(c)
    /\ CaptureTail(c)
    /\ Goto(c, "invDrain")
    /\ UNCHANGED <<miningStarted, fillMempoolRunning, pauseVars, abandoned>>

ReconsiderBlock(c) ==
    /\ pc[c] = "idle"
    /\ EnterReorgPause
    /\ EnterReorgMineHold(c)
    /\ CaptureTail(c)
    /\ Goto(c, "recDrain")
    /\ UNCHANGED <<miningStarted, fillMempoolRunning, abandoned, history>>

\* The barrier resolved: invalidateblock / reconsiderblock goes to the node.
ReorgDispatches(c) ==
    /\ \/ pc[c] = "invDrain" /\ Goto(c, "invNode")
       \/ pc[c] = "recDrain" /\ Goto(c, "recNode")
    /\ Drained(c)
    /\ UNCHANGED <<stateVars, miningStarted, fillMempoolRunning, pauseVars,
                   holds, queueVars, abandoned, history>>

InvalidateReturns(c, outcome) ==
    /\ pc[c] = "invNode"
    /\ ExitReorgMineHold(c)
    /\ Abandons("reorg", outcome)
    /\ Goto(c, IF outcome = "ok" THEN "invRefresh" ELSE "answered")
    /\ UNCHANGED <<stateVars, miningStarted, fillMempoolRunning, pauseVars, history>>

\* refreshWalletFunds never throws.
InvalidateRefreshed(c) ==
    /\ pc[c] = "invRefresh"
    /\ Goto(c, "answered")
    /\ UNCHANGED <<stateVars, miningStarted, fillMempoolRunning, pauseVars,
                   holds, queueVars, abandoned, history>>

\* The hold goes as soon as the node answers; the pause only in the finally.
ReconsiderReturns(c, outcome) ==
    /\ pc[c] = "recNode"
    /\ ExitReorgMineHold(c)
    /\ Abandons("reorg", outcome)
    /\ IF outcome = "ok"
         THEN Goto(c, "recRefresh") /\ UNCHANGED <<stateVars, pauseVars>>
         ELSE Goto(c, "answered") /\ ExitReorgPause
    /\ UNCHANGED <<miningStarted, fillMempoolRunning, history>>

ReconsiderRefreshed(c) ==
    /\ pc[c] = "recRefresh"
    /\ ExitReorgPause
    /\ Goto(c, "answered")
    /\ UNCHANGED <<miningStarted, fillMempoolRunning, holds, queueVars,
                   abandoned, history>>

-----------------------------------------------------------------------------
Init ==
    /\ keepMining = FALSE
    /\ generation = 0
    /\ miningStarted = FALSE
    /\ fillMempoolRunning = FALSE
    /\ reorgPauseDepth = 0
    /\ reorgPauseWasMining = FALSE
    /\ reorgPauseGeneration = 0
    /\ holds = {}
    /\ job = [p \in Procs |-> "none"]
    /\ behind = [p \in Procs |-> {}]
    /\ heldBy = [p \in Procs |-> {}]
    /\ pc = [p \in Procs |-> IF p = Main THEN "prepare" ELSE "idle"]
    /\ abandoned = {}
    /\ intended = FALSE
    /\ standing = {}

MainStep ==
    \/ WarmUpMine
    \/ BootFails
    \/ StartLoop
    \/ LoopTimerMine
    \/ LoopPolls
    \/ LoopIdles
    \/ LoopIdleMine
    \/ LoopSkipsIdleMine

MainMineReturns == \E outcome \in Outcomes :
    WarmUpReturns(outcome) \/ LoopMineReturns(outcome)

Arrive(c) ==
    \/ Refuse(c)
    \/ PauseMining(c)
    \/ ContinueMining(c)
    \/ GenerateBlocks(c)
    \/ FillMempool(c)
    \/ InvalidateBlock(c)
    \/ ReconsiderBlock(c)

\* A call that has arrived takes its next step.
CallStep(c) ==
    \/ PauseDrained(c)
    \/ FillDrained(c)
    \/ FillMine(c)
    \/ FillEnds(c)
    \/ ReorgDispatches(c)
    \/ InvalidateRefreshed(c)
    \/ ReconsiderRefreshed(c)
    \/ \E outcome \in Outcomes :
         \/ GenerateReturns(c, outcome)
         \/ FillMineReturns(c, outcome)
         \/ InvalidateReturns(c, outcome)
         \/ ReconsiderReturns(c, outcome)

Next ==
    \/ /\ Alive
       /\ \/ MainStep
          \/ MainMineReturns
          \/ \E c \in Calls : Arrive(c) \/ CallStep(c)
          \/ \E p \in Procs : Dispatch(p)
    \/ \E kind \in abandoned : NodeFinishes(kind)
    \/ ~Alive /\ UNCHANGED vars

Spec == Init /\ [][Next]_vars

\* The event loop runs every resolved continuation, and every awaited RPC ends:
\* the node answers it, or axios times it out.  Nothing is assumed of the loop's
\* own pace, of callers arriving, or of abandoned RPCs.
Fairness ==
    /\ \A c \in Calls : WF_vars(Alive /\ CallStep(c))
    /\ \A p \in Procs : WF_vars(Alive /\ Dispatch(p))
    /\ WF_vars(Alive /\ MainMineReturns)

FairSpec == Spec /\ Fairness

-----------------------------------------------------------------------------
(* Correctness.                                                            *)

DrainPhases == {"pauseDrain", "fillDrain", "invDrain"}

FlagsOK ==
    /\ keepMining \in BOOLEAN
    /\ miningStarted \in BOOLEAN
    /\ fillMempoolRunning \in BOOLEAN
    /\ reorgPauseWasMining \in BOOLEAN
    /\ intended \in BOOLEAN
    /\ standing \in SUBSET Calls

CountersOK ==
    /\ generation \in Nat
    /\ reorgPauseDepth \in Nat
    /\ reorgPauseGeneration \in Nat

QueueOK ==
    /\ holds \in SUBSET Calls
    /\ job \in [Procs -> {"none", "queued", "node"}]
    /\ behind \in [Procs -> SUBSET Procs]
    /\ heldBy \in [Procs -> SUBSET Calls]
    /\ abandoned \in SUBSET {"mine", "reorg"}

PhasesOK ==
    /\ pc \in [Procs -> CallPhases \cup MainPhases]
    /\ pc[Main] \in MainPhases
    /\ \A c \in Calls : pc[c] \in CallPhases

\* The types of the coordination state (initMineExclusionState, initStatusFields).
TypeOK == FlagsOK /\ CountersOK /\ QueueOK /\ PhasesOK

MinesAtNode == {p \in Procs : job[p] = "node"}
ReorgsAtNode == {c \in Calls : pc[c] \in RunningReorg}

\* The mines and the reorg RPCs the miner has outstanding never overlap, and
\* mines are serial (generateBlocksQueued, enterReorgMineHold).
DispatchExclusion ==
    /\ \A p, q \in MinesAtNode : p = q
    /\ MinesAtNode = {} \/ ReorgsAtNode = {}

\* No reorg RPC goes to the node while a generatetoaddress is in flight there,
\* answered or not (reorg_control.js, the comment in reconsiderBlock).
ReorgSparesMines ==
    ReorgsAtNode # {} => MinesAtNode = {} /\ "mine" \notin abandoned

\* The node itself, not only the miner's view of it, runs mines one at a time
\* and none while it re-evaluates its chain.
NodeExclusion ==
    /\ DispatchExclusion
    /\ ReorgSparesMines
    /\ abandoned # {} => MinesAtNode = {}

\* Of two mines, and of a mine and a reorg, exactly one waits for the other:
\* the append-time rule of XChainRegtestMiner.js (initMineExclusionState), with
\* less they overlap at the node, with more they wait on each other for good.
OneWaiter ==
    /\ \A p \in Unsettled, c \in holds : p \in behind[c] <=> c \notin heldBy[p]
    /\ \A p, q \in Unsettled : p # q => (p \in behind[q] <=> q \notin behind[p])

\* The pause barrier: once a pause, a fill or an invalidate is past its drain,
\* and until a resume, no mine of the auto-mine loop is unsettled, whichever
\* await the loop was parked on when the stop landed.
PauseBarrier ==
    \A c \in standing : pc[c] \notin DrainPhases => pc[Main] \notin LoopMinePhases

\* Past its barrier a fill shares the mine queue with nobody, bar start()'s
\* warm-up, so no competing block takes its transactions out of the mempool.
FillUndisturbed ==
    \A c \in Calls : pc[c] \in FillPhases \ {"fillDrain"} =>
        \A p \in Unsettled : p = c \/ pc[p] = "warmUp"

\* However reconsiders, pauses and resumes overlap, once no reconsider is in
\* flight auto-mining is what was asked for last: a pause that landed inside
\* a reconsider is not overridden, and two reconsiders do not stall the miner.
OperatorIntent ==
    (\A c \in Calls : pc[c] \notin ReconsiderPhases) => keepMining = intended

\* A stop that was answered ends only by continue_mining (rpc_methods.js,
\* pause_mining and fill_mempool).
OnlyContinueResumes ==
    [][(\E c \in standing : pc[c] = "answered") /\ keepMining'
           => \E c \in Calls : ContinueMining(c)]_vars

\* Every call that arrives is answered, unless the boot fails: barriers, the
\* mine queue and the holds never wait on one another in a circle.  A call comes
\* once, so there is a moment from which none is left waiting.
EveryCallAnswers ==
    <>[](Alive => \A c \in Calls : pc[c] \in {"idle", "answered"})

\* What a process is parked on, of the mines and reorgs others asked for.
Awaits(p) == behind[p] \cup heldBy[p]

Waiting(p) ==
    \/ job[p] = "queued"
    \/ pc[p] \in {"pauseDrain", "fillDrain"} \cup DrainingReorg

\* Never everyone waiting on everyone: where somebody waits, a mine or a reorg is
\* at the node, which answers or times out, or some waiter's turn has come, so
\* barriers, queue and holds do not deadlock (generateBlocksQueued and
\* mineWhenReorgIdle against the "await this._generateQueue" of the verbs).
SomebodyGoes ==
    (\E p \in Procs : Waiting(p)) =>
        \/ MinesAtNode # {} \/ ReorgsAtNode # {}
        \/ \E p \in Procs : job[p] = "queued" /\ MineMayRun(p)
        \/ \E p \in Procs : job[p] = "none" /\ Waiting(p) /\ Drained(p)

\* How many awaits a call that is parked on one has before its answer, at most.
AwaitsLeft(phase) ==
    CASE phase = "idle" -> 9
      [] phase = "fillDrain" -> 8       [] phase = "fillFund" -> 7
      [] phase = "fillChunkMine" -> 6   [] phase = "fillFunded" -> 5
      [] phase = "fillLastMine" -> 4    [] phase = "fillSplit" -> 3
      [] phase = "fillSplitMine" -> 2   [] phase = "fillStress" -> 1
      [] phase \in DrainingReorg -> 3   [] phase \in RunningReorg -> 2
      [] phase \in {"invRefresh", "recRefresh", "pauseDrain", "generate"} -> 1
      [] phase = "answered" -> 0

\* Every step brings each call nearer to its answer or leaves it where it is, and
\* nobody who asks later is let in ahead of it: no mine is starved by reorgs that
\* keep coming, no pause by a loop that mines (generateBlocksQueued,
\* mineWhenReorgIdle, fillMempool).
CallsGetNearer ==
    [][\A c \in Calls :
           \/ AwaitsLeft(pc'[c]) < AwaitsLeft(pc[c])
           \/ pc'[c] = pc[c] /\ Awaits(c)' \subseteq Awaits(c)]_vars

-----------------------------------------------------------------------------
(* The queue and the holds implement a fair lock on the node's chain.      *)

LockMode(p) ==
    IF job[p] = "queued" THEN "waitMine"
    ELSE IF job[p] = "node" THEN "mine"
    ELSE IF pc[p] \in DrainingReorg THEN "waitReorg"
    ELSE IF pc[p] \in RunningReorg THEN "reorg"
    ELSE "out"

LockModes == [p \in Procs |-> LockMode(p)]

LockAhead == [p \in Procs |->
    IF LockMode(p) = "out" THEN {} ELSE behind[p] \cup heldBy[p]]

Lock == INSTANCE ChainLock WITH
    Clients <- Procs, mode <- LockModes, ahead <- LockAhead

\* Mines and reorgs are granted the chain in the order they asked for it.
ImplementsLock == Lock!LockSpec

-----------------------------------------------------------------------------
(* What has to be known besides to carry the invariants through a step.    *)

\* The queue and the holds belong to the processes parked on them.
QueueMatchesPhases ==
    /\ \A p \in Procs : job[p] # "none" <=> pc[p] \in MinePhases
    /\ holds = {c \in Calls : pc[c] \in HoldPhases}

\* Nobody waits for what is over, and what runs at the node waits for nothing.
WaitsAreReal ==
    /\ \A p \in Procs : behind[p] \subseteq Unsettled \ {p} /\ heldBy[p] \subseteq holds
    /\ \A p \in Procs : job[p] # "queued" => heldBy[p] = {}
    /\ \A p \in MinesAtNode : behind[p] = {}
    /\ \A c \in ReorgsAtNode : behind[c] = {}

\* Among any processes there is one that waits for none of the others: no circle,
\* however long and through whatever mix of mines, reorgs and barriers.
NoCircularWait ==
    \A some \in SUBSET Procs : some # {} =>
        \E p \in some : Awaits(p) \cap some = {}

QueueInv == QueueMatchesPhases /\ WaitsAreReal /\ OneWaiter
                /\ (RpcTimeout \/ abandoned = {})

\* While a stop drains, the loop's mine is one it drains.
StopInv ==
    /\ standing # {} => ~intended
    /\ \A c \in standing : pc[Main] \in LoopMinePhases =>
           pc[c] \in DrainPhases /\ Main \in behind[c]

\* While a fill drains, so is every mine but start()'s warm-up; the mutex is
\* up exactly while one call fills.
Filling == {c \in Calls : pc[c] \in FillPhases}

FillInv ==
    /\ fillMempoolRunning <=> Filling # {}
    /\ \A c, d \in Filling : c = d
    /\ \A c \in Filling : \A p \in Unsettled :
           p = c \/ pc[p] = "warmUp" \/ (pc[c] = "fillDrain" /\ p \in behind[c])

\* The shared reorg pause counts the reconsiders in flight, and either no
\* foreign writer came since it was last claimed, and it remembers what to
\* restore, or one did, and keepMining already is what was asked for.
Reconsidering == {c \in Calls : pc[c] \in ReconsiderPhases}

PauseCount == reorgPauseDepth = Cardinality(Reconsidering)

ReorgPauseInv ==
    /\ reorgPauseGeneration <= generation
    /\ reorgPauseDepth = 0 => keepMining = intended
    /\ reorgPauseDepth > 0 /\ generation # reorgPauseGeneration
           => keepMining = intended
    /\ reorgPauseDepth > 0 /\ generation = reorgPauseGeneration
           => ~keepMining /\ reorgPauseWasMining = intended

IndInv == TypeOK /\ QueueInv /\ NoCircularWait /\ StopInv /\ FillInv /\ PauseCount /\ ReorgPauseInv

=============================================================================
