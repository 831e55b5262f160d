# A verification project for xchain-regtest-miner

The program is one Node.js process that mines a regtest chain (BTC, LTC or
DOGE) on behalf of test drills.  It talks JSON-RPC to a coin node and serves a
JSON-RPC API of its own.  JavaScript runs it from one `await` to the next
without interruption, so everything hard about it happens between awaits: calls
interleave, the node fails, times out and restarts, and four pieces of shared
state (a mining flag, a promise chain, a table of holds and a mutex) have to
keep the calls, the auto-mine loop and the wallet preparation apart.

The repository also carries what a platform of such services shares: a registry
of coins with a consensus pin, vendored by every service, and the scripts a
restructure of the source tree is decided by.

This directory holds TLA+ models of that code, TLC configurations that check
them on small instances, and proofs, checked by TLAPS, that the properties that
matter most hold for every value of the constants.  Source paths below are
relative to `src/src/`.

## 1. Inventory

| component | code | state | operations | modelled in |
|---|---|---|---|---|
| mine exclusion | `XChainRegtestMiner.js` (`initMineExclusionState`), `XChainRegtestMiner/block_generation.js`, `reorg_control.js`, `mining_schedule.js` (pause, continue) | `keepMining`, `_miningStateGeneration`, `_reorgPause*`, `_generateQueue`, `_reorgMineHolds`, `fillMempoolRunning`, `miningStarted` | `pause_mining`, `continue_mining`, `generate_blocks`, `fill_mempool`, `invalidate_block`, `reconsider_block`, the mines of `start()` and its loop | `MineExclusion`, `ChainLock` |
| auto-mine loop | `block_generation.js` (`runMineLoop` and its helpers), `mining_schedule.js` (setters, `idleMineDue`), `mempool_fill.js` (`walletRefreshDue`), `api/health.js` | `loop.*`, `_mempoolSize`, `_consecutiveErrors`, `_mineFailures`, `_lastMineAt`, `_balanceReadAt`, the mining times and the heartbeat interval | a pass of the loop, `set_mining_time`, `set_default_mining_time`, `set_idle_mine_interval`, `health` | `MiningLoop` |
| mempool fill | `mempool_fill.js` | its plan: keys, chunk txids, utxos | fund, look up, split, stress | mutex, barrier and mines in `MineExclusion`; everything past the barrier in `FillMempool` |
| wallet funding | `wallet_setup.js`, `rpc/blockchain_connector/wallet_rpc.js` | `walletAddress`, `walletReady`, `fundingFeeRateSatPerVb`, the connector's `walletName` | `prepareWallet`, `ensureWalletLoaded`, `send_funds`, `pinFundingFeeRate` | `WalletFunding`; the warm-up mine also in `MineExclusion` |
| wallet balance | `mempool_fill.js` (`refreshWalletFunds`), `wallet_setup.js` (`settleStartupBalance`) | `balance`, `_balanceReadAt` | the reads of the boot, refreshes of the loop and the reorg verbs | `WalletBalance`; its cadence beside the timers in `MiningLoop` |
| node connector | `rpc/blockchain_connector.js`, `rpc/blockchain_connector/*` | none but `walletName` | one method per RPC | the outcomes, where they matter |
| API | `api.js`, `api/rpc_methods.js`, `api/auth.js` | none | one method per verb | the verbs, as calls |
| startup, shutdown | `api/startup.js`, `wallet_setup.js` (`prepareWallet`), `block_generation.js` (`start`, `installShutdownHandlers`), `api/health.js` | `_shutdown`, `apiServer`, `walletReady`, the process | `startApi`, `verifyNodeChain`, SIGTERM, `health` | `Lifecycle`; `start()` among the calls in `MineExclusion` |
| coins | `coins/index.js`, `coins/consensus_pin.js` | none, but an environment and a sidecar file per node | `getCoinConfig`, `verifyConsensusPin`, `resolveConfirmations` | `CoinConfig` |
| coin data, networks, config | `coins/BTC.js`, `LTC.js`, `DOGE.js`, `networks/*`, `config.js` | none | literals | as the kinds of fields they have |
| deletion tool | `../bin/reachability.js` | the source tree, between its runs | three closures, the verdict, a deletion by its user | `Reachability` |
| suite identity | `../bin/suite-title-map.js`, `../bin/suite_title_map/split_map.js` | the pin, the declared renames and splits | compare | `SuiteTitleMap` |
| the rest | `observability/logger.js`, `../bin/sibling-reference-map.js`, `../bin/pin-identity.js` | none | output, text scanning | not modelled |

How they interact.  Everything runs in one process on one event loop.  A verb is
an `async` method on the same `XChainRegtestMiner` object the loop runs on, so
verbs, loop and boot share its fields and only ever meet between awaits.  The
API starts listening before the wallet is ready (`api/startup.js`,
`startApi` then `startMinerDetached`), which is why every verb may also meet the
preparation of the wallet.  A failing boot exits the process.  The node is
outside: it may refuse an RPC, answer late, answer a caller that has stopped
listening, or restart; and it keeps its own state (wallets loaded, `settxfee`
in force, mempool) across the miner's.

What is hard about each component, and what makes it correct:

* **Mine exclusion.**  `generatetoaddress` must never run while the node
  re-evaluates its chain, nor twice at once; whoever drains a queue must not be
  waited for by what it drains; a stop has to be a barrier, also for a loop
  parked between its check of the flag and its mine; overlapping reconsiders
  share one pause without overriding an operator's.  Properties: exclusion at
  the node, exactly one waiter per pair, nobody waiting in a circle and nobody
  overtaken, the barriers, the operator's last word, an answer for every call.
* **Auto-mine loop.**  Three stateful rules meet (timers, heartbeat, back-off)
  with settings changing under them.  Properties: transactions are mined, the
  heartbeat does not stop, timers and remembered length agree, the balance stays
  fresh, a broken miner is reported as one and stays reported, a miner at rest
  rests until it is asked.
* **Mempool fill.**  Several hundred RPCs with retries, and two computations of
  one size.  Properties: splits are affordable, every output is spent exactly
  once, the unconfirmed chain stays bounded, the fill ends and frees its mutex.
* **Wallet balance.**  Reads overlap, fail and land out of order, and the last to
  land is taken for the newest.  Properties: a funded balance is never older than
  the reads and the cadence allow, and the export settles on the truth.
* **Startup and shutdown.**  The port must not open on the wrong chain, a stuck
  preparation must not look like a pause, and a signal must end a process that
  waits for a node that hangs.
* **Coin registry.**  The pin hashes static data, the nodes use resolved data.
  Property: who verified one pin agrees, whatever the environments say.
* **Tools.**  A walk of a cyclic graph, repeated after each deletion; a
  comparison through renames and splits.  Properties: nothing needed is ever
  deleted; a comparison is clean exactly when every title arrived.
* **Wallet.**  Loading, creating and pinning race with restarts, with other
  loaders and with another wallet on the node.  Properties: the miner ends on
  its own wallet, nobody creates over it, the next send heals a restart, and
  sends stay under the fee ceiling.

## 2. Plan

In order of importance; all of it is written but the last point.

1. `MineExclusion` with `ChainLock`, the abstract fair lock it implements.
2. `MiningLoop`: the one process of `MineExclusion` whose own rules are not
   trivial, with time.
3. `WalletFunding`: the wallet against a node that restarts.
4. `FillMempool`: what a fill does behind the barrier `MineExclusion` gives it.
5. `WalletBalance` and, over it, `Lifecycle`: the balance under overlapping
   reads, and the service from its environment to its exit.
6. `CoinConfig`: the registry and its pin, for nodes of several operators.
7. `Reachability` and `SuiteTitleMap`: the two tools that guard a restructure.
8. For every component whose processes are said to end, a measure of what is left to
   do, and the theorem that no step adds to it: the part of those liveness
   properties that a proof reaches.
9. Left: `FillMempool` as a refinement of the fill phases of `MineExclusion`.  Both
   are proved to run out on their own (`FillRunsOut`, `CallsGetNearer`); the
   mapping would only name the same awaits twice.

## 3. The modules

A step of every module is what the code does from one `await` to the next.
Variables carry the names of the fields they model; `pc` or `phase` names the
await a process is parked on.  Bodies of RPCs, log lines, argument checks and
amounts are left out, except where a section below says otherwise.

**`MineExclusion`** has a process per JSON-RPC call and one, `Main`, for
`start()` and its loop.

| state | code |
|---|---|
| `keepMining`, `generation` | `keepMining`, `_miningStateGeneration` |
| `reorgPauseDepth`, `reorgPauseWasMining`, `reorgPauseGeneration` | `_reorgPause*` |
| `holds`, `heldBy[p]` | `_reorgMineHolds`; the holds the mine of `p` snapshotted and still awaits |
| `job[p]`, `behind[p]` | the link `p` put on `_generateQueue`; the links ahead of it, or ahead of the barrier it awaits |
| `fillMempoolRunning`, `miningStarted` | the fields of those names |
| `abandoned` | RPCs the node still runs that `axios` gave up on |
| `intended`, `standing` | history: what was asked for last, and by which calls |

A promise chain settles in the order it was built, so the tail captured at a
moment is determined by the set of links unsettled then: that set is `behind`.
`generateBlocksQueued` is `GenerateBlocksQueued` (append) followed by `Dispatch`
(`mineWhenReorgIdle`) and the `...Returns` action of its caller; each verb of
`api/rpc_methods.js` is the sequence of actions under its heading.  Every error
path is an outcome: `error` and, with `RpcTimeout`, `timeout`, after which the
node may go on with the RPC (`NodeFinishes`).  `AsksToStop` and `AsksToMine`
write history only.

**`ChainLock`** is what queue and holds are for: a lock on the chain, shared
among reorgs and exclusive to mines, in which a client waits for exactly the
conflicting clients that asked before it.  `LockModes` and `LockAhead` in
`MineExclusion` are the refinement mapping.

**`MiningLoop`** is the loop of `Main` with time.  A timestamp is an age in polls
of `CHECK_BLOCK_DELAY_MS` and stops growing at `Horizon`, beyond every interval:
the code compares ages with intervals and nothing else.  `LoopStep` and
`NodeStep` are the awaits of one pass, in the order of `runMineLoop`; `Around`
is everybody else, at any await.  The exported `_consecutiveErrors` is the loop's
counter.  The health probe of `api/health.js` is `Healthy`.

**`WalletFunding`** has the boot (`Main`) and any number of sends.  `pc` walks
`prepareWallet`, `ensureWalletLoaded` and `sendFundsToAddress`; `ours`, `foreign`
and `ceilings` are the node's; `deployment` is what the operator chose, a daemon
and whether `NETWORK` names its coin.  An RPC and the continuation its reply runs
are one action.  A load may outlast its timeout (`loading`), a create may be
executed with its reply lost, and the node may restart at every await.  `late`
and `disturbed` are history: which sends began after the boot, which processes
a restart found at work.  The warm-up mine is one step here and several in
`MineExclusion`.

**`FillMempool`** is one fill past its barrier.  Amounts are counted in outputs:
one output costs what its transaction pays, its fee and its share of the split's
fee, so "a chunk is funded for `n` outputs" is `ChunkSize`, and the addresses its
split pays are `SplitOutputs`.  Those two are separate computations in the code
as well, which is the point of `SplitsMatchFunding`.  Chunks and transactions are
found by index, as in the code.  `lost` counts sends whose reply was lost; it is
history.

**`WalletBalance`** is one number with three clocks.  `wallet` is the node's, `balance`
and `balanceAge` are the exported ones, and a read is three steps: `Asks`,
`NodeEvaluates`, and `Applies` when the reply arrives, so of two reads the one
evaluated first may land last.  `RefreshApplies` and `RefreshFails` are the two
paths of `refreshWalletFunds`.  `drainedAge` is history: the polls since the wallet
last held funds.

**`Lifecycle`** extends it with the processes that read.  `at` walks `startApi`
(`config`, `verify`), `prepareWallet` (`address` to `pin`) and `runMineLoop` (`top`,
`refresh`, `pass`, `left`); `process` is how the service ended.  `env` and `chain` are
what it was started with: an environment is cut down to what its checks tell
apart.  Reads of the boot are not refreshes: they set the balance and leave the
stamp, which `BalanceSettled` sets.  `Signal` depends on `miningStarted`, because
only `start()` installs the handlers, after the preparation.  An environment without
`rpcTimeout` is `NODE_RPC_TIMEOUT=0`, where an RPC may hang.

**`CoinConfig`** has a node per operator, with a bundle, a pin and an environment of
its own; `Boots` is guarded by `verifyConsensusPin`.  A coin file has one field per
way the code treats a field: hashed (`params`, `wireFormat`), hashed and
overridable (`FEE_DESTINATION`, `FULLNODE`), outside the hash (`EXPLORER`,
`confirmations`).  sha256 is taken to be one-to-one.

**`Reachability`** runs `closure` pop by pop (`Visit`) for the three entry lists, then
gives the verdict (`Unreferenced`) and lets the user delete any of the candidates
with the suites over them, and starts again.  A file is the set of files it
requires.  What siblings name and carry are sets given at the start.

**`SuiteTitleMap`** makes a commit edit by edit and compares after each: `Differences`
is `compareWithSplits`, with `compare` for the files outside splits.  A file is a bag
of titles; within splits the bags count, outside them only which titles occur,
as in the code.  The rename map is one-to-one (`OneToOne`, see section 6).

## 4. What TLC checks

`MC*.tla` give the constants their values, one configuration per question.

| run | shows | bounds |
|---|---|---|
| `exclusion` | mines and reorgs exclude each other at the node; of two conflicting parties exactly one waits; barriers are barriers; a fill is undisturbed; auto-mining ends as last asked for; where anybody waits, somebody may go; no step takes a call further from its answer | 4 calls of any kind beside `start()` and its loop, no RPC timeout |
| `answers` | queue and holds implement `ChainLock`, step by step; every call is answered | 3 calls, RPC timeouts |
| `loop` | timers agree with the remembered length; the balance is fresh; a node that never mines is reported; a miner at rest rests until asked | 2 transactions, intervals 1..3, back-off 3, prompt node that fails |
| `loop_progress` | waiting transactions are mined; the heartbeat never stops; with the heartbeat off an empty chain comes to rest | 2 transactions, slow node that fails |
| `wallet` | own wallet; no create clash; the next send heals a restart; a healed send is capped | boot and 2 sends, Bitcoin and Litecoin, any restarts |
| `wallet_ends` | no send without ceiling where the node has `fee_rate`; boot and send come to an end | boot and 1 send, every deployment, restarts, lost replies, another wallet coming and going |
| `service` | the chain is known before anything is served; a funded balance is recent and settles on the truth; the boot runs out of RPCs; a signal ends the process; a stuck preparation is reported | 24 environments, 4 chains, one reorg read beside the loop's, latency 1, interval 2, a pass 1 |
| `parts` | `ChainLock`: excludes and starves nobody. `FillMempool`: splits match, outputs are spent once and all, the chain is bounded, the fill ends. `CoinConfig`: one pin, one reading. `SuiteTitleMap`: clean exactly when whole. `Reachability`: walks are exact, nothing needed is deleted, the restructure ends | 4 clients; quantities 1..10 in chunks of 3, a mine every 2 chunks, up to 2 lost replies; 2 nodes, 2 coins, 8 bundles, 4 pins, 4 environments; 3 paths, 2 titles, 2 edits; every graph of 3 sources, 1 tool, 1 suite, 2 siblings |
| `boot`, `timeout`, `wallet_reload`, `wallet_bare` | the disagreements of section 6 | 1 or 2 calls |

Why the bounds are enough to see the interesting cases.  Four calls give two
reconsiders that overlap with a pause and a resume between them, the smallest
case in which the restore could go wrong, and a fill beside a mine, a reorg and a
pause.  Three calls give a circle through a mine, a reorg and a barrier.  The
counters `generation` and `reorgPauseDepth` need no bound: each call writes a
fixed number of times.  In `MiningLoop` every interval is shorter than `Horizon`,
the fast mining times differ from the slow ones, `StreakCap` is beyond the error
threshold and beyond where the back-off reaches its cap, and two transactions
let a mempool shrink without emptying.  In `WalletFunding` two attempts give a
first, a repeated and a last try of each loop.  In `FillMempool` four chunks put
a confirming mine between two chunks, and the quantities reach each side of a
chunk's edge; `LostCap` bounds the count of lost replies, which otherwise is
bounded only by the retries.  `Lifecycle` starts in every environment with each
chain; one reorg read is enough to overtake the loop's and to be overtaken, a
latency of one poll separates asking from answering, and `Horizon` lets the bound
of `FundedIsRecent` be exceeded.  In `CoinConfig` each bundle drifts in one field,
so a field that is treated wrongly shows by itself.  Three sources make cycles, shared
files and chains behind a held file; two edits are the least that can cancel out
in a count.  `parts` moves one of its components per behaviour and leaves the others
at rest, since they share no state: it is five models in one run.  The proofs of section 5 do not depend on any of
these.

Fairness, and why the code justifies it.  The event loop runs every continuation
whose promise is resolved, so steps between awaits are weakly fair.  Every RPC
ends: the node answers it or `axios` abandons it (`NODE_RPC_TIMEOUT`, or the
socket).  Nothing is assumed of callers, of transactions, of the operator, of
the pace of the loop, of a wallet load, or of the node finishing an abandoned
RPC.  `loop_progress` alone assumes a node that does not fail for ever
(`NodeRecovers`, strong fairness: the loop keeps asking between failures);
without it neither property can hold.  `EveryCallAnswers` and `EveryoneEnds` say
`<>[]`: each call happens once, so there is a moment after which nobody waits.
In `Lifecycle` timers fire (`Failsafe`, `GraceEnds`, `Tick`); the loop, the node and the
reorg reads go on only where there is an RPC timeout; and nothing is assumed of
the boot, so it may hang, which is what `StallReported` is about.
`BalanceSettles` assumes that the wallet comes to rest and that reads stop failing.
The condition `Alive` is there because a failing boot exits the process.

Deadlock is checked everywhere; a miner that exited, a fill that ended and a
quiet wallet stutter explicitly.

## 5. What TLAPS proves

For every finite set of calls, any bounds, quantities, chunk sizes and
settings, under the named assumptions the modules declare on their constants:
counts and intervals are numbers, the switches that let a node fail are Booleans, the
sets of calls, files and paths are finite, and an interval lies within its `Horizon`.
Every invariant and every action property that a run checks is stated by a
theorem here; what is left to TLC alone is at the end of this section.  The other
way round some theorems have no run of their own: types, which a proof settles for
every instance, and the parts of a promise whose whole a run checks (`OneAhead` and
`NoCircle` beside `AskersEnter`, `FillRunsOut` beside `FillEnds`, `StepsRunOut` beside
`EveryoneEnds`, `StallStands` beside `BrokenMinerReported`).

Two arguments recur.

*Nobody waits in a circle.*  A relation whose pairs have exactly one waiter may
still have a circle of three.  `NoCircularWait` and `NoCircle` say that every
non-empty set of processes has a member that waits for none of the others, and
that is inductive by itself: a newcomer waits for those before it and nobody
waits for the newcomer, so of any set either the newcomer is alone, or the member
the rest already had still serves; and who leaves only shortens what others wait
for.  `SomebodyGoes` follows with the queue's invariant.

*Progress without liveness.*  The provers reach neither fairness nor `ENABLED`.
What they reach is the part of an ending that fairness does not give: a number
that each step makes smaller (`FillRunsOut`, `StepsRunOut`, `BootRunsOut`,
`RestructureEnds`), or, where a call also waits for others, that nobody who asks
later gets in ahead of it (`CallsGetNearer`).  Each of them is an action property
over a natural number, `0 .. n - 1` being empty at zero, so a step that is taken
with nothing left would break it.

* **`MineExclusionProofs`.**  `OneWaiter` is the heart.  Alone it is not
  inductive: `QueueInv` adds that jobs and holds belong to the processes parked on
  them (`QueueMatchesPhases`) and that nobody waits for what is over
  (`WaitsAreReal`).  From it follow `DispatchExclusion`, with or without RPC
  timeouts, `NodeExclusion` without them, and the step simulation of `ChainLock`
  (`LockImplemented`).  `StopInv` says that the loop's mine, while a stop drains,
  is among the mines it drains: it gives `PauseBarrier`.  `FillInv` says the same of
  all mines and a fill, and that the mutex is up exactly while one call fills:
  it gives `FillUndisturbed`.  `PauseCount` and `ReorgPauseInv` give
  `OperatorIntent`: the shared pause counts the reconsiders in flight, and either no
  foreign writer came since it was claimed, and it remembers what to restore, or
  one did, and the flag already is what was asked for.  `NobodyWaitsInACircle`
  and `SomebodyAlwaysGoes` rule a deadlock out for any number of calls;
  `EveryCallGetsNearer` bounds the awaits of a call by `AwaitsLeft`, and says that
  while it is parked on one, the mines and reorgs it waits for only get fewer.  The proofs group the
  thirty actions by what they do to the queue (`QueueStep`) and to the flag
  (`WriterStep`).
* **`ChainLockProofs`.**  `LockInv`: waits are for conflicts only.  It gives
  `OneAhead` and `LockExclusion`; `NobodyInACircle` is the argument above.
* **`MiningLoopProofs`.**  Types and `TimersCoherent` by induction; `BalanceBounded`
  from `BalancePaced`, which says at each await how much of the interval is left.
  The provers have no theory of powers: that `2 ^ n` is a number for the streaks
  that occur is the assumption `PowersAssumption`, evaluated by TLC.
  `StallStands` goes through the one place that lowers the mine streak
  (`ClearErrorStreak`).  `RestsUntilAsked` rests on `TimersCoherent`: nothing
  remembered means no timer is armed, so nothing but the heartbeat is left that
  could mine.  They are what `BrokenMinerReported` and `QuietWhenOff` keep once
  they got there.
* **`WalletFundingProofs`.**  `WalletInv` follows each process undisturbed by a
  restart: who is about to create finds the wallet absent or created, who is past
  the load finds it loaded and pinned (`LoadInv`); another's wallet that answered
  the probe goes on answering alone, because a send reloads the miner's wallet
  only when the node misses it by name (`BootInv`); the rate per call is in force
  exactly where it is needed (`RateInv`).  It gives the six theorems, of which
  `NextSendHeals` assumes that `NETWORK` names the coin of a daemon without
  `fee_rate` (`CoinsNamed`).  `StepsLeft` counts, per process, the retries of the
  two loops with the reload and the re-pin they may lead to; `EveryoneRunsOut`
  proves that every step of a process lowers its own and leaves the others'.
* **`FillMempoolProofs`.**  Lemmas on division first: the chunks cover the quantity
  and no more, and the remainder and the address count give one size
  (`SizesAgree`).  Then `FillInv` (what is funded, found, split and spent so far).
  `RpcsLeft` is a sum over the stages of a fill, each with its retries;
  `FillAlwaysRunsOut` needs that no retry begins anew and no stage is entered twice.
* **`LifecycleProofs`.**  `ChainInv`: past the verification the label is known and the
  chain fits it; it gives `ChainChecked`.  `FreshInv` says how stale a funded balance
  can be at each place: a reply under way is no staler than its call is old
  (`ReadsHonest`), so whoever stamps, overtaken or not, stamps something a latency
  old at most (`FreshWhenStamped`), and from there the pass that does not refresh, the pass
  itself and the refresh that is late add what they take (`FreshOnTheWay`).  It gives
  `FundedIsRecent`, for any number of reorg reads.  One counter serves two loops of the
  boot, `AttemptsInv` keeps each use within its loop, and `BootLeft` then falls with
  every step of the boot (`BootAlwaysRunsOut`).
* **`CoinConfigProofs`.**  A running node verified its bundle (`BootedVerified`); nodes
  with one pin therefore have one subset, and off regtest the subset decides all
  that is resolved from it.  It gives `VerifiedAgree`.
* **`ToolingProofs`.**  For every finite require graph: `WalkInv` is the invariant of a
  search with a stack: what is visited leads only to what is visited or waiting, and
  all of it is needed.  At the end the visited set is closed, hence exact.  A
  deletion keeps `DeletionSafe` because a file that a present file outside the tests
  requires is not a candidate, so what a held file needs is needed of the smaller tree
  too.  That nothing visited still waits (`seen \cap pending = {}`) makes every pop
  a visit more, which with the deletions gives `RestructureEnds`.
  For every finite set of paths: the counts of a split are sums over its parts, by
  recursion over a finite set.  The library's induction over finite sets takes an operator,
  which the provers cannot instantiate; `SetInduction` has the same from a set of
  sizes and its least element, and gives that a sum over parts is a number
  (`SumsExist`, `PartsHaveNatural`).  Then a split is graded clean exactly when its
  titles arrived whole (`GradedWhole`), a file outside splits exactly when it kept
  the titles it had (`ComparedEqual`), and together `TitlesKept`, from `TitleInv`:
  edits never touch the record they are judged by.

Conditions in the properties.  `RpcFails`, `ForeignMoves` and `NodeSlow` appear in
some: they name what the code does not promise.  A refused RPC makes a send
fail; an operator who unloads and loads his own wallet in the middle of the boot
may be taken for the miner's; a node that takes long makes the balance older.
`CeilingKept` for every daemon does not hold (section 6).

Only model-checked: every liveness property (`EveryCallAnswers`, `AskersEnter`,
`PendingIsMined`, `Heartbeat`, `QuietWhenOff`, `BrokenMinerReported`, `EveryoneEnds`,
`FillEnds`, `BalanceSettles`, `SignalEnds`, `StallReported`) and the four
counterexamples.  The provers take neither fairness nor `ENABLED`; for eight of the
eleven a theorem above states the part that is not about fairness:

| liveness, by TLC | its core, proved |
|---|---|
| `EveryCallAnswers`, `AskersEnter` | `SomebodyGoes`, `CallsGetNearer`, `NoCircle` |
| `EveryoneEnds`, `FillEnds` | `StepsRunOut`, `FillRunsOut` |
| `QuietWhenOff`, `BrokenMinerReported` | `RestsUntilAsked`, `StallStands` |
| `PendingIsMined`, `Heartbeat` | `TimersCoherent`: what waits has a timer running |
| `BalanceSettles`, `SignalEnds`, `StallReported` | none: they are about time and fairness only |

`FundedIsRecent` needs the RPC timeout it names: without one the reply of a hung
refresh may be as old as one likes.

## 6. Where the code and its texts disagree

* `boot`: a pause answered while the wallet is being prepared is overridden when
  `start()` enters its loop (`block_generation.js:311`), although `pause_mining`
  and `fill_mempool` promise a stop until `continue_mining`.
* `timeout`: a mine that `axios` abandoned still runs at the node when the reorg
  RPC drained behind it goes out, although `reorg_control.js` says the node never
  re-evaluates its chain while a mine is in flight.
* `wallet_reload`: between the reload of a wallet and its re-pin a second send
  goes out with no fee ceiling, on daemons that keep it in the wallet
  (`wallet_setup.js:257`).
* `wallet_bare`: with a bare `NETWORK` one failed `settxfee` leaves a Litecoin
  miner on a per-call rate its daemon refuses, for good
  (`wallet_setup.js:329`).

Seen while modelling and not shown by a run of their own:

* `getStatus` says the exported balance is "never staler than that interval whatever
  drained the wallet" (`block_generation.js:324-326`).  The bound that holds is
  `FundedIsRecent`'s: the interval, a pass (back-off included) and two RPC
  latencies, because a reply tells of the moment the node evaluated it and a late
  one overwrites a newer.
* With `NODE_RPC_TIMEOUT=0` a loop that hangs on an RPC keeps its streaks low, so
  the probe goes on answering ok.
* `listenApi` has no error handler: with the port in use the callback's line is not
  logged and no call is ever served, but the miner goes on (`Serves`).
* `consensus_pin.js` says a straggler "fail-closes on verifyConsensusPin()": it does when
  its bundle and its pin are of different waves.  A node that was not updated at all
  has an old bundle with an old pin and verifies; `VerifiedAgree` is about nodes with the
  same pin.  This miner itself never calls `verifyConsensusPin`, only a unit test does.
* `resolveFullnode` says verifier keys are normalised "on EVERY network"
  (`coins/index.js:152-153`); on regtest the sidecar and the environment are applied after
  that and stay as they are written.
* `resolveConfirmations` takes a negative override for an override and does not go on
  to the next tier; the floor it ends at is its own bundle's, which the pin does
  not cover.
* `twinCopies` leaves out `xchain-indexer`, the repository the tool was written for
  (`bin/reachability.js:289`), and not the checkout it runs in.  Where this checkout
  lies beside its siblings under its own name, every file is its own twin and nothing is
  ever reported; and a copy the indexer keeps is not seen.  `Siblings` in the model
  has no own checkout, and `Held` speaks of the repositories the tool looks at.
* The tool's header calls a file "outside all four" reaches deletable; a cycle of dead files
  is outside them and is never reported, since each has a caller (`RequiredBy`).
* Two pinned files renamed to one path overwrite each other
  (`split_map.js:106`, `suite-title-map.js:306`), and outside splits a title that occurs
  twice in a file and loses one occurrence compares clean (`suite-title-map.js:311`):
  `TitlesKept` promises counts only within splits.

Also: timers armed for a mempool that
somebody else mined since make the loop mine an empty block with the heartbeat
off (`block_generation.js:79` looks at the timers, `mining_schedule.js:81` at the
interval); a failing balance refresh is stamped like a good one, so the age
`BalanceBounded` speaks of is that of the last attempt; and on Dogecoin, whose
daemon loads its wallet itself, nothing pins the fee again after a restart.

## 7. Not modelled, and why

* HTTP, authentication, argument checks and the wording of answers: no state.
  A refused call is `Refuse`.
* Keys, addresses, scripts, amounts in satoshis and the transactions built from
  them: abstracted to outputs and indices.
* A reorg during a fill: it takes the fill's confirmed sends out of the chain
  and back, so `ChainBounded` is about fills that nobody reorganises.
* `FillMempool` within `MineExclusion`: section 2, point 8.
* How a response is classified as an error (`rpc_error.js`): no state, and its
  outcomes are in the models.
* The genesis overrides of the registry, `networks/` and `config.js`: they copy values.
* `sibling-reference-map.js` and `pin-identity.js`: text scanners; the first is given to
  `Reachability` as the set of files it finds.
* How mocha is called and its report parsed, reports of timings, scripts that are chains
  of others: each script is compared on its own.
* The logger, the coin tables' literals and the tests.
