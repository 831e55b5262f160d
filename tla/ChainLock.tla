----------------------------- MODULE ChainLock -----------------------------
(***************************************************************************)
(* What the mine queue and the reorg holds promise together, without       *)
(* promises, maps or snapshots: a fair lock on the node's chain.           *)
(*                                                                         *)
(* A mine excludes everything else, reorgs only exclude mines (the API     *)
(* serves both reorg verbs unqueued).  A client that asks has to wait for  *)
(* exactly the conflicting clients that asked before it and have not left, *)
(* never for one that asked later: that is why nobody waits in a circle.   *)
(***************************************************************************)
EXTENDS Naturals, FiniteSets

CONSTANT Clients

VARIABLES
    mode,   \* what a client holds or waits for
    ahead   \* the earlier conflicting clients it still waits for

lockVars == <<mode, ahead>>

MineModes  == {"waitMine", "mine"}
ReorgModes == {"waitReorg", "reorg"}
Modes == {"out"} \cup MineModes \cup ReorgModes

Mining   == {p \in Clients : mode[p] \in MineModes}
Reorging == {p \in Clients : mode[p] \in ReorgModes}

\* A mine that joins the queue without looking at the reorgs.
AskMine_PastReorgs(p) ==
    /\ mode[p] = "out"
    /\ mode' = [mode EXCEPT ![p] = "waitMine"]
    /\ ahead' = [ahead EXCEPT ![p] = Mining]

AskMine(p) ==
    /\ mode[p] = "out"
    /\ mode' = [mode EXCEPT ![p] = "waitMine"]
    /\ ahead' = [ahead EXCEPT ![p] = Mining \cup Reorging]

AskReorg(p) ==
    /\ mode[p] = "out"
    /\ mode' = [mode EXCEPT ![p] = "waitReorg"]
    /\ ahead' = [ahead EXCEPT ![p] = Mining]

Enter(p) ==
    /\ ahead[p] = {}
    /\ \/ mode[p] = "waitMine"  /\ mode' = [mode EXCEPT ![p] = "mine"]
       \/ mode[p] = "waitReorg" /\ mode' = [mode EXCEPT ![p] = "reorg"]
    /\ UNCHANGED ahead

\* A client whose waiters are not told that it left.
Leave_Unannounced(p) ==
    /\ mode[p] \in {"mine", "reorg"}
    /\ mode' = [mode EXCEPT ![p] = "out"]
    /\ UNCHANGED ahead

Leave(p) ==
    /\ mode[p] \in {"mine", "reorg"}
    /\ mode' = [mode EXCEPT ![p] = "out"]
    /\ ahead' = [q \in Clients |-> ahead[q] \ {p}]

LockInit ==
    /\ mode = [p \in Clients |-> "out"]
    /\ ahead = [p \in Clients |-> {}]

LockNext == \E p \in Clients :
    AskMine(p) \/ AskReorg(p) \/ Enter(p) \/ Leave(p)

LockSpec == LockInit /\ [][LockNext]_lockVars

\* Whoever may enter does, and whoever is in leaves.
LockFairSpec ==
    LockSpec /\ \A p \in Clients : WF_lockVars(Enter(p)) /\ WF_lockVars(Leave(p))

-----------------------------------------------------------------------------
(* What the lock gives its clients.                                        *)

\* A client that mines is alone on the chain.  Only reorgs may overlap: of the
\* RPCs the miner has outstanding, a generatetoaddress is the only one.
LockExclusion ==
    \A p, q \in Clients :
        p # q /\ mode[p] = "mine" => mode[q] \notin {"mine", "reorg"}

\* Of two clients that conflict, exactly one waits for the other
\* (XChainRegtestMiner.js, the rule above initMineExclusionState).
Conflict(p, q) ==
    /\ p # q
    /\ mode[p] # "out" /\ mode[q] # "out"
    /\ p \in Mining \/ q \in Mining

OneAhead ==
    \A p, q \in Clients : Conflict(p, q) => (p \in ahead[q] <=> q \notin ahead[p])

\* Among any clients there is one that waits for none of the others: however
\* mines and reorgs overlap, they do not wait on each other for good.
NoCircle ==
    \A some \in SUBSET Clients : some # {} =>
        \E p \in some : ahead[p] \cap some = {}

\* Whoever asks for the chain gets it: no mine is starved by the reorgs that
\* keep arriving, and no reorg by the mining loop.
AskersEnter ==
    \A p \in Clients :
        mode[p] \in {"waitMine", "waitReorg"} ~> mode[p] \in {"mine", "reorg"}

-----------------------------------------------------------------------------
(* What has to be known besides to carry the exclusion through a step.     *)

LockTypeOK ==
    /\ mode \in [Clients -> Modes]
    /\ ahead \in [Clients -> SUBSET Clients]

\* A wait is for a conflict, and whoever is in waits for nobody.
WaitsConflict ==
    /\ \A p \in Clients : \A q \in ahead[p] : Conflict(p, q)
    /\ \A p \in Clients : mode[p] \in {"mine", "reorg"} => ahead[p] = {}

LockInv == LockTypeOK /\ WaitsConflict /\ OneAhead

=============================================================================
