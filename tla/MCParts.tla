------------------------------ MODULE MCParts ------------------------------
(***************************************************************************)
(* Small instances of the five components that share no state with any     *)
(* other: the abstract lock, one fill past its barrier, the coin registry, *)
(* and the two tools that guard a restructure of the repository.  Every    *)
(* behaviour is a behaviour of one of them, the others stand still.        *)
(***************************************************************************)
EXTENDS ChainLock, FillMempool, CoinConfig, SuiteTitleMap, Reachability

VARIABLE part   \* the component that moves

partsVars == <<part, lockVars, vars, coinVars, titleVars, reachVars>>

-----------------------------------------------------------------------------
(* CoinConfig: bundles that drift from the shipped one in a single field.  *)

ShippedCoin ==
    [params |-> "shipped", wireFormat |-> "mweb", FEE_DESTINATION |-> "shipped",
     FULLNODE |-> "shipped", EXPLORER |-> "shipped", confirmations |-> 3]

DriftedCoins ==
    {[ShippedCoin EXCEPT !.params = "drifted"],
     [ShippedCoin EXCEPT !.wireFormat = "default"],
     [ShippedCoin EXCEPT !.FEE_DESTINATION = "drifted"],
     [ShippedCoin EXCEPT !.FULLNODE = "drifted"],
     [ShippedCoin EXCEPT !.EXPLORER = "drifted"],
     [ShippedCoin EXCEPT !.confirmations = 2]}

MCBundles ==
    {[BTC |-> ShippedCoin, LTC |-> coin] : coin \in {ShippedCoin} \cup DriftedCoins}
        \cup {[BTC |-> [ShippedCoin EXCEPT !.params = "drifted"], LTC |-> ShippedCoin]}

ShippedPin == consensusSubset(ShippedCoin)

\* No pin, one coin of two pinned, both, and a pin that follows a drifted bundle.
MCPins ==
    {NotSet,
     [BTC |-> ShippedPin, LTC |-> NotSet],
     [BTC |-> ShippedPin, LTC |-> ShippedPin],
     [BTC |-> ShippedPin, LTC |-> [ShippedPin EXCEPT !.params = "drifted"]]}

PlainEnv ==
    [fee |-> [c \in Coins |-> NotSet], fullnode |-> NotSet,
     depth |-> [c \in Coins |-> 0], p2pDepth |-> [c \in Coins |-> 0]]

MCOperatorEnvs ==
    {PlainEnv,
     [PlainEnv EXCEPT !.fee["LTC"] = "own", !.depth["LTC"] = 2, !.p2pDepth["LTC"] = 5],
     [PlainEnv EXCEPT !.fullnode = "own", !.depth["LTC"] = -1],
     [PlainEnv EXCEPT !.p2pDepth["BTC"] = 4, !.p2pDepth["LTC"] = 1]}

MCSidecars == {NotSet, "sidecar"}

-----------------------------------------------------------------------------
(* SuiteTitleMap: two pinned files that share a title, one of them perhaps *)
(* carrying it twice; a rename of each and a split of one or of two paths. *)

MCPinned ==
    {[f \in Paths |-> [t \in Titles |->
         CASE f = "a" /\ t = "t1" -> twice [] f = "a" /\ t = "t2" -> 1
           [] f = "b" /\ t = "t1" -> 1     [] OTHER -> 0]] : twice \in {1, 2}}

MCSplits ==
    {[f \in Paths |-> CASE f = "a" -> parts [] f = "b" -> others [] OTHER -> {}] :
        parts \in SUBSET Paths, others \in {{}, {"b", "c"}}}

MCTitleInit ==
    /\ pinned \in MCPinned
    /\ splits \in MCSplits
    /\ renames \in [Paths -> Paths] /\ renames["c"] = "c"
    /\ TitleInit

-----------------------------------------------------------------------------
(* Reachability: every graph of three sources, one of which the service    *)
(* may start, one a sibling's text may name and one a sibling may copy.    *)

MCReachInit ==
    /\ requires \in [Files -> SUBSET Sources]
    /\ \A f \in Sources : f \notin requires[f]
    /\ \A f \in Tooling : requires[f] \subseteq {"src/c"}
    /\ \A f \in Tests : requires[f] \subseteq {"src/b"}
    /\ starts \in SUBSET {"src/a"}
    /\ named \in SUBSET {"src/b"}
    /\ carries \in [Siblings -> SUBSET {"src/c"}]
    /\ ReachInit

-----------------------------------------------------------------------------
(* The components that stand still.                                        *)

LockStands == LockInit

FillStands ==
    /\ txQuantity = 1 /\ phase = "failed"
    /\ retries = 0 /\ processed = 0
    /\ funded = << >> /\ utxos = 0 /\ split = << >>
    /\ stressed = 0 /\ spent = {}
    /\ unconfirmed = 0 /\ lost = 0

CoinStands == network = "regtest" /\ CoinInit

TitleStands ==
    /\ pinned = [f \in Paths |-> [t \in Titles |-> 0]]
    /\ renames = [f \in Paths |-> f]
    /\ splits = [f \in Paths |-> {}]
    /\ TitleInit

ReachStands ==
    /\ requires = [f \in Files |-> {}]
    /\ starts = {} /\ named = {}
    /\ carries = [repo \in Siblings |-> {}]
    /\ ReachInit

PartsInit ==
    \/ part = "lock"  /\ LockInit /\ FillStands /\ CoinStands /\ TitleStands /\ ReachStands
    \/ part = "fill"  /\ LockStands /\ Init /\ CoinStands /\ TitleStands /\ ReachStands
    \/ part = "coin"  /\ LockStands /\ FillStands /\ CoinInit /\ TitleStands /\ ReachStands
    \/ part = "title" /\ LockStands /\ FillStands /\ CoinStands /\ MCTitleInit /\ ReachStands
    \/ part = "reach" /\ LockStands /\ FillStands /\ CoinStands /\ TitleStands /\ MCReachInit

PartsNext ==
    \/ /\ part = "lock" /\ LockNext
       /\ UNCHANGED <<part, vars, coinVars, titleVars, reachVars>>
    \/ /\ part = "fill" /\ Next
       /\ UNCHANGED <<part, lockVars, coinVars, titleVars, reachVars>>
    \/ /\ part = "coin" /\ CoinNext
       /\ UNCHANGED <<part, lockVars, vars, titleVars, reachVars>>
    \/ /\ part = "title" /\ TitleNext
       /\ UNCHANGED <<part, lockVars, vars, coinVars, reachVars>>
    \/ /\ part = "reach" /\ ReachNext
       /\ UNCHANGED <<part, lockVars, vars, coinVars, titleVars>>

\* The fairness of the lock and of the fill; neither asks for a step of a
\* component that stands still.
PartsSpec ==
    /\ PartsInit
    /\ [][PartsNext]_partsVars
    /\ \A p \in Clients : WF_lockVars(Enter(p)) /\ WF_lockVars(Leave(p))
    /\ WF_vars(Next)

=============================================================================
