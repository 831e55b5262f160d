--------------------------- MODULE WalletBalance ---------------------------
(***************************************************************************)
(* The exported wallet balance and those who re-read it.                   *)
(*                                                                         *)
(* A read is asked for, evaluated by the node and applied when its reply   *)
(* arrives, with time in between: start()'s flow and each reorg verb has   *)
(* a getbalance of its own, so a later read may be overtaken by an earlier *)
(* one.  Which flow asks when is Lifecycle's subject.                      *)
(*                                                                         *)
(* Time is counted in polls.  A balance is only told funded from empty.    *)
(***************************************************************************)
EXTENDS Integers

CONSTANTS
    Reorgs,          \* invalidate_block and reconsider_block calls
    Latency,         \* an RPC is answered, or times out, within so many polls
    RefreshInterval, \* WALLET_BALANCE_REFRESH_MS
    Horizon          \* bound on the history of the wallet

ASSUME BalanceAssumption ==
    /\ "main" \notin Reorgs
    /\ Latency \in Nat /\ RefreshInterval \in Nat \ {0} /\ Horizon \in Nat

NotSet == -1

VARIABLES
    wallet,     \* the node's wallet, "empty" or "funded"
    drainedAge, \* history: since the wallet was last funded
    balance,    \* this.balance, "unknown" for its null
    balanceAge, \* of _balanceReadAt, NotSet for its null
    asked,      \* of each reader's getbalance, NotSet when it has none
    seen        \* what the reply under way tells it, "none" before there is one

balanceVars == <<wallet, drainedAge, balance, balanceAge, asked, seen>>

\* start()'s own flow, first prepareWallet's and then the loop's, and the reorgs.
Readers == {"main"} \cup Reorgs
Holdings == {"empty", "funded"}

BalanceInit ==
    /\ wallet \in Holdings
    /\ drainedAge = 0
    /\ balance = "unknown" /\ balanceAge = NotSet
    /\ asked = [r \in Readers |-> NotSet]
    /\ seen = [r \in Readers |-> "none"]

-----------------------------------------------------------------------------
(* One getbalance.                                                         *)

Asks(r) ==
    /\ asked' = [asked EXCEPT ![r] = 0]
    /\ seen' = [seen EXCEPT ![r] = "none"]

Settles(r) ==
    /\ asked' = [asked EXCEPT ![r] = NotSet]
    /\ seen' = [seen EXCEPT ![r] = "none"]

NodeEvaluates(r) ==
    /\ asked[r] # NotSet /\ seen[r] = "none"
    /\ seen' = [seen EXCEPT ![r] = wallet]
    /\ UNCHANGED <<wallet, drainedAge, balance, balanceAge, asked>>

\* The reply is applied as it comes, whatever was asked or applied since.
Applies(r) == seen[r] # "none" /\ balance' = seen[r]

\* refreshWalletFunds' catch.
BalanceUnread_Kept == balance
BalanceUnread == "unknown"

\* refreshWalletFunds: stamped on both paths, and it never throws.
RefreshApplies(r) == Applies(r) /\ Settles(r) /\ balanceAge' = 0
RefreshFails(r) ==
    /\ asked[r] # NotSet
    /\ balance' = BalanceUnread
    /\ Settles(r)
    /\ balanceAge' = 0

WalletRefreshDue_Unread == balanceAge = NotSet
WalletRefreshDue == balanceAge = NotSet \/ balanceAge >= RefreshInterval

-----------------------------------------------------------------------------
(* Around the reads.                                                       *)

\* A send, a fill, a reorg, a coinbase that matures.
WalletMoves ==
    /\ wallet' \in Holdings \ {wallet}
    /\ drainedAge' = 0
    /\ UNCHANGED <<balance, balanceAge, asked, seen>>

\* An age stops growing at what it is compared with.
Aged(age, most) == IF age = NotSet THEN NotSet ELSE IF age < most THEN age + 1 ELSE age

\* Whether a poll may pass before a call is answered or times out.
CallsInTime == \A r \in Readers : asked[r] < Latency

TimePasses ==
    /\ drainedAge' = IF wallet = "funded" THEN 0 ELSE Aged(drainedAge, Horizon)
    /\ balanceAge' = Aged(balanceAge, RefreshInterval)
    /\ asked' = [r \in Readers |-> Aged(asked[r], Latency)]
    /\ UNCHANGED <<wallet, balance, seen>>

\* The types of the exported balance and of the reads under way.
BalanceTypeOK ==
    /\ wallet \in Holdings
    /\ drainedAge \in 0 .. Horizon
    /\ balance \in {"unknown"} \cup Holdings
    /\ balanceAge \in {NotSet} \cup 0 .. RefreshInterval
    /\ asked \in [Readers -> {NotSet} \cup 0 .. Latency]
    /\ seen \in [Readers -> {"none"} \cup Holdings]

=============================================================================
