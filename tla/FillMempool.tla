----------------------------- MODULE FillMempool -----------------------------
(***************************************************************************)
(* One fill_mempool, past its barrier: fund a fresh address in chunks,     *)
(* confirm, look the chunks up, split each into one output per stress      *)
(* transaction, confirm, and spend every output once into the mempool.     *)
(* That nobody else mines meanwhile is MineExclusion's FillUndisturbed.    *)
(*                                                                         *)
(* Amounts are counted in outputs: one output costs what its transaction   *)
(* pays, that transaction's fee and its share of the split's.  Keys and    *)
(* scripts are left out, the index a transaction is found at is not.       *)
(***************************************************************************)
EXTENDS Integers, Sequences, FiniteSets

CONSTANTS
    MaxQuantity,    \* MAX_FILL_MEMPOOL_QUANTITY
    OutputsPerTx,   \* OUTPUTS_QUANTITY_PER_TX
    ChunksPerMine,  \* the fill confirms its sends every so many chunks
    MaxSendRetries, \* MAX_SEND_RETRIES
    MaxLookups,     \* MAX_GET_RAW_TX_RETRIES
    NodeFails,      \* a node RPC may be refused, or its reply be lost
    LostCap         \* bound on the lost replies counted

ASSUME QuantityAssumption ==
    {MaxQuantity, OutputsPerTx, ChunksPerMine, MaxSendRetries, MaxLookups}
        \subseteq Nat \ {0}
ASSUME FailureAssumption == NodeFails \in BOOLEAN /\ LostCap \in Nat

VARIABLES
    txQuantity,  \* what the caller asked for
    phase,       \* the RPC the fill is parked on
    retries,     \* of the send, or of the lookup, it repeats
    processed,   \* processedChunkCount
    funded,      \* chunksTxids: the outputs each confirmed send pays for
    utxos,       \* utxos found, in the order of the chunks
    split,       \* the outputs the split of each chunk has
    stressed,    \* stress transactions broadcast
    spent,       \* history: the outputs they spend, by split and index
    unconfirmed, \* the funding sends the node has not confirmed
    lost         \* history: sends whose reply was lost, since the last block

vars == <<txQuantity, phase, retries, processed, funded, utxos, split, stressed,
          spent, unconfirmed, lost>>

Mines  == {"chunkMine", "lastMine", "splitMine"}
Phases == {"fund", "lookup", "split", "stress", "done", "failed"} \cup Mines

Goto(next) == phase' = next

-----------------------------------------------------------------------------
(* fundMainAddress.                                                        *)

txsChunksCount == (txQuantity + OutputsPerTx - 1) \div OutputsPerTx

\* The last chunk pays for what is left, a full chunk when nothing is.
ChunkSize_Remainder(i) ==
    IF i = txsChunksCount - 1 THEN txQuantity % OutputsPerTx ELSE OutputsPerTx
ChunkSize(i) ==
    LET remainder == txQuantity % OutputsPerTx
    IN  IF i = txsChunksCount - 1 /\ remainder > 0 THEN remainder ELSE OutputsPerTx

AllFunded == Len(funded') = txsChunksCount

ChunkMineDue_Never == FALSE
ChunkMineDue == processed' >= ChunksPerMine

SendsChunk ==
    /\ phase = "fund"
    /\ funded' = Append(funded, ChunkSize(Len(funded)))
    /\ unconfirmed' = unconfirmed + 1
    /\ retries' = 0
    /\ processed' = processed + 1
    /\ Goto(IF ChunkMineDue THEN "chunkMine" ELSE IF AllFunded THEN "lastMine" ELSE "fund")
    /\ UNCHANGED <<txQuantity, utxos, split, stressed, spent, lost>>

\* An error the fill sends again after: the node refused, or the reply was lost.
Retry_Afresh(most) ==
    retries' = (IF retries + 1 < most THEN retries + 1 ELSE 0) /\ UNCHANGED phase
Retry(most) ==
    \/ retries + 1 < most /\ retries' = retries + 1 /\ UNCHANGED phase
    \/ retries + 1 >= most /\ Goto("failed") /\ UNCHANGED retries

SendFails ==
    /\ NodeFails
    /\ phase = "fund"
    /\ Retry(MaxSendRetries)
    /\ \/ UNCHANGED <<unconfirmed, lost>>
       \/ lost < LostCap /\ lost' = lost + 1 /\ unconfirmed' = unconfirmed + 1
    /\ UNCHANGED <<txQuantity, processed, funded, utxos, split, stressed, spent>>

AfterMine ==
    CASE phase = "chunkMine" /\ Len(funded) < txsChunksCount -> "fund"
      [] phase = "chunkMine" /\ Len(funded) = txsChunksCount -> "lastMine"
      [] phase = "lastMine"  -> "lookup"
      [] phase = "splitMine" -> "stress"

\* generateBlocksQueued(1)
MineReturns ==
    /\ phase \in Mines
    /\ Goto(AfterMine)
    /\ processed' = IF phase = "chunkMine" THEN 0 ELSE processed
    /\ unconfirmed' = 0 /\ lost' = 0
    /\ UNCHANGED <<txQuantity, retries, funded, utxos, split, stressed, spent>>

\* A mine, a broadcast or a split that fails ends the fill.
Fails ==
    /\ NodeFails
    /\ phase \in Mines \cup {"split", "stress"}
    /\ Goto("failed")
    /\ UNCHANGED <<txQuantity, retries, processed, funded, utxos, split, stressed,
                   spent, unconfirmed, lost>>

-----------------------------------------------------------------------------
(* findFundingUtxos and splitFundingUtxos.                                 *)

FindsUtxo ==
    /\ phase = "lookup"
    /\ utxos' = utxos + 1
    /\ retries' = 0
    /\ Goto(IF utxos' = Len(funded) THEN "split" ELSE "lookup")
    /\ UNCHANGED <<txQuantity, processed, funded, split, stressed, spent,
                   unconfirmed, lost>>

LookupFails ==
    /\ NodeFails
    /\ phase = "lookup"
    /\ Retry(MaxLookups)
    /\ UNCHANGED <<txQuantity, processed, funded, utxos, split, stressed, spent,
                   unconfirmed, lost>>

\* The addresses a chunk's split pays: its own stretch, up to the last address.
SplitOutputs_FullChunk(i) == OutputsPerTx
SplitOutputs(i) ==
    LET first == i * OutputsPerTx
        past  == first + OutputsPerTx
    IN  (IF past < txQuantity THEN past ELSE txQuantity) - first

SplitsUtxo ==
    /\ phase = "split"
    /\ split' = Append(split, SplitOutputs(Len(split)))
    /\ Goto(IF Len(split') = utxos THEN "splitMine" ELSE "split")
    /\ UNCHANGED <<txQuantity, retries, processed, funded, utxos, stressed, spent,
                   unconfirmed, lost>>

-----------------------------------------------------------------------------
(* stressMempool.                                                          *)

\* The split and the output in it that a stress transaction spends.
OutputIndex_FromOne(i) == (i % OutputsPerTx) + 1
OutputIndex(i) == i % OutputsPerTx
UtxoIndex(i) == i \div OutputsPerTx

Stresses ==
    /\ phase = "stress"
    /\ spent' = spent \cup {<<UtxoIndex(stressed) + 1, OutputIndex(stressed)>>}
    /\ stressed' = stressed + 1
    /\ Goto(IF stressed' = txQuantity THEN "done" ELSE "stress")
    /\ UNCHANGED <<txQuantity, retries, processed, funded, utxos, split,
                   unconfirmed, lost>>

-----------------------------------------------------------------------------
Init ==
    /\ txQuantity \in 1 .. MaxQuantity
    /\ phase = "fund"
    /\ retries = 0 /\ processed = 0
    /\ funded = << >> /\ utxos = 0 /\ split = << >>
    /\ stressed = 0 /\ spent = {}
    /\ unconfirmed = 0 /\ lost = 0

Ended == phase \in {"done", "failed"}

Next ==
    \/ SendsChunk
    \/ SendFails
    \/ MineReturns
    \/ Fails
    \/ FindsUtxo
    \/ LookupFails
    \/ SplitsUtxo
    \/ Stresses
    \/ Ended /\ UNCHANGED vars

Spec == Init /\ [][Next]_vars

\* Every RPC ends, answered or timed out.
FairSpec == Spec /\ WF_vars(Next)

-----------------------------------------------------------------------------
(* Correctness.                                                            *)

\* The types of the fill's state, the retries under their bounds.
TypeOK ==
    /\ txQuantity \in 1 .. MaxQuantity
    /\ phase \in Phases
    /\ retries \in Nat
    /\ phase = "fund" => retries < MaxSendRetries
    /\ phase = "lookup" => retries < MaxLookups
    /\ processed \in 0 .. ChunksPerMine
    /\ funded \in Seq(1 .. OutputsPerTx) /\ split \in Seq(1 .. OutputsPerTx)
    /\ utxos \in 0 .. Len(funded)
    /\ stressed \in 0 .. txQuantity
    /\ unconfirmed \in Nat /\ lost \in 0 .. LostCap

\* A split has exactly the outputs its chunk was funded for: with more it is
\* unaffordable, with fewer it burns the rest as fee (fundMainAddress counts by
\* remainders, splitFundingUtxos by addresses).
SplitsMatchFunding ==
    \A i \in 1 .. Len(split) : split[i] = funded[i]

\* Every stress transaction spends an output that exists, in a split that
\* exists, and no two the same: the node accepts them all (stressMempool).
StressSpendsFresh ==
    /\ \A pair \in spent : pair[1] \in DOMAIN split /\ pair[2] \in 0 .. split[pair[1]] - 1
    /\ Cardinality(spent) = stressed

\* A fill that answers "ok" left the mempool with what was asked for, every
\* output spent (fillMempool).
FillsExactly ==
    phase = "done" => /\ stressed = txQuantity
                      /\ \A i \in DOMAIN split : \A output \in 0 .. split[i] - 1 :
                             <<i, output>> \in spent

\* The wallet's unconfirmed sends stay in a chain the node accepts, whatever the
\* size of the fill; only sends whose reply was lost lengthen it.
ChainBounded == unconfirmed <= ChunksPerMine + lost

\* A fill comes to an end, and with it the mutex (fillMempool, its finally).
FillEnds == <>Ended

\* The node RPCs a fill may still make: its sends and the mines between them, its
\* lookups, and its splits, its stress transactions and the two mines around them.
SendsLeft ==
    (txsChunksCount - Len(funded)) * (MaxSendRetries + 1)
        - (IF phase = "fund" THEN retries ELSE 0) + (IF phase = "chunkMine" THEN 1 ELSE 0)

LookupsLeft ==
    (txsChunksCount - utxos) * MaxLookups - (IF phase = "lookup" THEN retries ELSE 0)

OthersLeft ==
    (txsChunksCount - Len(split)) + (txQuantity - stressed)
        + (CASE phase \in {"fund", "chunkMine", "lastMine"} -> 2
             [] phase \in {"lookup", "split", "splitMine"} -> 1
             [] OTHER -> 0)

RpcsLeft == IF Ended THEN 0 ELSE SendsLeft + LookupsLeft + OthersLeft

\* Every answer, error or timeout of the node leaves the fill with fewer RPCs to
\* make, and never fewer than none: no retry begins anew, no stage is re-entered,
\* and the mutex is held for a bounded number of RPCs (sendFunds and getRawTx
\* retries of fundMainAddress and findFundingUtxos).
FillRunsOut == [][RpcsLeft' \in 0 .. RpcsLeft - 1]_vars

-----------------------------------------------------------------------------
(* What has to be known besides to carry the invariants through a step.    *)

Funding  == {"fund", "chunkMine", "lastMine"}
Spending == {"splitMine", "stress", "done"}

\* The chunks sent so far, and all of them once the fill looks them up.
FundedInv ==
    /\ Len(funded) <= txsChunksCount
    /\ \A i \in DOMAIN funded : funded[i] = ChunkSize(i - 1)
    /\ phase = "fund" => Len(funded) < txsChunksCount
    /\ phase \in {"lastMine", "lookup", "split"} \cup Spending =>
           Len(funded) = txsChunksCount

\* The chunks found and split so far, and all of them once outputs are spent.
SplitInv ==
    /\ \A i \in DOMAIN split : split[i] = SplitOutputs(i - 1)
    /\ Len(split) <= utxos
    /\ phase \in Funding => utxos = 0
    /\ phase = "lookup" => utxos < Len(funded) /\ split = << >>
    /\ phase = "split" => utxos = txsChunksCount /\ Len(split) < utxos
    /\ phase \in Spending \/ stressed > 0 => Len(split) = txsChunksCount

\* The outputs spent are those of the first stress transactions.
StressInv ==
    /\ spent = {<<UtxoIndex(i) + 1, OutputIndex(i)>> : i \in 0 .. stressed - 1}
    /\ IsFiniteSet(spent) /\ Cardinality(spent) = stressed
    /\ phase \in Funding \cup {"lookup", "split", "splitMine"} => stressed = 0
    /\ phase = "stress" => stressed < txQuantity
    /\ phase = "done" => stressed = txQuantity

\* Sends since the last block, each counted once, and retries begun afresh.
ChainInv ==
    /\ unconfirmed <= processed + lost
    /\ phase = "fund" => processed < ChunksPerMine
    /\ phase \in Mines \cup {"split"} => retries = 0

FillInv == TypeOK /\ FundedInv /\ SplitInv /\ StressInv /\ ChainInv

=============================================================================
