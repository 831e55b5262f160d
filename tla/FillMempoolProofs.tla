-------------------------- MODULE FillMempoolProofs --------------------------
(***************************************************************************)
(* For every quantity, chunk size and bound on the retries: the splits     *)
(* have the outputs their chunks were funded for, every stress transaction *)
(* spends an output of its own, a fill that ends well has spent them all,  *)
(* and the chain of unconfirmed sends stays bounded.                       *)
(*                                                                         *)
(* The arithmetic of the divisions is proved first, about constants; the   *)
(* invariant FillInv then only names its results.                          *)
(***************************************************************************)
EXTENDS FillMempool, FiniteSetTheorems, TLAPS

-----------------------------------------------------------------------------
(* Division.                                                               *)

LEMMA DivModUnique ==
  ASSUME NEW b \in Nat \ {0}, NEW d \in Nat, NEW r \in 0 .. b - 1
  PROVE  (d * b + r) \div b = d /\ (d * b + r) % b = r
  BY SMT

LEMMA ProductMonotone ==
  ASSUME NEW b \in Nat \ {0}, NEW d \in Int, NEW e \in Int
  PROVE  /\ d < e => d * b + b <= e * b
         /\ d * b < e * b => d < e
  BY SMT

\* How many chunks of b outputs q outputs need.
LEMMA ChunkCount ==
  ASSUME NEW q \in Nat \ {0}, NEW b \in Nat \ {0}
  PROVE  LET n == (q + b - 1) \div b
         IN  n \in Nat \ {0} /\ (n - 1) * b < q /\ q <= n * b
  <1> DEFINE n == (q + b - 1) \div b
             r == (q + b - 1) % b
  <1>1. n \in Nat /\ r \in 0 .. b - 1 /\ q + b - 1 = (n * b) + r
    BY SMT
  <1>2. n # 0
    <2>1. SUFFICES ASSUME n = 0 PROVE FALSE
      OBVIOUS
    <2>2. n * b = 0
      BY <2>1
    <2> QED BY <1>1, <2>2
  <1>3. (n - 1) * b = n * b - b
    BY <1>1, SMT
  <1> HIDE DEF n, r
  <1>4. n * b \in Int
    BY <1>1
  <1>5. (n - 1) * b < q /\ q <= n * b
    BY <1>1, <1>3, <1>4
  <1> QED BY <1>1, <1>2, <1>5 DEF n

\* The size of a chunk by remainder is its size by counting addresses.
LEMMA SizesAgree ==
  ASSUME NEW q \in Nat \ {0}, NEW b \in Nat \ {0}, NEW n \in Nat \ {0},
         (n - 1) * b < q, q <= n * b, NEW i \in 0 .. n - 1
  PROVE  LET past == i * b + b
             size == (IF past < q THEN past ELSE q) - i * b
         IN  /\ size \in 1 .. b
             /\ size = IF i = n - 1 /\ q % b > 0 THEN q % b ELSE b
  <1>0. i * b \in Int /\ n * b \in Int /\ (n - 1) * b = n * b - b
    BY SMT
  <1>1. CASE i < n - 1
    <2>1. i * b + b <= (n - 1) * b
      BY <1>1, ProductMonotone
    <2> QED BY <1>0, <1>1, <2>1
  <1>2. CASE i = n - 1
    <2> DEFINE rest == q - i * b
    <2>1. rest \in 1 .. b /\ i * b + b = n * b
      BY <1>0, <1>2
    <2>2. CASE rest = b
      <3>1. q = n * b + 0
        BY <1>0, <2>1, <2>2
      <3>2. q % b = 0
        BY <3>1, DivModUnique
      <3> QED BY <1>0, <1>2, <2>1, <2>2, <3>2
    <2>3. CASE rest < b
      <3>1. q = i * b + rest /\ rest \in 0 .. b - 1 /\ i \in Nat
        BY <1>0, <2>1, <2>3
      <3>2. q % b = rest
        BY <3>1, DivModUnique
      <3> QED BY <1>0, <1>2, <2>1, <2>3, <3>2
    <2> QED BY <2>1, <2>2, <2>3
  <1> QED BY <1>1, <1>2

\* An index below q falls into a chunk, and inside it.
LEMMA OutputExists ==
  ASSUME NEW q \in Nat \ {0}, NEW b \in Nat \ {0}, NEW n \in Nat \ {0},
         q <= n * b, NEW i \in 0 .. q - 1
  PROVE  LET c == i \div b
             past == c * b + b
         IN  /\ c \in 0 .. n - 1
             /\ i % b \in 0 .. (IF past < q THEN past ELSE q) - c * b - 1
  <1> DEFINE c == i \div b
             r == i % b
  <1>1. c \in Nat /\ r \in 0 .. b - 1 /\ i = (c * b) + r
    BY SMT
  <1> HIDE DEF c, r
  <1>2. c * b \in Int /\ n * b \in Int
    BY <1>1, SMT
  <1>3. c * b < n * b
    BY <1>1, <1>2
  <1>4. c < n
    BY <1>1, <1>3, ProductMonotone
  <1>5. c \in 0 .. n - 1
    BY <1>1, <1>4
  <1>6. r \in 0 .. (IF c * b + b < q THEN c * b + b ELSE q) - c * b - 1
    BY <1>1, <1>2
  <1> QED BY <1>5, <1>6 DEF c, r

\* Every output of a chunk is the one of an index below q.
LEMMA OutputCovered ==
  ASSUME NEW q \in Nat \ {0}, NEW b \in Nat \ {0}, NEW c \in Nat,
         NEW o \in 0 .. (IF c * b + b < q THEN c * b + b ELSE q) - c * b - 1
  PROVE  LET i == c * b + o
         IN  i \in 0 .. q - 1 /\ i \div b = c /\ i % b = o
  <1>1. c * b \in Nat
    BY SMT
  <1>2. o \in 0 .. b - 1 /\ c * b + o \in 0 .. q - 1
    BY <1>1
  <1> QED BY <1>2, DivModUnique

-----------------------------------------------------------------------------
(* The same facts about a state of the fill.                               *)

LEMMA Constants ==
  /\ MaxQuantity \in Nat \ {0} /\ OutputsPerTx \in Nat \ {0}
  /\ ChunksPerMine \in Nat \ {0} /\ MaxSendRetries \in Nat \ {0}
  /\ MaxLookups \in Nat \ {0} /\ LostCap \in Nat
  BY QuantityAssumption, FailureAssumption DEF QuantityAssumption, FailureAssumption

LEMMA Chunks ==
  ASSUME txQuantity \in Nat \ {0}
  PROVE  /\ txsChunksCount \in Nat \ {0}
         /\ (txsChunksCount - 1) * OutputsPerTx < txQuantity
         /\ txQuantity <= txsChunksCount * OutputsPerTx
  BY ChunkCount, Constants DEF txsChunksCount

LEMMA ChunkSizes ==
  ASSUME txQuantity \in Nat \ {0}, NEW i \in 0 .. txsChunksCount - 1
  PROVE  /\ ChunkSize(i) \in 1 .. OutputsPerTx
         /\ SplitOutputs(i) = ChunkSize(i)
  <1>1. LET past == i * OutputsPerTx + OutputsPerTx
            size == (IF past < txQuantity THEN past ELSE txQuantity) - i * OutputsPerTx
        IN  /\ size \in 1 .. OutputsPerTx
            /\ size = IF i = txsChunksCount - 1 /\ txQuantity % OutputsPerTx > 0
                      THEN txQuantity % OutputsPerTx ELSE OutputsPerTx
    BY SizesAgree, Chunks, Constants
  <1> QED BY <1>1 DEF ChunkSize, SplitOutputs

\* The output of the i-th stress transaction is there.
LEMMA StressOutput ==
  ASSUME txQuantity \in Nat \ {0}, NEW i \in 0 .. txQuantity - 1
  PROVE  /\ UtxoIndex(i) \in 0 .. txsChunksCount - 1
         /\ OutputIndex(i) \in 0 .. SplitOutputs(UtxoIndex(i)) - 1
  <1>1. LET c == i \div OutputsPerTx
            past == c * OutputsPerTx + OutputsPerTx
        IN  /\ c \in 0 .. txsChunksCount - 1
            /\ i % OutputsPerTx \in 0 .. (IF past < txQuantity THEN past ELSE txQuantity)
                                          - c * OutputsPerTx - 1
    BY OutputExists, Chunks, Constants
  <1> QED BY <1>1 DEF UtxoIndex, OutputIndex, SplitOutputs

\* And it is no other transaction's.
LEMMA StressDistinct ==
  ASSUME NEW i \in Nat, NEW j \in Nat,
         UtxoIndex(i) = UtxoIndex(j), OutputIndex(i) = OutputIndex(j)
  PROVE  i = j
  <1>1. \A a \in Nat : a = ((a \div OutputsPerTx) * OutputsPerTx) + (a % OutputsPerTx)
    BY Constants, SMT
  <1>2. i = ((i \div OutputsPerTx) * OutputsPerTx) + (i % OutputsPerTx)
    BY <1>1
  <1>3. j = ((j \div OutputsPerTx) * OutputsPerTx) + (j % OutputsPerTx)
    BY <1>1
  <1> QED BY <1>2, <1>3 DEF UtxoIndex, OutputIndex

\* Every output of a split is some stress transaction's.
LEMMA StressCovers ==
  ASSUME txQuantity \in Nat \ {0}, NEW c \in Nat,
         NEW output \in 0 .. SplitOutputs(c) - 1
  PROVE  \E i \in 0 .. txQuantity - 1 : UtxoIndex(i) = c /\ OutputIndex(i) = output
  <1> DEFINE i == c * OutputsPerTx + output
  <1>1. i \in 0 .. txQuantity - 1 /\ i \div OutputsPerTx = c /\ i % OutputsPerTx = output
    BY OutputCovered, Constants DEF SplitOutputs
  <1> QED BY <1>1 DEF UtxoIndex, OutputIndex

-----------------------------------------------------------------------------
(* The inductive invariant.                                                *)

LEMMA FillInit == Init => FillInv
  <1> SUFFICES ASSUME Init PROVE FillInv
    OBVIOUS
  <1> USE Constants DEF Init
  <1>1. TypeOK
    BY DEF TypeOK, Phases, Mines
  <1>2. FundedInv
    BY Chunks DEF FundedInv, Spending
  <1>3. SplitInv
    BY DEF SplitInv, Funding, Spending
  <1>4. StressInv
    <2>1. spent = {<<UtxoIndex(i) + 1, OutputIndex(i)>> : i \in 0 .. stressed - 1}
      BY DEF Init
    <2> QED BY <2>1, FS_EmptySet DEF StressInv, Funding
  <1>5. ChainInv
    BY DEF ChainInv
  <1> QED BY <1>1, <1>2, <1>3, <1>4, <1>5 DEF FillInv

\* The size of the fill is settled, and with it the number and sizes of chunks.
LEMMA SizesConstant ==
  ASSUME txQuantity' = txQuantity
  PROVE  /\ txsChunksCount' = txsChunksCount
         /\ \A i : ChunkSize(i)' = ChunkSize(i) /\ SplitOutputs(i)' = SplitOutputs(i)
  BY DEF txsChunksCount, ChunkSize, SplitOutputs

LEMMA TypeStep == FillInv /\ [Next]_vars => TypeOK'
  <1> SUFFICES ASSUME FillInv, [Next]_vars PROVE TypeOK'
    OBVIOUS
  <1> USE Constants DEF FillInv, TypeOK, Phases, Mines, Goto
  <1>1. txQuantity \in Nat \ {0}
    OBVIOUS
  <1>2. CASE SendsChunk
    <2>1. Len(funded) \in 0 .. txsChunksCount - 1
      BY <1>1, <1>2, Chunks DEF SendsChunk, FundedInv
    <2>2. ChunkSize(Len(funded)) \in 1 .. OutputsPerTx
      BY <1>1, <2>1, ChunkSizes
    <2>3. funded' \in Seq(1 .. OutputsPerTx) /\ Len(funded') = Len(funded) + 1
      BY <1>2, <2>2 DEF SendsChunk
    <2>4. processed' \in 0 .. ChunksPerMine
      BY <1>2 DEF SendsChunk, ChainInv
    <2>5. phase' \in {"chunkMine", "lastMine", "fund"} /\ retries' = 0
      BY <1>2 DEF SendsChunk
    <2>6. utxos' \in 0 .. Len(funded')
      BY <1>2, <2>3 DEF SendsChunk
    <2> QED BY <1>2, <2>3, <2>4, <2>5, <2>6 DEF SendsChunk
  <1>3. CASE SendFails
    BY <1>3 DEF SendFails, Retry
  <1>4. CASE MineReturns
    <2>1. retries = 0 /\ retries' = 0 /\ processed' \in 0 .. ChunksPerMine
      BY <1>4 DEF MineReturns, ChainInv
    <2>2. phase' \in {"fund", "lastMine", "lookup", "stress"}
      BY <1>1, <1>4, Chunks DEF MineReturns, AfterMine, FundedInv
    <2> QED BY <1>4, <2>1, <2>2 DEF MineReturns
  <1>5. CASE Fails
    BY <1>5 DEF Fails
  <1>6. CASE FindsUtxo
    BY <1>6 DEF FindsUtxo, SplitInv
  <1>7. CASE LookupFails
    BY <1>7 DEF LookupFails, Retry
  <1>8. CASE SplitsUtxo
    <2>1. Len(split) \in 0 .. txsChunksCount - 1
      BY <1>1, <1>8, Chunks DEF SplitsUtxo, SplitInv
    <2>2. SplitOutputs(Len(split)) \in 1 .. OutputsPerTx
      BY <1>1, <2>1, ChunkSizes
    <2>3. split' \in Seq(1 .. OutputsPerTx)
      BY <1>8, <2>2 DEF SplitsUtxo
    <2> QED BY <1>8, <2>3 DEF SplitsUtxo
  <1>9. CASE Stresses
    BY <1>9 DEF Stresses, StressInv
  <1>10. CASE UNCHANGED vars
    BY <1>10 DEF vars
  <1> QED BY <1>2, <1>3, <1>4, <1>5, <1>6, <1>7, <1>8, <1>9, <1>10 DEF Next, Ended

LEMMA FundedStep == FillInv /\ [Next]_vars => FundedInv'
  <1> SUFFICES ASSUME FillInv, [Next]_vars PROVE FundedInv'
    OBVIOUS
  <1> USE DEF FillInv, FundedInv, Mines, Spending, Goto
  <1>0. /\ txQuantity \in Nat \ {0} /\ phase \in Phases
        /\ funded \in Seq(1 .. OutputsPerTx) /\ txsChunksCount \in Nat \ {0}
    BY Chunks DEF TypeOK
  <1>1. /\ txsChunksCount' = txsChunksCount
        /\ \A i : ChunkSize(i)' = ChunkSize(i)
    <2>1. txQuantity' = txQuantity
      BY DEF Next, vars, SendsChunk, SendFails, MineReturns, Fails, FindsUtxo,
         LookupFails, SplitsUtxo, Stresses
    <2> QED BY <2>1, SizesConstant
  <1>2. CASE SendsChunk
    <2>1. /\ Len(funded') = Len(funded) + 1
          /\ \A i \in DOMAIN funded : funded'[i] = funded[i]
          /\ funded'[Len(funded')] = ChunkSize(Len(funded))
      BY <1>0, <1>2 DEF SendsChunk
    <2>2. \A i \in DOMAIN funded' : i \in DOMAIN funded \/ i = Len(funded) + 1
      BY <1>0, <1>2 DEF SendsChunk
    <2>3. \A i \in DOMAIN funded' : funded'[i] = ChunkSize(i - 1)'
      <3> SUFFICES ASSUME NEW i \in DOMAIN funded' PROVE funded'[i] = ChunkSize(i - 1)'
        OBVIOUS
      <3>1. CASE i \in DOMAIN funded
        BY <1>1, <2>1, <3>1
      <3>2. CASE i = Len(funded) + 1
        <4>1. i - 1 = Len(funded)
          BY <1>0, <3>2
        <4> QED BY <1>1, <2>1, <3>2, <4>1
      <3> QED BY <2>2, <3>1, <3>2
    <2>4. /\ Len(funded') <= txsChunksCount'
          /\ phase' = "fund" => Len(funded') < txsChunksCount'
          /\ phase' = "lastMine" => Len(funded') = txsChunksCount'
          /\ phase' \in {"fund", "chunkMine", "lastMine"}
      BY <1>0, <1>1, <1>2, <2>1 DEF SendsChunk, AllFunded
    <2> QED BY <2>3, <2>4
  <1>3. CASE MineReturns
    BY <1>0, <1>1, <1>3 DEF MineReturns, AfterMine
  <1>4. CASE SendFails \/ LookupFails
    BY <1>0, <1>1, <1>4 DEF SendFails, LookupFails, Retry
  <1>5. CASE Fails \/ FindsUtxo \/ SplitsUtxo \/ Stresses
    BY <1>0, <1>1, <1>5 DEF Fails, FindsUtxo, SplitsUtxo, Stresses
  <1>6. CASE UNCHANGED vars
    BY <1>1, <1>6 DEF vars
  <1> QED BY <1>2, <1>3, <1>4, <1>5, <1>6 DEF Next, Ended

LEMMA SplitStep == FillInv /\ [Next]_vars => SplitInv'
  <1> SUFFICES ASSUME FillInv, [Next]_vars PROVE SplitInv'
    OBVIOUS
  <1> USE DEF FillInv, SplitInv, Mines, Funding, Spending, Goto
  <1>0. /\ txQuantity \in Nat \ {0} /\ phase \in Phases
        /\ funded \in Seq(1 .. OutputsPerTx) /\ split \in Seq(1 .. OutputsPerTx)
        /\ utxos \in 0 .. Len(funded) /\ stressed \in Nat
        /\ txsChunksCount \in Nat \ {0}
    BY Chunks DEF TypeOK
  <1>1. /\ txsChunksCount' = txsChunksCount
        /\ \A i : SplitOutputs(i)' = SplitOutputs(i)
    <2>1. txQuantity' = txQuantity
      BY DEF Next, vars, SendsChunk, SendFails, MineReturns, Fails, FindsUtxo,
         LookupFails, SplitsUtxo, Stresses
    <2> QED BY <2>1, SizesConstant
  <1>2. CASE SplitsUtxo
    <2>1. /\ Len(split') = Len(split) + 1
          /\ \A i \in DOMAIN split : split'[i] = split[i]
          /\ split'[Len(split')] = SplitOutputs(Len(split))
      BY <1>0, <1>2 DEF SplitsUtxo
    <2>2. \A i \in DOMAIN split' : i \in DOMAIN split \/ i = Len(split) + 1
      BY <1>0, <1>2 DEF SplitsUtxo
    <2>3. \A i \in DOMAIN split' : split'[i] = SplitOutputs(i - 1)'
      <3> SUFFICES ASSUME NEW i \in DOMAIN split' PROVE split'[i] = SplitOutputs(i - 1)'
        OBVIOUS
      <3>1. CASE i \in DOMAIN split
        BY <1>1, <2>1, <3>1
      <3>2. CASE i = Len(split) + 1
        <4>1. i - 1 = Len(split)
          BY <1>0, <3>2
        <4> QED BY <1>1, <2>1, <3>2, <4>1
      <3> QED BY <2>2, <3>1, <3>2
    <2>4. stressed = 0
      BY <1>2 DEF SplitsUtxo, StressInv
    <2> QED BY <1>0, <1>1, <1>2, <2>1, <2>3, <2>4 DEF SplitsUtxo
  <1>3. CASE MineReturns
    BY <1>0, <1>1, <1>3 DEF MineReturns, AfterMine, FundedInv
  <1>4. CASE SendFails \/ LookupFails
    BY <1>0, <1>1, <1>4 DEF SendFails, LookupFails, Retry
  <1>5. CASE Fails
    BY <1>0, <1>1, <1>5 DEF Fails
  <1>6. CASE SendsChunk
    BY <1>0, <1>1, <1>6 DEF SendsChunk
  <1>7. CASE FindsUtxo
    BY <1>0, <1>1, <1>7 DEF FindsUtxo, FundedInv, StressInv
  <1>8. CASE Stresses
    BY <1>0, <1>1, <1>8 DEF Stresses
  <1>9. CASE UNCHANGED vars
    BY <1>1, <1>9 DEF vars
  <1> QED BY <1>2, <1>3, <1>4, <1>5, <1>6, <1>7, <1>8, <1>9 DEF Next, Ended

LEMMA StressStep == FillInv /\ [Next]_vars => StressInv'
  <1> SUFFICES ASSUME FillInv, [Next]_vars PROVE StressInv'
    OBVIOUS
  <1> USE DEF FillInv, StressInv, Mines, Funding, Goto
  <1>0. /\ txQuantity \in Nat \ {0} /\ phase \in Phases
        /\ stressed \in Nat
    BY DEF TypeOK
  <1>1. CASE Stresses
    <2> DEFINE output(i) == <<UtxoIndex(i) + 1, OutputIndex(i)>>
    <2>1. spent' = spent \cup {output(stressed)} /\ stressed' = stressed + 1
      BY <1>1 DEF Stresses
    <2>2. output(stressed) \notin spent
      <3> SUFFICES ASSUME NEW i \in 0 .. stressed - 1, output(i) = output(stressed)
                   PROVE  FALSE
        OBVIOUS
      <3>1. i \in Nat /\ i # stressed
        BY <1>0
      <3>2. UtxoIndex(i) \in Int /\ UtxoIndex(stressed) \in Int
        BY <1>0, <3>1, Constants, SMT DEF UtxoIndex
      <3>3. UtxoIndex(i) = UtxoIndex(stressed) /\ OutputIndex(i) = OutputIndex(stressed)
        BY <3>2
      <3> QED BY <1>0, <3>1, <3>3, StressDistinct
    <2>3. IsFiniteSet(spent') /\ Cardinality(spent') = stressed'
      BY <1>0, <2>1, <2>2, FS_AddElement
    <2>4. 0 .. stressed' - 1 = (0 .. stressed - 1) \cup {stressed}
      BY <1>0, <2>1
    <2>5. spent' = {output(i) : i \in 0 .. stressed' - 1}
      BY <2>1, <2>4
    <2>6. \A i : output(i)' = output(i)
      BY DEF UtxoIndex, OutputIndex
    <2>7. /\ phase' = "stress" => stressed' < txQuantity'
          /\ phase' = "done" => stressed' = txQuantity'
          /\ phase' \in {"stress", "done"}
      BY <1>0, <1>1 DEF Stresses
    <2> QED BY <2>3, <2>5, <2>6, <2>7
  <1>2. CASE MineReturns
    <2>1. phase' \in {"fund", "lastMine", "lookup", "stress"} /\ stressed = 0
      BY <1>0, <1>2, Chunks DEF MineReturns, AfterMine, FundedInv, TypeOK
    <2>2. UNCHANGED <<txQuantity, stressed, spent>>
      BY <1>2 DEF MineReturns
    <2> QED BY <1>0, <2>1, <2>2 DEF UtxoIndex, OutputIndex
  <1>3. CASE SendFails \/ LookupFails
    BY <1>3 DEF SendFails, LookupFails, Retry, UtxoIndex, OutputIndex
  <1>4. CASE SendsChunk \/ Fails \/ FindsUtxo \/ SplitsUtxo
    BY <1>4 DEF SendsChunk, Fails, FindsUtxo, SplitsUtxo, UtxoIndex, OutputIndex
  <1>5. CASE UNCHANGED vars
    BY <1>5 DEF vars, UtxoIndex, OutputIndex
  <1> QED BY <1>1, <1>2, <1>3, <1>4, <1>5 DEF Next, Ended

LEMMA ChainStep == FillInv /\ [Next]_vars => ChainInv'
  <1> SUFFICES ASSUME FillInv, [Next]_vars PROVE ChainInv'
    OBVIOUS
  <1> USE Constants DEF FillInv, TypeOK, ChainInv, Phases, Mines, Goto
  <1>1. CASE SendsChunk
    BY <1>1 DEF SendsChunk, ChunkMineDue
  <1>2. CASE SendFails
    BY <1>2 DEF SendFails, Retry
  <1>3. CASE MineReturns
    <2>1. CASE phase = "chunkMine"
      BY <1>3, <2>1 DEF MineReturns
    <2>2. CASE phase # "chunkMine"
      BY <1>3, <2>2 DEF MineReturns, AfterMine
    <2> QED BY <2>1, <2>2
  <1>4. CASE LookupFails
    BY <1>4 DEF LookupFails, Retry
  <1>5. CASE Fails \/ FindsUtxo \/ SplitsUtxo \/ Stresses
    BY <1>5 DEF Fails, FindsUtxo, SplitsUtxo, Stresses
  <1>6. CASE UNCHANGED vars
    BY <1>6 DEF vars
  <1> QED BY <1>1, <1>2, <1>3, <1>4, <1>5, <1>6 DEF Next, Ended

LEMMA FillInvariant == Spec => []FillInv
  <1>1. FillInv /\ [Next]_vars => FillInv'
    BY TypeStep, FundedStep, SplitStep, StressStep, ChainStep DEF FillInv
  <1> QED BY FillInit, <1>1, PTL DEF Spec

-----------------------------------------------------------------------------
(* What follows from it.                                                   *)

\* The fill's state keeps its types, its retries under their bounds.
THEOREM FillTypeCorrect == Spec => []TypeOK
  <1>1. FillInv => TypeOK
    BY DEF FillInv
  <1> QED BY FillInvariant, <1>1, PTL

\* Each split has the outputs its chunk was funded for, whatever the quantity and
\* the outputs per chunk (fundMainAddress, splitFundingUtxos).
THEOREM SplitsAlwaysMatch == Spec => []SplitsMatchFunding
  <1>1. FillInv => SplitsMatchFunding
    <2> SUFFICES ASSUME FillInv, NEW i \in 1 .. Len(split) PROVE split[i] = funded[i]
      BY DEF SplitsMatchFunding
    <2>1. /\ txQuantity \in Nat \ {0} /\ txsChunksCount \in Nat \ {0}
          /\ Len(split) <= Len(funded) /\ Len(funded) <= txsChunksCount
          /\ Len(split) \in Nat /\ Len(funded) \in Nat
          /\ i \in DOMAIN split /\ i \in DOMAIN funded
      BY Chunks DEF FillInv, TypeOK, FundedInv, SplitInv
    <2>2. i - 1 \in 0 .. txsChunksCount - 1
      BY <2>1
    <2>3. SplitOutputs(i - 1) = ChunkSize(i - 1)
      BY <2>1, <2>2, ChunkSizes
    <2> QED BY <2>1, <2>3 DEF FillInv, FundedInv, SplitInv
  <1> QED BY FillInvariant, <1>1, PTL

\* The stress transactions spend outputs that exist, each one its own
\* (stressMempool).
THEOREM StressAlwaysFresh == Spec => []StressSpendsFresh
  <1>1. FillInv => StressSpendsFresh
    <2> SUFFICES ASSUME FillInv PROVE StressSpendsFresh
      OBVIOUS
    <2>1. /\ txQuantity \in Nat \ {0} /\ txsChunksCount \in Nat \ {0}
          /\ stressed \in 0 .. txQuantity
          /\ split \in Seq(1 .. OutputsPerTx)
      BY Chunks DEF FillInv, TypeOK
    <2>2. ASSUME NEW i \in 0 .. stressed - 1
          PROVE  /\ UtxoIndex(i) + 1 \in DOMAIN split
                 /\ OutputIndex(i) \in 0 .. split[UtxoIndex(i) + 1] - 1
      <3>1. i \in 0 .. txQuantity - 1 /\ stressed > 0
        BY <2>1
      <3>2. Len(split) = txsChunksCount
        BY <3>1 DEF FillInv, SplitInv
      <3>3. /\ UtxoIndex(i) \in 0 .. txsChunksCount - 1
            /\ OutputIndex(i) \in 0 .. SplitOutputs(UtxoIndex(i)) - 1
        BY <2>1, <3>1, StressOutput
      <3>4. UtxoIndex(i) + 1 \in DOMAIN split /\ (UtxoIndex(i) + 1) - 1 = UtxoIndex(i)
        BY <2>1, <3>2, <3>3
      <3>5. split[UtxoIndex(i) + 1] = SplitOutputs(UtxoIndex(i))
        BY <3>4 DEF FillInv, SplitInv
      <3> QED BY <3>3, <3>4, <3>5
    <2>3. \A pair \in spent : /\ pair[1] \in DOMAIN split
                             /\ pair[2] \in 0 .. split[pair[1]] - 1
      BY <2>2 DEF FillInv, StressInv
    <2> QED BY <2>3 DEF StressSpendsFresh, FillInv, StressInv
  <1> QED BY FillInvariant, <1>1, PTL

\* A fill that answers "ok" has spent every output of every split (fillMempool).
THEOREM FillsAlwaysExact == Spec => []FillsExactly
  <1>1. FillInv => FillsExactly
    <2> SUFFICES ASSUME FillInv, phase = "done" PROVE
              /\ stressed = txQuantity
              /\ \A i \in DOMAIN split : \A output \in 0 .. split[i] - 1 :
                     <<i, output>> \in spent
      BY DEF FillsExactly
    <2>1. txQuantity \in Nat \ {0} /\ stressed = txQuantity
          /\ split \in Seq(1 .. OutputsPerTx)
      BY Constants DEF FillInv, TypeOK, StressInv
    <2>2. ASSUME NEW i \in DOMAIN split, NEW output \in 0 .. split[i] - 1
          PROVE  <<i, output>> \in spent
      <3>1. i - 1 \in Nat /\ split[i] = SplitOutputs(i - 1) /\ (i - 1) + 1 = i
        BY <2>1 DEF FillInv, SplitInv
      <3>2. PICK j \in 0 .. txQuantity - 1 :
                UtxoIndex(j) = i - 1 /\ OutputIndex(j) = output
        BY <2>1, <3>1, StressCovers
      <3> QED BY <2>1, <3>1, <3>2 DEF FillInv, StressInv
    <2> QED BY <2>1, <2>2
  <1> QED BY FillInvariant, <1>1, PTL

\* However large the fill, its unconfirmed sends stay a chain of bounded length
\* (the mine every so many chunks of fundMainAddress).
THEOREM ChainStaysBounded == Spec => []ChainBounded
  <1>1. FillInv => ChainBounded
    BY Constants DEF FillInv, TypeOK, ChainInv, ChainBounded
  <1> QED BY FillInvariant, <1>1, PTL

-----------------------------------------------------------------------------
(* A fill runs out of RPCs.                                                *)

LEMMA OneFewer ==
  ASSUME NEW a \in Nat \ {0}, NEW b \in Nat
  PROVE  (a - 1) * b = a * b - b /\ a * b \in Nat /\ (a - 1) * b \in Nat
  BY SMT

LEMMA ProductNat == ASSUME NEW a \in Nat, NEW b \in Nat PROVE a * b \in Nat
  BY SMT

\* The numbers the stages count with.
LEMMA FillNumbers ==
  ASSUME FillInv
  PROVE  /\ txQuantity \in Nat /\ txsChunksCount \in Nat
         /\ phase \in Phases
         /\ retries \in Nat /\ stressed \in 0 .. txQuantity
         /\ Len(funded) \in 0 .. txsChunksCount /\ utxos \in 0 .. txsChunksCount
         /\ Len(split) \in 0 .. txsChunksCount
         /\ phase = "fund" => retries < MaxSendRetries /\ Len(funded) < txsChunksCount
         /\ phase = "lookup" => retries < MaxLookups /\ utxos < txsChunksCount
         /\ phase = "stress" => stressed < txQuantity
  <1>1. /\ txQuantity \in Nat \ {0} /\ phase \in Phases /\ retries \in Nat
        /\ stressed \in 0 .. txQuantity /\ utxos \in 0 .. Len(funded)
        /\ funded \in Seq(1 .. OutputsPerTx) /\ split \in Seq(1 .. OutputsPerTx)
        /\ phase = "fund" => retries < MaxSendRetries
        /\ phase = "lookup" => retries < MaxLookups
    BY Constants DEF FillInv, TypeOK
  <1>2. txsChunksCount \in Nat
    BY <1>1, Chunks
  <1>3. /\ Len(funded) \in 0 .. txsChunksCount
        /\ phase = "fund" => Len(funded) < txsChunksCount
    BY <1>1, <1>2 DEF FillInv, FundedInv
  <1>4. /\ utxos \in 0 .. txsChunksCount /\ Len(split) \in 0 .. txsChunksCount
        /\ phase = "lookup" => utxos < txsChunksCount
    BY <1>1, <1>2, <1>3 DEF FillInv, SplitInv
  <1>5. phase = "stress" => stressed < txQuantity
    BY DEF FillInv, StressInv
  <1> QED BY <1>1, <1>2, <1>3, <1>4, <1>5

LEMMA SendsLeftNat ==
  ASSUME FillInv
  PROVE  SendsLeft \in Nat
  <1> USE Constants, FillNumbers
  <1> DEFINE sends == (txsChunksCount - Len(funded)) * (MaxSendRetries + 1)
  <1>1. CASE Len(funded) = txsChunksCount
    <2>1. sends = 0
      BY <1>1
    <2> QED BY <1>1, <2>1 DEF SendsLeft
  <1>2. CASE Len(funded) < txsChunksCount
    <2>1. txsChunksCount - Len(funded) \in Nat \ {0} /\ MaxSendRetries + 1 \in Nat
      BY <1>2
    <2>2. sends \in Nat /\ sends >= MaxSendRetries + 1
      BY <2>1, OneFewer
    <2> HIDE DEF sends
    <2>3. (IF phase = "fund" THEN retries ELSE 0) \in 0 .. MaxSendRetries
      OBVIOUS
    <2> QED BY <2>2, <2>3 DEF SendsLeft, sends
  <1> QED BY <1>1, <1>2

LEMMA LookupsLeftNat ==
  ASSUME FillInv
  PROVE  LookupsLeft \in Nat
  <1> USE Constants, FillNumbers
  <1> DEFINE lookups == (txsChunksCount - utxos) * MaxLookups
  <1>1. CASE utxos = txsChunksCount
    <2>1. lookups = 0
      BY <1>1
    <2> QED BY <1>1, <2>1 DEF LookupsLeft
  <1>2. CASE utxos < txsChunksCount
    <2>1. txsChunksCount - utxos \in Nat \ {0}
      BY <1>2
    <2>2. lookups \in Nat /\ lookups >= MaxLookups
      BY <2>1, OneFewer
    <2> HIDE DEF lookups
    <2>3. (IF phase = "lookup" THEN retries ELSE 0) \in 0 .. MaxLookups
      OBVIOUS
    <2> QED BY <2>2, <2>3 DEF LookupsLeft, lookups
  <1> QED BY <1>1, <1>2

LEMMA OthersLeftPositive ==
  ASSUME FillInv, ~Ended
  PROVE  OthersLeft \in Nat \ {0}
  BY FillNumbers DEF OthersLeft, Ended, Phases, Mines

LEMMA RpcsLeftNat == FillInv => RpcsLeft \in Nat /\ (~Ended => RpcsLeft > 0)
  <1> SUFFICES ASSUME FillInv PROVE RpcsLeft \in Nat /\ (~Ended => RpcsLeft > 0)
    OBVIOUS
  <1>1. CASE Ended
    BY <1>1 DEF RpcsLeft
  <1>2. CASE ~Ended
    BY <1>2, SendsLeftNat, LookupsLeftNat, OthersLeftPositive DEF RpcsLeft
  <1> QED BY <1>1, <1>2

LEMMA PartsLeftNat ==
  FillInv => SendsLeft \in Nat /\ LookupsLeft \in Nat /\ (~Ended => OthersLeft \in Nat)
  BY SendsLeftNat, LookupsLeftNat, OthersLeftPositive

\* A step of the fill that does not end it has fewer RPCs left of one kind, and as
\* many of the others.
LEMMA RpcsFall ==
  ASSUME FillInv, FillInv', Next, ~Ended
  PROVE  RpcsLeft' < RpcsLeft
  <1> USE Constants
  <1>a. txsChunksCount' = txsChunksCount
    BY DEF Next, Ended, SendsChunk, SendFails, MineReturns, Fails, FindsUtxo, LookupFails,
       SplitsUtxo, Stresses, txsChunksCount
  <1>b. CASE Ended'
    BY <1>b, RpcsLeftNat DEF RpcsLeft
  <1>n. (FillInv => SendsLeft \in Nat /\ LookupsLeft \in Nat
                      /\ (~Ended => OthersLeft \in Nat))'
    BY PartsLeftNat, PTL
  <1>c. ASSUME ~Ended', SendsLeft' <= SendsLeft, LookupsLeft' <= LookupsLeft,
               OthersLeft' <= OthersLeft,
               SendsLeft' < SendsLeft \/ LookupsLeft' < LookupsLeft \/ OthersLeft' < OthersLeft
        PROVE  RpcsLeft' < RpcsLeft
    <2>1. /\ SendsLeft \in Nat /\ LookupsLeft \in Nat /\ OthersLeft \in Nat
          /\ SendsLeft' \in Nat /\ LookupsLeft' \in Nat /\ OthersLeft' \in Nat
      BY <1>c, <1>n, PartsLeftNat
    <2>2. /\ RpcsLeft = SendsLeft + LookupsLeft + OthersLeft
          /\ RpcsLeft' = SendsLeft' + LookupsLeft' + OthersLeft'
      BY <1>c DEF RpcsLeft
    <2>3. ASSUME NEW a \in Nat, NEW b \in Nat, NEW c \in Nat,
                 NEW d \in Nat, NEW e \in Nat, NEW f \in Nat,
                 d <= a, e <= b, f <= c, d < a \/ e < b \/ f < c
          PROVE  d + e + f < a + b + c
      BY <2>3
    <2> QED BY <1>c, <2>1, <2>2, <2>3
  <1>o. OthersLeft \in Nat
    BY OthersLeftPositive
  <1>k. ASSUME UNCHANGED SendsLeft PROVE SendsLeft' <= SendsLeft
    BY <1>k, SendsLeftNat
  <1>l. ASSUME UNCHANGED LookupsLeft PROVE LookupsLeft' <= LookupsLeft
    BY <1>l, LookupsLeftNat
  <1>m. ASSUME UNCHANGED OthersLeft PROVE OthersLeft' <= OthersLeft
    BY <1>m, <1>o, OthersLeftPositive
  <1> USE DEF Goto
  <1>1. CASE SendsChunk /\ ~Ended'
    <2>1. /\ phase = "fund" /\ phase' \in {"fund", "chunkMine", "lastMine"}
          /\ Len(funded') = Len(funded) + 1 /\ retries' = 0
          /\ UNCHANGED <<txQuantity, utxos, split, stressed>>
      BY <1>1 DEF SendsChunk, FillInv, TypeOK
    <2>2. txsChunksCount - Len(funded') = (txsChunksCount - Len(funded)) - 1
      BY <2>1, FillNumbers
    <2>3. txsChunksCount - Len(funded) \in Nat \ {0} /\ MaxSendRetries + 1 \in Nat
      BY <2>1, FillNumbers
    <2> DEFINE sends == (txsChunksCount - Len(funded)) * (MaxSendRetries + 1)
    <2>4. /\ (txsChunksCount' - Len(funded')) * (MaxSendRetries + 1)
                 = sends - (MaxSendRetries + 1)
          /\ sends \in Nat
      BY <1>a, <2>2, <2>3, OneFewer
    <2>5. SendsLeft = sends - retries
      BY <2>1, <2>4, FillNumbers DEF SendsLeft
    <2>6. SendsLeft' <= sends - (MaxSendRetries + 1) + 1
      BY <2>1, <2>4 DEF SendsLeft
    <2>7. retries \in Nat /\ retries < MaxSendRetries
      BY <2>1, FillNumbers
    <2> HIDE DEF sends
    <2>8. SendsLeft' < SendsLeft
      BY <1>n, <2>4, <2>5, <2>6, <2>7
    <2>9. LookupsLeft' = LookupsLeft /\ OthersLeft' = OthersLeft
      BY <1>a, <2>1 DEF LookupsLeft, OthersLeft
    <2> QED
      BY <1>1, <1>c, <1>l, <1>m, <1>n, <2>8, <2>9, SendsLeftNat
  <1>2. CASE SendFails /\ ~Ended'
    <2>1. /\ phase = "fund" /\ phase' = "fund" /\ retries' = retries + 1
          /\ UNCHANGED <<txQuantity, funded, utxos, split, stressed>>
      BY <1>2 DEF SendFails, Retry, Ended
    <2> DEFINE sends == (txsChunksCount - Len(funded)) * (MaxSendRetries + 1)
    <2>2. sends' = sends
      BY <1>a, <2>1
    <2>3. SendsLeft = sends - retries + 0 /\ SendsLeft' = sends' - retries' + 0
      BY <2>1 DEF SendsLeft
    <2>4. retries \in Nat /\ txsChunksCount - Len(funded) \in Nat /\ MaxSendRetries + 1 \in Nat
      BY FillNumbers
    <2>5. sends \in Nat
      BY <2>4, ProductNat
    <2> HIDE DEF sends
    <2>6. SendsLeft' < SendsLeft
      BY <2>1, <2>2, <2>3, <2>4, <2>5
    <2>7. LookupsLeft' = LookupsLeft /\ OthersLeft' = OthersLeft
      BY <1>a, <2>1 DEF LookupsLeft, OthersLeft
    <2> QED BY <1>2, <1>c, <1>l, <1>m, <1>n, <2>6, <2>7, SendsLeftNat
  <1>3. CASE MineReturns /\ ~Ended'
    <2>1. /\ phase \in Mines /\ phase' \in {"fund", "lastMine", "lookup", "stress"}
          /\ phase' \in {"fund", "lastMine"} => phase = "chunkMine"
          /\ phase' = "lookup" => phase = "lastMine"
          /\ phase' = "stress" => phase = "splitMine"
          /\ retries = 0 /\ retries' = 0
          /\ UNCHANGED <<txQuantity, funded, utxos, split, stressed>>
      BY <1>3, FillNumbers DEF MineReturns, AfterMine, FillInv, ChainInv, FundedInv, Mines
    <2> DEFINE sends == (txsChunksCount - Len(funded)) * (MaxSendRetries + 1)
               lookups == (txsChunksCount - utxos) * MaxLookups
    <2>2. sends' = sends /\ lookups' = lookups
      BY <1>a, <2>1
    <2>3. sends \in Nat /\ lookups \in Nat
      <3>1. /\ txsChunksCount - Len(funded) \in Nat /\ MaxSendRetries + 1 \in Nat
            /\ txsChunksCount - utxos \in Nat
        BY FillNumbers
      <3> QED BY <3>1, ProductNat
    <2>4. SendsLeft = sends + (IF phase = "chunkMine" THEN 1 ELSE 0) /\ SendsLeft' = sends
      BY <2>1, <2>2, <2>3 DEF SendsLeft, Mines
    <2>5. LookupsLeft = lookups /\ LookupsLeft' = lookups
      BY <2>1, <2>2, <2>3 DEF LookupsLeft, Mines
    <2> HIDE DEF sends, lookups
    <2>6. CASE phase = "chunkMine"
      <3>1. SendsLeft' < SendsLeft
        BY <2>3, <2>4, <2>6
      <3>2. OthersLeft' = OthersLeft
        BY <1>a, <2>1, <2>6 DEF OthersLeft
      <3> QED BY <1>3, <1>c, <1>m, <2>3, <2>4, <2>5, <2>6, <3>1, <3>2
    <2>7. CASE phase # "chunkMine"
      <3>1. /\ txsChunksCount - Len(split) \in Nat /\ txQuantity - stressed \in Nat
        BY FillNumbers
      <3>2. OthersLeft' < OthersLeft
        BY <1>a, <2>1, <2>7, <3>1 DEF OthersLeft, Mines
      <3> QED BY <1>3, <1>c, <1>n, <1>o, <2>3, <2>4, <2>5, <2>7, <3>2
    <2> QED BY <2>6, <2>7
  <1>4. CASE FindsUtxo /\ ~Ended'
    <2>1. /\ phase = "lookup" /\ phase' \in {"lookup", "split"}
          /\ utxos' = utxos + 1 /\ retries' = 0
          /\ UNCHANGED <<txQuantity, funded, split, stressed>>
      BY <1>4 DEF FindsUtxo
    <2>2. txsChunksCount - utxos' = (txsChunksCount - utxos) - 1
      BY <2>1, FillNumbers
    <2>3. txsChunksCount - utxos \in Nat \ {0}
      BY <2>1, FillNumbers
    <2> DEFINE lookups == (txsChunksCount - utxos) * MaxLookups
    <2>4. /\ (txsChunksCount' - utxos') * MaxLookups = lookups - MaxLookups
          /\ lookups \in Nat
      BY <1>a, <2>2, <2>3, OneFewer
    <2>5. LookupsLeft = lookups - retries /\ LookupsLeft' = lookups - MaxLookups
      BY <2>1, <2>4, FillNumbers DEF LookupsLeft
    <2>6. retries \in Nat /\ retries < MaxLookups
      BY <2>1, FillNumbers
    <2> HIDE DEF lookups
    <2>7. LookupsLeft' < LookupsLeft
      BY <2>4, <2>5, <2>6
    <2>8. SendsLeft' = SendsLeft /\ OthersLeft' = OthersLeft
      BY <1>a, <2>1 DEF SendsLeft, OthersLeft
    <2> QED BY <1>4, <1>c, <1>k, <1>m, <1>n, <2>7, <2>8, LookupsLeftNat
  <1>5. CASE LookupFails /\ ~Ended'
    <2>1. /\ phase = "lookup" /\ phase' = "lookup" /\ retries' = retries + 1
          /\ UNCHANGED <<txQuantity, funded, utxos, split, stressed>>
      BY <1>5 DEF LookupFails, Retry, Ended
    <2> DEFINE lookups == (txsChunksCount - utxos) * MaxLookups
    <2>2. lookups' = lookups
      BY <1>a, <2>1
    <2>3. LookupsLeft = lookups - retries /\ LookupsLeft' = lookups' - retries'
      BY <2>1 DEF LookupsLeft
    <2>4. retries \in Nat /\ txsChunksCount - utxos \in Nat
      BY FillNumbers
    <2>5. lookups \in Nat
      BY <2>4, ProductNat
    <2> HIDE DEF lookups
    <2>6. LookupsLeft' < LookupsLeft
      BY <2>1, <2>2, <2>3, <2>4, <2>5
    <2>7. SendsLeft' = SendsLeft /\ OthersLeft' = OthersLeft
      BY <1>a, <2>1 DEF SendsLeft, OthersLeft
    <2> QED BY <1>5, <1>c, <1>k, <1>m, <1>n, <2>6, <2>7, LookupsLeftNat
  <1>6. CASE (SplitsUtxo \/ Stresses) /\ ~Ended'
    <2>1. /\ phase \in {"split", "stress"} /\ phase' \in {"split", "splitMine", "stress"}
          /\ phase' = "stress" <=> phase = "stress"
          /\ phase = "split" => Len(split') = Len(split) + 1 /\ stressed' = stressed
          /\ phase = "stress" => split' = split /\ stressed' = stressed + 1
          /\ UNCHANGED <<txQuantity, funded, utxos, retries>>
      <3>1. CASE SplitsUtxo
        BY <3>1 DEF SplitsUtxo, FillInv, TypeOK
      <3>2. CASE Stresses
        BY <1>6, <3>2 DEF Stresses, Ended
      <3> QED BY <1>6, <3>1, <3>2
    <2>2. SendsLeft' = SendsLeft /\ LookupsLeft' = LookupsLeft
      BY <1>a, <2>1 DEF SendsLeft, LookupsLeft
    <2>3. /\ Len(split) \in Nat /\ txsChunksCount \in Nat
          /\ txQuantity \in Nat /\ stressed \in Nat
      BY FillNumbers
    <2>4. OthersLeft' < OthersLeft
      <3>1. CASE phase = "split"
        BY <1>a, <2>1, <2>3, <3>1 DEF OthersLeft
      <3>2. CASE phase = "stress"
        BY <1>a, <2>1, <2>3, <3>2 DEF OthersLeft
      <3> QED BY <2>1, <3>1, <3>2
    <2> QED BY <1>6, <1>c, <1>k, <1>l, <1>n, <1>o, <2>2, <2>4
  <1> QED
    BY <1>b, <1>1, <1>2, <1>3, <1>4, <1>5, <1>6 DEF Next, Fails, Ended

\* A fill makes no more than RpcsLeft more RPCs, whatever the node answers: no
\* retry begins anew and no stage is entered twice.
THEOREM FillAlwaysRunsOut == Spec => FillRunsOut
  <1>1. FillInv /\ FillInv' /\ [Next]_vars => [RpcsLeft' \in 0 .. RpcsLeft - 1]_vars
    <2> SUFFICES ASSUME FillInv, FillInv', Next, vars' # vars
                 PROVE  RpcsLeft' \in 0 .. RpcsLeft - 1
      OBVIOUS
    <2>1. ~Ended
      BY DEF Next, Ended, SendsChunk, SendFails, MineReturns, Fails, FindsUtxo, LookupFails,
         SplitsUtxo, Stresses, Mines
    <2>2. (FillInv => RpcsLeft \in Nat /\ (~Ended => RpcsLeft > 0))'
      BY RpcsLeftNat, PTL
    <2> QED BY <2>1, <2>2, RpcsLeftNat, RpcsFall
  <1> QED BY <1>1, FillInvariant, PTL DEF Spec, FillRunsOut

=============================================================================
