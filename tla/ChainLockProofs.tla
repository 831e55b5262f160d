--------------------------- MODULE ChainLockProofs ---------------------------
(***************************************************************************)
(* The fair lock excludes mines from reorgs and from each other, for every *)
(* set of clients.  OneAhead is the heart of the inductive invariant: of   *)
(* two conflicting clients one waits for the other, and a client that is   *)
(* in waits for nobody, so two of them are never in together.              *)
(***************************************************************************)
EXTENDS ChainLock, TLAPS

LEMMA LockInvInit == LockInit => LockInv
  BY DEF LockInit, LockInv, LockTypeOK, WaitsConflict, OneAhead, Conflict, Mining,
     Modes, MineModes, ReorgModes

\* The modes a step gives to everybody but the client that takes it.
LEMMA Elsewhere ==
  ASSUME LockTypeOK, NEW p \in Clients, NEW m, mode' = [mode EXCEPT ![p] = m]
  PROVE  mode'[p] = m /\ \A q \in Clients : q # p => mode'[q] = mode[q]
  BY DEF LockTypeOK

\* Asking: the newcomer waits for all it conflicts with, nobody for it.
LEMMA AskStep ==
  ASSUME LockInv, NEW p \in Clients, AskMine(p) \/ AskReorg(p)
  PROVE  LockInv'
  <1> USE DEF LockInv, LockTypeOK, Modes, MineModes, ReorgModes
  <1>1. PICK m \in {"waitMine", "waitReorg"} :
          /\ mode' = [mode EXCEPT ![p] = m]
          /\ mode[p] = "out"
          /\ m = "waitMine" => ahead' = [ahead EXCEPT ![p] = Mining \cup Reorging]
          /\ m = "waitReorg" => ahead' = [ahead EXCEPT ![p] = Mining]
    BY DEF AskMine, AskReorg
  <1>2. mode'[p] = m /\ \A q \in Clients : q # p => mode'[q] = mode[q]
    BY <1>1, Elsewhere
  <1>3. \A q \in Clients : q # p => ahead'[q] = ahead[q] /\ p \notin ahead[q]
    BY <1>1 DEF WaitsConflict, Conflict
  <1>4. \A q \in Clients : q \in ahead'[p] <=> Conflict(p, q)'
    <2>1. CASE m = "waitMine"
      BY <1>1, <1>2, <2>1 DEF Conflict, Mining, Reorging
    <2>2. CASE m = "waitReorg"
      BY <1>1, <1>2, <2>2 DEF Conflict, Mining
    <2> QED BY <2>1, <2>2
  <1>5. LockTypeOK'
    BY <1>1 DEF Mining, Reorging
  <1>6. \A q, r \in Clients : q # p /\ r # p => (Conflict(q, r)' <=> Conflict(q, r))
    BY <1>2 DEF Conflict, Mining
  <1>7. \A q \in Clients : Conflict(q, p)' <=> Conflict(p, q)'
    BY DEF Conflict
  <1>8. WaitsConflict'
    BY <1>2, <1>3, <1>4, <1>5, <1>6 DEF WaitsConflict
  <1>9. OneAhead'
    <2> SUFFICES ASSUME NEW q \in Clients, NEW r \in Clients, Conflict(q, r)'
                 PROVE  q \in ahead'[r] <=> r \notin ahead'[q]
      BY DEF OneAhead
    <2>1. q # r
      BY DEF Conflict
    <2>2. CASE q = p
      BY <2>1, <2>2, <1>3, <1>4
    <2>3. CASE r = p
      BY <2>1, <2>3, <1>3, <1>4, <1>7
    <2>4. CASE q # p /\ r # p
      BY <2>4, <1>3, <1>6 DEF OneAhead
    <2> QED BY <2>2, <2>3, <2>4
  <1> QED BY <1>5, <1>8, <1>9

\* Entering changes no conflict and no wait.
LEMMA EnterStep ==
  ASSUME LockInv, NEW p \in Clients, Enter(p)
  PROVE  LockInv'
  <1> USE DEF LockInv, LockTypeOK, Modes, MineModes, ReorgModes
  <1>1. PICK m \in {"mine", "reorg"} :
          /\ mode' = [mode EXCEPT ![p] = m]
          /\ m = "mine" => mode[p] = "waitMine"
          /\ m = "reorg" => mode[p] = "waitReorg"
          /\ ahead[p] = {} /\ ahead' = ahead
    BY DEF Enter
  <1>2. mode'[p] = m /\ \A q \in Clients : q # p => mode'[q] = mode[q]
    BY <1>1, Elsewhere
  <1>3. \A q, r \in Clients : Conflict(q, r)' <=> Conflict(q, r)
    BY <1>1, <1>2 DEF Conflict, Mining
  <1>4. LockTypeOK'
    BY <1>1
  <1>5. WaitsConflict'
    BY <1>1, <1>2, <1>3, <1>4 DEF WaitsConflict
  <1>6. OneAhead'
    BY <1>1, <1>3 DEF OneAhead
  <1> QED BY <1>4, <1>5, <1>6

\* Leaving ends every conflict with the client, and every wait for it.
LEMMA LeaveStep ==
  ASSUME LockInv, NEW p \in Clients, Leave(p)
  PROVE  LockInv'
  <1> USE DEF LockInv, LockTypeOK, Modes, MineModes, ReorgModes
  <1>1. /\ mode[p] \in {"mine", "reorg"}
        /\ mode' = [mode EXCEPT ![p] = "out"]
        /\ ahead' = [q \in Clients |-> ahead[q] \ {p}]
    BY DEF Leave
  <1>2. mode'[p] = "out" /\ \A q \in Clients : q # p => mode'[q] = mode[q]
    BY <1>1, Elsewhere
  <1>3. \A q \in Clients : ahead'[q] = ahead[q] \ {p}
    BY <1>1
  <1>4. ahead'[p] = {}
    BY <1>1, <1>3 DEF WaitsConflict
  <1>5. \A q, r \in Clients : q # p /\ r # p => (Conflict(q, r)' <=> Conflict(q, r))
    BY <1>2 DEF Conflict, Mining
  <1>6. \A q \in Clients : ~Conflict(p, q)' /\ ~Conflict(q, p)'
    BY <1>2 DEF Conflict
  <1>7. LockTypeOK'
    BY <1>1
  <1>8. WaitsConflict'
    BY <1>2, <1>3, <1>4, <1>5, <1>7 DEF WaitsConflict
  <1>9. OneAhead'
    BY <1>3, <1>5, <1>6 DEF OneAhead
  <1> QED BY <1>7, <1>8, <1>9

LEMMA LockInvStep == LockInv /\ [LockNext]_lockVars => LockInv'
  <1> SUFFICES ASSUME LockInv, [LockNext]_lockVars PROVE LockInv'
    OBVIOUS
  <1>1. ASSUME NEW p \in Clients, AskMine(p) \/ AskReorg(p) PROVE LockInv'
    BY <1>1, AskStep
  <1>2. ASSUME NEW p \in Clients, Enter(p) PROVE LockInv'
    BY <1>2, EnterStep
  <1>3. ASSUME NEW p \in Clients, Leave(p) PROVE LockInv'
    BY <1>3, LeaveStep
  <1>4. CASE UNCHANGED lockVars
    BY <1>4 DEF lockVars, LockInv, LockTypeOK, WaitsConflict, OneAhead, Conflict, Mining
  <1> QED BY <1>1, <1>2, <1>3, <1>4 DEF LockNext

\* Of two clients that conflict, exactly one waits for the other: no mine and
\* reorg ever wait on each other, and neither fails to wait.
THEOREM ExactlyOneAhead == LockSpec => []OneAhead
  <1>1. LockInv => OneAhead
    BY DEF LockInv
  <1> QED BY <1>1, LockInvInit, LockInvStep, PTL DEF LockSpec

\* A client that mines is alone on the chain, however many there are.
THEOREM LockExcludes == LockSpec => []LockExclusion
  <1>1. LockInv => LockExclusion
    <2> SUFFICES ASSUME LockInv, NEW p \in Clients, NEW q \in Clients, p # q,
                        mode[p] = "mine", mode[q] \in {"mine", "reorg"}
                 PROVE  FALSE
      BY DEF LockExclusion
    <2>1. Conflict(p, q)
      BY DEF Conflict, Mining, MineModes
    <2>2. ahead[p] = {} /\ ahead[q] = {}
      BY DEF LockInv, WaitsConflict
    <2> QED BY <2>1, <2>2 DEF LockInv, OneAhead
  <1> QED BY <1>1, LockInvInit, LockInvStep, PTL DEF LockSpec

-----------------------------------------------------------------------------
(* Who asked last waits for the others and nobody waits for it, so no circle *)
(* is ever closed; a client that enters or leaves only takes waits away.     *)

LEMMA NoCircleInit == LockInit => NoCircle
  BY DEF LockInit, NoCircle

LEMMA NoCircleStep ==
  ASSUME LockInv, NoCircle, [LockNext]_lockVars
  PROVE  NoCircle'
  <1>a. ASSUME \A q \in Clients : ahead'[q] \subseteq ahead[q] PROVE NoCircle'
    <2> SUFFICES ASSUME NEW some \in SUBSET Clients, some # {}
                 PROVE  \E q \in some : ahead'[q] \cap some = {}
      BY DEF NoCircle
    <2>1. PICK q \in some : ahead[q] \cap some = {}
      BY DEF NoCircle
    <2> QED BY <2>1, <1>a
  <1>1. ASSUME NEW p \in Clients, AskMine(p) \/ AskReorg(p) PROVE NoCircle'
    <2>1. /\ ahead' = [ahead EXCEPT ![p] = Mining \cup Reorging]
             \/ ahead' = [ahead EXCEPT ![p] = Mining]
          /\ p \notin Mining \cup Reorging
      BY <1>1 DEF AskMine, AskReorg, Mining, Reorging, MineModes, ReorgModes
    <2>2. \A q \in Clients : p \notin ahead'[q]
      BY <1>1, <2>1 DEF LockInv, LockTypeOK, WaitsConflict, Conflict, AskMine, AskReorg
    <2>3. \A q \in Clients : q # p => ahead'[q] = ahead[q]
      BY <2>1 DEF LockInv, LockTypeOK
    <2> SUFFICES ASSUME NEW some \in SUBSET Clients, some # {}
                 PROVE  \E q \in some : ahead'[q] \cap some = {}
      BY DEF NoCircle
    <2>4. CASE some \ {p} = {}
      BY <2>2, <2>4
    <2>5. CASE some \ {p} # {}
      <3>1. PICK q \in some \ {p} : ahead[q] \cap (some \ {p}) = {}
        BY <2>5 DEF NoCircle
      <3> QED BY <2>2, <2>3, <3>1
    <2> QED BY <2>4, <2>5
  <1>2. ASSUME NEW p \in Clients, Enter(p) PROVE NoCircle'
    BY <1>2, <1>a DEF Enter
  <1>3. ASSUME NEW p \in Clients, Leave(p) PROVE NoCircle'
    BY <1>3, <1>a DEF Leave
  <1>4. CASE UNCHANGED lockVars
    BY <1>4, <1>a DEF lockVars
  <1> QED BY <1>1, <1>2, <1>3, <1>4 DEF LockNext

\* No clients wait for each other in a circle, however many there are.
THEOREM NobodyInACircle == LockSpec => []NoCircle
  BY LockInvInit, LockInvStep, NoCircleInit, NoCircleStep, PTL DEF LockSpec

=============================================================================
