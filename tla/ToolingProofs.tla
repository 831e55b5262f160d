--------------------------- MODULE ToolingProofs ---------------------------
(***************************************************************************)
(* Proofs about the two tools that guard a restructure of the repository.  *)
(* Reachability: for every tree of files, every require graph and every    *)
(* set of siblings the walks compute exactly the transitive closures, and  *)
(* no number of deletion rounds removes what was needed.  SuiteTitleMap:   *)
(* for every pinned map, record of renames and splits and series of edits  *)
(* nothing is reported exactly when each title arrived where it should.    *)
(***************************************************************************)
EXTENDS Reachability, SuiteTitleMap, FiniteSetTheorems, WellFoundedInduction, TLAPS

-----------------------------------------------------------------------------
(* The least set that has some roots and whatever its members require.     *)

LEMMA NeededWithin ==
    ASSUME NEW graph, NEW roots, NEW files
    PROVE  Needed(graph, roots, files) \subseteq files
BY DEF Needed

LEMMA NeededHasRoots ==
    ASSUME NEW graph, NEW files, NEW roots \in SUBSET files
    PROVE  roots \subseteq Needed(graph, roots, files)
BY DEF Needed

LEMMA NeededClosed ==
    ASSUME NEW graph, NEW roots, NEW files
    PROVE  Closed(graph, Needed(graph, roots, files), files)
BY DEF Needed, Closed

LEMMA NeededLeast ==
    ASSUME NEW graph, NEW roots, NEW files, NEW set \in SUBSET files,
           roots \subseteq set, Closed(graph, set, files)
    PROVE  Needed(graph, roots, files) \subseteq set
BY DEF Needed

-----------------------------------------------------------------------------
(* The entries.                                                            *)

LEMMA EntriesPresent ==
    ASSUME NEW files, NEW kind \in Walks
    PROVE  EntriesIn(files, kind) \subseteq files
<1>1. EntriesIn(files, "runtime") = starts \cap files
  BY Zenon DEF EntriesIn
<1>2. EntriesIn(files, "tooling") = Tooling \cap files
  BY Zenon DEF EntriesIn
<1>3. EntriesIn(files, "tests") = Tests \cap files
  BY Zenon DEF EntriesIn
<1> QED
  BY <1>1, <1>2, <1>3 DEF Walks

\* A step that keeps the tree keeps every walk's entries.
LEMMA EntriesKept ==
    ASSUME UNCHANGED <<starts, present>>, NEW kind
    PROVE  Entries(kind)' = Entries(kind)
BY DEF Entries, EntriesIn

-----------------------------------------------------------------------------
(* Each action keeps the walk exact.                                       *)

LEMMA ReachInvInit == ReachInit => ReachInv
<1> SUFFICES ASSUME ReachInit PROVE ReachInv
  OBVIOUS
<1>1. Entries("runtime") \subseteq Files
  BY EntriesPresent DEF Entries, Walks, ReachInit
<1>2. ReachTypeOK
  BY <1>1 DEF ReachInit, ReachTypeOK, Walks
<1>3. WalkInv
  BY <1>1, NeededHasRoots DEF ReachInit, WalkInv, Walks
<1>4. FinishedExact
  BY DEF ReachInit, FinishedExact, Finished
<1>5. DeletionSafe
  BY NeededWithin DEF ReachInit, DeletionSafe
<1> QED
  BY <1>2, <1>3, <1>4, <1>5 DEF ReachInv

LEMMA ExpandsKeeps ==
    ASSUME ReachInv, Expands
    PROVE  ReachInv'
<1> USE DEF ReachInv
<1>1. /\ UNCHANGED <<requires, starts, named, carries, present, walk, reached>>
      /\ walk \in Walks
  BY DEF Expands, treeVars
<1>2. PICK f \in pending : Visit(f)
  BY DEF Expands
<1> DEFINE needed == Needed(requires, Entries(walk), present)
<1>3. /\ seen \cap pending = {}
      /\ Entries(walk) \subseteq seen \cup pending
      /\ \A g \in seen : EdgesFrom(g) \subseteq seen \cup pending
      /\ seen \cup pending \subseteq needed
  BY <1>1 DEF WalkInv
<1>4. seen' = seen \cup {f} /\ pending' = (pending \ {f}) \cup (EdgesFrom(f) \ seen')
  BY <1>2 DEF Visit
<1>5. \A g : EdgesFrom(g)' = EdgesFrom(g)
  BY <1>1 DEF EdgesFrom
<1>6. Entries(walk)' = Entries(walk)
  BY <1>1, EntriesKept
<1>7. EdgesFrom(f) \subseteq needed
  BY <1>3, NeededClosed DEF Closed, EdgesFrom
<1>8. needed \subseteq present
  BY NeededWithin
<1> HIDE DEF needed
<1>9. /\ seen' \cap pending' = {}
      /\ Entries(walk) \subseteq seen' \cup pending'
      /\ \A g \in seen' : EdgesFrom(g) \subseteq seen' \cup pending'
      /\ seen' \cup pending' \subseteq needed
  BY <1>3, <1>4, <1>7
<1>10. needed' = needed
  BY <1>1, <1>6 DEF needed
<1>11. WalkInv'
  BY <1>1, <1>5, <1>6, <1>9, <1>10 DEF WalkInv, needed
<1>12. ReachTypeOK'
  BY <1>1, <1>8, <1>9 DEF ReachTypeOK
<1>13. FinishedExact'
  BY <1>1, EntriesKept DEF FinishedExact
<1>14. DeletionSafe'
  BY <1>1 DEF DeletionSafe, Held, TwinRepos
<1> QED
  BY <1>11, <1>12, <1>13, <1>14

\* A walk whose stack is empty has visited exactly what its entries need.
LEMMA WalkExact ==
    ASSUME ReachInv, walk \in Walks, pending = {}
    PROVE  seen = Needed(requires, Entries(walk), present)
<1>1. Closed(requires, seen, present) /\ Entries(walk) \subseteq seen
  BY DEF ReachInv, WalkInv, Closed, EdgesFrom
<1>2. seen \in SUBSET present
  BY DEF ReachInv, ReachTypeOK
<1>3. Needed(requires, Entries(walk), present) \subseteq seen
  BY <1>1, <1>2, NeededLeast
<1>4. seen \subseteq Needed(requires, Entries(walk), present)
  BY DEF ReachInv, WalkInv
<1> QED
  BY <1>3, <1>4

LEMMA WalkEndsKeeps ==
    ASSUME ReachInv, WalkEnds
    PROVE  ReachInv'
<1> USE DEF ReachInv
<1>1. UNCHANGED <<requires, starts, named, carries, present>>
  BY DEF WalkEnds, treeVars
<1>2. /\ walk \in Walks /\ pending = {}
      /\ walk' = NextWalk[walk] /\ reached' = [reached EXCEPT ![walk] = seen]
      /\ seen' = {}
      /\ pending' = IF walk' \in Walks THEN Entries(walk') ELSE {}
  BY DEF WalkEnds
<1>3. seen = Needed(requires, Entries(walk), present)
  BY <1>2, WalkExact
<1>4. \A kind : Entries(kind)' = Entries(kind)
  BY <1>1, EntriesKept
<1>5. walk' \in Walks \cup {"verdict"} /\ Finished[walk'] = Finished[walk] \cup {walk}
  BY <1>2 DEF Walks, NextWalk, Finished
<1>6. walk' \in Walks => Entries(walk') \subseteq present
  BY EntriesPresent DEF Entries
<1>7. ReachTypeOK'
  BY <1>1, <1>2, <1>5, <1>6 DEF ReachTypeOK
<1>8. WalkInv'
  <2>1. CASE walk' \in Walks
    <3>1. Entries(walk') \subseteq Needed(requires, Entries(walk'), present)
      BY <1>6, <2>1, NeededHasRoots
    <3> QED
      BY <1>1, <1>2, <1>4, <2>1, <3>1 DEF WalkInv, Entries, EntriesIn
  <2>2. CASE walk' \notin Walks
    BY <1>2, <2>2 DEF WalkInv
  <2> QED
    BY <2>1, <2>2
<1>9. FinishedExact'
  <2> SUFFICES ASSUME NEW kind \in Finished[walk']
               PROVE  reached'[kind] = Needed(requires, Entries(kind), present)
    BY <1>1, <1>4 DEF FinishedExact
  <2>1. CASE kind = walk
    BY <1>2, <1>3, <2>1 DEF ReachTypeOK
  <2>2. CASE kind # walk
    BY <1>2, <1>5, <2>2 DEF FinishedExact, ReachTypeOK
  <2> QED
    BY <2>1, <2>2
<1>10. DeletionSafe'
  BY <1>1 DEF DeletionSafe, Held, TwinRepos
<1> QED
  BY <1>7, <1>8, <1>9, <1>10

-----------------------------------------------------------------------------
(* A deletion takes nothing that was needed.                               *)

LEMMA HeldAreFiles ==
    ASSUME ReachTypeOK
    PROVE  Held \in SUBSET (Files \ Tests)
BY FilesAssumption DEF Held, TwinRepos, ReachTypeOK

\* Tests are needed by nothing but tests.
LEMMA NoTestNeeded ==
    ASSUME ReachTypeOK
    PROVE  Needed(requires, Held, Files) \cap Tests = {}
<1>1. Closed(requires, Files \ Tests, Files)
  BY DEF Closed, ReachTypeOK, Trees
<1>2. Needed(requires, Held, Files) \subseteq Files \ Tests
  BY <1>1, HeldAreFiles, NeededLeast
<1> QED
  BY <1>2

\* Whoever is needed is held, or is required by another that is needed.
LEMMA CandidateNotNeeded ==
    ASSUME ReachInv, walk = "verdict", NEW f \in Candidates
    PROVE  f \notin Needed(requires, Held, Files)
<1> DEFINE needed == Needed(requires, Held, Files)
<1> SUFFICES ASSUME f \in needed PROVE FALSE
  OBVIOUS
<1>1. f \in Sources /\ f \in present /\ Unreferenced(f)
  BY DEF Candidates
<1>2. needed \subseteq present \ Tests
  BY NoTestNeeded DEF ReachInv, DeletionSafe
<1>3. \A g \in needed : f \notin requires[g]
  <2> SUFFICES ASSUME NEW g \in needed, f \in requires[g] PROVE FALSE
    OBVIOUS
  <2>1. g \in RequiredBy(f)
    BY <1>1, <1>2 DEF RequiredBy, EdgesFrom
  <2> QED
    BY <1>1, <2>1 DEF Unreferenced
<1>4. f \notin Held
  <2>1. ASSUME NEW kind \in {"runtime", "tooling"} PROVE f \notin Entries(kind)
    <3>1. reached[kind] = Needed(requires, Entries(kind), present)
      BY DEF ReachInv, FinishedExact, Finished, Walks
    <3>2. Entries(kind) \in SUBSET present
      BY EntriesPresent DEF Entries, Walks
    <3>3. Entries(kind) \subseteq reached[kind]
      BY <3>1, <3>2, NeededHasRoots
    <3> QED
      BY <1>1, <3>3 DEF Unreferenced
  <2>2. f \notin starts
    <3>1. Entries("runtime") = starts \cap present
      BY Zenon DEF Entries, EntriesIn
    <3> QED
      BY <1>1, <2>1, <3>1
  <2>3. f \notin Tooling
    <3>1. Entries("tooling") = Tooling \cap present
      BY Zenon DEF Entries, EntriesIn
    <3> QED
      BY <1>1, <2>1, <3>1
  <2> QED
    BY <1>1, <2>2, <2>3 DEF Held, Unreferenced, TwinCopies
<1>5. Held \subseteq needed /\ needed \subseteq Files
  BY HeldAreFiles, NeededHasRoots, NeededWithin DEF ReachInv
<1>6. Closed(requires, needed, Files)
  BY NeededClosed
<1> HIDE DEF needed
<1>7. Closed(requires, needed \ {f}, Files)
  BY <1>3, <1>6 DEF Closed
<1>8. needed \ {f} \in SUBSET Files /\ Held \subseteq needed \ {f}
  BY <1>4, <1>5
<1>9. Needed(requires, Held, Files) \subseteq needed \ {f}
  BY <1>7, <1>8, NeededLeast
<1> QED
  BY <1>9 DEF needed

LEMMA DeletesKeeps ==
    ASSUME ReachInv, NEW gone \in SUBSET Candidates, Deletes(gone)
    PROVE  ReachInv'
<1> USE DEF ReachInv
<1> DEFINE suites == {t \in Tests : requires[t] \cap gone # {}}
<1>1. /\ walk = "verdict" /\ walk' = "runtime"
      /\ present' = present \ (gone \cup suites)
      /\ pending' = EntriesIn(present', "runtime")
      /\ UNCHANGED <<requires, starts, named, carries, seen, reached>>
  BY DEF Deletes, treeVars
<1>2. DeletionSafe'
  <2>1. Needed(requires, Held, Files) \cap gone = {}
    BY <1>1, CandidateNotNeeded
  <2>2. Needed(requires, Held, Files) \cap suites = {}
    BY NoTestNeeded
  <2>3. Needed(requires, Held, Files) \subseteq present'
    BY <1>1, <2>1, <2>2 DEF DeletionSafe
  <2> QED
    BY <1>1, <2>3 DEF DeletionSafe, Held, TwinRepos
<1>3. seen = {}
  BY <1>1 DEF WalkInv, Walks
<1>4. pending' \in SUBSET present'
  BY <1>1, EntriesPresent DEF Walks
<1>5. Entries("runtime")' = pending'
  BY <1>1 DEF Entries, EntriesIn
<1>6. ReachTypeOK'
  BY <1>1, <1>3, <1>4 DEF ReachTypeOK, Walks
<1>7. pending' \subseteq Needed(requires, pending', present')
  BY <1>4, NeededHasRoots
<1>8. WalkInv'
  BY <1>1, <1>3, <1>5, <1>7 DEF WalkInv, Walks
<1>9. FinishedExact'
  BY <1>1 DEF FinishedExact, Finished
<1> QED
  BY <1>2, <1>6, <1>8, <1>9

LEMMA ReachInvStep == ReachInv /\ [ReachNext]_reachVars => ReachInv'
<1> SUFFICES ASSUME ReachInv, [ReachNext]_reachVars PROVE ReachInv'
  OBVIOUS
<1>1. CASE Expands
  BY <1>1, ExpandsKeeps
<1>2. CASE WalkEnds
  BY <1>2, WalkEndsKeeps
<1>3. ASSUME NEW gone \in SUBSET Candidates, Deletes(gone) PROVE ReachInv'
  BY <1>3, DeletesKeeps
<1>4. CASE UNCHANGED reachVars
  <2>1. UNCHANGED <<requires, starts, named, carries, present, walk, seen, pending, reached>>
    BY <1>4 DEF reachVars, treeVars
  <2>2. \A kind : Entries(kind)' = Entries(kind)
    BY <2>1, EntriesKept
  <2>3. \A f : EdgesFrom(f)' = EdgesFrom(f)
    BY <2>1 DEF EdgesFrom
  <2>4. ReachTypeOK'
    BY <2>1 DEF ReachInv, ReachTypeOK
  <2>5. WalkInv'
    BY <2>1, <2>2, <2>3 DEF ReachInv, WalkInv
  <2>6. FinishedExact'
    BY <2>1, <2>2 DEF ReachInv, FinishedExact
  <2>7. DeletionSafe'
    BY <2>1 DEF ReachInv, DeletionSafe, Held, TwinRepos
  <2> QED
    BY <2>4, <2>5, <2>6, <2>7 DEF ReachInv
<1> QED
  BY <1>1, <1>2, <1>3, <1>4 DEF ReachNext

LEMMA ReachInvAlways == ReachSpec => []ReachInv
BY ReachInvInit, ReachInvStep, PTL DEF ReachSpec

-----------------------------------------------------------------------------
\* Types of the walks and the verdict.
THEOREM ReachTypesHold == ReachSpec => []ReachTypeOK
<1>1. ReachInv => ReachTypeOK
  BY DEF ReachInv
<1> QED
  BY <1>1, ReachInvAlways, PTL

\* The walks with a stack and a visited set compute the transitive closures of
\* their entries, whatever the graph (closure).
THEOREM WalksExact == ReachSpec => []ClosureExact
<1>1. ReachInv => ClosureExact
  BY DEF ReachInv, FinishedExact, Finished, ClosureExact
<1> QED
  BY <1>1, ReachInvAlways, PTL

\* No number of sweeps and deletions removes a file that the service, the tooling
\* or a file held by another repository needed to begin with (analyse).
THEOREM DeletionsSafe == ReachSpec => []DeletionSafe
<1>1. ReachInv => DeletionSafe
  BY DEF ReachInv
<1> QED
  BY <1>1, ReachInvAlways, PTL

\* Every step of a restructure leaves less to do, in the tree, in the walks over it
\* or in the walk under way: cycles and shared files never keep a walk going
\* (closure).
THEOREM RestructureAlwaysEnds == ReachSpec => RestructureEnds
<1> DEFINE Ends == \/ Grows(present', present)
                   \/ present' = present /\ Grows(Finished[walk], Finished[walk'])
                   \/ present' = present /\ walk' = walk /\ Grows(seen, seen')
<1>1. ASSUME ReachInv, [ReachNext]_reachVars PROVE [Ends]_reachVars
  <2>1. CASE Expands
    <3>1. PICK f \in pending : Visit(f)
      BY <2>1 DEF Expands
    <3>2. f \notin seen
      BY <1>1, <2>1 DEF Expands, ReachInv, WalkInv
    <3> QED
      BY <2>1, <3>1, <3>2 DEF Expands, Visit, Grows
  <2>2. CASE WalkEnds
    <3>1. Grows(Finished[walk], Finished[walk'])
      BY <2>2 DEF WalkEnds, Grows, Finished, NextWalk, Walks
    <3> QED
      BY <2>2, <3>1 DEF WalkEnds
  <2>3. ASSUME NEW gone \in SUBSET Candidates, gone # {}, Deletes(gone)
        PROVE  Grows(present', present)
    BY <2>3 DEF Deletes, Candidates, Grows
  <2> QED
    BY <1>1, <2>1, <2>2, <2>3 DEF ReachNext
<1>2. ReachInv /\ [ReachNext]_reachVars => [Ends]_reachVars
  BY <1>1
<1> QED
  BY <1>2, ReachInvAlways, PTL DEF ReachSpec, RestructureEnds

-----------------------------------------------------------------------------
(* Sums over finite sets.                                                  *)

\* What the empty set has, and a set has with one more of its members, the whole
\* of a finite set has.
LEMMA SetInduction ==
    ASSUME NEW S, IsFiniteSet(S), NEW good,
           {} \in good,
           \A T \in SUBSET S : \A x \in S \ T : T \in good => T \cup {x} \in good
    PROVE  S \in good
<1> DEFINE bad == {T \in SUBSET S : T \notin good}
<1>1. SUFFICES ASSUME bad # {} PROVE FALSE
  OBVIOUS
<1>2. bad \subseteq FiniteSubsetsOf(S)
  BY FS_Subset DEF FiniteSubsetsOf
<1>3. PICK T \in bad : \A U \in bad : ~(<<U, T>> \in StrictSubsetOrdering(S))
  <2> HIDE DEF bad
  <2> QED
    BY <1>1, <1>2, FS_StrictSubsetOrderingWellFounded, WFMin
<1>4. PICK x \in T : TRUE
  BY <1>3
<1>5. T \ {x} \in good
  <2>1. /\ T \ {x} \subseteq T /\ T \ {x} # T /\ T \ {x} \in SUBSET S
        /\ IsFiniteSet(T) /\ IsFiniteSet(T \ {x})
    BY <1>3, <1>4, FS_Subset, FS_RemoveElement
  <2>2. <<T \ {x}, T>> \in StrictSubsetOrdering(S)
    BY <2>1, <1>3 DEF StrictSubsetOrdering, FiniteSubsetsOf
  <2> QED
    BY <2>1, <2>2, <1>3
<1>6. (T \ {x}) \cup {x} \in good
  BY <1>3, <1>4, <1>5
<1> QED
  BY <1>3, <1>4, <1>6

\* The subsets of a set that are not larger than one of them.
UpTo(S, T) == {s \in SUBSET S : Cardinality(s) <= Cardinality(T)}

LEMMA UpToFacts ==
    ASSUME NEW S, IsFiniteSet(S)
    PROVE  /\ UpTo(S, {}) = {{}} /\ UpTo(S, S) = SUBSET S
           /\ \A T \in SUBSET S : {} \in UpTo(S, T)
           /\ \A T \in SUBSET S : \A y \in S \ T :
                 /\ UpTo(S, T) \subseteq UpTo(S, T \cup {y})
                 /\ \A s \in UpTo(S, T \cup {y}) : \A x \in s : s \ {x} \in UpTo(S, T)
           /\ \A T \in SUBSET S : \A s \in UpTo(S, T) : \A x \in s : s \ {x} \in UpTo(S, T)
<1>1. /\ \A T \in SUBSET S : IsFiniteSet(T) /\ Cardinality(T) \in Nat
      /\ \A T \in SUBSET S : Cardinality(T) <= Cardinality(S)
  BY FS_Subset, FS_CardinalityType
<1>2. Cardinality({}) = 0 /\ \A T \in SUBSET S : Cardinality(T) = 0 => T = {}
  BY <1>1, FS_EmptySet
<1>3. \A T \in SUBSET S : \A y \in S \ T : Cardinality(T \cup {y}) = Cardinality(T) + 1
  BY <1>1, FS_AddElement
<1>4. \A s \in SUBSET S : \A x \in s : Cardinality(s \ {x}) = Cardinality(s) - 1
  BY <1>1, FS_RemoveElement
<1>5. UpTo(S, {}) = {{}} /\ UpTo(S, S) = SUBSET S
  BY <1>1, <1>2 DEF UpTo
<1>6. \A T \in SUBSET S : {} \in UpTo(S, T)
  BY <1>1, <1>2 DEF UpTo
<1>7. ASSUME NEW T \in SUBSET S, NEW y \in S \ T
      PROVE  /\ UpTo(S, T) \subseteq UpTo(S, T \cup {y})
             /\ \A s \in UpTo(S, T \cup {y}) : \A x \in s : s \ {x} \in UpTo(S, T)
  BY <1>1, <1>3, <1>4 DEF UpTo
<1>8. ASSUME NEW T \in SUBSET S, NEW s \in UpTo(S, T), NEW x \in s
      PROVE  s \ {x} \in UpTo(S, T)
  BY <1>1, <1>4 DEF UpTo
<1> QED
  BY <1>5, <1>6, <1>7, <1>8

\* The sum of the members' numbers, one picked member after the other.
SumRule(num, pick, sum, s) ==
    IF s = {} THEN 0 ELSE num[pick[s]] + sum[s \ {pick[s]}]

LEMMA SumsExist ==
    ASSUME NEW S, IsFiniteSet(S), NEW num \in [S -> Nat],
           NEW pick, \A s \in SUBSET S : s # {} => pick[s] \in s
    PROVE  \E sum \in [SUBSET S -> Nat] :
               \A s \in SUBSET S : sum[s] = SumRule(num, pick, sum, s)
<1> DEFINE Sums(T) == {sum \in [UpTo(S, T) -> Nat] :
                          \A s \in UpTo(S, T) : sum[s] = SumRule(num, pick, sum, s)}
           good == {T \in SUBSET S : Sums(T) # {}}
<1>1. {} \in good
  <2>1. [s \in {{}} |-> 0] \in Sums({})
    BY UpToFacts DEF SumRule
  <2> QED
    BY <2>1
<1>2. ASSUME NEW T \in SUBSET S, NEW x \in S \ T, T \in good
      PROVE  T \cup {x} \in good
  <2>1. PICK sum \in [UpTo(S, T) -> Nat] :
               \A s \in UpTo(S, T) : sum[s] = SumRule(num, pick, sum, s)
    BY <1>2
  <2> DEFINE more == UpTo(S, T \cup {x})
             next == [s \in more |-> SumRule(num, pick, sum, s)]
  <2>2. /\ UpTo(S, T) \subseteq more
        /\ \A s \in more : s # {} => pick[s] \in s /\ s \ {pick[s]} \in UpTo(S, T)
    <3>1. more \subseteq SUBSET S
      BY DEF UpTo
    <3> QED
      BY <3>1, UpToFacts
  <2>3. next \in [more -> Nat]
    <3> SUFFICES ASSUME NEW s \in more PROVE SumRule(num, pick, sum, s) \in Nat
      OBVIOUS
    <3>1. CASE s = {}
      BY <3>1 DEF SumRule
    <3>2. CASE s # {}
      <4>1. pick[s] \in S
        BY <2>2, <3>2 DEF UpTo
      <4>2. num[pick[s]] \in Nat /\ sum[s \ {pick[s]}] \in Nat
        BY <2>2, <3>2, <4>1
      <4> QED
        BY <3>2, <4>2 DEF SumRule
    <3> QED
      BY <3>1, <3>2
  <2>4. \A s \in UpTo(S, T) : next[s] = sum[s]
    BY <2>1, <2>2
  <2>5. \A s \in more : next[s] = SumRule(num, pick, next, s)
    <3> SUFFICES ASSUME NEW s \in more
                 PROVE  SumRule(num, pick, sum, s) = SumRule(num, pick, next, s)
      OBVIOUS
    <3> HIDE DEF next, more
    <3> QED
      BY <2>2, <2>4 DEF SumRule
  <2>6. next \in Sums(T \cup {x})
    BY <2>3, <2>5
  <2> QED
    BY <2>6
<1>3. S \in good
  <2> HIDE DEF good
  <2> QED
    BY <1>1, <1>2, SetInduction
<1> QED
  BY <1>3, UpToFacts

LEMMA SumsAreNatural ==
    ASSUME NEW S, IsFiniteSet(S), NEW num \in [S -> Nat],
           NEW pick, \A s \in SUBSET S : s # {} => pick[s] \in s,
           NEW sum, \A s \in SUBSET S : sum[s] = SumRule(num, pick, sum, s)
    PROVE  sum[S] \in Nat
<1> DEFINE good == {T \in SUBSET S : \A s \in UpTo(S, T) : sum[s] \in Nat}
<1>1. {} \in good
  BY UpToFacts DEF SumRule
<1>2. ASSUME NEW T \in SUBSET S, NEW x \in S \ T, T \in good
      PROVE  T \cup {x} \in good
  <2> SUFFICES ASSUME NEW s \in UpTo(S, T \cup {x}) PROVE sum[s] \in Nat
    OBVIOUS
  <2>1. s \in SUBSET S /\ sum[s] = SumRule(num, pick, sum, s)
    BY DEF UpTo
  <2>2. CASE s = {}
    BY <2>1, <2>2 DEF SumRule
  <2>3. CASE s # {}
    <3>1. pick[s] \in s /\ num[pick[s]] \in Nat
      BY <2>1, <2>3
    <3>2. sum[s \ {pick[s]}] \in Nat
      BY <1>2, <3>1, UpToFacts
    <3> QED
      BY <2>1, <2>3, <3>1, <3>2 DEF SumRule
  <2> QED
    BY <2>2, <2>3
<1>3. S \in good
  <2> HIDE DEF good
  <2> QED
    BY <1>1, <1>2, SetInduction
<1> QED
  BY <1>3, UpToFacts

\* What the parts of a split have of a title is a number.
LEMMA PartsHaveNatural ==
    ASSUME IsFiniteSet(Paths), tree \in Bags, splits \in [Paths -> SUBSET Paths],
           MaxTwice \in Nat, NEW old \in Paths, NEW t \in Titles
    PROVE  PartsHave(old, t) \in Nat
<1> DEFINE S == splits[old]
           num == [part \in S |-> tree[part][t]]
           pick == [s \in SUBSET S |-> CHOOSE part \in s : TRUE]
           Recursion(sum) ==
               [s \in SUBSET S |->
                   IF s = {} THEN 0
                   ELSE tree[CHOOSE part \in s : TRUE][t]
                            + sum[s \ {CHOOSE part \in s : TRUE}]]
           total == CHOOSE sum : sum = Recursion(sum)
<1>1. S \in SUBSET Paths /\ IsFiniteSet(S)
  BY FS_Subset
<1>2. num \in [S -> Nat]
  BY <1>1 DEF Bags
<1>3. \A s \in SUBSET S : s # {} => pick[s] \in s
  OBVIOUS
<1>4. ASSUME NEW sum, NEW s \in SUBSET S
      PROVE  Recursion(sum)[s] = SumRule(num, pick, sum, s)
  <2>1. Recursion(sum)[s] = IF s = {} THEN 0
                            ELSE tree[CHOOSE part \in s : TRUE][t]
                                     + sum[s \ {CHOOSE part \in s : TRUE}]
    BY DEF Recursion
  <2>2. pick[s] = CHOOSE part \in s : TRUE
    BY DEF pick
  <2>3. s # {} => num[pick[s]] = tree[pick[s]][t]
    BY <1>3
  <2> HIDE DEF num, pick, Recursion
  <2> QED
    BY <2>1, <2>2, <2>3 DEF SumRule
<1>5. PartsHave(old, t) = total[S]
  BY DEF PartsHave, MapThenSumSet, MapThenFoldSet
<1>6. \E sum : sum = Recursion(sum)
  <2>1. PICK sum \in [SUBSET S -> Nat] :
               \A s \in SUBSET S : sum[s] = SumRule(num, pick, sum, s)
    <3> HIDE DEF S, num, pick
    <3> QED
      BY <1>1, <1>2, <1>3, SumsExist
  <2>2. \A s \in SUBSET S : sum[s] = Recursion(sum)[s]
    BY <1>4, <2>1
  <2>3. sum = Recursion(sum)
    BY <2>2
  <2> QED
    BY <2>3
<1>7. total = Recursion(total)
  <2> HIDE DEF Recursion
  <2> QED
    BY <1>6
<1>8. \A s \in SUBSET S : total[s] = SumRule(num, pick, total, s)
  <2> HIDE DEF total
  <2> QED
    BY <1>4, <1>7
<1>9. total[S] \in Nat
  <2> HIDE DEF S, num, pick, total
  <2> QED
    BY <1>1, <1>2, <1>3, <1>8, SumsAreNatural
<1> QED
  BY <1>5, <1>9

-----------------------------------------------------------------------------
(* The comparison of titles.                                               *)

\* What the edits of a commit keep: the maps stay maps, and the record stays what
\* it was when the commit began.
TitleInv ==
    /\ pinned \in Bags /\ tree \in Bags
    /\ renames \in [Paths -> Paths]
    /\ splits \in [Paths -> SUBSET Paths]
    /\ runs \in BOOLEAN
    /\ OneToOne

\* Each pinned bag is found under the one path its file is renamed to.
LEMMA RenamedViewHas ==
    ASSUME TitleInv
    PROVE  /\ DOMAIN RenamedView = {renames[f] : f \in Collected(pinned)}
           /\ DOMAIN RenamedView \subseteq Paths
           /\ \A f \in Collected(pinned) : RenamedView[renames[f]] = pinned[f]
<1>1. DOMAIN RenamedView = {renames[f] : f \in Collected(pinned)}
  BY DEF RenamedView
<1>2. Collected(pinned) \subseteq Paths
  BY DEF Collected
<1>3. ASSUME NEW f \in Collected(pinned)
      PROVE  RenamedView[renames[f]] = pinned[f]
  <2>1. (CHOOSE g \in Collected(pinned) : renames[g] = renames[f]) = f
    BY DEF TitleInv, OneToOne
  <2> QED
    BY <2>1 DEF RenamedView
<1> QED
  BY <1>1, <1>2, <1>3 DEF TitleInv

\* A split is graded without a difference exactly when its parts have every title
\* as often as it was pinned and none of them is pinned on its own.
LEMMA GradedWhole ==
    ASSUME TitleInv, NEW f \in Collected(pinned), renames[f] \in SplitPaths
    PROVE  GradeSplit(renames[f]) = {} <=> ArrivesWhole(f)
<1> DEFINE old == renames[f]
           Missing == {t \in Titles : PartsHave(old, t) < pinned[f][t]}
           Surplus == {t \in Titles : PartsHave(old, t) > pinned[f][t]}
<1>1. f \in Paths /\ old \in Paths
  BY DEF Collected, TitleInv
<1>2. RenamedView[old] = pinned[f]
  BY RenamedViewHas
<1>3. \A t \in Titles : PartsHave(old, t) \in Nat /\ pinned[f][t] \in Nat
  BY <1>1, PartsHaveNatural, EditsAssumption DEF TitleInv, Bags
<1>4. MissingTitles(old) = {} <=> Missing = {}
  <2>1. Missing = {t \in Titles : PartsHave(old, t) < RenamedView[old][t]}
    BY <1>2
  <2> HIDE DEF Missing, old
  <2> QED
    BY <2>1 DEF MissingTitles
<1>5. SurplusTitles(old) = {} <=> Surplus = {}
  <2>1. Surplus = {t \in Titles : PartsHave(old, t) > RenamedView[old][t]}
    BY <1>2
  <2> HIDE DEF Surplus, old
  <2> QED
    BY <2>1 DEF SurplusTitles
<1>6. Missing = {} /\ Surplus = {} <=> \A t \in Titles : PartsHave(old, t) = pinned[f][t]
  <2> HIDE DEF old
  <2> QED
    BY <1>3
<1>7. Collisions(old) = {} <=>
          \A g \in Collected(pinned) \ {f} : renames[g] \notin splits[old]
  <2>1. Collisions(old) = {} <=> (splits[old] \ {old}) \cap DOMAIN RenamedView = {}
    BY DEF Collisions
  <2>2. DOMAIN RenamedView \ {old} = {renames[g] : g \in Collected(pinned) \ {f}}
    BY RenamedViewHas DEF TitleInv, OneToOne
  <2> QED
    BY <2>1, <2>2
<1> HIDE DEF Missing, Surplus, old
<1>8. GradeSplit(old) = {} <=>
          Collisions(old) = {} /\ MissingTitles(old) = {} /\ SurplusTitles(old) = {}
  BY DEF GradeSplit
<1>9. ArrivesWhole(f) <=>
          /\ \A t \in Titles : PartsHave(old, t) = pinned[f][t]
          /\ \A g \in Collected(pinned) \ {f} : renames[g] \notin splits[old]
  BY DEF ArrivesWhole, old
<1> QED
  BY <1>4, <1>5, <1>6, <1>7, <1>8, <1>9 DEF old

LEMMA ComparedEqual ==
    ASSUME NEW before, NEW after
    PROVE  CompareFiles(before, after) = {} <=>
               /\ before = after
               /\ \A f \in before :
                     {u \in Titles : RenamedView[f][u] > 0} = TitlesOf(tree, f)
<1> DEFINE Pinned(f) == {u \in Titles : RenamedView[f][u] > 0}
           added   == {<<"file_added", f>> : f \in after \ before}
           dropped == {<<"file_dropped", f>> : f \in before \ after}
           Lost(f) == {<<"title_dropped", f, t>> : t \in Pinned(f) \ TitlesOf(tree, f)}
           New(f)  == {<<"title_added", f, t>> : t \in TitlesOf(tree, f) \ Pinned(f)}
<1>1. CompareFiles(before, after) =
          added \cup dropped \cup (UNION {Lost(f) : f \in before \cap after})
              \cup (UNION {New(f) : f \in before \cap after})
  BY DEF CompareFiles
<1>2. added = {} <=> after \subseteq before
  OBVIOUS
<1>3. dropped = {} <=> before \subseteq after
  OBVIOUS
<1>4. \A f : Lost(f) = {} <=> Pinned(f) \subseteq TitlesOf(tree, f)
  OBVIOUS
<1>5. \A f : New(f) = {} <=> TitlesOf(tree, f) \subseteq Pinned(f)
  OBVIOUS
<1> HIDE DEF Pinned, added, dropped, Lost, New
<1>6. CompareFiles(before, after) = {} <=>
          /\ after \subseteq before /\ before \subseteq after
          /\ \A f \in before \cap after : Lost(f) = {} /\ New(f) = {}
  BY <1>1, <1>2, <1>3
<1> QED
  BY <1>4, <1>5, <1>6 DEF Pinned

LEMMA DifferencesExact == TitleInv => TitlesKept
<1> SUFFICES ASSUME TitleInv, ~RecordRefused
             PROVE  Differences = {} <=> /\ runs
                                         /\ \A f \in Collected(pinned) : ArrivesWhole(f)
                                         /\ Collected(tree) \subseteq Destinations
  BY DEF TitlesKept
<1> DEFINE parts  == UNION {splits[old] : old \in GradedPaths}
           before == DOMAIN RenamedView \ GradedPaths
           after  == Collected(tree) \ parts
<1>1. ~runs => Differences # {}
  BY DEF Differences
<1>2. ASSUME runs
      PROVE  Differences = {} <=> /\ \A old \in GradedPaths : GradeSplit(old) = {}
                                  /\ CompareFiles(before, after) = {}
  BY <1>2 DEF Differences
<1>3. GradedPaths = {renames[f] : f \in {g \in Collected(pinned) : renames[g] \in SplitPaths}}
  BY RenamedViewHas DEF GradedPaths
<1>4. (\A old \in GradedPaths : GradeSplit(old) = {}) <=>
          \A f \in Collected(pinned) : renames[f] \in SplitPaths => ArrivesWhole(f)
  BY <1>3, GradedWhole
<1>5. before = {renames[f] : f \in {g \in Collected(pinned) : renames[g] \notin SplitPaths}}
  BY <1>3, RenamedViewHas
<1> HIDE DEF before
<1>6. (\A g \in before : {u \in Titles : RenamedView[g][u] > 0} = TitlesOf(tree, g)) <=>
          \A f \in Collected(pinned) : renames[f] \notin SplitPaths => ArrivesWhole(f)
  <2>1. ASSUME NEW f \in Collected(pinned), renames[f] \notin SplitPaths
        PROVE  ArrivesWhole(f) <=>
                   {u \in Titles : RenamedView[renames[f]][u] > 0} = TitlesOf(tree, renames[f])
    BY <2>1, RenamedViewHas DEF ArrivesWhole, TitlesOf
  <2> QED
    BY <1>5, <2>1
<1>7. Destinations = parts \cup before
  <2>1. ASSUME NEW g PROVE g \in Destinations <=>
            \E f \in Collected(pinned) :
                g \in IF renames[f] \in SplitPaths THEN splits[renames[f]] ELSE {renames[f]}
    BY DEF Destinations
  <2>2. ASSUME NEW g PROVE g \in parts <=>
            \E f \in Collected(pinned) :
                renames[f] \in SplitPaths /\ g \in splits[renames[f]]
    BY <1>3
  <2>3. ASSUME NEW g PROVE g \in before <=>
            \E f \in Collected(pinned) : renames[f] \notin SplitPaths /\ g = renames[f]
    BY <1>5
  <2> HIDE DEF parts
  <2> QED
    BY <2>1, <2>2, <2>3
<1>8. after \subseteq before <=> Collected(tree) \subseteq Destinations
  <2>1. Collected(tree) \subseteq Destinations => after \subseteq before
    BY <1>7
  <2> QED
    BY <1>7, <2>1
\* A file that is not split and arrived whole is collected, and no split has it.
<1>9. ASSUME \A f \in Collected(pinned) : ArrivesWhole(f)
      PROVE  before \subseteq after
  <2> SUFFICES ASSUME NEW f \in Collected(pinned), renames[f] \notin SplitPaths
               PROVE  renames[f] \in after
    BY <1>5
  <2>1. renames[f] \in Collected(tree)
    <3>1. TitlesOf(tree, renames[f]) = TitlesOf(pinned, f)
      BY <1>9 DEF ArrivesWhole
    <3> QED
      BY <3>1 DEF Collected, TitleInv
  <2>2. ASSUME NEW h \in Collected(pinned), renames[h] \in SplitPaths
        PROVE  renames[f] \notin splits[renames[h]]
    BY <1>9, <2>2 DEF ArrivesWhole
  <2> QED
    BY <1>3, <2>1, <2>2
<1> HIDE DEF parts, after
<1>10. ASSUME runs
       PROVE  Differences = {} <=> /\ \A f \in Collected(pinned) : ArrivesWhole(f)
                                   /\ Collected(tree) \subseteq Destinations
  <2>1. CompareFiles(before, after) = {} <=>
            /\ before = after
            /\ \A f \in Collected(pinned) : renames[f] \notin SplitPaths => ArrivesWhole(f)
    BY <1>6, ComparedEqual
  <2> QED
    BY <1>2, <1>4, <1>8, <1>9, <1>10, <2>1 DEF parts, after
<1> QED
  BY <1>1, <1>10

\* The edits change neither the pinned map nor the record.
LEMMA TitleInvStep == TitleInv /\ [TitleNext]_titleVars => TitleInv'
<1> SUFFICES ASSUME TitleInv, [TitleNext]_titleVars PROVE TitleInv'
  OBVIOUS
<1>1. MaxTwice \in Nat
  BY EditsAssumption
<1>2. UNCHANGED <<pinned, renames, splits>> /\ runs' \in BOOLEAN
  BY DEF TitleNext, MovesFile, MovesTitle, DropsTitle, AddsTitle, BreaksScript, Edit,
         titleVars, TitleInv
<1>3. tree' \in Bags
  <2>1. ASSUME NEW from \in Paths, NEW to \in Paths, MovesFile(from, to)
        PROVE  tree' \in Bags
    BY <2>1 DEF MovesFile, TitleInv, Bags
  <2>2. ASSUME NEW t \in Titles, NEW from \in Paths, NEW to \in Paths,
               MovesTitle(t, from, to)
        PROVE  tree' \in Bags
    <3> DEFINE mid == [tree EXCEPT ![from][t] = @ - 1]
    <3>1. mid \in Bags /\ mid[to] = tree[to]
      BY <1>1, <2>2 DEF MovesTitle, TitleInv, Bags
    <3>2. tree' = [mid EXCEPT ![to][t] = tree[to][t] + 1]
      BY <2>2, <3>1 DEF MovesTitle
    <3>3. tree[to][t] + 1 \in 0 .. MaxTwice
      BY <1>1, <2>2 DEF MovesTitle, TitleInv, Bags
    <3> HIDE DEF mid
    <3> QED
      BY <3>1, <3>2, <3>3 DEF Bags
  <2>3. ASSUME NEW t \in Titles, NEW f \in Paths, DropsTitle(t, f)
        PROVE  tree' \in Bags
    BY <1>1, <2>3 DEF DropsTitle, TitleInv, Bags
  <2>4. ASSUME NEW t \in Titles, NEW f \in Paths, AddsTitle(t, f)
        PROVE  tree' \in Bags
    BY <1>1, <2>4 DEF AddsTitle, TitleInv, Bags
  <2> QED
    BY <2>1, <2>2, <2>3, <2>4 DEF TitleNext, BreaksScript, titleVars, TitleInv
<1> QED
  BY <1>2, <1>3 DEF TitleInv, OneToOne, Collected, TitlesOf

\* Edits that cancel out in the count of tests do not in their titles: whatever a
\* commit moves, nothing is reported exactly when each pinned title is where the
\* record sends it and nothing else is collected (compareWithSplits).
THEOREM TitlesAlwaysKept == TitleSpec => []TitlesKept
<1>1. TitleInit => TitleInv
  BY DEF TitleInit, TitleInv
<1> QED
  BY <1>1, TitleInvStep, DifferencesExact, PTL DEF TitleSpec

=============================================================================
