---------------------------- MODULE Reachability ----------------------------
(***************************************************************************)
(* bin/reachability.js, the tool that says which source files a            *)
(* restructure may delete, and the restructure that follows its verdict:   *)
(* three walks of the require graph, the sweep of the sibling repositories *)
(* and of their copies, the verdict on every source file, a deletion, and  *)
(* the next run of the tool on what is left.                               *)
(*                                                                         *)
(* Reading files and matching require() literals are left out: a file has  *)
(* the set of files it requires.  The text sweep of the siblings is        *)
(* sibling-reference-map.js's, given here as the set of files they name.   *)
(***************************************************************************)
EXTENDS FiniteSets

CONSTANTS
    Files,     \* the .js files git tracked when the restructure began
    Sources,   \* those under src/
    Tooling,   \* those under bin/, scripts/ and tools/
    Tests,     \* those under test/
    Siblings   \* the xchain-* directories beside the checkout

ASSUME FilesAssumption ==
    /\ IsFiniteSet(Files)
    /\ Sources \subseteq Files /\ Tooling \subseteq Files /\ Tests \subseteq Files
    /\ Tests \cap (Sources \cup Tooling) = {}

VARIABLES
    requires,  \* the files each file requires by a literal path
    starts,    \* the files the Dockerfile and the npm scripts run
    named,     \* the files a sibling's text names (sibling-reference-map.js)
    carries,   \* the sources whose path each sibling has a file at
    present,   \* the files not deleted so far
    walk,      \* the closure being computed
    seen,      \* its visited files
    pending,   \* its stack, whose order does not matter to the result
    reached    \* the closures computed so far

treeVars  == <<requires, starts, named, carries>>
reachVars == <<treeVars, present, walk, seen, pending, reached>>

Walks == {"runtime", "tooling", "tests"}

-----------------------------------------------------------------------------
(* The walks.                                                              *)

\* resolveRequire finds no file that is gone.
EdgesFrom(f) == requires[f] \cap present

EntriesIn(files, kind) ==
    CASE kind = "runtime" -> starts \cap files
      [] kind = "tooling" -> Tooling \cap files
      [] kind = "tests"   -> Tests \cap files

Entries(kind) == EntriesIn(present, kind)

\* One pop of the stack.
Visit_DropStack(f) ==
    /\ seen' = seen \cup {f}
    /\ pending' = EdgesFrom(f) \ seen'
Visit_Revisits(f) ==
    /\ seen' = seen \cup {f}
    /\ pending' = (pending \ {f}) \cup EdgesFrom(f)
Visit(f) ==
    /\ seen' = seen \cup {f}
    /\ pending' = (pending \ {f}) \cup (EdgesFrom(f) \ seen')

Expands ==
    /\ walk \in Walks
    /\ \E f \in pending : Visit(f)
    /\ UNCHANGED <<treeVars, present, walk, reached>>

NextWalk == [runtime |-> "tooling", tooling |-> "tests", tests |-> "verdict"]

WalkEnds ==
    /\ walk \in Walks
    /\ pending = {}
    /\ reached' = [reached EXCEPT ![walk] = seen]
    /\ walk' = NextWalk[walk]
    /\ seen' = {}
    /\ pending' = IF walk' \in Walks THEN Entries(walk') ELSE {}
    /\ UNCHANGED <<treeVars, present>>

-----------------------------------------------------------------------------
(* The verdict.                                                            *)

\* reverseEdges: a test that requires a file does not keep it.
RequiredBy_Nobody(f) == {}
RequiredBy(f) == {g \in present \ Tests : f \in EdgesFrom(g)}

\* The repositories whose copies count; twinCopies passes over the indexer.
TwinRepos == Siblings \ {"xchain-indexer"}
TwinCopies(f) == {repo \in TwinRepos : f \in carries[repo]}

Unreferenced(f) ==
    /\ f \notin reached["runtime"] /\ f \notin reached["tooling"]
    /\ f \notin named
    /\ TwinCopies(f) = {}
    /\ RequiredBy(f) = {}

Candidates == {f \in Sources \cap present : Unreferenced(f)}

\* A restructure deletes some of them, the suites over them too, and the tool is
\* run again.
Deletes(gone) ==
    /\ walk = "verdict"
    /\ present' = present \ (gone \cup {t \in Tests : requires[t] \cap gone # {}})
    /\ walk' = "runtime"
    /\ pending' = EntriesIn(present', "runtime")
    /\ UNCHANGED <<treeVars, seen, reached>>

-----------------------------------------------------------------------------
\* Only a test requires a file under test/.
Trees ==
    {graph \in [Files -> SUBSET Files] : \A f \in Files \ Tests : graph[f] \cap Tests = {}}

ReachInit ==
    /\ requires \in Trees
    /\ starts \in SUBSET (Files \ Tests)
    /\ named \in SUBSET Sources
    /\ carries \in [Siblings -> SUBSET Sources]
    /\ present = Files
    /\ walk = "runtime"
    /\ seen = {} /\ pending = Entries("runtime")
    /\ reached = [kind \in Walks |-> {}]

ReachNext ==
    \/ Expands
    \/ WalkEnds
    \/ \E gone \in SUBSET Candidates : gone # {} /\ Deletes(gone)
    \/ walk = "verdict" /\ Candidates = {} /\ UNCHANGED reachVars

ReachSpec == ReachInit /\ [][ReachNext]_reachVars

-----------------------------------------------------------------------------
(* Correctness.                                                            *)

ReachTypeOK ==
    /\ requires \in Trees
    /\ starts \in SUBSET (Files \ Tests)
    /\ named \in SUBSET Sources
    /\ carries \in [Siblings -> SUBSET Sources]
    /\ present \in SUBSET Files
    /\ walk \in Walks \cup {"verdict"}
    /\ seen \in SUBSET present /\ pending \in SUBSET present
    /\ reached \in [Walks -> SUBSET Files]

\* What some roots need of some files in a require graph: the least set with the
\* roots in it that has whatever its members require.
Closed(graph, set, files) == \A f \in set : graph[f] \cap files \subseteq set
Needed(graph, roots, files) ==
    {f \in files : \A set \in SUBSET files :
                       roots \subseteq set /\ Closed(graph, set, files) => f \in set}

\* The walk with a stack and a visited set ends on exactly the transitive closure
\* of its entries, on graphs with cycles and shared files too (closure).
ClosureExact ==
    walk = "verdict" =>
        \A kind \in Walks : reached[kind] = Needed(requires, Entries(kind), present)

\* What the service starts, the tooling and what another repository uses.
Held == starts \cup Tooling \cup named \cup UNION {carries[repo] : repo \in TwinRepos}

\* However many rounds of sweep and deletion there are, nothing is ever deleted
\* that the service, the tooling or a file another repository holds needed,
\* directly or through files of its own, when the restructure began (analyse).
DeletionSafe == Needed(requires, Held, Files) \subseteq present

\* The walks that have ended by the time one is under way.
Finished ==
    [runtime |-> {}, tooling |-> {"runtime"}, tests |-> {"runtime", "tooling"},
     verdict |-> Walks]

Grows(before, after) == before \subseteq after /\ before # after

\* Cycles in the require graph and files that two others require never keep a walk
\* going, nor does one round of deletions bring on the next for ever: each step
\* leaves fewer files in the tree, ends one more of the three walks over the same
\* tree, or visits one more of its files in the same walk (closure).
RestructureEnds ==
    [][\/ Grows(present', present)
       \/ present' = present /\ Grows(Finished[walk], Finished[walk'])
       \/ present' = present /\ walk' = walk /\ Grows(seen, seen')]_reachVars

-----------------------------------------------------------------------------
(* What has to be known besides to carry the two through a step.           *)

\* The walk under way has nothing it visited on its stack and has visited nothing
\* its entries do not need, and whatever they need is visited, on the stack, or
\* behind what is on the stack.
WalkInv ==
    IF walk \in Walks
    THEN /\ seen \cap pending = {}
         /\ Entries(walk) \subseteq seen \cup pending
         /\ \A f \in seen : EdgesFrom(f) \subseteq seen \cup pending
         /\ seen \cup pending \subseteq Needed(requires, Entries(walk), present)
    ELSE seen = {} /\ pending = {}

FinishedExact ==
    \A kind \in Finished[walk] : reached[kind] = Needed(requires, Entries(kind), present)

ReachInv == ReachTypeOK /\ WalkInv /\ FinishedExact /\ DeletionSafe

=============================================================================
