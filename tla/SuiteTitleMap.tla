--------------------------- MODULE SuiteTitleMap ---------------------------
(***************************************************************************)
(* bin/suite-title-map.js with bin/suite_title_map/split_map.js: a commit  *)
(* that moves tests is compared with the pinned titles of every file,      *)
(* through the renames and splits the commit declares.                     *)
(*                                                                         *)
(* One npm script, the others are compared the same way on their own.  A   *)
(* file is the bag of titles mocha collects from it, a file without titles *)
(* is one the map does not have.  The commit is made edit by edit and may  *)
(* be compared after any of them.                                          *)
(***************************************************************************)
EXTENDS Naturals, FiniteSets, FiniteSetsExt

CONSTANTS
    Paths,     \* the paths a test file may have
    Titles,    \* the full titles of tests
    MaxTwice,  \* bound: how often one file may carry a title
    MaxEdits   \* bound: the edits of the commit

ASSUME EditsAssumption ==
    IsFiniteSet(Paths) /\ MaxTwice \in Nat \ {0} /\ MaxEdits \in Nat

VARIABLES
    pinned,   \* the bag of titles of each path, as pinned
    renames,  \* the path each pinned path is declared to move to
    splits,   \* the parts each path is declared to be split into, {} for none
    tree,     \* the bag of titles of each path, as collected
    runs,     \* mocha still gives a report for the script
    edits     \* the edits made so far

titleVars == <<pinned, renames, splits, tree, runs, edits>>

Bags == [Paths -> [Titles -> 0 .. MaxTwice]]

\* The titles of a path in a map, and the paths the map has.
TitlesOf(map, f) == {t \in Titles : map[f][t] > 0}
Collected(map) == {f \in Paths : TitlesOf(map, f) # {}}

-----------------------------------------------------------------------------
(* The record of splits and its grading.                                   *)

SplitPaths == {old \in Paths : splits[old] # {}}

\* validateSplits: a record without one meaning is refused whole.
RecordRefused ==
    \/ \E old \in SplitPaths : Cardinality(splits[old]) < 2
    \/ \E old, other \in SplitPaths : old # other /\ splits[old] \cap splits[other] # {}
    \/ \E old \in SplitPaths : (splits[old] \ {old}) \cap SplitPaths # {}

\* The pinned bags under their renamed paths; splits are keyed by those.
RenamedView_BySplit ==
    [f \in Collected(pinned) |-> pinned[f]]
RenamedView ==
    [name \in {renames[f] : f \in Collected(pinned)} |->
        pinned[CHOOSE f \in Collected(pinned) : renames[f] = name]]

GradedPaths == SplitPaths \cap DOMAIN RenamedView

PartsHave(old, t) == MapThenSumSet(LAMBDA part : tree[part][t], splits[old])

MissingTitles(old) ==
    LET missing == {t \in Titles : PartsHave(old, t) < RenamedView[old][t]}
        Elsewhere(t) == \E f \in Paths \ splits[old] : t \in TitlesOf(tree, f)
    IN  {<<"title_moved_outside_split", old, t>> : t \in {u \in missing : Elsewhere(u)}}
            \cup {<<"title_dropped", old, t>> : t \in {u \in missing : ~Elsewhere(u)}}

SurplusTitles(old) ==
    LET surplus == {t \in Titles : PartsHave(old, t) > RenamedView[old][t]}
        Known(t) == RenamedView[old][t] > 0
    IN  {<<"title_duplicated", old, t>> : t \in {u \in surplus : Known(u)}}
            \cup {<<"title_added", old, t>> : t \in {u \in surplus : ~Known(u)}}

\* A part that is pinned on its own would be a merge.
Collisions(old) ==
    {<<"split_part_collides", part>> : part \in (splits[old] \ {old}) \cap DOMAIN RenamedView}

GradeSplit(old) == Collisions(old) \cup MissingTitles(old) \cup SurplusTitles(old)

-----------------------------------------------------------------------------
(* The comparison of the other files, and of the whole.                    *)

CompareFiles(before, after) ==
    {<<"file_added", f>> : f \in after \ before}
        \cup {<<"file_dropped", f>> : f \in before \ after}
        \cup (UNION {{<<"title_dropped", f, t>> : t \in
                        {u \in Titles : RenamedView[f][u] > 0} \ TitlesOf(tree, f)} :
                    f \in before \cap after})
        \cup (UNION {{<<"title_added", f, t>> : t \in
                        TitlesOf(tree, f) \ {u \in Titles : RenamedView[f][u] > 0}} :
                    f \in before \cap after})

\* compareWithSplits: each split is graded and its old path and parts taken out
\* before the files that are left are compared.
Differences ==
    IF RecordRefused THEN {<<"split_record">>}
    ELSE IF ~runs THEN {<<"script removed">>}
    ELSE (UNION {GradeSplit(old) : old \in GradedPaths})
             \cup CompareFiles(DOMAIN RenamedView \ GradedPaths,
                               Collected(tree) \ UNION {splits[old] : old \in GradedPaths})

-----------------------------------------------------------------------------
(* The moving commit.                                                      *)

Edit == edits < MaxEdits /\ edits' = edits + 1

MovesFile(from, to) ==
    /\ Edit
    /\ from \in Collected(tree) /\ to \notin Collected(tree)
    /\ tree' = [tree EXCEPT ![from] = tree[to], ![to] = tree[from]]
    /\ UNCHANGED <<pinned, renames, splits, runs>>

MovesTitle(t, from, to) ==
    /\ Edit
    /\ from # to /\ tree[from][t] > 0 /\ tree[to][t] < MaxTwice
    /\ tree' = [tree EXCEPT ![from][t] = @ - 1, ![to][t] = @ + 1]
    /\ UNCHANGED <<pinned, renames, splits, runs>>

DropsTitle(t, f) ==
    /\ Edit
    /\ tree[f][t] > 0
    /\ tree' = [tree EXCEPT ![f][t] = @ - 1]
    /\ UNCHANGED <<pinned, renames, splits, runs>>

AddsTitle(t, f) ==
    /\ Edit
    /\ tree[f][t] < MaxTwice
    /\ tree' = [tree EXCEPT ![f][t] = @ + 1]
    /\ UNCHANGED <<pinned, renames, splits, runs>>

\* The script's mocha no longer gives a report that parses.
BreaksScript ==
    /\ Edit
    /\ runs /\ runs' = FALSE
    /\ UNCHANGED <<pinned, renames, splits, tree>>

-----------------------------------------------------------------------------
\* The rename map is one-to-one on the pinned files.
OneToOne == \A f, g \in Collected(pinned) : renames[f] = renames[g] => f = g

TitleInit ==
    /\ pinned \in Bags
    /\ renames \in [Paths -> Paths]
    /\ OneToOne
    /\ splits \in [Paths -> SUBSET Paths]
    /\ tree = pinned
    /\ runs = TRUE
    /\ edits = 0

TitleNext ==
    \/ \E from, to \in Paths : MovesFile(from, to)
    \/ \E t \in Titles, from, to \in Paths : MovesTitle(t, from, to)
    \/ \E t \in Titles, f \in Paths : DropsTitle(t, f)
    \/ \E t \in Titles, f \in Paths : AddsTitle(t, f)
    \/ BreaksScript
    \/ edits = MaxEdits /\ UNCHANGED titleVars

TitleSpec == TitleInit /\ [][TitleNext]_titleVars

-----------------------------------------------------------------------------
(* Correctness.                                                            *)

\* Every pinned title is where the record says: spread over the parts of a split,
\* as often as it was pinned, or in the one file its own moved to, and nothing is
\* collected that the record does not account for.
ArrivesWhole(f) ==
    IF renames[f] \in SplitPaths
    THEN /\ \A t \in Titles : PartsHave(renames[f], t) = pinned[f][t]
         /\ \A g \in Collected(pinned) \ {f} : renames[g] \notin splits[renames[f]]
    ELSE TitlesOf(tree, renames[f]) = TitlesOf(pinned, f)

Destinations ==
    UNION {IF renames[f] \in SplitPaths THEN splits[renames[f]] ELSE {renames[f]} :
           f \in Collected(pinned)}

\* Edits that cancel out in the count of tests do not in their titles: no
\* difference is reported exactly when each pinned title arrived where the record
\* sends it and no other did (compareWithSplits; the header of split_map.js).
TitlesKept ==
    ~RecordRefused =>
        (Differences = {} <=> /\ runs
                              /\ \A f \in Collected(pinned) : ArrivesWhole(f)
                              /\ Collected(tree) \subseteq Destinations)

=============================================================================
