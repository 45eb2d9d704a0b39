----------------------------- MODULE GapHistory -----------------------------
(***************************************************************************)
(* What the store remembers of a task's gaps.  The table `gaps` holds what *)
(* the last verification found and is replaced by the next one; the        *)
(* history keeps, per task and gap, when it was first and last seen, in    *)
(* how many runs, and how often it came back after having gone.  A run is  *)
(* opened by a replacement, an empty one too; a single upsert belongs to   *)
(* the run in progress.  Replacements and upserts of several verifiers     *)
(* interleave, each one transaction, and a gap's id is unique in the table *)
(* while its history is per task.                                          *)
(***************************************************************************)
EXTENDS Integers, Sequences, FiniteSetsExt

CONSTANTS
    Verified,   \* tasks
    Gaps,       \* gap ids
    NoRow, Unfiled,   \* of the table: no such row, a row of no task
    MaxRuns     \* bound

ASSUME GapConstants ==
    /\ MaxRuns \in Nat
    /\ NoRow \notin Verified /\ Unfiled \notin Verified /\ NoRow # Unfiled

VARIABLES
    gapOf,    \* gaps: the task each row belongs to
    runOf,    \* gap_runs
    history,  \* gap_history
    found     \* ghost: what every run of a task reported, in order

gapVars == <<gapOf, runOf, history, found>>

NeverSeen == [first |-> 0, last |-> 0, occurrences |-> 0, resurfaces |-> 0]

-----------------------------------------------------------------------------
\* Mutant: a run's number is derived from the sightings, so that a clean run
\* has none.
DerivedRun(t) == Max({history[t][g].last : g \in Gaps} \cup {0}) + 1

\* advance_run
AdvanceRun(t) == runOf[t] + 1

\* current_run: a bare upsert opens run 1.
CurrentRun(t) == IF runOf[t] > 0 THEN runOf[t] ELSE AdvanceRun(t)

\* record_sighting: idempotent within a run.
Sighted(h, run) ==
    IF h = NeverSeen THEN [first |-> run, last |-> run, occurrences |-> 1, resurfaces |-> 0]
    ELSE [first       |-> h.first,
          last        |-> Max({h.last, run}),
          occurrences |-> h.occurrences + (IF h.last < run THEN 1 ELSE 0),
          resurfaces  |-> h.resurfaces + (IF h.last < run - 1 THEN 1 ELSE 0)]

RecordSightings(t, S, run) ==
    /\ runOf' = [runOf EXCEPT ![t] = run]
    /\ history' = [history EXCEPT ![t] =
                     [g \in Gaps |-> IF g \in S THEN Sighted(@[g], run) ELSE @[g]]]

\* gaps-replace, and gaps-clear with nothing.  A row of another task with one of
\* these ids makes the insert fail, and the transaction with it.
GapsReplace(t, S) ==
    /\ Len(found[t]) < MaxRuns
    /\ \A g \in S : gapOf[g] \in {NoRow, t}
    /\ RecordSightings(t, S, AdvanceRun(t))
    /\ gapOf' = [g \in Gaps |->
                   IF g \in S THEN t ELSE IF gapOf[g] = t THEN NoRow ELSE gapOf[g]]
    /\ found' = [found EXCEPT ![t] = Append(@, S)]

\* gap-upsert: an existing row goes over to this task.
GapUpsert(t, g) ==
    /\ gapOf' = [gapOf EXCEPT ![g] = t]
    /\ RecordSightings(t, {g}, CurrentRun(t))
    /\ found' = [found EXCEPT ![t] =
                   IF found[t] = <<>> THEN <<{g}>>
                   ELSE [found[t] EXCEPT ![Len(found[t])] = @ \cup {g}]]

\* gap-upsert of a gap without a task: no history.
GapUnfiled(g) ==
    /\ gapOf' = [gapOf EXCEPT ![g] = Unfiled]
    /\ UNCHANGED <<runOf, history, found>>

GapInit ==
    /\ gapOf = [g \in Gaps |-> NoRow]
    /\ runOf = [t \in Verified |-> 0]
    /\ history = [t \in Verified |-> [g \in Gaps |-> NeverSeen]]
    /\ found = [t \in Verified |-> <<>>]

GapNext ==
    \/ \E t \in Verified, S \in SUBSET Gaps : GapsReplace(t, S)
    \/ \E t \in Verified, g \in Gaps : GapUpsert(t, g)
    \/ \E g \in Gaps : GapUnfiled(g)

GapSpec == GapInit /\ [][GapNext]_gapVars

-----------------------------------------------------------------------------
(* Properties.                                                             *)

RunsWith(t, g) == {n \in DOMAIN found[t] : g \in found[t][n]}

\* Counted from the runs themselves.
Recounted(t, g) ==
    LET runs == RunsWith(t, g) IN
    IF runs = {} THEN NeverSeen
    ELSE [first       |-> Min(runs),
          last        |-> Max(runs),
          occurrences |-> Cardinality(runs),
          resurfaces  |-> Cardinality({n \in runs : n - 1 \notin runs}) - 1]

\* The history says what a recount of the task's runs says, a gap that left for
\* one clean run and came back included; and a gap listed for a task is one that
\* its last run reported.
GapsTrue ==
    \A t \in Verified, g \in Gaps :
        /\ history[t][g] = Recounted(t, g)
        /\ gapOf[g] = t => RunsWith(t, g) # {} /\ Max(RunsWith(t, g)) = Len(found[t])
=============================================================================
