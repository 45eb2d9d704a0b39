---------------------------- MODULE MCMapDaemon ----------------------------
(***************************************************************************)
(* MapDaemon on two files, one of which exists at first.  Each budget      *)
(* opens one family of faults, so that their state spaces add up instead   *)
(* of multiplying.                                                         *)
(***************************************************************************)
EXTENDS MapDaemon

CONSTANT Given   \* the paths that exist at first

MCInit == Init /\ Given = {p \in Paths : tree[p] # Absent}

MCSpec == MCInit /\ [][Next]_vars /\ Fairness

Calm == [edits |-> 0, checkouts |-> 0, drops |-> 0, refusals |-> 0, faults |-> 0,
         starts |-> 0, stops |-> 0, builds |-> 0, silent |-> FALSE,
         sealing |-> FALSE, choosy |-> FALSE]

Bursts == [Calm EXCEPT !.edits = 3, !.drops = 1, !.faults = 2]
Checkouts == [Calm EXCEPT !.edits = 1, !.checkouts = 1, !.silent = TRUE]
Restarts == [Calm EXCEPT !.edits = 2, !.starts = 2, !.stops = 1, !.refusals = 1]
Builds == [Calm EXCEPT !.edits = 3, !.builds = 1, !.faults = 1]

\* Files that cease to be readable, met by a drain, a sweep, a full scan, a build.
Sealing == [Calm EXCEPT !.sealing = TRUE]
Sealed ==
    {[Sealing EXCEPT !.edits = 3, !.drops = 1], [Sealing EXCEPT !.edits = 2, !.starts = 1],
     [Sealing EXCEPT !.edits = 1, !.checkouts = 1], [Sealing EXCEPT !.edits = 2, !.builds = 1]}

TurnedAway == [Calm EXCEPT !.edits = 2, !.drops = 1, !.refusals = 1, !.starts = 1,
                           !.choosy = TRUE]

\* A daemon that starts while a build is under way.
BuildAndStart == {[Calm EXCEPT !.edits = 2, !.starts = 1, !.builds = 1]}

Families == {Bursts, Checkouts, Restarts, Builds, TurnedAway} \cup Sealed
=============================================================================
