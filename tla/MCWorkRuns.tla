---------------------------- MODULE MCWorkRuns ----------------------------
(***************************************************************************)
(* WorkRuns on small sets of model values.  Hosts and trees are            *)
(* interchangeable; runs are too, since run ids carry no order.            *)
(***************************************************************************)
EXTENDS WorkRuns, TLC

\* The board's changes with two attempts, and a third only on an untouched board:
\* what three attempts add, the checkout and the limit, no board change reads.
Small == \/ Cardinality({r \in Runs : run[r].state # "absent"}) <= 2
         \/ \A t \in Tasks : task[t].version = 0

Symmetry == Permutations(Hosts) \cup Permutations(Runs) \cup Permutations(Trees)
=============================================================================
