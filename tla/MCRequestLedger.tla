-------------------------- MODULE MCRequestLedger --------------------------
(***************************************************************************)
(* RequestLedger on small sets of model values.  Request ids carry no      *)
(* order, so they are interchangeable.                                     *)
(***************************************************************************)
EXTENDS RequestLedger, TLC

\* A pass with the least of everything, and one that may delete more at a time.
Tight == [window |-> 1, retention |-> 1, keepEvents |-> 1, keepRevisions |-> 1, limit |-> 1]
Wide == [window |-> 1, retention |-> 1, keepEvents |-> 1, keepRevisions |-> 1, limit |-> 9]

BothPolicies == {Tight, Wide}
WidePolicy == {Wide}

Symmetry == Permutations(Requests)
=============================================================================
