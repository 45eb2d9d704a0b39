---------------------------- MODULE LeaseHolder ----------------------------
(***************************************************************************)
(* What the lease store promises its callers, without rows, statuses,      *)
(* clocks or statements: a task has at most one holder, a holder's token   *)
(* was never anyone's before, and a token that lost its task never comes   *)
(* back.                                                                   *)
(***************************************************************************)
CONSTANTS Tasks, Tokens

VARIABLES
    holder,   \* holder[t]: the token that holds t, as a set of at most one
    used      \* every token ever handed out

vars == <<holder, used>>

Init ==
    /\ holder = [t \in Tasks |-> {}]
    /\ used = {}

\* A fresh token takes the task, from nobody or by force.
Grant(t) ==
    \E k \in Tokens \ used :
        /\ holder' = [holder EXCEPT ![t] = {k}]
        /\ used' = used \cup {k}

\* The holder releases the task, or its lease lapses.
Drop(t) ==
    /\ holder[t] # {}
    /\ holder' = [holder EXCEPT ![t] = {}]
    /\ UNCHANGED used

Next == \E t \in Tasks : Grant(t) \/ Drop(t)

Spec == Init /\ [][Next]_vars
=============================================================================
