---------------------------- MODULE MCTaskLease ----------------------------
(***************************************************************************)
(* One run of TaskLease for two kinds of day: clients that diagnose,       *)
(* release, renew and widen one task, and clients that list and renew two  *)
(* tasks while the board and other programs write.  A behaviour keeps to   *)
(* one of them, so the state spaces add up.                                *)
(***************************************************************************)
EXTENDS TaskLease, TLC

VARIABLE day

Called(ops) == \A c \in Clients : call[c].op \in ops \cup {"none"}

Used == {lease[l].task : l \in LeaseIds} \cup {call[c].task : c \in Clients}

AtMostOne(ops) == \A c, d \in Clients : call[c].op \in ops /\ call[d].op \in ops => c = d

\* A widening meets a release or a renewal; the other calls read nothing it writes.
OneTask ==
    /\ \/ Called({"diagnose", "release", "renew"}) /\ \A t \in Tasks : scope[t] = {}
       \/ Called({"widen", "release", "renew"}) /\ AtMostOne({"release", "renew"})
    /\ Cardinality(Used \ {NoTask}) <= 1
    /\ \A t \in Tasks : item[t] = "ready"
    /\ \A l \in LeaseIds : lease[l].expires # Unreadable

\* The board moves an item or an expiry becomes unreadable.
Listing ==
    /\ Called({"ready", "renew"}) /\ AtMostOne({"renew"})
    /\ Cardinality({t \in Tasks : item[t] # "ready"}
          \cup {l \in LeaseIds : lease[l].expires = Unreadable}) <= 1

MCInit == Init /\ day \in {"calls", "listing"}

MCNext ==
    /\ Next
    /\ UNCHANGED day
    /\ (IF day = "calls" THEN OneTask ELSE Listing)'

MCSpec == MCInit /\ [][MCNext]_<<vars, day>>

Symmetry ==
    Permutations(Clients) \cup Permutations(Tasks) \cup
    Permutations(LeaseIds) \cup Permutations(Files)
=============================================================================
