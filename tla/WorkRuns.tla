------------------------------ MODULE WorkRuns ------------------------------
(***************************************************************************)
(* The launch attempts (runs) of the workbench profile and the hosts that  *)
(* carry them out.  Every runs.* request is one IMMEDIATE transaction, so  *)
(* one step; a refused request changes nothing and is no step.  The store  *)
(* keeps intent and receipts only.  What really happens to a process is    *)
(* the hosts' part: the answer to a claim may be lost, a host may die      *)
(* between any two steps, and its processes outlive it.                    *)
(*                                                                         *)
(* Checkouts are pairs of a place (a repository's common git directory)    *)
(* and a working tree in it.  A host identity is one incarnation of a host *)
(* with its sessions: it does not come back after a crash.                 *)
(***************************************************************************)
EXTENDS Naturals, FiniteSets

CONSTANTS
    Hosts,        \* owner_id values, one per host incarnation
    Runs,         \* run ids
    Tasks,        \* work items that may be run
    Places,       \* where the repository's common directory may be
    Trees,        \* working trees at a place
    Kinds,        \* execution adapters in use
    Limits,       \* the max_active_runs hosts ask for
    Ttl,          \* seconds a preparation stays claimable (300)
    MaxTime,      \* bound: the clock stops here
    MaxVersion,   \* bound: edits of a task stop here
    NoHost, NoTask, NoCheckout

ASSUME RunsAssumption ==
    /\ IsFiniteSet(Runs)
    /\ Ttl \in Nat \ {0}
    /\ MaxTime \in Nat
    /\ MaxVersion \in Nat
    /\ Kinds \subseteq {"external_terminal", "managed"}
    /\ Limits \subseteq Nat \ {0}
    /\ NoHost \notin Hosts
    /\ NoTask \notin Tasks

Checkouts == Places \X Trees

VARIABLES
    run,       \* work_runs
    task,      \* what a run's brief reads: a version of task, repository, workspace
    identity,  \* the place of work_repositories.identity_key
    clock,     \* the store's now
    up,        \* the hosts that are alive
    mandate,   \* runs whose claim was answered to a live host that has not spawned
    proc,      \* the process of each run, as it really is
    forced     \* ghost: tasks deleted with even_if_running

vars == <<run, task, identity, clock, up, mandate, proc, forced>>

States == {"absent", "prepared", "starting", "running", "exited", "failed",
           "cancelled", "unresolved"}
ProviderStates == {"none", "ready", "running", "completed", "failed",
                   "interrupted", "unresolved"}

RunRow == [state : States, task : Tasks \cup {NoTask},
           checkout : Checkouts \cup {NoCheckout}, kind : Kinds \cup {"none"},
           expires : Nat, brief : Nat, owner : Hosts \cup {NoHost},
           pid : BOOLEAN,                 \* process_id is an integer
           provider : ProviderStates]

Absent == [state |-> "absent", task |-> NoTask, checkout |-> NoCheckout,
           kind |-> "none", expires |-> 0, brief |-> 0, owner |-> NoHost,
           pid |-> FALSE, provider |-> "none"]

-----------------------------------------------------------------------------
(* What the transactions read.                                             *)

Claimed == {"starting", "running", "unresolved"}
Ended == {"exited", "failed", "cancelled"}

\* ACTIVE: claimed and not ended, or prepared and not yet expired.
Active(r) ==
    \/ run[r].state \in Claimed
    \/ run[r].state = "prepared" /\ run[r].expires > clock

ActiveRuns == {r \in Runs : Active(r)}

\* Mutant: a preparation does not hold its checkout yet.
BusyOnceClaimed(k) == \E r \in Runs : run[r].state \in Claimed /\ run[r].checkout = k

Busy(k) == \E r \in Runs : Active(r) /\ run[r].checkout = k

\* Mutant: the limit itself still has room.
UpToLimit(limit) == Cardinality(ActiveRuns) <= limit

HasCapacity(limit) == Cardinality(ActiveRuns) < limit

\* Mutant: a preparation does not keep the task from being deleted.
ClaimedOn(t) == \E r \in Runs : run[r].state \in Claimed /\ run[r].task = t

\* refuse_live_runs
InUse(t) == \E r \in Runs : Active(r) /\ run[r].task = t

-----------------------------------------------------------------------------
(* runs.*                                                                  *)

Prepare(r, t, k, kind, limit) ==
    /\ run[r].state = "absent"
    /\ task[t].live
    /\ k[1] = identity
    /\ ~Busy(k)
    /\ HasCapacity(limit)
    /\ run' = [run EXCEPT ![r] =
                 [Absent EXCEPT !.state = "prepared", !.task = t, !.checkout = k,
                                !.kind = kind, !.expires = clock + Ttl,
                                !.brief = task[t].version]]
    /\ UNCHANGED <<task, identity, clock, up, mandate, proc, forced>>

\* Mutant: an expired preparation can still be claimed.
ClaimableLate(r) == task[run[r].task].live /\ task[run[r].task].version = run[r].brief

\* The preparation has not expired and its brief, taken again, is the same.
Claimable(r) ==
    /\ clock < run[r].expires
    /\ task[run[r].task].live
    /\ task[run[r].task].version = run[r].brief

\* The claim is the authority to spawn, if its answer arrives.  It is answered
\* once: a retry of the request gets claim_consumed.
Claim(h, r, answered) ==
    /\ h \in up
    /\ run[r].state = "prepared"
    /\ Claimable(r)
    /\ run' = [run EXCEPT ![r].state = "starting", ![r].owner = h]
    /\ mandate' = IF answered THEN mandate \cup {r} ELSE mandate
    /\ UNCHANGED <<task, identity, clock, up, proc, forced>>

\* The owner reports the process it spawned.
Started(r) ==
    /\ run[r].state = "starting"
    /\ run[r].owner \in up
    /\ proc[r] # "none"
    /\ run' = [run EXCEPT ![r].state = "running", ![r].pid = TRUE]
    /\ UNCHANGED <<task, identity, clock, up, mandate, proc, forced>>

\* Mutant: an attempt that is already claimed can be cancelled.
BeforeRunning == {"prepared", "starting"}

Cancellable == {"prepared"}

Cancel(r) ==
    /\ run[r].state \in Cancellable
    /\ run' = [run EXCEPT ![r].state = "cancelled"]
    /\ UNCHANGED <<task, identity, clock, up, mandate, proc, forced>>

\* The provider_state finish leaves: the one recorded or, for a managed attempt
\* whose provider never reported, a failure.
FinishProvider(r, outcome) ==
    {run[r].provider} \cup
        {p \in {"failed", "interrupted", "unresolved"} :
            /\ run[r].kind = "managed"
            /\ run[r].provider = "none"
            /\ outcome = "failed" => p = "failed"}

Finish(r, outcome) ==
    /\ run[r].state \in Claimed
    /\ run[r].owner \in up
    /\ \E p \in FinishProvider(r, outcome) :
          run' = [run EXCEPT ![r].state = outcome, ![r].provider = p]
    /\ UNCHANGED <<task, identity, clock, up, proc, forced>>

\* The owner saw its process end.
FinishExited(r) ==
    /\ run[r].state = "running" \/ (run[r].state = "unresolved" /\ run[r].pid)
    /\ proc[r] = "gone"
    /\ Finish(r, "exited")
    /\ UNCHANGED mandate

\* The owner could not spawn, and gives its claim up.
FinishFailed(r) ==
    /\ run[r].state = "starting"
    /\ proc[r] = "none"
    /\ Finish(r, "failed")
    /\ mandate' = mandate \ {r}

\* The owner lost sight of the launch.
FinishUnresolved(r) ==
    /\ run[r].state # "unresolved"
    /\ Finish(r, "unresolved")
    /\ UNCHANGED mandate

\* Mutant: an attempt its owner reported as unresolved is left to that owner.
NotUnresolved == {"starting", "running"}

Reconcilable == {"starting", "running", "unresolved"}

\* Another host has seen that the owner is gone and that its process is too.
Reconcile(h, r) ==
    /\ h \in up
    /\ run[r].state \in Reconcilable
    /\ run[r].owner # h
    /\ run[r].owner \notin up
    /\ proc[r] # "alive"
    /\ run' = [run EXCEPT ![r].state = "exited"]
    /\ UNCHANGED <<task, identity, clock, up, mandate, proc, forced>>

\* Mutant: the first report is taken before the process is.
ReportsEarly(r, p) ==
    CASE run[r].provider = "none" -> p = "ready"
      [] run[r].provider = "ready" -> p \in {"running", "failed", "interrupted", "unresolved"}
      [] run[r].provider = "running" ->
            p \in {"running", "completed", "failed", "interrupted", "unresolved"}
      [] run[r].provider = "unresolved" -> p = "unresolved"
      [] OTHER -> FALSE

\* The order of a provider's reports.
Follows(r, p) ==
    CASE run[r].provider = "none" -> p = "ready" /\ run[r].state = "running"
      [] run[r].provider = "ready" -> p \in {"running", "failed", "interrupted", "unresolved"}
      [] run[r].provider = "running" ->
            p \in {"running", "completed", "failed", "interrupted", "unresolved"}
      [] run[r].provider = "unresolved" -> p = "unresolved"
      [] OTHER -> FALSE

\* The owner passes on what the provider of a managed attempt reports.
Protocol(r, p) ==
    /\ run[r].kind = "managed"
    /\ run[r].state \in Claimed
    /\ run[r].owner \in up
    /\ Follows(r, p)
    /\ p \in {"running", "completed"} => run[r].state = "running"
    /\ run' = [run EXCEPT ![r].provider = p]
    /\ UNCHANGED <<task, identity, clock, up, mandate, proc, forced>>

-----------------------------------------------------------------------------
(* Other requests that meet live runs.                                     *)

\* items.put: any edit that shows in the brief.
EditTask(t) ==
    /\ task[t].live
    /\ task[t].version < MaxVersion
    /\ task' = [task EXCEPT ![t].version = task[t].version + 1]
    /\ UNCHANGED <<run, identity, clock, up, mandate, proc, forced>>

DeleteTask(t, even) ==
    /\ task[t].live
    /\ task[t].version < MaxVersion
    /\ even \/ ~InUse(t)
    /\ task' = [task EXCEPT ![t] = [version |-> task[t].version + 1, live |-> FALSE]]
    /\ forced' = IF even THEN forced \cup {t} ELSE forced
    /\ UNCHANGED <<run, identity, clock, up, mandate, proc>>

RestoreTask(t) ==
    /\ ~task[t].live
    /\ task[t].version < MaxVersion
    /\ task' = [task EXCEPT ![t] = [version |-> task[t].version + 1, live |-> TRUE]]
    /\ forced' = forced \ {t}
    /\ UNCHANGED <<run, identity, clock, up, mandate, proc>>

\* Mutant: a preparation does not keep the repository in place.
NoneClaimed == \A r \in Runs : run[r].state \notin Claimed

\* ~ active_on_repository
RepositoryIdle == ActiveRuns = {}

\* repositories.relink: the new revision shows in every brief.
Relink(p) ==
    /\ p # identity
    /\ RepositoryIdle
    /\ \A t \in Tasks : task[t].version < MaxVersion
    /\ identity' = p
    /\ task' = [t \in Tasks |-> [task[t] EXCEPT !.version = task[t].version + 1]]
    /\ UNCHANGED <<run, clock, up, mandate, proc, forced>>

-----------------------------------------------------------------------------
(* Hosts, processes and time.                                              *)

Spawn(r) ==
    /\ r \in mandate
    /\ proc' = [proc EXCEPT ![r] = "alive"]
    /\ mandate' = mandate \ {r}
    /\ UNCHANGED <<run, task, identity, clock, up, forced>>

ProcessExit(r) ==
    /\ proc[r] = "alive"
    /\ proc' = [proc EXCEPT ![r] = "gone"]
    /\ UNCHANGED <<run, task, identity, clock, up, mandate, forced>>

\* A host dies; its processes live on.  One host always survives.
HostCrash(h) ==
    /\ h \in up
    /\ up # {h}
    /\ up' = up \ {h}
    /\ mandate' = {r \in mandate : run[r].owner # h}
    /\ UNCHANGED <<run, task, identity, clock, proc, forced>>

Tick ==
    /\ clock < MaxTime
    /\ clock' = clock + 1
    /\ UNCHANGED <<run, task, identity, up, mandate, proc, forced>>

Init ==
    /\ run = [r \in Runs |-> Absent]
    /\ task = [t \in Tasks |-> [version |-> 0, live |-> TRUE]]
    /\ identity \in Places
    /\ clock = 0
    /\ up = Hosts
    /\ mandate = {}
    /\ proc = [r \in Runs |-> "none"]
    /\ forced = {}

RunStep(r) ==
    \/ \E t \in Tasks, k \in Checkouts, kind \in Kinds, limit \in Limits :
          Prepare(r, t, k, kind, limit)
    \/ \E h \in Hosts, answered \in BOOLEAN : Claim(h, r, answered)
    \/ Started(r) \/ Cancel(r)
    \/ FinishExited(r) \/ FinishFailed(r) \/ FinishUnresolved(r)
    \/ \E h \in Hosts : Reconcile(h, r)
    \/ \E p \in ProviderStates : Protocol(r, p)
    \/ Spawn(r) \/ ProcessExit(r)

Next ==
    \/ \E r \in Runs : RunStep(r)
    \/ \E t \in Tasks : EditTask(t) \/ RestoreTask(t) \/ \E even \in BOOLEAN : DeleteTask(t, even)
    \/ \E p \in Places : Relink(p)
    \/ \E h \in Hosts : HostCrash(h)
    \/ Tick

Spec == Init /\ [][Next]_vars

\* A host that is up reconciles what dead hosts left behind.
Fairness == \A r \in Runs : WF_vars(\E h \in Hosts : Reconcile(h, r))

FairSpec == Spec /\ Fairness

-----------------------------------------------------------------------------
(* Properties.                                                             *)

\* Every variable has its type, and a run that exists names a task and a
\* checkout, a claimed one its owner.
RunsTypeOK ==
    /\ run \in [Runs -> RunRow]
    /\ \A r \in Runs : run[r].state # "absent" =>
          run[r].task \in Tasks /\ run[r].checkout \in Checkouts
    /\ \A r \in Runs : run[r].state \in Claimed => run[r].owner \in Hosts
    /\ task \in [Tasks -> [version : Nat, live : BOOLEAN]]
    /\ identity \in Places
    /\ clock \in Nat
    /\ up \subseteq Hosts
    /\ mandate \subseteq Runs
    /\ proc \in [Runs -> {"none", "alive", "gone"}]
    /\ forced \subseteq Tasks

\* One attempt per working tree: no two active runs name one checkout, however
\* preparations expire, are claimed late, are cancelled or reconciled.
OneRunPerCheckout ==
    \A r, q \in ActiveRuns : run[r].checkout = run[q].checkout => r = q

\* The profile never holds more live attempts than the largest limit asked for.
CapacityKept ==
    LET n == Cardinality(ActiveRuns) IN n > 0 => \E limit \in Limits : n <= limit

\* A process that runs, or that a host has still the authority to start.
Writer(r) == proc[r] = "alive" \/ r \in mandate

\* No two agents write one working tree: the processes themselves, and not only
\* the rows, are exclusive, although a claim's answer may be lost, a host may
\* die between claim, spawn and report, and its process outlive it.
OneWriter ==
    \A r, q \in Runs :
        (Writer(r) /\ Writer(q) /\ run[r].checkout = run[q].checkout) => r = q

\* The comment on TERMINAL: nothing an ended run launched can still move its
\* branch.  Its process is over and nobody holds the authority to start one.
EndedIsOver == \A r \in Runs : run[r].state \in Ended => ~Writer(r)

\* A relink never moves the repository out from under an attempt that is
\* prepared or live.
InPlace == \A r \in ActiveRuns : run[r].checkout[1] = identity

\* A task in use is deleted only by a request that says so: neither a delete
\* that raced the preparation nor a claim of an old preparation leaves a live
\* attempt on a deleted task.
DeletedNotInUse == \A r \in ActiveRuns : task[run[r].task].live \/ run[r].task \in forced

\* What a provider reports is about a recorded process, in every order of
\* started, protocol, finish and loss of the connection.
ProviderHasProcess ==
    \A r \in Runs : run[r].provider \in {"ready", "running", "completed"} => run[r].pid

\* An attempt whose owner died does not hold its checkout for ever: once its
\* process is over, too, some other host frees it.
OrphanFreed ==
    \A r \in Runs :
        (run[r].state \in Claimed /\ run[r].owner \notin up /\ proc[r] # "alive")
            ~> run[r].state \in Ended
=============================================================================
