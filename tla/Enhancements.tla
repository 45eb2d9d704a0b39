---------------------------- MODULE Enhancements ----------------------------
(***************************************************************************)
(* Proposals to improve a task's text.  A person asks for one, or a save   *)
(* queues one for the profile's automation; a worker claims it, calls a    *)
(* model for up to the lease, and publishes or fails; a person accepts,    *)
(* revises, dismisses or undoes.  The task is edited, locked, moved and    *)
(* deleted all the while, and automation switched off and on.              *)
(*                                                                         *)
(* Every request is one transaction.  The clock of the queue (ms) and of   *)
(* the leases (s) is one clock here, and never steps back.  Text proposals *)
(* only: refinements share claim, complete, dismiss and recover.           *)
(***************************************************************************)
EXTENDS Integers, FiniteSets

CONSTANTS
    Cards,        \* tasks
    Fields,       \* title, description
    Texts,
    Jobs,         \* proposal ids
    Workers, NoWorker,
    JobLease,     \* ENHANCEMENT_LEASE_SECONDS
    Debounce,     \* 1000 ms after the save
    Quota, Window,   \* 20 automatic proposals an hour
    MaxRevision, MaxSettings, MaxClock   \* bounds

ASSUME EnhancementConstants ==
    /\ Cards # {}
    /\ NoWorker \notin Workers
    /\ JobLease \in Nat \ {0} /\ Debounce \in Nat
    /\ Quota \in Nat /\ Window \in Nat \ {0}
    /\ MaxRevision \in Nat /\ MaxSettings \in Nat /\ MaxClock \in Nat

VARIABLES
    card,      \* the tasks' rows
    settings,  \* work_automation
    due,       \* work_enhancement_queue: not_before, 0 for no entry
    job,       \* work_enhancements
    clock

enhancementVars == <<card, settings, due, job, clock>>

JobStates == {"none", "pending", "running", "cancel_requested", "ready", "failed",
              "cancelled", "interrupted", "dismissed", "accepted", "undone"}

Wording == [Fields -> Texts]

-----------------------------------------------------------------------------
(* Which proposals are active.                                             *)

Live(j) == clock < job[j].expires

\* Mutant: a pending proposal is active only once a worker has it.
ActiveClaimed(j) == job[j].state \in {"running", "cancel_requested"}

\* One per profile; an expired pending one can no longer be claimed.
ActiveJob(j) ==
    \/ job[j].state \in {"running", "cancel_requested"}
    \/ job[j].state = "pending" /\ Live(j)

Busy == \E j \in Jobs : ActiveJob(j)

Recent == {j \in Jobs : /\ job[j].state # "none" /\ job[j].automatic
                        /\ job[j].created > clock - Window}

Unlocked(t, S) == S \cap card[t].locked = {}

\* enhancements.create, with the settings its automatic form is bound to.
Insert(j, t, S, automatic) ==
    /\ job[j].state = "none"
    /\ ~card[t].deleted
    /\ S # {} /\ Unlocked(t, S)
    /\ automatic => settings.enabled
    /\ ~Busy
    /\ automatic => Cardinality(Recent) < Quota
    /\ job' = [job EXCEPT ![j] =
         [state |-> "pending", task |-> t, source |-> card[t].revision,
          base |-> card[t].text, fields |-> S, proposed |-> card[t].text,
          accepted |-> {}, automatic |-> automatic, settings |-> settings.revision,
          worker |-> NoWorker, created |-> clock, expires |-> clock + JobLease]]

\* A person's own request supersedes the queued one.
CreateJob(j, t, S, automatic) ==
    /\ Insert(j, t, S, automatic)
    /\ due' = IF automatic THEN due ELSE [due EXCEPT ![t] = 0]
    /\ UNCHANGED <<card, settings, clock>>

\* automation.prepare: the entry is consumed with the insert.
Prepare(j, t) ==
    /\ due[t] > 0 /\ clock >= due[t]
    /\ settings.enabled
    /\ Insert(j, t, Fields \ card[t].locked, TRUE)
    /\ due' = [due EXCEPT ![t] = 0]
    /\ UNCHANGED <<card, settings, clock>>

-----------------------------------------------------------------------------
(* The worker.                                                             *)

\* check_selection with the revision the proposal was prepared under.
Selected(j) ==
    job[j].automatic => settings.enabled /\ settings.revision = job[j].settings

Signed(j, w) ==
    [job[j] EXCEPT !.state = "running", !.worker = w, !.expires = clock + JobLease]

\* enhancements.claim
ClaimJob(j, w) ==
    /\ job[j].state = "pending"
    /\ Live(j)
    /\ Selected(j)
    /\ ~card[job[j].task].deleted
    /\ Unlocked(job[j].task, job[j].fields)
    /\ card[job[j].task].revision = job[j].source
    /\ job' = [job EXCEPT ![j] = Signed(j, w)]
    /\ UNCHANGED <<card, settings, due, clock>>

Reports(j, w) ==
    \/ job[j].state = "pending"
    \/ job[j].state \in {"running", "cancel_requested"} /\ job[j].worker = w

\* enhancements.complete with a proposal.
Publish(j, w, proposed) ==
    /\ Reports(j, w) /\ job[j].state # "cancel_requested"
    /\ Live(j)
    /\ \A f \in Fields \ job[j].fields : proposed[f] = job[j].base[f]
    /\ job' = [job EXCEPT ![j].state = "ready", ![j].proposed = proposed]
    /\ UNCHANGED <<card, settings, due, clock>>

\* enhancements.complete with a failure.
Fail(j, w) ==
    /\ Reports(j, w)
    /\ job' = [job EXCEPT ![j].state =
                 IF @ = "cancel_requested" THEN "cancelled" ELSE "failed"]
    /\ UNCHANGED <<card, settings, due, clock>>

\* enhancements.recover: the deadline passed and nobody knows the outcome.
Recover(j, w) ==
    /\ job[j].state \in {"running", "cancel_requested"} /\ job[j].worker = w
    /\ ~Live(j)
    /\ job' = [job EXCEPT ![j].state = "interrupted"]
    /\ UNCHANGED <<card, settings, due, clock>>

-----------------------------------------------------------------------------
(* The person.                                                             *)

DismissedAs(state) == IF state = "running" THEN "cancel_requested" ELSE "dismissed"

Dismiss(j) ==
    /\ job[j].state \in {"running", "pending", "ready", "failed", "interrupted"}
    /\ job' = [job EXCEPT ![j].state = DismissedAs(@)]
    /\ UNCHANGED <<card, settings, due, clock>>

\* enhancements.revise
ReviseJob(j, f, x) ==
    /\ job[j].state = "ready"
    /\ f \in job[j].fields
    /\ ~card[job[j].task].deleted
    /\ Unlocked(job[j].task, {f})
    /\ job' = [job EXCEPT ![j].proposed[f] = x]
    /\ UNCHANGED <<card, settings, due, clock>>

\* apply(): the task still says what the change starts from.
Applicable(j, S, from) ==
    /\ ~card[job[j].task].deleted
    /\ Unlocked(job[j].task, S)
    /\ \A f \in S : card[job[j].task].text[f] = from[f]

Apply(j, S, to) ==
    card' = [card EXCEPT ![job[j].task].revision = @ + 1,
                         ![job[j].task].text = [f \in Fields |-> IF f \in S THEN to[f] ELSE @[f]]]

\* No save: automation does not propose on what it proposed.
Accept(j, S) ==
    /\ job[j].state = "ready"
    /\ S # {} /\ S \subseteq job[j].fields
    /\ card[job[j].task].revision < MaxRevision
    /\ Applicable(j, S, job[j].base)
    /\ Apply(j, S, job[j].proposed)
    /\ job' = [job EXCEPT ![j].state = "accepted", ![j].accepted = S]
    /\ UNCHANGED <<settings, due, clock>>

Undo(j) ==
    /\ job[j].state = "accepted"
    /\ card[job[j].task].revision < MaxRevision
    /\ Applicable(j, job[j].accepted, job[j].proposed)
    /\ Apply(j, job[j].accepted, job[j].base)
    /\ job' = [job EXCEPT ![j].state = "undone"]
    /\ UNCHANGED <<settings, due, clock>>

\* Mutant: switching off spares a job that already runs.
CancelledPending(j) == job[j].automatic /\ job[j].state = "pending" /\ Live(j)

\* cancel_automatic
CancelledBySwitch(j) ==
    /\ job[j].automatic
    /\ job[j].state = "running" \/ (job[j].state = "pending" /\ Live(j))

\* automation.put
PutSettings(enabled) ==
    /\ settings.revision < MaxSettings
    /\ settings' = [revision |-> settings.revision + 1, enabled |-> enabled]
    /\ IF enabled THEN UNCHANGED <<due, job>>
       ELSE /\ Cardinality({j \in Jobs : CancelledBySwitch(j)}) <= 1
            /\ due' = [t \in Cards |-> 0]
            /\ job' = [j \in Jobs |->
                 IF CancelledBySwitch(j) THEN [job[j] EXCEPT !.state = DismissedAs(@)] ELSE job[j]]
    /\ UNCHANGED <<card, clock>>

\* Mutant: a save that only locks does not count as a change of the task.
LockKeeps(t, text) == IF text = card[t].text THEN card[t].revision ELSE card[t].revision + 1

NextRevision(t, text) == card[t].revision + 1

\* put_item, and after_save at its end.
Save(t, text, locked) ==
    /\ ~card[t].deleted
    /\ card[t].revision < MaxRevision
    /\ card' = [card EXCEPT ![t].revision = NextRevision(t, text), ![t].text = text,
                            ![t].locked = locked]
    /\ due' = IF ~settings.enabled \/ locked = Fields THEN [due EXCEPT ![t] = 0]
              ELSE IF text # card[t].text THEN [due EXCEPT ![t] = clock + Debounce]
              ELSE due
    /\ UNCHANGED <<settings, job, clock>>

\* Its workspace is deleted: a new revision, and no save.
LosesHome(t) ==
    /\ ~card[t].deleted
    /\ card[t].revision < MaxRevision
    /\ card' = [card EXCEPT ![t].revision = @ + 1]
    /\ UNCHANGED <<settings, due, job, clock>>

DeleteCard(t) ==
    /\ ~card[t].deleted
    /\ card[t].revision < MaxRevision
    /\ card' = [card EXCEPT ![t].revision = @ + 1, ![t].deleted = TRUE]
    /\ due' = [due EXCEPT ![t] = 0]
    /\ UNCHANGED <<settings, job, clock>>

RestoreCard(t) ==
    /\ card[t].deleted
    /\ card[t].revision < MaxRevision
    /\ card' = [card EXCEPT ![t].revision = @ + 1, ![t].deleted = FALSE]
    /\ UNCHANGED <<settings, due, job, clock>>

ClockTicks ==
    /\ clock < MaxClock
    /\ clock' = clock + 1
    /\ UNCHANGED <<card, settings, due, job>>

-----------------------------------------------------------------------------
EnhancementInit ==
    /\ \E text \in Wording :
         /\ card = [t \in Cards |->
              [revision |-> 1, text |-> text, locked |-> {}, deleted |-> FALSE]]
         /\ job = [j \in Jobs |->
              [state |-> "none", task |-> CHOOSE t \in Cards : TRUE, source |-> 0,
               base |-> text, fields |-> {}, proposed |-> text, accepted |-> {},
               automatic |-> FALSE, settings |-> 0, worker |-> NoWorker, created |-> 0,
               expires |-> 0]]
    /\ \E enabled \in BOOLEAN : settings = [revision |-> 1, enabled |-> enabled]
    /\ due = [t \in Cards |-> 0]
    /\ clock = 1

WorkerStep(j) ==
    \/ \E w \in Workers : ClaimJob(j, w) \/ Fail(j, w) \/ Recover(j, w)
    \/ \E w \in Workers, p \in Wording : Publish(j, w, p)

PersonStep(j) ==
    \/ \E t \in Cards, S \in SUBSET Fields, a \in BOOLEAN : CreateJob(j, t, S, a)
    \/ \E f \in Fields, x \in Texts : ReviseJob(j, f, x)
    \/ \E S \in SUBSET Fields : Accept(j, S)
    \/ Dismiss(j) \/ Undo(j)

BoardStep(t) ==
    \/ \E text \in Wording, L \in SUBSET Fields : Save(t, text, L)
    \/ LosesHome(t) \/ DeleteCard(t) \/ RestoreCard(t)

EnhancementNext ==
    \/ \E j \in Jobs : WorkerStep(j) \/ PersonStep(j)
    \/ \E j \in Jobs, t \in Cards : Prepare(j, t)
    \/ \E t \in Cards : BoardStep(t)
    \/ \E e \in BOOLEAN : PutSettings(e)
    \/ ClockTicks

EnhancementSpec == EnhancementInit /\ [][EnhancementNext]_enhancementVars

-----------------------------------------------------------------------------
(* Properties.                                                             *)

EnhancementTypeOK ==
    /\ card \in [Cards -> [revision : Nat, text : Wording, locked : SUBSET Fields,
                           deleted : BOOLEAN]]
    /\ settings \in [revision : Nat, enabled : BOOLEAN]
    /\ due \in [Cards -> Nat]
    /\ job \in [Jobs -> [state : JobStates, task : Cards, source : Nat, base : Wording,
                         fields : SUBSET Fields, proposed : Wording,
                         accepted : SUBSET Fields, automatic : BOOLEAN, settings : Nat,
                         worker : Workers \cup {NoWorker}, created : Nat, expires : Nat]]
    /\ clock \in Nat
    /\ \A j \in Jobs : job[j].state \in {"running", "cancel_requested"} =>
         job[j].worker \in Workers

\* No two proposals of a profile can be in a model call, or still get there.
OneActiveJob == \A i, j \in Jobs : ActiveJob(i) /\ ActiveJob(j) => i = j

\* The automatic proposals of the last hour, whatever has become of them.
WithinQuota == Cardinality(Recent) <= Quota

\* "The shared proposal gate permits at most one active or unexpired pending
\* job", whatever expires, is claimed late, recovered or switched off; and of its
\* own accord automation makes at most twenty proposals in any hour, those that
\* failed, were dismissed or were cancelled by switching it off and on included.
OneJob == OneActiveJob /\ WithinQuota

\* Switched off means off: nothing queued, and no automatic proposal that runs
\* or that a worker could still claim.
OffMeansOff ==
    ~settings.enabled =>
        /\ \A t \in Cards : due[t] = 0
        /\ \A j \in Jobs : job[j].automatic =>
             /\ job[j].state # "running"
             /\ ~(job[j].state = "pending" /\ Live(j))

\* A proposal the inbox shows as current can be accepted as it stands: while the
\* task is at the revision it was made on, no text under it and no lock moved.
CurrentApplies ==
    \A j \in Jobs :
        /\ job[j].state = "ready"
        /\ ~card[job[j].task].deleted
        /\ card[job[j].task].revision = job[j].source
        => Applicable(j, job[j].fields, job[j].base)
=============================================================================
