----------------------------- MODULE TaskLease -----------------------------
(***************************************************************************)
(* The task leases of rust/dc-store: many short-lived dcstore processes on *)
(* one SQLite file.  A statement or an IMMEDIATE transaction is one step;  *)
(* between two statements of a call every other client may run, the clock  *)
(* may advance, and the process may die.                                   *)
(*                                                                         *)
(* A lease's row id and its token are drawn together, at random and once,  *)
(* so one identifier stands for both.  The partial unique index over       *)
(* active rows is deliberately NOT a guard of the insert: OneActive says   *)
(* that the transaction's own check already makes the index idle.          *)
(***************************************************************************)
EXTENDS Naturals, FiniteSets

CONSTANTS
    Clients,      \* dcstore processes
    Tasks,        \* work items of this repository
    LeaseIds,     \* the lease rows (and tokens) that may ever be issued
    Files,        \* paths an executor may add to its task's scope
    Ttls,         \* the ttl_seconds callers ask for, all valid; NoExpiry for none
    Ops,          \* the multi-statement calls clients make
    Board,        \* the item states a board edit may leave
    Foreign,      \* whether another program writes unreadable expiries
    Crashes,      \* whether a process may die between two statements
    MaxTime,      \* bound: the clock stops here
    MaxPasses,    \* MAX_EXPIRY_PASSES
    MaxAttempts,  \* maxScopeAppendAttempts of the Go client
    NoLease,      \* no row; also a token this store never issued
    NoTask,
    NoExpiry,     \* expires_at IS NULL
    Unreadable    \* an expires_at that parse_iso_utc refuses

ASSUME BoundsAssumption ==
    /\ MaxTime \in Nat
    /\ MaxPasses \in Nat \ {0}
    /\ MaxAttempts \in Nat \ {0}
    /\ Ttls \subseteq (Nat \ {0}) \cup {NoExpiry}
    /\ Foreign \in BOOLEAN
    /\ Crashes \in BOOLEAN
    /\ Board \subseteq {"ready", "in_progress", "done", "archived", "deleted"}

ASSUME NullAssumption ==
    /\ NoLease \notin LeaseIds
    /\ NoTask \notin Tasks
    /\ NoExpiry \notin Nat
    /\ Unreadable \notin Nat
    /\ NoExpiry # Unreadable

VARIABLES
    lease,    \* task_leases, by row id; status "unissued" before the insert
    item,     \* what require_acquirable reads of work_items
    scope,    \* task_scope_appends.planned_files_json, as a set of paths
    clock,    \* now_epoch()
    call,     \* the local state of each client's call in progress
    truth,    \* ghost: codes that were true at some instant of the call
    owed,     \* ghost: tasks offerable at every instant of the call so far
    granted   \* ghost: paths some client was told are written

store == <<lease, item, scope, clock>>
ghost == <<truth, owed, granted>>
vars == <<lease, item, scope, clock, call, truth, owed, granted>>

Expiry == Nat \cup {NoExpiry, Unreadable}
LeaseStatus == {"unissued", "active", "stale", "released"}
Row == [task : Tasks \cup {NoTask}, status : LeaseStatus, expires : Expiry]
ItemStates == {"ready", "in_progress", "done", "archived", "deleted"}
Codes == {"valid", "held_by_other", "expired", "invalid", "bad_timestamp"}
Answers == Codes \cup {"none", "released", "renewed", "refused", "changed",
                       "listed", "written", "stale"}

Call == [pc : {"idle", "next", "select", "judge", "retire", "prior",
               "release", "stamp", "renew", "list", "swap", "done"},
         op : {"none", "diagnose", "release", "renew", "ready", "widen"},
         task : Tasks \cup {NoTask},
         token : LeaseIds \cup {NoLease},
         obs : LeaseIds \cup {NoLease},  \* the row select_active returned
         exp : Expiry,                   \* and its expires_at as read
         now : Nat,                      \* renew's own reading of the clock
         pass : Nat,                     \* expiry passes or swap attempts lost
         todo : SUBSET Tasks,            \* tasks the sweep has still to visit
         want : SUBSET Files,            \* paths a widening asks for
         base : SUBSET Files,            \* the scope its merge was computed on
         offer : SUBSET Tasks,           \* what ready_tasks lists
         ans : Answers]

\* A call that judges, retires, releases or renews has read a row.
Working == {r \in Call : r.pc \in {"judge", "retire", "release", "stamp", "renew"}
                            => r.obs \in LeaseIds}

Idle == [pc |-> "idle", op |-> "none", task |-> NoTask, token |-> NoLease,
         obs |-> NoLease, exp |-> NoExpiry, now |-> 0, pass |-> 0,
         todo |-> {}, want |-> {}, base |-> {}, offer |-> {}, ans |-> "none"]

-----------------------------------------------------------------------------
(* What the statements read.                                               *)

\* select_active: the rows with this task_id and status 'active'.
ActiveOf(t) == {l \in LeaseIds : lease[l].task = t /\ lease[l].status = "active"}

Readable(e) == e # NoExpiry /\ e # Unreadable
Past(e, now) == Readable(e) /\ now > e

\* The rows that still hold their task: not past their expiry.  A row whose
\* expiry cannot be read is one of them, it fails closed.
Holding(t) == {l \in ActiveOf(t) : ~Past(lease[l].expires, clock)}

Issued == {l \in LeaseIds : lease[l].status # "unissued"}

\* is_local_item
IsLocalItem(t) == item[t] # "deleted"

\* require_acquirable
Acquirable(t) == item[t] \in {"ready", "in_progress"}

\* The listing statement of ready_tasks.  Whether a task is blocked by a gap
\* only orders and filters the list, and is left to the gap history.
ReadyRow(t) == item[t] = "ready" /\ ActiveOf(t) = {}

-----------------------------------------------------------------------------
(* Clients' calls, statement by statement.                                 *)

Become(c, r) == call' = [call EXCEPT ![c] = r]

Goto(c, pc) == Become(c, [call[c] EXCEPT !.pc = pc])

Answer(r, a) == [Idle EXCEPT !.pc = "done", !.op = r.op, !.task = r.task,
                             !.token = r.token, !.ans = a]

Reply(c, a) == Become(c, Answer(call[c], a))

\* Mutant: one unreadable expiry fails the sweep of every task.
SweepStopsAtBad(found) == found \in {"none", "live"}

\* What sweep_expired takes in its stride: an unreadable row is set aside and
\* the sweep goes on to the next task.
SweepTolerates(found) == found \in {"none", "live", "bad"}

\* Where a call goes once active_lease returned: "none", "live" (the row in
\* r.obs) or "bad" (its expiry is unreadable).
After(r, found) ==
    CASE r.op = "ready" /\ SweepTolerates(found) ->
            [r EXCEPT !.pc = "next", !.obs = NoLease, !.exp = NoExpiry, !.pass = 0]
      [] r.op # "ready" /\ found = "bad" -> Answer(r, "bad_timestamp")
      [] r.op = "diagnose" /\ found = "live" ->
            Answer(r, IF r.obs = r.token THEN "valid" ELSE "held_by_other")
      [] r.op = "diagnose" /\ found = "none" -> [r EXCEPT !.pc = "prior"]
      [] r.op = "release" /\ found = "live" /\ r.obs = r.token ->
            [r EXCEPT !.pc = "release"]
      [] r.op = "renew" /\ found = "live" /\ r.obs = r.token ->
            [r EXCEPT !.pc = "stamp"]
      [] OTHER -> Answer(r, "refused")

\* A client presents a token: one that was issued at some time, to anyone, or
\* one the store never issued.
Begin(c, op, t, k) ==
    /\ call[c].pc = "idle"
    /\ op \in Ops \cap {"diagnose", "release", "renew"}
    /\ k \in Issued \cup {NoLease}
    /\ Become(c, [Idle EXCEPT !.pc = "select", !.op = op, !.task = t, !.token = k])
    /\ UNCHANGED store

\* Mutant: ready_tasks lists without applying expiry first.
NoSweep == {}

\* The tasks sweep_expired visits: those with an active row.
SweepTasks == {t \in Tasks : ActiveOf(t) # {}}

BeginReady(c) ==
    /\ call[c].pc = "idle"
    /\ "ready" \in Ops
    /\ Become(c, [Idle EXCEPT !.pc = "next", !.op = "ready", !.todo = SweepTasks])
    /\ UNCHANGED store

SweepNext(c) ==
    /\ call[c].pc = "next"
    /\ \E t \in call[c].todo :
          Become(c, [call[c] EXCEPT !.pc = "select", !.task = t,
                                    !.todo = call[c].todo \ {t}])
    /\ UNCHANGED store

SweepDone(c) ==
    /\ call[c].pc = "next"
    /\ call[c].todo = {}
    /\ Goto(c, "list")
    /\ UNCHANGED store

List(c) ==
    /\ call[c].pc = "list"
    /\ Become(c, [Answer(call[c], "listed") EXCEPT !.offer = {t \in Tasks : ReadyRow(t)}])
    /\ UNCHANGED store

-----------------------------------------------------------------------------
(* active_lease: read a row, judge its expiry against the clock, retire it *)
(* with one conditional UPDATE, and start over when that UPDATE lost.      *)

SelectNone(c) ==
    /\ call[c].pc = "select"
    /\ ActiveOf(call[c].task) = {}
    /\ Become(c, After(call[c], "none"))
    /\ UNCHANGED store

SelectRow(c) ==
    /\ call[c].pc = "select"
    /\ \E l \in ActiveOf(call[c].task) :
          Become(c, [call[c] EXCEPT !.pc = "judge", !.obs = l,
                                    !.exp = lease[l].expires])
    /\ UNCHANGED store

JudgeLive(c) ==
    /\ call[c].pc = "judge"
    /\ call[c].exp # Unreadable
    /\ ~Past(call[c].exp, clock)
    /\ Become(c, After(call[c], "live"))
    /\ UNCHANGED store

JudgeBad(c) ==
    /\ call[c].pc = "judge"
    /\ call[c].exp = Unreadable
    /\ Become(c, After(call[c], "bad"))
    /\ UNCHANGED store

JudgePast(c) ==
    /\ call[c].pc = "judge"
    /\ Past(call[c].exp, clock)
    /\ Goto(c, "retire")
    /\ UNCHANGED store

\* Mutants: retire forgets one half of its WHERE clause.
SameExpiryOnly(c) == lease[call[c].obs].expires = call[c].exp
StillActiveOnly(c) == lease[call[c].obs].status = "active"

\* The WHERE clause of retire: still active, still the expiry that was judged.
StillAsRead(c) ==
    /\ lease[call[c].obs].status = "active"
    /\ lease[call[c].obs].expires = call[c].exp

RetireWon(c) ==
    /\ call[c].pc = "retire"
    /\ StillAsRead(c)
    /\ lease' = [lease EXCEPT ![call[c].obs].status = "stale"]
    /\ Become(c, After(call[c], "none"))
    /\ UNCHANGED <<item, scope, clock>>

RetireLost(c) ==
    /\ call[c].pc = "retire"
    /\ ~StillAsRead(c)
    /\ call[c].pass + 1 < MaxPasses
    /\ Become(c, [call[c] EXCEPT !.pc = "select", !.obs = NoLease,
                                 !.exp = NoExpiry, !.pass = call[c].pass + 1])
    /\ UNCHANGED store

\* The lease changed on every read: LeaseHeld, which fails a sweep as a whole.
GiveUp(c) ==
    /\ call[c].pc = "retire"
    /\ ~StillAsRead(c)
    /\ call[c].pass + 1 >= MaxPasses
    /\ Reply(c, "changed")
    /\ UNCHANGED store

-----------------------------------------------------------------------------
(* diagnose, release and renew after active_lease.                         *)

\* Mutant: a released token reads as one that was never issued.
StaleOnly == {"stale"}

\* The statuses of a prior row that make a token "check out again".
EndedStatus == {"stale", "released"}

Prior(c) ==
    /\ call[c].pc = "prior"
    /\ LET k == call[c].token
           was == /\ k \in LeaseIds
                  /\ lease[k].task = call[c].task
                  /\ lease[k].status \in EndedStatus
       IN Reply(c, IF was THEN "expired" ELSE "invalid")
    /\ UNCHANGED store

\* UPDATE ... SET status = 'released' WHERE id AND lease_token AND 'active'.
ReleaseWrite(c) ==
    /\ call[c].pc = "release"
    /\ LET l == call[c].obs
       IN IF lease[l].status = "active" /\ l = call[c].token
          THEN /\ lease' = [lease EXCEPT ![l].status = "released"]
               /\ Reply(c, "released")
          ELSE /\ Reply(c, "refused")
               /\ UNCHANGED lease
    /\ UNCHANGED <<item, scope, clock>>

\* renew reads the clock once more; the UPDATE below may run much later.
RenewStamp(c) ==
    /\ call[c].pc = "stamp"
    /\ IF Past(call[c].exp, clock)
       THEN Reply(c, "refused")
       ELSE Become(c, [call[c] EXCEPT !.pc = "renew", !.now = clock])
    /\ UNCHANGED store

\* The WHERE clause of renew's UPDATE.
Renewable(l, t, now) ==
    /\ lease[l].task = t
    /\ lease[l].status = "active"
    /\ \/ lease[l].expires = NoExpiry
       \/ Readable(lease[l].expires) /\ lease[l].expires >= now

RenewWrite(c) ==
    /\ call[c].pc = "renew"
    /\ LET l == call[c].obs
       IN IF Renewable(l, call[c].task, call[c].now) /\ l = call[c].token
          THEN /\ \E ttl \in Ttls \ {NoExpiry} :
                     lease' = [lease EXCEPT ![l].expires = call[c].now + ttl]
               /\ Reply(c, "renewed")
          ELSE /\ Reply(c, "refused")
               /\ UNCHANGED lease
    /\ UNCHANGED <<item, scope, clock>>

-----------------------------------------------------------------------------
(* acquire: one IMMEDIATE transaction, rolled back on every refusal.       *)

\* expires_at of a lease minted now; no ttl is no expiry.
ExpiresAt(ttl) == IF ttl = NoExpiry THEN NoExpiry ELSE clock + ttl

\* Mutant: force does not retire the incumbent.
RetiredLapsed(t, force) == {l \in ActiveOf(t) : Past(lease[l].expires, clock)}

\* The rows the transaction marks stale: the one active_lease found lapsed,
\* and under force whatever is still active.
Retired(t, force) ==
    {l \in ActiveOf(t) : force \/ Past(lease[l].expires, clock)}

Acquire(t, force, ttl) ==
    /\ Acquirable(t)
    /\ Holding(t) # {} => force
    /\ \E new \in LeaseIds \ Issued :
          lease' = [l \in LeaseIds |->
                       IF l = new
                       THEN [task |-> t, status |-> "active", expires |-> ExpiresAt(ttl)]
                       ELSE IF l \in Retired(t, force)
                       THEN [lease[l] EXCEPT !.status = "stale"]
                       ELSE lease[l]]
    /\ UNCHANGED <<item, scope, clock, call>>

-----------------------------------------------------------------------------
(* Widening a task's own scope: the Go client reads the task, merges, and  *)
(* swaps; the store checks lease and expected text in one transaction.     *)

BeginWiden(c, t, k, f) ==
    /\ call[c].pc = "idle"
    /\ "widen" \in Ops
    /\ IsLocalItem(t)
    /\ f \notin scope[t]
    /\ k \in Issued \cup {NoLease}
    /\ Become(c, [Idle EXCEPT !.pc = "swap", !.op = "widen", !.task = t,
                              !.token = k, !.want = {f}, !.base = scope[t]])
    /\ UNCHANGED store

\* diagnose inside the swap's transaction answers "valid".
Authorised(c) ==
    /\ IsLocalItem(call[c].task)
    /\ \E l \in Holding(call[c].task) :
          l = call[c].token /\ lease[l].expires # Unreadable

\* Mutant: the replacement lands on whatever is stored.
AnyScope(c) == TRUE

\* The swap's WHERE clause: the stored text is the one the caller merged into.
ScopeAsRead(c) == scope[call[c].task] = call[c].base

SwapWritten(c) ==
    /\ call[c].pc = "swap"
    /\ Authorised(c)
    /\ ScopeAsRead(c)
    /\ scope' = [scope EXCEPT ![call[c].task] = call[c].base \cup call[c].want]
    /\ Become(c, [Answer(call[c], "written") EXCEPT !.want = call[c].want])
    /\ UNCHANGED <<lease, item, clock>>

\* The swap lost: the merge is computed again on what the store handed back,
\* unless there is nothing left to add or the attempts are used up.
SwapStale(c) ==
    /\ call[c].pc = "swap"
    /\ Authorised(c)
    /\ LET current == scope[call[c].task]
       IN /\ ~ScopeAsRead(c)
          /\ IF call[c].pass + 1 < MaxAttempts /\ ~(call[c].want \subseteq current)
             THEN Become(c, [call[c] EXCEPT !.base = current,
                                            !.pass = call[c].pass + 1])
             ELSE Reply(c, "stale")
    /\ UNCHANGED store

\* Refused; the transaction still commits the stale mark diagnose left.
SwapRefused(c) ==
    /\ call[c].pc = "swap"
    /\ ~Authorised(c)
    /\ lease' = [l \in LeaseIds |->
                    IF IsLocalItem(call[c].task) /\ l \in Retired(call[c].task, FALSE)
                    THEN [lease[l] EXCEPT !.status = "stale"]
                    ELSE lease[l]]
    /\ Reply(c, "refused")
    /\ UNCHANGED <<item, scope, clock>>

-----------------------------------------------------------------------------
(* The caller takes its answer; a process dies; the world moves.           *)

Return(c) ==
    /\ call[c].pc = "done"
    /\ Become(c, Idle)
    /\ UNCHANGED store

Crash(c) ==
    /\ Crashes
    /\ call[c].pc \notin {"idle", "done"}
    /\ Become(c, Idle)
    /\ UNCHANGED store

Tick ==
    /\ clock < MaxTime
    /\ clock' = clock + 1
    /\ UNCHANGED <<lease, item, scope, call>>

\* An edit on the board moves, archives, deletes or restores an item.
BoardEdit(t, s) ==
    /\ item[t] # s
    /\ item' = [item EXCEPT ![t] = s]
    /\ UNCHANGED <<lease, scope, clock, call>>

\* Another program that shares the file leaves an expiry this store cannot read.
ForeignExpiry(l) ==
    /\ Foreign
    /\ lease[l].status = "active"
    /\ lease[l].expires # Unreadable
    /\ lease' = [lease EXCEPT ![l].expires = Unreadable]
    /\ UNCHANGED <<item, scope, clock, call>>

-----------------------------------------------------------------------------
(* Ghost observations, made at every step.                                 *)

\* What diagnose should say of token k on task t at this instant.
CodeNow(t, k) ==
    IF \E l \in Holding(t) : lease[l].expires = Unreadable THEN "bad_timestamp"
    ELSE IF k \in Holding(t) THEN "valid"
    ELSE IF Holding(t) # {} THEN "held_by_other"
    ELSE IF \E l \in Issued : l = k /\ lease[l].task = t THEN "expired"
    ELSE "invalid"

\* A task that nobody holds and that is ready: ready_tasks owes it to callers.
Offerable(t) == item[t] = "ready" /\ Holding(t) = {}

Observe ==
    /\ truth' = [c \in Clients |->
          IF call'[c].op \notin {"diagnose", "release", "renew"} THEN {}
          ELSE truth[c] \cup {CodeNow(call[c].task, call[c].token)'}]
    /\ owed' = [c \in Clients |->
          IF call'[c].op # "ready" THEN {}
          ELSE IF call[c].op # "ready" THEN {t \in Tasks : Offerable(t)'}
          ELSE {t \in owed[c] : Offerable(t)'}]
    /\ granted' = [t \in Tasks |-> granted[t] \cup
          UNION {call'[c].want : c \in {d \in Clients :
                     call'[d].ans = "written" /\ call'[d].task = t}}]

Init ==
    /\ lease = [l \in LeaseIds |->
                  [task |-> NoTask, status |-> "unissued", expires |-> NoExpiry]]
    /\ item = [t \in Tasks |-> "ready"]
    /\ scope = [t \in Tasks |-> {}]
    /\ clock = 0
    /\ call = [c \in Clients |-> Idle]
    /\ truth = [c \in Clients |-> {}]
    /\ owed = [c \in Clients |-> {}]
    /\ granted = [t \in Tasks |-> {}]

ActiveLease(c) ==
    SelectNone(c) \/ SelectRow(c) \/ JudgeLive(c) \/ JudgeBad(c) \/ JudgePast(c)
        \/ RetireWon(c) \/ RetireLost(c) \/ GiveUp(c)

\* The statements of a call that has begun.
Continue(c) ==
    \/ ActiveLease(c)
    \/ SweepNext(c) \/ SweepDone(c) \/ List(c)
    \/ Prior(c) \/ ReleaseWrite(c) \/ RenewStamp(c) \/ RenewWrite(c)
    \/ SwapWritten(c) \/ SwapStale(c) \/ SwapRefused(c)
    \/ Return(c)

ClientStep(c) ==
    \/ \E op \in Ops, t \in Tasks, k \in LeaseIds \cup {NoLease} : Begin(c, op, t, k)
    \/ BeginReady(c)
    \/ \E t \in Tasks, k \in LeaseIds \cup {NoLease}, f \in Files : BeginWiden(c, t, k, f)
    \/ Continue(c)
    \/ Crash(c)

Environment ==
    \/ Tick
    \/ \E t \in Tasks, force \in BOOLEAN, ttl \in Ttls : Acquire(t, force, ttl)
    \/ \E t \in Tasks, s \in Board : BoardEdit(t, s)
    \/ \E l \in LeaseIds : ForeignExpiry(l)

Next == ((\E c \in Clients : ClientStep(c)) \/ Environment) /\ Observe

Spec == Init /\ [][Next]_vars

\* A call that has begun runs on, and hosts keep asking for the next task
\* (devcouncil_next_task calls ready_tasks and nothing else).
Fairness ==
    \A c \in Clients : /\ WF_vars(Continue(c) /\ Observe)
                       /\ SF_vars(BeginReady(c) /\ Observe)

FairSpec == Spec /\ Fairness

-----------------------------------------------------------------------------
(* Properties.                                                             *)

\* Every variable has its type; issued rows name a task of this repository, and
\* a call acts on a row only after reading one.
TypeOK ==
    /\ lease \in [LeaseIds -> Row]
    /\ \A l \in Issued : lease[l].task \in Tasks
    /\ item \in [Tasks -> ItemStates]
    /\ scope \in [Tasks -> SUBSET Files]
    /\ clock \in Nat
    /\ call \in [Clients -> Working]
    /\ truth \in [Clients -> SUBSET Codes]
    /\ owed \in [Clients -> SUBSET Tasks]
    /\ granted \in [Tasks -> SUBSET Files]

\* Mutual exclusion: a task never has two active lease rows, whatever calls
\* overlap.  It follows from acquire_in_transaction alone, without the unique
\* index, so the constraint-violation branch after the insert is never taken.
OneActive == \A t \in Tasks : \A l, m \in ActiveOf(t) : l = m

\* Every answer diagnose, release and renew give was true at some instant
\* between the call and the answer, although each is several statements: a
\* "valid" token did hold the task, an "expired" one had been issued for it,
\* "invalid" was never issued for it, a success was the live holder's, and the
\* token of a refused release was not the live holder's at that instant.
AnswersTrue ==
    \A c \in Clients :
        LET a == call[c].ans IN
        /\ a \in Codes => a \in truth[c]
        /\ a \in {"released", "renewed"} => "valid" \in truth[c]
        /\ (a = "refused" /\ call[c].op = "release") => truth[c] # {"valid"}

\* The comments on renew: None means that "the token does not hold the lease, or
\* the lease already expired", and "another renewal by this same holder remains
\* valid; check the live expiry instead of requiring its earlier snapshot".  So
\* a refused renewal's token was not the live holder's at some instant.
RefusedRenewalTrue ==
    \A c \in Clients :
        (call[c].ans = "refused" /\ call[c].op = "renew") => truth[c] # {"valid"}

\* A task that was ready and held by nobody from the first statement of
\* ready_tasks to the last is in its list: a crashed builder's lapsed lease
\* does not hide the task, whoever else sweeps or renews meanwhile, and one
\* task's unreadable expiry does not fail the listing of the others.  Only a
\* lease that changes on every read may do that.
OffersComplete ==
    \A c \in Clients :
        (call[c].pc = "done" /\ call[c].op = "ready" /\ call[c].ans # "changed") =>
            call[c].ans = "listed" /\ owed[c] \subseteq call[c].offer

\* No widening a client was told is written disappears from the task's scope,
\* although each client merges into a scope it read in an earlier statement.
NoLostWidening == \A t \in Tasks : granted[t] \subseteq scope[t]

\* A lease that ended is never rewritten: stale stays stale, released stays
\* released, and a late renewal leaves its expiry alone.
EndedForever ==
    [][\A l \in LeaseIds :
          lease[l].status \in {"stale", "released"} => lease'[l] = lease[l]]_vars

\* A lease turns stale only once its stored expiry is past, or in the very step
\* that forces a new lease on its task: a reader that judged an old expiry
\* never takes a lease that was renewed since.
StaleOnlyLapsed ==
    [][\A l \in LeaseIds :
          (lease[l].status = "active" /\ lease'[l].status = "stale") =>
             \/ Past(lease[l].expires, clock)
             \/ \E n \in LeaseIds : /\ lease[n].status = "unissued"
                                    /\ lease'[n].status = "active"
                                    /\ lease'[n].task = lease[l].task]_vars

\* Refinement: the store implements LeaseHolder, the active row of a task being
\* its holder and the issued rows the used tokens.
Holder == INSTANCE LeaseHolder WITH
              Tokens <- LeaseIds,
              holder <- [t \in Tasks |-> ActiveOf(t)],
              used <- Issued
HolderSpec == Holder!Spec

\* There is no sweeper: expiry is only noticed by reads.  Even so a lapsed lease
\* is eventually cleared from its task by the hosts that keep asking for work.
LapsedCleared ==
    \A t \in Tasks : ActiveOf(t) # Holding(t) ~> ActiveOf(t) = Holding(t)
=============================================================================
