--------------------------- MODULE WorkRunsProofs ---------------------------
(***************************************************************************)
(* Proofs about WorkRuns, for any hosts, runs, tasks, places, trees, kinds *)
(* and limits.                                                             *)
(***************************************************************************)
EXTENDS WorkRuns, FiniteSetTheorems, TLAPS

(***************************************************************************)
(* Rows.                                                                   *)
(***************************************************************************)
LEMMA AbsentType == Absent \in RunRow
  BY DEF Absent, RunRow, States, ProviderStates

\* The row a preparation writes.
Prepared(t, k, kind) ==
    [Absent EXCEPT !.state = "prepared", !.task = t, !.checkout = k,
                   !.kind = kind, !.expires = clock + Ttl, !.brief = task[t].version]

LEMMA PreparedRow ==
  ASSUME RunsTypeOK, NEW t \in Tasks, NEW k \in Checkouts, NEW kind \in Kinds
  PROVE  /\ Prepared(t, k, kind) \in RunRow
         /\ Prepared(t, k, kind).state = "prepared"
         /\ Prepared(t, k, kind).task = t
         /\ Prepared(t, k, kind).checkout = k
         /\ Prepared(t, k, kind).owner = NoHost
         /\ Prepared(t, k, kind).provider = "none"
  <1>1. clock + Ttl \in Nat /\ task[t].version \in Nat
    BY RunsAssumption DEF RunsTypeOK
  <1>2. QED
    BY <1>1, AbsentType DEF Prepared, RunRow, States, Absent

\* A request on a run that exists: its task, checkout, kind and expiry stay.
Kept(old, new) ==
    /\ new \in RunRow
    /\ new.task = old.task /\ new.checkout = old.checkout /\ new.expires = old.expires

(***************************************************************************)
(* What a request on an existing run does to its row.                      *)
(***************************************************************************)

\* A running attempt has its process recorded.
RunningRecorded == \A r \in Runs : run[r].state = "running" => run[r].pid

\* The row stays claimed by its owner, is claimed before it expires, or ends.
Change(old, new) ==
    /\ Kept(old, new)
    /\ old.state # "absent"
    /\ new.state \in Claimed \cup Ended
    /\ new.state \in Claimed =>
          \/ old.state \in Claimed /\ new.owner = old.owner
          \/ old.state = "prepared" /\ clock < old.expires /\ new.owner \in Hosts
    /\ new.state = "running" => new.pid
    /\ new.provider \in {"ready", "running", "completed"} => new.pid

Request(r) ==
    \/ \E h \in Hosts, answered \in BOOLEAN : Claim(h, r, answered)
    \/ Started(r) \/ Cancel(r)
    \/ FinishExited(r) \/ FinishFailed(r) \/ FinishUnresolved(r)
    \/ \E h \in Hosts : Reconcile(h, r)
    \/ \E p \in ProviderStates : Protocol(r, p)

LEMMA RequestRow ==
  ASSUME RunsTypeOK, RunningRecorded, ProviderHasProcess, NEW r \in Runs, Request(r)
  PROVE  \E row : run' = [run EXCEPT ![r] = row] /\ Change(run[r], row)
  <1> DEFINE old == run[r]
  <1>0. /\ run \in [Runs -> RunRow] /\ old \in RunRow
        /\ old.state = "running" => old.pid
        /\ old.provider \in {"ready", "running", "completed"} => old.pid
        /\ old.state \in Claimed => old.owner \in Hosts
    BY DEF RunsTypeOK, RunningRecorded, ProviderHasProcess
  <1>1. ASSUME NEW h \in Hosts, NEW answered \in BOOLEAN, Claim(h, r, answered)
        PROVE  \E row : run' = [run EXCEPT ![r] = row] /\ Change(run[r], row)
    <2> DEFINE row == [old EXCEPT !.state = "starting", !.owner = h]
    <2>1. Kept(old, row) /\ row.state = "starting" /\ row.owner = h
          /\ row.pid = old.pid /\ row.provider = old.provider
      BY <1>0 DEF Kept, RunRow, States
    <2>2. run' = [run EXCEPT ![r] = row]
      BY <1>0, <1>1 DEF Claim
    <2>3. Change(old, row)
      BY <1>0, <1>1, <2>1 DEF Change, Claim, Claimable, Claimed
    <2>4. QED
      BY <2>2, <2>3
  <1>2. CASE Started(r)
    <2> DEFINE row == [old EXCEPT !.state = "running", !.pid = TRUE]
    <2>1. Kept(old, row) /\ row.state = "running" /\ row.owner = old.owner /\ row.pid
      BY <1>0 DEF Kept, RunRow, States
    <2>2. run' = [run EXCEPT ![r] = row]
      BY <1>0, <1>2 DEF Started
    <2>3. Change(old, row)
      BY <1>2, <2>1 DEF Change, Started, Claimed
    <2>4. QED
      BY <2>2, <2>3
  <1>3. ASSUME Cancel(r) \/ \E h \in Hosts : Reconcile(h, r)
        PROVE  \E row : run' = [run EXCEPT ![r] = row] /\ Change(run[r], row)
    <2>1. PICK s \in Ended : run' = [run EXCEPT ![r].state = s] /\ old.state # "absent"
      BY <1>3 DEF Cancel, Reconcile, Ended, Cancellable, Reconcilable
    <2> DEFINE row == [old EXCEPT !.state = s]
    <2>2. Kept(old, row) /\ row.state = s /\ row.pid = old.pid /\ row.provider = old.provider
      BY <1>0 DEF Kept, RunRow, States, Ended
    <2>3. run' = [run EXCEPT ![r] = row]
      BY <1>0, <2>1
    <2>4. Change(old, row)
      BY <1>0, <2>1, <2>2 DEF Change, Claimed, Ended
    <2>5. QED
      BY <2>3, <2>4
  <1>4. ASSUME FinishExited(r) \/ FinishFailed(r) \/ FinishUnresolved(r)
        PROVE  \E row : run' = [run EXCEPT ![r] = row] /\ Change(run[r], row)
    <2>1. PICK s \in {"exited", "failed", "unresolved"} : Finish(r, s)
      BY <1>4 DEF FinishExited, FinishFailed, FinishUnresolved
    <2>2. PICK q \in FinishProvider(r, s) :
             run' = [run EXCEPT ![r].state = s, ![r].provider = q]
      BY <2>1 DEF Finish
    <2> DEFINE row == [old EXCEPT !.state = s, !.provider = q]
    <2>3. q \in ProviderStates /\ (q \in {"ready", "running", "completed"} => q = old.provider)
      BY <1>0 DEF FinishProvider, ProviderStates, RunRow
    <2>4. Kept(old, row) /\ row.state = s /\ row.owner = old.owner
          /\ row.pid = old.pid /\ row.provider = q
      BY <1>0, <2>3 DEF Kept, RunRow, States
    <2>5. run' = [run EXCEPT ![r] = row]
      BY <1>0, <2>2
    <2>6. old.state \in Claimed
      BY <2>1 DEF Finish
    <2>7. Change(old, row)
      BY <1>0, <2>3, <2>4, <2>6 DEF Change, Claimed, Ended
    <2>8. QED
      BY <2>5, <2>7
  <1>5. ASSUME NEW q \in ProviderStates, Protocol(r, q)
        PROVE  \E row : run' = [run EXCEPT ![r] = row] /\ Change(run[r], row)
    <2> DEFINE row == [old EXCEPT !.provider = q]
    <2>1. Kept(old, row) /\ row.state = old.state /\ row.owner = old.owner
          /\ row.pid = old.pid /\ row.provider = q
      BY <1>0 DEF Kept, RunRow
    <2>2. run' = [run EXCEPT ![r] = row]
      BY <1>0, <1>5 DEF Protocol
    <2>3. q \in {"ready", "running", "completed"} => old.state = "running"
      BY <1>0, <1>5 DEF Protocol, Follows, RunRow, ProviderStates
    <2>4. Change(old, row)
      BY <1>0, <1>5, <2>1, <2>3 DEF Change, Protocol, Claimed
    <2>5. QED
      BY <2>2, <2>4
  <1>6. QED
    BY <1>1, <1>2, <1>3, <1>4, <1>5 DEF Request

(***************************************************************************)
(* Rows: their types, and what a running attempt has on record.            *)
(***************************************************************************)
RowsOK == RunsTypeOK /\ RunningRecorded /\ ProviderHasProcess

\* One step on the rows: a preparation, a request on an existing run, or none.
Preparation(r) ==
    \E t \in Tasks, k \in Checkouts, kind \in Kinds, limit \in Limits :
        Prepare(r, t, k, kind, limit)

\* Steps that touch no row.
Aside ==
    \/ \E r \in Runs : Spawn(r) \/ ProcessExit(r)
    \/ \E t \in Tasks : EditTask(t) \/ RestoreTask(t) \/ \E even \in BOOLEAN : DeleteTask(t, even)
    \/ \E p \in Places : Relink(p)
    \/ \E h \in Hosts : HostCrash(h)
    \/ Tick
    \/ UNCHANGED vars

LEMMA StepKinds ==
  ASSUME [Next]_vars
  PROVE  (\E r \in Runs : Preparation(r) \/ Request(r)) \/ Aside
  BY DEF Next, RunStep, Preparation, Request, Aside

LEMMA AsideKeepsRows ==
  ASSUME Aside
  PROVE  run' = run
  BY DEF Aside, Spawn, ProcessExit, EditTask, RestoreTask, DeleteTask, Relink,
         HostCrash, Tick, vars

LEMMA RequestKeeps ==
  ASSUME NEW r \in Runs, Request(r)
  PROVE  UNCHANGED <<task, identity, clock, up, proc, forced>>
  BY DEF Request, Claim, Started, Cancel, FinishExited, FinishFailed, FinishUnresolved,
         Finish, Reconcile, Protocol

LEMMA RequestMandate ==
  ASSUME NEW r \in Runs, Request(r)
  PROVE  mandate' \subseteq mandate \cup {r}
  BY DEF Request, Claim, Started, Cancel, FinishExited, FinishFailed, FinishUnresolved,
         Finish, Reconcile, Protocol

\* The variables other than run keep their types in every step.
LEMMA OtherTypes ==
  ASSUME RunsTypeOK, [Next]_vars
  PROVE  /\ task' \in [Tasks -> [version : Nat, live : BOOLEAN]]
         /\ identity' \in Places
         /\ clock' \in Nat /\ clock' >= clock
         /\ up' \subseteq Hosts
         /\ mandate' \subseteq Runs
         /\ proc' \in [Runs -> {"none", "alive", "gone"}]
         /\ forced' \subseteq Tasks
  <1>0. /\ task \in [Tasks -> [version : Nat, live : BOOLEAN]]
        /\ identity \in Places /\ clock \in Nat /\ up \subseteq Hosts /\ mandate \subseteq Runs
        /\ proc \in [Runs -> {"none", "alive", "gone"}] /\ forced \subseteq Tasks
    BY DEF RunsTypeOK
  <1>1. ASSUME NEW r \in Runs, Preparation(r) PROVE UNCHANGED <<task, identity, clock, up, mandate, proc, forced>>
    BY <1>1 DEF Preparation, Prepare
  <1>2. ASSUME NEW r \in Runs, Request(r)
        PROVE  UNCHANGED <<task, identity, clock, up, proc, forced>> /\ mandate' \subseteq Runs
    BY <1>0, <1>2, RequestKeeps, RequestMandate
  <1>3. ASSUME NEW r \in Runs, Spawn(r) \/ ProcessExit(r)
        PROVE  /\ UNCHANGED <<task, identity, clock, up, forced>> /\ mandate' \subseteq Runs
               /\ proc' \in [Runs -> {"none", "alive", "gone"}]
    BY <1>0, <1>3 DEF Spawn, ProcessExit
  <1>4. ASSUME NEW t \in Tasks, EditTask(t) \/ RestoreTask(t) \/ \E even \in BOOLEAN : DeleteTask(t, even)
        PROVE  /\ UNCHANGED <<identity, clock, up, mandate, proc>> /\ forced' \subseteq Tasks
               /\ task' \in [Tasks -> [version : Nat, live : BOOLEAN]]
    <2>1. task[t].version + 1 \in Nat /\ task[t].live \in BOOLEAN
      BY <1>0
    <2>2. [task[t] EXCEPT !.version = task[t].version + 1] \in [version : Nat, live : BOOLEAN]
      BY <1>0, <2>1
    <2>3. \A b \in BOOLEAN : [version |-> task[t].version + 1, live |-> b] \in [version : Nat, live : BOOLEAN]
      BY <2>1
    <2>4. CASE EditTask(t)
      BY <1>0, <2>2, <2>4 DEF EditTask
    <2>5. CASE RestoreTask(t)
      BY <1>0, <2>3, <2>5 DEF RestoreTask
    <2>6. CASE \E even \in BOOLEAN : DeleteTask(t, even)
      BY <1>0, <2>3, <2>6 DEF DeleteTask
    <2>7. QED
      BY <1>4, <2>4, <2>5, <2>6
  <1>5. ASSUME NEW p \in Places, Relink(p)
        PROVE  /\ UNCHANGED <<clock, up, mandate, proc, forced>> /\ identity' \in Places
               /\ task' \in [Tasks -> [version : Nat, live : BOOLEAN]]
    <2>1. ASSUME NEW t \in Tasks
          PROVE  [task[t] EXCEPT !.version = task[t].version + 1] \in [version : Nat, live : BOOLEAN]
      BY <1>0
    <2>2. QED
      BY <1>5, <2>1 DEF Relink
  <1>6. ASSUME NEW h \in Hosts, HostCrash(h)
        PROVE  /\ UNCHANGED <<task, identity, clock, proc, forced>> /\ up' \subseteq Hosts
               /\ mandate' \subseteq Runs
    BY <1>0, <1>6 DEF HostCrash
  <1>7. CASE Tick
    BY <1>0, <1>7 DEF Tick
  <1>8. CASE UNCHANGED vars
    BY <1>0, <1>8 DEF vars
  <1>9. CASE Aside
    BY <1>0, <1>3, <1>4, <1>5, <1>6, <1>7, <1>8, <1>9 DEF Aside
  <1>10. CASE \E r \in Runs : Preparation(r) \/ Request(r)
    BY <1>0, <1>1, <1>2, <1>10
  <1>11. QED
    BY <1>9, <1>10, StepKinds

LEMMA RowsStep ==
  ASSUME RowsOK, [Next]_vars
  PROVE  RowsOK'
  <1>0. /\ run \in [Runs -> RunRow]
        /\ \A r \in Runs : run[r].state # "absent" => run[r].task \in Tasks /\ run[r].checkout \in Checkouts
        /\ \A r \in Runs : run[r].state \in Claimed => run[r].owner \in Hosts
        /\ \A r \in Runs : run[r].state = "running" => run[r].pid
        /\ \A r \in Runs : run[r].provider \in {"ready", "running", "completed"} => run[r].pid
    BY DEF RowsOK, RunsTypeOK, RunningRecorded, ProviderHasProcess
  <1> DEFINE Good(row) ==
        /\ row \in RunRow
        /\ row.state # "absent" => row.task \in Tasks /\ row.checkout \in Checkouts
        /\ row.state \in Claimed => row.owner \in Hosts
        /\ row.state = "running" => row.pid
        /\ row.provider \in {"ready", "running", "completed"} => row.pid
  <1>1. ASSUME NEW r \in Runs, Preparation(r)
        PROVE  \E row : run' = [run EXCEPT ![r] = row] /\ Good(row)
    <2>1. PICK t \in Tasks, k \in Checkouts, kind \in Kinds, limit \in Limits :
            Prepare(r, t, k, kind, limit)
      BY <1>1 DEF Preparation
    <2> DEFINE row == Prepared(t, k, kind)
    <2>2. run' = [run EXCEPT ![r] = row]
      BY <2>1 DEF Prepare, Prepared
    <2>3. /\ row \in RunRow /\ row.state = "prepared" /\ row.task = t
          /\ row.checkout = k /\ row.provider = "none"
      BY PreparedRow DEF RowsOK
    <2>4. Good(row)
      BY <2>3 DEF Claimed
    <2>5. QED
      BY <2>2, <2>4
  <1>2. ASSUME NEW r \in Runs, Request(r)
        PROVE  \E row : run' = [run EXCEPT ![r] = row] /\ Good(row)
    <2>1. PICK row : run' = [run EXCEPT ![r] = row] /\ Change(run[r], row)
      BY <1>2, RequestRow DEF RowsOK
    <2>2. Good(row)
      BY <1>0, <2>1 DEF Change, Kept
    <2>3. QED
      BY <2>1, <2>2
  <1>3. \A r \in Runs : Good(run[r])
    BY <1>0
  <1>4. run' \in [Runs -> RunRow] /\ \A r \in Runs : Good(run'[r])
    <2>1. CASE \E r \in Runs : Preparation(r) \/ Request(r)
      <3>1. PICK r \in Runs : Preparation(r) \/ Request(r)
        BY <2>1
      <3>2. PICK row : run' = [run EXCEPT ![r] = row] /\ Good(row)
        BY <1>1, <1>2, <3>1
      <3> HIDE DEF Good
      <3>3. \A q \in Runs : run'[q] = IF q = r THEN row ELSE run[q]
        BY <1>0, <3>2
      <3>4. row \in RunRow
        BY <3>2 DEF Good
      <3>5. QED
        BY <1>0, <1>3, <3>2, <3>3, <3>4
    <2>2. CASE Aside
      BY <1>0, <1>3, <2>2, AsideKeepsRows
    <2>3. QED
      BY <2>1, <2>2, StepKinds
  <1>5. RunsTypeOK'
    BY <1>4, OtherTypes DEF RunsTypeOK, RowsOK, Claimed
  <1>6. QED
    BY <1>4, <1>5 DEF RowsOK, RunningRecorded, ProviderHasProcess

(***************************************************************************)
(* Calm steps: every step but a preparation.  None of them makes a run     *)
(* active that was not, or moves an active run to another task or tree.    *)
(***************************************************************************)
Calm ==
    \A q \in Runs : Active(q)' =>
        /\ Active(q)
        /\ run'[q].checkout = run[q].checkout
        /\ run'[q].task = run[q].task

LEMMA RequestCalm ==
  ASSUME RowsOK, NEW r \in Runs, Request(r)
  PROVE  Calm
  <1>1. PICK row : run' = [run EXCEPT ![r] = row] /\ Change(run[r], row)
    BY RequestRow DEF RowsOK
  <1>2. clock' = clock /\ clock \in Nat /\ run \in [Runs -> RunRow]
    BY RequestKeeps DEF RowsOK, RunsTypeOK
  <1>3. \A q \in Runs : run'[q] = IF q = r THEN row ELSE run[q]
    BY <1>1, <1>2
  <1>4. run[r].expires \in Nat
    BY <1>2 DEF RunRow
  <1>5. SUFFICES ASSUME NEW q \in Runs, Active(q)'
                 PROVE  /\ Active(q)
                        /\ run'[q].checkout = run[q].checkout
                        /\ run'[q].task = run[q].task
    BY DEF Calm
  <1>6. CASE q = r
    <2>1. row.state \in Claimed
      BY <1>1, <1>3, <1>5, <1>6 DEF Active, Change, Claimed, Ended
    <2>2. QED
      BY <1>1, <1>2, <1>3, <1>4, <1>6, <2>1 DEF Active, Change, Kept
  <1>7. CASE q # r
    BY <1>2, <1>3, <1>5, <1>7 DEF Active
  <1>8. QED
    BY <1>6, <1>7

LEMMA AsideCalm ==
  ASSUME RunsTypeOK, Aside, [Next]_vars
  PROVE  Calm
  <1>1. /\ run' = run /\ clock' \in Nat /\ clock' >= clock /\ clock \in Nat
        /\ run \in [Runs -> RunRow]
    BY AsideKeepsRows, OtherTypes DEF RunsTypeOK
  <1>2. \A q \in Runs : run[q].expires \in Nat
    BY <1>1 DEF RunRow
  <1>3. QED
    BY <1>1, <1>2 DEF Calm, Active

\* What a preparation adds: one run, on a live task and a free checkout in place.
LEMMA PreparationAdds ==
  ASSUME RowsOK, NEW r \in Runs, Preparation(r)
  PROVE  /\ UNCHANGED <<task, identity, clock, up, mandate, proc, forced>>
         /\ run[r].state = "absent" /\ run'[r].state = "prepared"
         /\ run'[r].task \in Tasks /\ task[run'[r].task].live
         /\ run'[r].checkout[1] = identity
         /\ ~Busy(run'[r].checkout)
         /\ \A q \in Runs \ {r} : run'[q] = run[q]
         /\ \A q \in Runs \ {r} : Active(q)' <=> Active(q)
  <1>1. PICK t \in Tasks, k \in Checkouts, kind \in Kinds, limit \in Limits :
          Prepare(r, t, k, kind, limit)
    BY DEF Preparation
  <1> DEFINE row == Prepared(t, k, kind)
  <1>2. run' = [run EXCEPT ![r] = row] /\ run \in [Runs -> RunRow]
    BY <1>1 DEF Prepare, Prepared, RowsOK, RunsTypeOK
  <1>3. row.state = "prepared" /\ row.task = t /\ row.checkout = k
    BY PreparedRow DEF RowsOK
  <1> HIDE DEF row
  <1>4. run'[r] = row /\ \A q \in Runs \ {r} : run'[q] = run[q]
    BY <1>2
  <1>5. UNCHANGED <<task, identity, clock, up, mandate, proc, forced>>
    BY <1>1 DEF Prepare
  <1>6. run[r].state = "absent" /\ task[t].live /\ k[1] = identity /\ ~Busy(k)
    BY <1>1 DEF Prepare
  <1>7. \A q \in Runs \ {r} : Active(q)' <=> Active(q)
    BY <1>4, <1>5 DEF Active
  <1>8. QED
    BY <1>3, <1>4, <1>5, <1>6, <1>7

LEMMA CheckoutStep ==
  ASSUME RowsOK, OneRunPerCheckout, [Next]_vars
  PROVE  OneRunPerCheckout'
  <1>1. CASE Calm
    BY <1>1 DEF Calm, OneRunPerCheckout, ActiveRuns
  <1>2. ASSUME NEW r \in Runs, Preparation(r) PROVE OneRunPerCheckout'
    <2>1. /\ ~Busy(run'[r].checkout)
          /\ \A q \in Runs \ {r} : run'[q] = run[q] /\ (Active(q)' <=> Active(q))
      BY <1>2, PreparationAdds
    <2>2. \A q \in Runs \ {r} : Active(q)' => run'[q].checkout # run'[r].checkout
      BY <2>1 DEF Busy
    <2>3. SUFFICES ASSUME NEW p \in Runs, NEW q \in Runs, Active(p)', Active(q)',
                          run'[p].checkout = run'[q].checkout
                   PROVE  p = q
      BY DEF OneRunPerCheckout, ActiveRuns
    <2>4. CASE p = r \/ q = r
      BY <2>2, <2>3, <2>4
    <2>5. CASE p # r /\ q # r
      BY <2>1, <2>3, <2>5 DEF OneRunPerCheckout, ActiveRuns
    <2>6. QED
      BY <2>4, <2>5
  <1>3. QED
    BY <1>1, <1>2, StepKinds, RequestCalm, AsideCalm DEF RowsOK

LEMMA CapacityStep ==
  ASSUME RowsOK, CapacityKept, [Next]_vars
  PROVE  CapacityKept'
  <1>0. IsFiniteSet(ActiveRuns) /\ IsFiniteSet(ActiveRuns')
    BY RunsAssumption, FS_Subset DEF ActiveRuns
  <1>1. Cardinality(ActiveRuns) \in Nat /\ Cardinality(ActiveRuns') \in Nat
    BY <1>0, FS_CardinalityType
  <1>2. Limits \subseteq Nat
    BY RunsAssumption
  <1>3. CASE Calm
    <2>1. ActiveRuns' \subseteq ActiveRuns
      BY <1>3 DEF Calm, ActiveRuns
    <2>2. Cardinality(ActiveRuns') <= Cardinality(ActiveRuns)
      BY <1>0, <2>1, FS_Subset
    <2>3. QED
      BY <1>1, <1>2, <2>2 DEF CapacityKept
  <1>4. ASSUME NEW r \in Runs, Preparation(r) PROVE CapacityKept'
    <2>1. PICK limit \in Limits : Cardinality(ActiveRuns) < limit
      BY <1>4 DEF Preparation, Prepare, HasCapacity
    <2>2. ActiveRuns' \subseteq ActiveRuns \cup {r}
      BY <1>4, PreparationAdds DEF ActiveRuns
    <2>3. /\ IsFiniteSet(ActiveRuns \cup {r})
          /\ Cardinality(ActiveRuns \cup {r}) <= Cardinality(ActiveRuns) + 1
      <3>1. /\ IsFiniteSet(ActiveRuns \cup {r})
            /\ Cardinality(ActiveRuns \cup {r}) =
                 IF r \in ActiveRuns THEN Cardinality(ActiveRuns) ELSE Cardinality(ActiveRuns) + 1
        BY <1>0, FS_AddElement, Zenon
      <3>2. QED
        BY <1>1, <3>1
    <2>4. Cardinality(ActiveRuns') <= Cardinality(ActiveRuns \cup {r})
      BY <2>2, <2>3, FS_Subset
    <2>5. Cardinality(ActiveRuns \cup {r}) \in Nat
      BY <2>3, FS_CardinalityType
    <2>6. Cardinality(ActiveRuns') <= limit
      BY <1>1, <1>2, <2>1, <2>3, <2>4, <2>5
    <2>7. QED
      BY <2>6 DEF CapacityKept
  <1>5. QED
    BY <1>3, <1>4, StepKinds, RequestCalm, AsideCalm DEF RowsOK

LEMMA PlaceStep ==
  ASSUME RowsOK, InPlace, [Next]_vars
  PROVE  InPlace'
  <1>1. ASSUME Calm, identity' = identity PROVE InPlace'
    BY <1>1 DEF Calm, InPlace, ActiveRuns
  <1>2. ASSUME NEW p \in Places, Relink(p), Calm PROVE InPlace'
    BY <1>2 DEF Relink, RepositoryIdle, Calm, InPlace, ActiveRuns
  <1>3. ASSUME NEW r \in Runs, Preparation(r) PROVE InPlace'
    <2>1. /\ run'[r].checkout[1] = identity /\ identity' = identity
          /\ \A q \in Runs \ {r} : run'[q] = run[q] /\ (Active(q)' <=> Active(q))
      BY <1>3, PreparationAdds
    <2>2. QED
      BY <2>1 DEF InPlace, ActiveRuns
  <1>4. ASSUME NEW r \in Runs, Request(r) PROVE InPlace'
    BY <1>1, <1>4, RequestCalm, RequestKeeps
  <1>5. CASE Aside
    <2>1. Calm
      BY <1>5, AsideCalm DEF RowsOK
    <2>2. identity' = identity \/ \E p \in Places : Relink(p)
      BY <1>5 DEF Aside, Spawn, ProcessExit, EditTask, RestoreTask, DeleteTask,
                  HostCrash, Tick, vars
    <2>3. QED
      BY <1>1, <1>2, <2>1, <2>2
  <1>6. QED
    BY <1>3, <1>4, <1>5, StepKinds

LEMMA DeletedStep ==
  ASSUME RowsOK, DeletedNotInUse, [Next]_vars
  PROVE  DeletedNotInUse'
  <1>0. /\ task \in [Tasks -> [version : Nat, live : BOOLEAN]]
        /\ \A q \in Runs : Active(q) => run[q].task \in Tasks
    BY DEF RowsOK, RunsTypeOK, Active, Claimed
  <1> DEFINE Fine(t) == task[t].live \/ t \in forced
  <1>1. \A q \in Runs : Active(q) => Fine(run[q].task)
    BY DEF DeletedNotInUse, ActiveRuns
  <1>2. ASSUME Calm,
               \A t \in Tasks : Fine(t) /\ InUse(t) => task'[t].live \/ t \in forced'
        PROVE  DeletedNotInUse'
    <2>1. ASSUME NEW q \in Runs, Active(q)'
          PROVE  task'[run'[q].task].live \/ run'[q].task \in forced'
      <3>1. Active(q) /\ run'[q].task = run[q].task /\ run[q].task \in Tasks
        BY <1>0, <1>2, <2>1 DEF Calm
      <3>2. Fine(run[q].task) /\ InUse(run[q].task)
        BY <1>1, <3>1 DEF InUse
      <3>3. QED
        BY <1>2, <3>1, <3>2
    <2>2. QED
      BY <2>1 DEF DeletedNotInUse, ActiveRuns
  <1>3. ASSUME NEW r \in Runs, Preparation(r) PROVE DeletedNotInUse'
    <2>1. /\ task' = task /\ forced' = forced /\ task[run'[r].task].live
          /\ \A q \in Runs \ {r} : run'[q] = run[q] /\ (Active(q)' <=> Active(q))
      BY <1>3, PreparationAdds
    <2>2. QED
      BY <1>1, <2>1 DEF DeletedNotInUse, ActiveRuns
  <1>4. ASSUME NEW r \in Runs, Request(r) PROVE DeletedNotInUse'
    BY <1>2, <1>4, RequestCalm, RequestKeeps
  <1>5. CASE Aside
    <2>1. Calm
      BY <1>5, AsideCalm DEF RowsOK
    <2>2. SUFFICES ASSUME NEW t \in Tasks, Fine(t), InUse(t) PROVE Fine(t)'
      BY <1>2, <2>1
    <2>3. CASE UNCHANGED <<task, forced>>
      BY <2>2, <2>3
    <2>4. ASSUME NEW u \in Tasks, EditTask(u) PROVE Fine(t)'
      <3>1. task'[t].live = task[t].live /\ forced' = forced
        BY <1>0, <2>4 DEF EditTask
      <3>2. QED
        BY <2>2, <3>1
    <2>5. ASSUME NEW u \in Tasks, RestoreTask(u) PROVE Fine(t)'
      <3>1. CASE t = u
        BY <1>0, <2>5, <3>1 DEF RestoreTask
      <3>2. CASE t # u
        BY <1>0, <2>2, <2>5, <3>2 DEF RestoreTask
      <3>3. QED
        BY <3>1, <3>2
    <2>6. ASSUME NEW u \in Tasks, NEW even \in BOOLEAN, DeleteTask(u, even) PROVE Fine(t)'
      <3>1. CASE t = u
        BY <2>2, <2>6, <3>1 DEF DeleteTask
      <3>2. CASE t # u
        BY <1>0, <2>2, <2>6, <3>2 DEF DeleteTask
      <3>3. QED
        BY <3>1, <3>2
    <2>7. ASSUME NEW p \in Places, Relink(p) PROVE FALSE
      BY <2>2, <2>7 DEF Relink, RepositoryIdle, InUse, ActiveRuns
    <2>8. QED
      BY <1>5, <2>3, <2>4, <2>5, <2>6, <2>7
         DEF Aside, Spawn, ProcessExit, HostCrash, Tick, vars
  <1>6. QED
    BY <1>3, <1>4, <1>5, StepKinds

(***************************************************************************)
(* The rows account for the processes: a process that runs or may still be *)
(* started belongs to a claimed row, and the authority to start one lies   *)
(* with the live host that the row names.                                  *)
(***************************************************************************)
Accounted ==
    \A r \in Runs :
        /\ Writer(r) => run[r].state \in Claimed
        /\ proc[r] # "none" => run[r].state \in Claimed \cup Ended
        /\ r \in mandate => run[r].owner \in up /\ proc[r] = "none"

LEMMA RequestAccounted ==
  ASSUME RowsOK, Accounted, NEW r \in Runs, Request(r)
  PROVE  Accounted'
  <1>1. PICK row : run' = [run EXCEPT ![r] = row] /\ Change(run[r], row)
    BY RequestRow DEF RowsOK
  <1>2. up' = up /\ proc' = proc /\ mandate' \subseteq mandate \cup {r}
        /\ run \in [Runs -> RunRow]
    BY RequestKeeps, RequestMandate DEF RowsOK, RunsTypeOK
  <1>3. run'[r] = row /\ \A q \in Runs \ {r} : run'[q] = run[q]
    BY <1>1, <1>2
  <1>4. ASSUME NEW q \in Runs \ {r}
        PROVE  /\ Writer(q)' => run'[q].state \in Claimed
               /\ proc'[q] # "none" => run'[q].state \in Claimed \cup Ended
               /\ q \in mandate' => run'[q].owner \in up' /\ proc'[q] = "none"
    BY <1>2, <1>3 DEF Accounted, Writer
  <1>5. proc'[r] # "none" => run'[r].state \in Claimed \cup Ended
    BY <1>1, <1>3 DEF Change
  <1>6. ASSUME NEW h \in Hosts, NEW answered \in BOOLEAN, Claim(h, r, answered)
        PROVE  /\ Writer(r)' => run'[r].state \in Claimed
               /\ r \in mandate' => run'[r].owner \in up' /\ proc'[r] = "none"
    <2>1. run[r].state = "prepared" /\ h \in up
      BY <1>6 DEF Claim
    <2>2. proc[r] = "none"
      BY <2>1 DEF Accounted, Claimed, Ended
    <2>3. run'[r].state = "starting" /\ run'[r].owner = h
      BY <1>2, <1>6 DEF Claim, RunRow
    <2>4. QED
      BY <1>2, <2>1, <2>2, <2>3 DEF Claimed
  <1>7. ASSUME run[r].state \in Claimed, row.state \in Claimed, mandate' = mandate
        PROVE  /\ Writer(r)' => run'[r].state \in Claimed
               /\ r \in mandate' => run'[r].owner \in up' /\ proc'[r] = "none"
    <2>1. row.owner = run[r].owner
      BY <1>1, <1>7 DEF Change, Claimed
    <2>2. QED
      BY <1>2, <1>3, <1>7, <2>1 DEF Accounted
  <1>8. ASSUME proc[r] # "alive", r \notin mandate'
        PROVE  /\ Writer(r)' => run'[r].state \in Claimed
               /\ r \in mandate' => run'[r].owner \in up' /\ proc'[r] = "none"
    BY <1>2, <1>8 DEF Writer
  <1>9. CASE Started(r)
    <2>1. run[r].state \in Claimed /\ mandate' = mandate /\ run'[r].state = "running"
      BY <1>2, <1>9 DEF Started, Claimed, RunRow
    <2>2. QED
      BY <1>3, <1>4, <1>5, <1>7, <2>1 DEF Accounted, Claimed
  <1>10. CASE Cancel(r)
    <2>1. run[r].state = "prepared" /\ mandate' = mandate
      BY <1>10 DEF Cancel, Cancellable
    <2>2. proc[r] # "alive" /\ r \notin mandate
      BY <2>1 DEF Accounted, Writer, Claimed
    <2>3. QED
      BY <1>4, <1>5, <1>8, <2>1, <2>2 DEF Accounted
  <1>11. CASE FinishExited(r)
    <2>1. proc[r] = "gone" /\ mandate' = mandate
      BY <1>11 DEF FinishExited
    <2>2. r \notin mandate
      BY <2>1 DEF Accounted
    <2>3. QED
      BY <1>4, <1>5, <1>8, <2>1, <2>2 DEF Accounted
  <1>12. CASE FinishFailed(r)
    <2>1. proc[r] = "none" /\ mandate' = mandate \ {r}
      BY <1>12 DEF FinishFailed
    <2>2. QED
      BY <1>4, <1>5, <1>8, <2>1 DEF Accounted
  <1>13. CASE FinishUnresolved(r)
    <2>1. run[r].state \in Claimed /\ mandate' = mandate /\ Finish(r, "unresolved")
      BY <1>13 DEF FinishUnresolved, Finish
    <2>2. run'[r].state = "unresolved"
      BY <1>2, <2>1 DEF Finish, RunRow
    <2>3. QED
      BY <1>3, <1>4, <1>5, <1>7, <2>1, <2>2 DEF Accounted, Claimed
  <1>14. ASSUME NEW h \in Hosts, Reconcile(h, r) PROVE Accounted'
    <2>1. proc[r] # "alive" /\ run[r].owner \notin up /\ mandate' = mandate
      BY <1>14 DEF Reconcile
    <2>2. r \notin mandate
      BY <2>1 DEF Accounted
    <2>3. QED
      BY <1>4, <1>5, <1>8, <2>1, <2>2 DEF Accounted
  <1>15. ASSUME NEW p \in ProviderStates, Protocol(r, p) PROVE Accounted'
    <2>1. run[r].state \in Claimed /\ mandate' = mandate
      BY <1>15 DEF Protocol
    <2>2. run'[r].state = run[r].state
      BY <1>2, <1>15 DEF Protocol, RunRow
    <2>3. QED
      BY <1>3, <1>4, <1>5, <1>7, <2>1, <2>2 DEF Accounted
  <1>16. ASSUME NEW h \in Hosts, NEW answered \in BOOLEAN, Claim(h, r, answered) PROVE Accounted'
    BY <1>4, <1>5, <1>6, <1>16 DEF Accounted
  <1>17. QED
    BY <1>9, <1>10, <1>11, <1>12, <1>13, <1>14, <1>15, <1>16 DEF Request

LEMMA AccountedStep ==
  ASSUME RowsOK, Accounted, [Next]_vars
  PROVE  Accounted'
  <1>0. /\ run \in [Runs -> RunRow] /\ proc \in [Runs -> {"none", "alive", "gone"}]
        /\ mandate \subseteq Runs
    BY DEF RowsOK, RunsTypeOK
  <1>1. ASSUME NEW r \in Runs, Preparation(r) PROVE Accounted'
    <2>1. /\ up' = up /\ mandate' = mandate /\ proc' = proc
          /\ run[r].state = "absent" /\ run'[r].state = "prepared"
          /\ \A q \in Runs \ {r} : run'[q] = run[q]
      BY <1>1, PreparationAdds
    <2>2. ~Writer(r) /\ proc[r] = "none"
      BY <2>1 DEF Accounted, Claimed, Ended
    <2>3. QED
      BY <2>1, <2>2 DEF Accounted, Writer
  <1>2. ASSUME NEW r \in Runs, Request(r) PROVE Accounted'
    BY <1>2, RequestAccounted
  <1>3. CASE Aside
    <2>0. run' = run
      BY <1>3, AsideKeepsRows
    <2>1. CASE UNCHANGED <<up, mandate, proc>>
      BY <2>0, <2>1 DEF Accounted, Writer
    <2>2. ASSUME NEW r \in Runs, Spawn(r) PROVE Accounted'
      <3>1. /\ r \in mandate /\ proc' = [proc EXCEPT ![r] = "alive"]
            /\ mandate' = mandate \ {r} /\ up' = up
        BY <2>2 DEF Spawn
      <3>2. run[r].state \in Claimed
        BY <3>1 DEF Accounted, Writer
      <3>3. QED
        BY <1>0, <2>0, <3>1, <3>2 DEF Accounted, Writer
    <2>3. ASSUME NEW r \in Runs, ProcessExit(r) PROVE Accounted'
      <3>1. /\ proc[r] = "alive" /\ proc' = [proc EXCEPT ![r] = "gone"]
            /\ mandate' = mandate /\ up' = up
        BY <2>3 DEF ProcessExit
      <3>2. QED
        BY <1>0, <2>0, <3>1 DEF Accounted, Writer
    <2>4. ASSUME NEW h \in Hosts, HostCrash(h) PROVE Accounted'
      <3>1. /\ up' = up \ {h} /\ mandate' = {r \in mandate : run[r].owner # h} /\ proc' = proc
        BY <2>4 DEF HostCrash
      <3>2. QED
        BY <1>0, <2>0, <3>1 DEF Accounted, Writer
    <2>5. QED
      BY <1>3, <2>1, <2>2, <2>3, <2>4
         DEF Aside, EditTask, RestoreTask, DeleteTask, Relink, Tick, vars
  <1>4. QED
    BY <1>1, <1>2, <1>3, StepKinds

(***************************************************************************)
(* The inductive invariant and the theorems.                               *)
(***************************************************************************)
RunsInv ==
    /\ RowsOK
    /\ OneRunPerCheckout
    /\ CapacityKept
    /\ InPlace
    /\ DeletedNotInUse
    /\ Accounted

LEMMA InitInv ==
  ASSUME Init
  PROVE  RunsInv
  <1>1. /\ \A r \in Runs : /\ run[r] = Absent /\ run[r].state = "absent"
                          /\ run[r].provider = "none" /\ proc[r] = "none"
        /\ mandate = {} /\ Absent \in RunRow
    BY AbsentType DEF Init, Absent
  <1>2. RowsOK
    BY <1>1 DEF Init, RowsOK, RunsTypeOK, RunningRecorded, ProviderHasProcess, Claimed
  <1>3. ActiveRuns = {}
    BY <1>1 DEF ActiveRuns, Active, Claimed
  <1>4. Accounted
    BY <1>1 DEF Accounted, Writer
  <1>5. CapacityKept
    BY <1>3, FS_EmptySet DEF CapacityKept
  <1>6. QED
    BY <1>2, <1>3, <1>4, <1>5 DEF RunsInv, OneRunPerCheckout, InPlace, DeletedNotInUse

LEMMA StepInv ==
  ASSUME RunsInv, [Next]_vars
  PROVE  RunsInv'
  BY RowsStep, CheckoutStep, CapacityStep, PlaceStep, DeletedStep, AccountedStep DEF RunsInv

\* RunsInv holds throughout.
THEOREM Inductive == Spec => []RunsInv
  BY InitInv, StepInv, PTL DEF Spec

\* Every variable keeps its type and every claimed row names its owner.
THEOREM RunsTyped == Spec => []RunsTypeOK
  <1>1. RunsInv => RunsTypeOK
    BY DEF RunsInv, RowsOK
  <1>2. QED
    BY <1>1, Inductive, PTL

\* No two active runs name one checkout, for any number of runs and hosts.
THEOREM CheckoutExclusive == Spec => []OneRunPerCheckout
  <1>1. RunsInv => OneRunPerCheckout
    BY DEF RunsInv
  <1>2. QED
    BY <1>1, Inductive, PTL

\* The live attempts never outnumber the largest limit a host asked for.
THEOREM CapacityBounded == Spec => []CapacityKept
  <1>1. RunsInv => CapacityKept
    BY DEF RunsInv
  <1>2. QED
    BY <1>1, Inductive, PTL

\* The processes themselves are exclusive per working tree.
THEOREM WriterExclusive == Spec => []OneWriter
  <1>1. RunsInv => OneWriter
    BY DEF RunsInv, Accounted, OneRunPerCheckout, OneWriter, ActiveRuns, Active
  <1>2. QED
    BY <1>1, Inductive, PTL

\* An ended run has no process and nobody may start one for it.
THEOREM EndedRunsOver == Spec => []EndedIsOver
  <1>1. RunsInv => EndedIsOver
    BY DEF RunsInv, Accounted, EndedIsOver, Claimed, Ended
  <1>2. QED
    BY <1>1, Inductive, PTL

\* No relink moves the repository under a prepared or live attempt.
THEOREM RelinkRespectsRuns == Spec => []InPlace
  <1>1. RunsInv => InPlace
    BY DEF RunsInv, RowsOK
  <1>2. QED
    BY <1>1, Inductive, PTL

\* No delete leaves a prepared or live attempt on a deleted task unless it says so.
THEOREM DeleteRespectsRuns == Spec => []DeletedNotInUse
  <1>1. RunsInv => DeletedNotInUse
    BY DEF RunsInv, RowsOK
  <1>2. QED
    BY <1>1, Inductive, PTL

\* A provider's reports (runs.protocol) are about a recorded process.
THEOREM ReportsGrounded == Spec => []ProviderHasProcess
  <1>1. RunsInv => ProviderHasProcess
    BY DEF RunsInv, RowsOK
  <1>2. QED
    BY <1>1, Inductive, PTL

=============================================================================
