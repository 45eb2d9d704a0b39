-------------------------- MODULE EnhancementsProofs -------------------------
(***************************************************************************)
(* For every number of tasks, fields, texts, proposals and workers, and    *)
(* whatever the bounds: one model call per profile, no more automatic ones *)
(* than the quota, none while automation is off, and a current proposal    *)
(* fits its task.                                                          *)
(***************************************************************************)
EXTENDS Enhancements, FiniteSetTheorems, TLAPS

CardRow == [revision : Nat, text : Wording, locked : SUBSET Fields, deleted : BOOLEAN]

JobRow == [state : JobStates, task : Cards, source : Nat, base : Wording,
           fields : SUBSET Fields, proposed : Wording, accepted : SUBSET Fields,
           automatic : BOOLEAN, settings : Nat, worker : Workers \cup {NoWorker},
           created : Nat, expires : Nat]

\* Of a proposal's row, as it is or is about to be.
InCall(row) == row.state \in {"running", "cancel_requested"}
Claimable(row) == row.state = "pending" /\ clock < row.expires
Counts(row) == InCall(row) \/ Claimable(row)
OffDuty(row) ==
    ~settings.enabled /\ row.automatic => row.state # "running" /\ ~Claimable(row)

\* The task has not gone back behind the revision a proposal was made on, and at
\* that revision it says what it said then.
Fits(row) ==
    /\ row.source <= card[row.task].revision
    /\ row.source = card[row.task].revision =>
         /\ row.fields \cap card[row.task].locked = {}
         /\ \A f \in row.fields : card[row.task].text[f] = row.base[f]

Sourced == \A j \in Jobs : job[j].state # "none" => Fits(job[j])

\* A new automatic proposal within the window.
Spends(j, row) ==
    /\ row.state # "none" /\ row.automatic
    /\ ~(job[j].state # "none" /\ job[j].automatic /\ job[j].created = row.created)

QuotaKept == IsFiniteSet(Recent) /\ WithinQuota

EnhancementInv ==
    /\ EnhancementTypeOK
    /\ OneActiveJob
    /\ QuotaKept
    /\ OffMeansOff
    /\ Sourced

-----------------------------------------------------------------------------
(* What an hour holds: it loses proposals by age and gains them one by one. *)

LEMMA QuotaShrinks ==
    ASSUME QuotaKept, Recent' \subseteq Recent
    PROVE  QuotaKept'
<1>1. IsFiniteSet(Recent') /\ Cardinality(Recent') <= Cardinality(Recent)
  BY FS_Subset DEF QuotaKept
<1>2. Cardinality(Recent') \in Nat /\ Cardinality(Recent) \in Nat
  BY <1>1, FS_CardinalityType DEF QuotaKept
<1>3. QED
  BY <1>1, <1>2, EnhancementConstants DEF QuotaKept, WithinQuota

LEMMA QuotaSpent ==
    ASSUME QuotaKept, NEW j, Recent' \subseteq Recent \cup {j}, Cardinality(Recent) < Quota
    PROVE  QuotaKept'
<1> DEFINE S == Recent \cup {j}
<1>1. /\ IsFiniteSet(S) /\ Cardinality(Recent) \in Nat
      /\ Cardinality(S) \in {Cardinality(Recent), Cardinality(Recent) + 1}
  BY FS_AddElement, FS_CardinalityType DEF QuotaKept
<1>2. IsFiniteSet(Recent') /\ Cardinality(Recent') <= Cardinality(S)
  BY <1>1, FS_Subset
<1>3. Cardinality(Recent') \in Nat
  BY <1>2, FS_CardinalityType
<1>4. QED
  BY <1>1, <1>2, <1>3, EnhancementConstants DEF QuotaKept, WithinQuota

-----------------------------------------------------------------------------
LEMMA EnhancementStart == EnhancementInit => EnhancementInv
<1> SUFFICES ASSUME EnhancementInit PROVE EnhancementInv
  OBVIOUS
<1>1. PICK text \in Wording :
        /\ card = [t \in Cards |->
             [revision |-> 1, text |-> text, locked |-> {}, deleted |-> FALSE]]
        /\ job = [j \in Jobs |->
             [state |-> "none", task |-> CHOOSE t \in Cards : TRUE, source |-> 0,
              base |-> text, fields |-> {}, proposed |-> text, accepted |-> {},
              automatic |-> FALSE, settings |-> 0, worker |-> NoWorker, created |-> 0,
              expires |-> 0]]
  BY DEF EnhancementInit
<1>2. (CHOOSE t \in Cards : TRUE) \in Cards
  BY EnhancementConstants
<1>3. card \in [Cards -> CardRow] /\ job \in [Jobs -> JobRow]
  BY <1>1, <1>2 DEF CardRow, JobRow, JobStates
<1>4. EnhancementTypeOK
  BY <1>1, <1>3 DEF EnhancementTypeOK, CardRow, JobRow, EnhancementInit
<1>5. OneActiveJob /\ OffMeansOff /\ Sourced
  BY <1>1 DEF OneActiveJob, OffMeansOff, Sourced, ActiveJob, EnhancementInit
<1>6. QuotaKept
  <2>1. Recent = {}
    BY <1>1 DEF Recent
  <2>2. QED
    BY <2>1, FS_EmptySet, EnhancementConstants DEF QuotaKept, WithinQuota
<1>7. QED
  BY <1>4, <1>5, <1>6 DEF EnhancementInv

-----------------------------------------------------------------------------
\* A request that writes one proposal.  It may count only if it did, or if none did.
LEMMA JobStep ==
    ASSUME EnhancementInv, NEW j \in Jobs, NEW row \in JobRow,
           job' = [job EXCEPT ![j] = row],
           UNCHANGED <<card, settings, clock>>,
           due' \in [Cards -> Nat],
           ~settings.enabled => \A t \in Cards : due'[t] = 0,
           InCall(row) => row.worker \in Workers,
           Counts(row) => ActiveJob(j) \/ ~Busy,
           OffDuty(row),
           Spends(j, row) => Cardinality(Recent) < Quota,
           row.state # "none" => Fits(row)
    PROVE  EnhancementInv'
<1> USE DEF EnhancementInv
<1>1. job \in [Jobs -> JobRow] /\ job' \in [Jobs -> JobRow]
  BY DEF EnhancementTypeOK, JobRow
<1>2. job'[j] = row /\ \A i \in Jobs \ {j} : job'[i] = job[i]
  BY <1>1
<1>3. EnhancementTypeOK'
  <2>1. \A i \in Jobs : job'[i].state \in {"running", "cancel_requested"} =>
          job'[i].worker \in Workers
    BY <1>2 DEF EnhancementTypeOK, InCall
  <2>2. QED
    BY <1>1, <2>1 DEF EnhancementTypeOK, JobRow
<1>4. OneActiveJob'
  <2>1. \A i \in Jobs \ {j} : ActiveJob(i)' <=> ActiveJob(i)
    BY <1>2 DEF ActiveJob, Live
  <2>2. ActiveJob(j)' => ActiveJob(j) \/ ~Busy
    BY <1>2 DEF ActiveJob, Live, Counts, InCall, Claimable
  <2>3. QED
    BY <2>1, <2>2 DEF OneActiveJob, Busy
<1>5. OffMeansOff'
  BY <1>2 DEF OffMeansOff, OffDuty, Claimable, Live
<1>6. Sourced'
  BY <1>2 DEF Sourced, Fits
<1>7. QuotaKept'
  <2>1. Recent' \subseteq Recent \cup {j} /\ (~Spends(j, row) => Recent' \subseteq Recent)
    BY <1>2 DEF Recent, Spends
  <2>2. QED
    BY <2>1, QuotaShrinks, QuotaSpent
<1>8. QED
  BY <1>3, <1>4, <1>5, <1>6, <1>7

\* A change of one task: whatever it does, it is a new revision.
LEMMA CardStep ==
    ASSUME EnhancementInv, NEW t \in Cards, NEW row \in CardRow,
           card' = [card EXCEPT ![t] = row],
           row.revision = card[t].revision + 1,
           UNCHANGED <<settings, job, clock>>,
           due' \in [Cards -> Nat],
           ~settings.enabled => \A u \in Cards : due'[u] = 0
    PROVE  EnhancementInv'
<1> USE DEF EnhancementInv
<1>1. card \in [Cards -> CardRow] /\ card' \in [Cards -> CardRow] /\ job \in [Jobs -> JobRow]
  BY DEF EnhancementTypeOK, CardRow, JobRow
<1>2. card'[t] = row /\ \A u \in Cards \ {t} : card'[u] = card[u]
  BY <1>1
<1>3. EnhancementTypeOK'
  BY <1>1 DEF EnhancementTypeOK, CardRow
<1>4. OneActiveJob' /\ OffMeansOff'
  BY DEF OneActiveJob, OffMeansOff, ActiveJob, Live
<1>5. Sourced'
  <2> SUFFICES ASSUME NEW j \in Jobs, job[j].state # "none" PROVE Fits(job[j])'
    BY DEF Sourced
  <2>1. Fits(job[j]) /\ job[j].source \in Nat /\ job[j].task \in Cards /\ card[t].revision \in Nat
    BY <1>1 DEF Sourced, CardRow, JobRow
  <2>2. CASE job[j].task = t
    BY <1>2, <2>1, <2>2 DEF Fits
  <2>3. CASE job[j].task # t
    BY <1>2, <2>1, <2>3 DEF Fits
  <2>4. QED
    BY <2>2, <2>3
<1>6. QuotaKept'
  BY QuotaShrinks DEF Recent
<1>7. QED
  BY <1>3, <1>4, <1>5, <1>6

-----------------------------------------------------------------------------
LEMMA Unpack ==
    ASSUME EnhancementInv
    PROVE  /\ job \in [Jobs -> JobRow] /\ card \in [Cards -> CardRow]
           /\ due \in [Cards -> Nat] /\ clock \in Nat
           /\ settings.enabled \in BOOLEAN /\ settings.revision \in Nat
           /\ ~settings.enabled => \A t \in Cards : due[t] = 0
           /\ \A j \in Jobs : /\ InCall(job[j]) => job[j].worker \in Workers
                              /\ OffDuty(job[j])
                              /\ Counts(job[j]) <=> ActiveJob(j)
                              /\ job[j].state # "none" => Fits(job[j])
BY DEF EnhancementInv, EnhancementTypeOK, JobRow, CardRow, OffMeansOff, Sourced, InCall,
       OffDuty, Claimable, Counts, ActiveJob, Live

LEMMA InsertKeeps ==
    ASSUME EnhancementInv, NEW j \in Jobs, NEW t \in Cards, NEW S \in SUBSET Fields,
           NEW automatic \in BOOLEAN, Insert(j, t, S, automatic),
           UNCHANGED <<card, settings, clock>>,
           due' \in [Cards -> Nat],
           \A u \in Cards : due'[u] \in {0, due[u]}
    PROVE  EnhancementInv'
<1> DEFINE row == [state |-> "pending", task |-> t, source |-> card[t].revision,
          base |-> card[t].text, fields |-> S, proposed |-> card[t].text,
          accepted |-> {}, automatic |-> automatic, settings |-> settings.revision,
          worker |-> NoWorker, created |-> clock, expires |-> clock + JobLease]
<1>1. card[t] \in CardRow
  BY Unpack
<1>2. row \in JobRow
  BY <1>1, Unpack, EnhancementConstants DEF JobRow, CardRow, JobStates
<1>3. job' = [job EXCEPT ![j] = row] /\ ~Busy /\ (automatic => settings.enabled)
  BY DEF Insert
<1>4. Fits(row)
  BY <1>1 DEF Fits, Insert, Unlocked, CardRow
<1>5. OffDuty(row) /\ ~InCall(row)
  BY <1>3 DEF OffDuty, InCall
<1>6. ~settings.enabled => \A u \in Cards : due'[u] = 0
  BY Unpack
<1>7. Spends(j, row) => Cardinality(Recent) < Quota
  BY DEF Spends, Insert
<1> HIDE DEF row
<1>8. QED
  BY <1>2, <1>3, <1>4, <1>5, <1>6, <1>7, JobStep

\* The row of j changes its state, its worker, its deadline or its proposal only,
\* to a state that counts only if it did.
LEMMA Rewrites ==
    ASSUME EnhancementInv, NEW j \in Jobs, NEW row \in JobRow,
           job' = [job EXCEPT ![j] = row],
           UNCHANGED <<card, settings, due, clock>>,
           job[j].state # "none",
           row.task = job[j].task, row.source = job[j].source, row.base = job[j].base,
           row.fields = job[j].fields, row.automatic = job[j].automatic,
           row.created = job[j].created,
           InCall(row) => row.worker \in Workers,
           Counts(row) => Counts(job[j]),
           OffDuty(row)
    PROVE  EnhancementInv'
<1>1. Fits(row)
  BY Unpack DEF Fits
<1>2. due' \in [Cards -> Nat] /\ (~settings.enabled => \A t \in Cards : due'[t] = 0)
  BY Unpack
<1>3. Counts(row) => ActiveJob(j)
  BY Unpack
<1>4. ~Spends(j, row)
  BY DEF Spends
<1>5. QED
  BY <1>1, <1>2, <1>3, <1>4, JobStep

LEMMA WorkerKeeps ==
    ASSUME EnhancementInv, NEW j \in Jobs, WorkerStep(j)
    PROVE  EnhancementInv'
<1>0. /\ job \in [Jobs -> JobRow] /\ job[j] \in JobRow /\ clock \in Nat
      /\ InCall(job[j]) => job[j].worker \in Workers
      /\ OffDuty(job[j])
  BY Unpack
<1>1. ASSUME NEW w \in Workers, ClaimJob(j, w) PROVE EnhancementInv'
  <2> DEFINE row == Signed(j, w)
  <2>0. clock + JobLease \in Nat /\ "running" \in JobStates
    BY <1>0, EnhancementConstants DEF JobStates
  <2>1. row \in JobRow /\ job' = [job EXCEPT ![j] = row]
    <3>1. row \in JobRow
      BY <1>0, <2>0 DEF Signed, JobRow
    <3>2. QED
      BY <1>1, <3>1 DEF ClaimJob
  <2>2. /\ row.task = job[j].task /\ row.source = job[j].source /\ row.base = job[j].base
        /\ row.fields = job[j].fields /\ row.worker = w /\ row.state = "running"
        /\ row.automatic = job[j].automatic /\ row.created = job[j].created
    BY <1>0 DEF Signed, JobRow
  <2>3. OffDuty(row) /\ Counts(job[j]) /\ job[j].state # "none"
    BY <1>1, <2>2 DEF ClaimJob, Selected, OffDuty, Counts, Claimable, Live
  <2> HIDE DEF row
  <2>4. QED
    BY <1>1, <2>1, <2>2, <2>3, Rewrites DEF ClaimJob
<1>2. ASSUME NEW w \in Workers, NEW state \in JobStates \ {"pending", "running", "cancel_requested"},
             NEW p \in Wording, Reports(j, w),
             job' = [job EXCEPT ![j] = [job[j] EXCEPT !.state = state, !.proposed = p]],
             UNCHANGED <<card, settings, due, clock>>
      PROVE EnhancementInv'
  <2> DEFINE row == [job[j] EXCEPT !.state = state, !.proposed = p]
  <2>1. row \in JobRow
    BY <1>0 DEF JobRow
  <2>2. /\ row.task = job[j].task /\ row.source = job[j].source /\ row.base = job[j].base
        /\ row.fields = job[j].fields /\ row.state = state
        /\ row.automatic = job[j].automatic /\ row.created = job[j].created
    BY <1>0 DEF JobRow
  <2>3. ~Counts(row) /\ ~InCall(row) /\ OffDuty(row) /\ job[j].state # "none"
    BY <1>2, <2>2 DEF Counts, InCall, Claimable, OffDuty, Reports
  <2> HIDE DEF row
  <2>4. QED
    BY <1>2, <2>1, <2>2, <2>3, Rewrites DEF row
<1>3. ASSUME NEW w \in Workers, NEW p \in Wording, Publish(j, w, p) PROVE EnhancementInv'
  <2>1. job' = [job EXCEPT ![j] = [job[j] EXCEPT !.state = "ready", !.proposed = p]]
    BY <1>0, <1>3 DEF Publish
  <2>2. QED
    BY <1>2, <1>3, <2>1 DEF Publish, JobStates
<1>4. ASSUME NEW w \in Workers, Fail(j, w) \/ Recover(j, w) PROVE EnhancementInv'
  <2>1. PICK state \in {"cancelled", "failed", "interrupted"} :
          job' = [job EXCEPT ![j].state = state]
    BY <1>0, <1>4 DEF Fail, Recover
  <2>2. job[j].proposed \in Wording /\ state \in JobStates \ {"pending", "running", "cancel_requested"}
    BY <1>0 DEF JobRow, JobStates
  <2>3. job' = [job EXCEPT ![j] = [job[j] EXCEPT !.state = state, !.proposed = job[j].proposed]]
    BY <1>0, <2>1 DEF JobRow
  <2>4. Reports(j, w) /\ UNCHANGED <<card, settings, due, clock>>
    BY <1>4 DEF Fail, Recover, Reports
  <2>5. QED
    BY <1>2, <2>2, <2>3, <2>4
<1>5. QED
  BY <1>1, <1>3, <1>4 DEF WorkerStep

\* A change of the task on behalf of a proposal, which is over then.
LEMMA AppliesKeep ==
    ASSUME EnhancementInv, NEW j \in Jobs, NEW row \in JobRow, NEW S \in SUBSET Fields,
           NEW to \in Wording, Apply(j, S, to),
           job' = [job EXCEPT ![j] = row],
           UNCHANGED <<settings, due, clock>>,
           row.state \in {"accepted", "undone"},
           job[j].state # "none",
           row.task = job[j].task, row.source = job[j].source, row.base = job[j].base,
           row.fields = job[j].fields, row.automatic = job[j].automatic,
           row.created = job[j].created
    PROVE  EnhancementInv'
<1> USE DEF EnhancementInv
<1> DEFINE t == job[j].task
           text == [f \in Fields |-> IF f \in S THEN to[f] ELSE card[t].text[f]]
<1>0. /\ job \in [Jobs -> JobRow] /\ card \in [Cards -> CardRow] /\ t \in Cards
      /\ card[t] \in CardRow
  BY Unpack DEF JobRow
<1>1. text \in Wording /\ card[t].revision + 1 \in Nat
  BY <1>0 DEF CardRow, Wording
<1>2. /\ card' = [card EXCEPT ![t] = [card[t] EXCEPT !.revision = card[t].revision + 1,
                                                     !.text = text]]
  BY <1>0 DEF Apply
<1>3. card' \in [Cards -> CardRow]
  BY <1>0, <1>1, <1>2 DEF CardRow
<1>4. card'[t].revision = card[t].revision + 1 /\ \A u \in Cards \ {t} : card'[u] = card[u]
  BY <1>0, <1>2 DEF CardRow
<1>5. job'[j] = row /\ \A i \in Jobs \ {j} : job'[i] = job[i]
  BY <1>0
<1>6. EnhancementTypeOK'
  <2>1. job' \in [Jobs -> JobRow]
    BY <1>0
  <2>2. \A i \in Jobs : job'[i].state \in {"running", "cancel_requested"} =>
          job'[i].worker \in Workers
    BY <1>5 DEF EnhancementTypeOK
  <2>3. QED
    BY <1>3, <2>1, <2>2 DEF EnhancementTypeOK, CardRow, JobRow
<1>7. OneActiveJob'
  <2>1. ~ActiveJob(j)' /\ \A i \in Jobs \ {j} : ActiveJob(i)' <=> ActiveJob(i)
    BY <1>5 DEF ActiveJob, Live
  <2>2. QED
    BY <2>1 DEF OneActiveJob
<1>8. OffMeansOff'
  BY <1>5 DEF OffMeansOff, Live
<1>9. Sourced'
  <2> SUFFICES ASSUME NEW i \in Jobs, job'[i].state # "none" PROVE Fits(job[i])'
    BY DEF Sourced
  <2>1. /\ job'[i].task = job[i].task /\ job'[i].source = job[i].source
        /\ job'[i].base = job[i].base /\ job'[i].fields = job[i].fields
        /\ job[i].state # "none"
    BY <1>5
  <2>2. /\ Fits(job[i]) /\ job[i].source \in Nat /\ job[i].task \in Cards
        /\ card[t].revision \in Nat
    BY <1>0, <2>1, Unpack DEF CardRow, JobRow
  <2>3. CASE job[i].task = t
    BY <1>4, <2>1, <2>2, <2>3 DEF Fits
  <2>4. CASE job[i].task # t
    BY <1>4, <2>1, <2>2, <2>4 DEF Fits
  <2>5. QED
    BY <2>3, <2>4
<1>10. QuotaKept'
  <2>1. Recent' \subseteq Recent
    BY <1>5 DEF Recent
  <2>2. QED
    BY <2>1, QuotaShrinks
<1>11. QED
  BY <1>6, <1>7, <1>8, <1>9, <1>10

LEMMA AcceptKeeps ==
    ASSUME EnhancementInv, NEW j \in Jobs, NEW S \in SUBSET Fields, Accept(j, S)
    PROVE  EnhancementInv'
<1> DEFINE row == [job[j] EXCEPT !.state = "accepted", !.accepted = S]
<1>0. job \in [Jobs -> JobRow] /\ job[j] \in JobRow
  BY Unpack
<1>1. row \in JobRow /\ job' = [job EXCEPT ![j] = row]
  <2>1. row \in JobRow
    BY <1>0 DEF JobRow, JobStates
  <2>2. QED
    BY <1>0, <2>1 DEF Accept
<1>2. /\ row.task = job[j].task /\ row.source = job[j].source /\ row.base = job[j].base
      /\ row.fields = job[j].fields /\ row.state = "accepted"
      /\ row.automatic = job[j].automatic /\ row.created = job[j].created
  BY <1>0 DEF JobRow
<1>3. job[j].proposed \in Wording
  BY <1>0 DEF JobRow
<1> HIDE DEF row
<1>4. QED
  BY <1>1, <1>2, <1>3, AppliesKeep DEF Accept

LEMMA UndoKeeps ==
    ASSUME EnhancementInv, NEW j \in Jobs, Undo(j)
    PROVE  EnhancementInv'
<1> DEFINE row == [job[j] EXCEPT !.state = "undone"]
<1>0. job \in [Jobs -> JobRow] /\ job[j] \in JobRow
  BY Unpack
<1>1. row \in JobRow /\ job' = [job EXCEPT ![j] = row]
  <2>1. row \in JobRow
    BY <1>0 DEF JobRow, JobStates
  <2>2. QED
    BY <1>0, <2>1 DEF Undo
<1>2. /\ row.task = job[j].task /\ row.source = job[j].source /\ row.base = job[j].base
      /\ row.fields = job[j].fields /\ row.state = "undone"
      /\ row.automatic = job[j].automatic /\ row.created = job[j].created
  BY <1>0 DEF JobRow
<1>3. job[j].base \in Wording /\ job[j].accepted \in SUBSET Fields
  BY <1>0 DEF JobRow
<1> HIDE DEF row
<1>4. QED
  BY <1>1, <1>2, <1>3, AppliesKeep DEF Undo

LEMMA PersonKeeps ==
    ASSUME EnhancementInv, NEW j \in Jobs, PersonStep(j)
    PROVE  EnhancementInv'
<1>0. /\ job \in [Jobs -> JobRow] /\ job[j] \in JobRow /\ card \in [Cards -> CardRow]
      /\ due \in [Cards -> Nat] /\ clock \in Nat
      /\ InCall(job[j]) => job[j].worker \in Workers
      /\ OffDuty(job[j])
  BY Unpack
<1>1. ASSUME NEW t \in Cards, NEW S \in SUBSET Fields, NEW a \in BOOLEAN, CreateJob(j, t, S, a)
      PROVE EnhancementInv'
  <2>1. due' \in [Cards -> Nat] /\ \A u \in Cards : due'[u] \in {0, due[u]}
    BY <1>0, <1>1 DEF CreateJob
  <2>2. QED
    BY <1>1, <2>1, InsertKeeps DEF CreateJob
<1>2. ASSUME NEW f \in Fields, NEW x \in Texts, ReviseJob(j, f, x) PROVE EnhancementInv'
  <2> DEFINE row == [job[j] EXCEPT !.proposed = [job[j].proposed EXCEPT ![f] = x]]
  <2>0. [job[j].proposed EXCEPT ![f] = x] \in Wording
    BY <1>0 DEF JobRow, Wording
  <2>1. row \in JobRow
    BY <1>0, <2>0 DEF JobRow
  <2>2. job' = [job EXCEPT ![j] = row]
    BY <1>0, <1>2 DEF ReviseJob
  <2>3. /\ row.task = job[j].task /\ row.source = job[j].source /\ row.base = job[j].base
        /\ row.fields = job[j].fields /\ row.state = "ready"
        /\ row.automatic = job[j].automatic /\ row.created = job[j].created
    BY <1>0, <1>2 DEF JobRow, ReviseJob
  <2>4. ~Counts(row) /\ ~InCall(row) /\ OffDuty(row) /\ job[j].state # "none"
    BY <1>2, <2>3 DEF Counts, InCall, Claimable, OffDuty, ReviseJob
  <2> HIDE DEF row
  <2>5. QED
    BY <1>2, <2>1, <2>2, <2>3, <2>4, Rewrites DEF ReviseJob
<1>3. ASSUME Dismiss(j) PROVE EnhancementInv'
  <2> DEFINE row == [job[j] EXCEPT !.state = DismissedAs(job[j].state)]
  <2>0. DismissedAs(job[j].state) \in JobStates
    BY DEF DismissedAs, JobStates
  <2>1. row \in JobRow
    BY <1>0, <2>0 DEF JobRow
  <2>2. job' = [job EXCEPT ![j] = row]
    BY <1>0, <1>3 DEF Dismiss
  <2>3. /\ row.task = job[j].task /\ row.source = job[j].source /\ row.base = job[j].base
        /\ row.fields = job[j].fields /\ row.state = DismissedAs(job[j].state)
        /\ row.automatic = job[j].automatic /\ row.created = job[j].created
        /\ row.worker = job[j].worker
    BY <1>0 DEF JobRow
  <2>4. /\ InCall(row) => job[j].state = "running"
        /\ row.state \notin {"running", "pending"} /\ job[j].state # "none"
    BY <1>3, <2>3 DEF InCall, DismissedAs, Dismiss
  <2>5. /\ InCall(row) => row.worker \in Workers
        /\ Counts(row) => Counts(job[j])
        /\ OffDuty(row)
    BY <1>0, <2>3, <2>4 DEF Counts, InCall, Claimable, OffDuty
  <2> HIDE DEF row
  <2>6. QED
    BY <1>3, <2>1, <2>2, <2>3, <2>4, <2>5, Rewrites DEF Dismiss
<1>4. ASSUME NEW S \in SUBSET Fields, Accept(j, S) PROVE EnhancementInv'
  BY <1>4, AcceptKeeps
<1>5. ASSUME Undo(j) PROVE EnhancementInv'
  BY <1>5, UndoKeeps
<1>6. QED
  BY <1>1, <1>2, <1>3, <1>4, <1>5 DEF PersonStep

LEMMA BoardKeeps ==
    ASSUME EnhancementInv, NEW t \in Cards, BoardStep(t)
    PROVE  EnhancementInv'
<1>0. /\ card \in [Cards -> CardRow] /\ card[t] \in CardRow /\ card[t].revision + 1 \in Nat
      /\ due \in [Cards -> Nat] /\ clock + Debounce \in Nat
      /\ ~settings.enabled => \A u \in Cards : due[u] = 0
  BY Unpack, EnhancementConstants DEF CardRow
<1>1. ASSUME NEW text \in Wording, NEW L \in SUBSET Fields, Save(t, text, L)
      PROVE EnhancementInv'
  <2> DEFINE row == [card[t] EXCEPT !.revision = card[t].revision + 1, !.text = text,
                                    !.locked = L]
  <2>1. row \in CardRow /\ row.revision = card[t].revision + 1
    BY <1>0 DEF CardRow
  <2>2. card' = [card EXCEPT ![t] = row]
    BY <1>0, <1>1 DEF Save, NextRevision
  <2>3. due' \in [Cards -> Nat] /\ (~settings.enabled => \A u \in Cards : due'[u] = 0)
    BY <1>0, <1>1 DEF Save
  <2> HIDE DEF row
  <2>4. QED
    BY <1>1, <2>1, <2>2, <2>3, CardStep DEF Save
<1>2. ASSUME NEW gone \in BOOLEAN,
             card' = [card EXCEPT ![t] = [card[t] EXCEPT !.revision = card[t].revision + 1,
                                                         !.deleted = gone]],
             due' \in {due, [due EXCEPT ![t] = 0]},
             UNCHANGED <<settings, job, clock>>
      PROVE EnhancementInv'
  <2> DEFINE row == [card[t] EXCEPT !.revision = card[t].revision + 1, !.deleted = gone]
  <2>1. row \in CardRow /\ row.revision = card[t].revision + 1
    BY <1>0 DEF CardRow
  <2>2. due' \in [Cards -> Nat] /\ (~settings.enabled => \A u \in Cards : due'[u] = 0)
    BY <1>0, <1>2
  <2> HIDE DEF row
  <2>3. QED
    BY <1>2, <2>1, <2>2, CardStep DEF row
<1>3. CASE LosesHome(t)
  <2>1. card' = [card EXCEPT ![t] = [card[t] EXCEPT !.revision = card[t].revision + 1,
                                                    !.deleted = card[t].deleted]]
    BY <1>0, <1>3 DEF LosesHome, CardRow
  <2>2. card[t].deleted \in BOOLEAN
    BY <1>0 DEF CardRow
  <2>3. QED
    BY <1>2, <1>3, <2>1, <2>2 DEF LosesHome
<1>4. CASE DeleteCard(t)
  <2>1. card' = [card EXCEPT ![t] = [card[t] EXCEPT !.revision = card[t].revision + 1,
                                                    !.deleted = TRUE]]
    BY <1>0, <1>4 DEF DeleteCard
  <2>2. QED
    BY <1>2, <1>4, <2>1 DEF DeleteCard
<1>5. CASE RestoreCard(t)
  <2>1. card' = [card EXCEPT ![t] = [card[t] EXCEPT !.revision = card[t].revision + 1,
                                                    !.deleted = FALSE]]
    BY <1>0, <1>5 DEF RestoreCard
  <2>2. QED
    BY <1>2, <1>5, <2>1 DEF RestoreCard
<1>6. QED
  BY <1>1, <1>3, <1>4, <1>5 DEF BoardStep

LEMMA SettingsKeep ==
    ASSUME EnhancementInv, NEW enabled \in BOOLEAN, PutSettings(enabled)
    PROVE  EnhancementInv'
<1> USE DEF EnhancementInv
<1>0. /\ job \in [Jobs -> JobRow] /\ settings.revision + 1 \in Nat
      /\ settings' = [revision |-> settings.revision + 1, enabled |-> enabled]
      /\ UNCHANGED <<card, clock>>
  BY Unpack DEF PutSettings
<1>1. CASE enabled
  <2>1. UNCHANGED <<due, job>>
    BY <1>1 DEF PutSettings
  <2>2. EnhancementTypeOK'
    BY <1>0, <2>1 DEF EnhancementTypeOK
  <2>3. OneActiveJob' /\ OffMeansOff' /\ Sourced'
    BY <1>0, <1>1, <2>1 DEF OneActiveJob, OffMeansOff, Sourced, ActiveJob, Live, Fits
  <2>4. QuotaKept'
    BY <1>0, <2>1, QuotaShrinks DEF Recent
  <2>5. QED
    BY <2>2, <2>3, <2>4
<1>2. CASE ~enabled
  <2> DEFINE row(j) == IF CancelledBySwitch(j)
                       THEN [job[j] EXCEPT !.state = DismissedAs(job[j].state)] ELSE job[j]
  <2>0. due' = [t \in Cards |-> 0] /\ job' = [j \in Jobs |-> row(j)]
    BY <1>2 DEF PutSettings
  <2>1. ASSUME NEW j \in Jobs
        PROVE  /\ row(j) \in JobRow
               /\ row(j).task = job[j].task /\ row(j).source = job[j].source
               /\ row(j).base = job[j].base /\ row(j).fields = job[j].fields
               /\ row(j).worker = job[j].worker /\ row(j).automatic = job[j].automatic
               /\ row(j).expires = job[j].expires /\ row(j).created = job[j].created
               /\ row(j).state = IF CancelledBySwitch(j) THEN DismissedAs(job[j].state)
                                 ELSE job[j].state
    <3>1. job[j] \in JobRow /\ DismissedAs(job[j].state) \in JobStates
      BY <1>0 DEF DismissedAs, JobStates
    <3>2. QED
      BY <3>1 DEF JobRow
  <2>2. job' \in [Jobs -> JobRow] /\ \A j \in Jobs : job'[j] = row(j)
    BY <2>0, <2>1
  <2> HIDE DEF row
  <2>3. EnhancementTypeOK'
    <3>1. \A j \in Jobs : job'[j].state \in {"running", "cancel_requested"} =>
            job'[j].worker \in Workers
      BY <2>1, <2>2 DEF EnhancementTypeOK, CancelledBySwitch, DismissedAs
    <3>2. QED
      BY <1>0, <2>0, <2>2, <3>1 DEF EnhancementTypeOK, JobRow
  <2>4. OneActiveJob'
    <3>1. \A j \in Jobs : ActiveJob(j)' => ActiveJob(j)
      BY <1>0, <2>1, <2>2 DEF ActiveJob, Live, CancelledBySwitch, DismissedAs
    <3>2. QED
      BY <3>1 DEF OneActiveJob
  <2>5. OffMeansOff'
    BY <1>0, <2>0, <2>1, <2>2 DEF OffMeansOff, CancelledBySwitch, DismissedAs, Live
  <2>6. Sourced'
    BY <1>0, <2>1, <2>2 DEF Sourced, Fits, CancelledBySwitch, DismissedAs
  <2>7. QuotaKept'
    <3>1. Recent' \subseteq Recent
      BY <1>0, <2>1, <2>2 DEF Recent, CancelledBySwitch
    <3>2. QED
      BY <3>1, QuotaShrinks
  <2>8. QED
    BY <2>3, <2>4, <2>5, <2>6, <2>7
<1>3. QED
  BY <1>1, <1>2

LEMMA EnhancementStep ==
    ASSUME EnhancementInv, [EnhancementNext]_enhancementVars
    PROVE  EnhancementInv'
<1>1. ASSUME NEW j \in Jobs, NEW t \in Cards, Prepare(j, t) PROVE EnhancementInv'
  <2>1. due' \in [Cards -> Nat] /\ \A u \in Cards : due'[u] \in {0, due[u]}
    BY <1>1, Unpack DEF Prepare
  <2>2. Fields \ card[t].locked \in SUBSET Fields
    OBVIOUS
  <2>3. QED
    BY <1>1, <2>1, <2>2, InsertKeeps DEF Prepare
<1>2. CASE ClockTicks
  <2> USE <1>2 DEF EnhancementInv, ClockTicks
  <2>1. clock' = clock + 1 /\ clock \in Nat /\ job \in [Jobs -> JobRow]
    BY Unpack
  <2>2. \A j \in Jobs : Live(j)' => Live(j)
    BY <2>1 DEF Live, JobRow
  <2>3. EnhancementTypeOK'
    BY <2>1 DEF EnhancementTypeOK
  <2>4. OneActiveJob' /\ OffMeansOff'
    BY <2>2 DEF OneActiveJob, OffMeansOff, ActiveJob
  <2>5. Sourced'
    BY DEF Sourced, Fits
  <2>6. QuotaKept'
    <3>1. Recent' \subseteq Recent
      BY <2>1, EnhancementConstants DEF Recent, JobRow
    <3>2. QED
      BY <3>1, QuotaShrinks
  <2>7. QED
    BY <2>3, <2>4, <2>5, <2>6
<1>3. CASE UNCHANGED enhancementVars
  BY <1>3 DEF enhancementVars, EnhancementInv, EnhancementTypeOK, OneActiveJob, OffMeansOff,
              Sourced, ActiveJob, Live, Fits, QuotaKept, WithinQuota, Recent
<1>4. QED
  BY <1>1, <1>2, <1>3, WorkerKeeps, PersonKeeps, BoardKeeps, SettingsKeep
     DEF EnhancementNext

\* The inductive invariant of the proposals holds in every reachable state.
THEOREM EnhancementSafe == EnhancementSpec => []EnhancementInv
BY EnhancementStart, EnhancementStep, PTL DEF EnhancementSpec

\* Every variable keeps its type, and a proposal in a model call has its worker.
THEOREM EnhancementTyped == EnhancementSpec => []EnhancementTypeOK
<1>1. EnhancementInv => EnhancementTypeOK
  BY DEF EnhancementInv
<1>2. QED
  BY <1>1, EnhancementSafe, PTL

\* enhancements.create and automation.prepare admit one active proposal at a time, and at
\* most Quota automatic ones within any Window.
THEOREM OneCall == EnhancementSpec => []OneJob
<1>1. EnhancementInv => OneJob
  BY DEF EnhancementInv, QuotaKept, OneJob
<1>2. QED
  BY <1>1, EnhancementSafe, PTL

\* automation.put switches off what is queued, what waits and what runs.
THEOREM SwitchedOff == EnhancementSpec => []OffMeansOff
<1>1. EnhancementInv => OffMeansOff
  BY DEF EnhancementInv
<1>2. QED
  BY <1>1, EnhancementSafe, PTL

\* A proposal on the revision the task is at can be accepted as a whole.
THEOREM CurrentFits == EnhancementSpec => []CurrentApplies
<1>1. EnhancementInv => CurrentApplies
  BY DEF EnhancementInv, Sourced, Fits, CurrentApplies, Applicable, Unlocked
<1>2. QED
  BY <1>1, EnhancementSafe, PTL
=============================================================================
