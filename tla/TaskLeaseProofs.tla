-------------------------- MODULE TaskLeaseProofs --------------------------
(***************************************************************************)
(* Theorems about TaskLease, for every set of clients, tasks and leases.   *)
(***************************************************************************)
EXTENDS TaskLease, TLAPS

LEMMA IdleType == Idle \in Working
  BY DEF Idle, Call, Expiry, Answers, Codes, Working

LEMMA AnswerType ==
  ASSUME NEW r \in Call, NEW a \in Answers
  PROVE  Answer(r, a) \in Working
  <1>1. Idle \in Call
    BY IdleType DEF Working
  <1>2. Answer(r, a) \in Call
    BY <1>1 DEF Answer, Call
  <1>3. Answer(r, a).pc = "done"
    BY <1>1 DEF Answer, Call
  <1>4. QED
    BY <1>2, <1>3 DEF Working

LEMMA AfterType ==
  ASSUME NEW r \in Call, NEW found \in {"none", "live", "bad"},
         found = "live" => r.obs \in LeaseIds
  PROVE  After(r, found) \in Working
  <1>1. \A a \in {"valid", "held_by_other", "bad_timestamp", "refused"} :
           Answer(r, a) \in Working
    BY AnswerType DEF Answers, Codes
  <1>2. /\ [r EXCEPT !.pc = "prior"] \in Working
        /\ \A pc \in {"release", "stamp"} :
              found = "live" => [r EXCEPT !.pc = pc] \in Working
    BY DEF Call, Working
  <1>3. [r EXCEPT !.pc = "next", !.obs = NoLease, !.exp = NoExpiry, !.pass = 0] \in Working
    BY DEF Call, Expiry, Working
  <1>4. QED
    BY <1>1, <1>2, <1>3 DEF After

(***************************************************************************)
(* Type correctness.  The store and the calls first, the ghosts after.     *)
(***************************************************************************)
StoreType ==
    /\ lease \in [LeaseIds -> Row]
    /\ \A l \in Issued : lease[l].task \in Tasks
    /\ item \in [Tasks -> ItemStates]
    /\ scope \in [Tasks -> SUBSET Files]
    /\ clock \in Nat
    /\ call \in [Clients -> Working]

\* A step that only replaces one client's call by another well-typed one.
LEMMA CallStep ==
  ASSUME StoreType, UNCHANGED store,
         NEW c \in Clients, NEW r \in Working, Become(c, r)
  PROVE  StoreType'
  BY DEF StoreType, store, Issued, Become

\* A step that changes one issued row's status or expiry, and a client's call.
LEMMA RowStep ==
  ASSUME StoreType, UNCHANGED <<item, scope, clock>>,
         NEW l \in LeaseIds, NEW row \in Row,
         row.task = lease[l].task,
         row.status # "unissued",
         lease[l].status # "unissued",
         lease' = [lease EXCEPT ![l] = row],
         call' \in [Clients -> Working]
  PROVE  StoreType'
  BY DEF StoreType, Issued, Row

LEMMA ContinueType ==
  ASSUME StoreType, NEW c \in Clients, Continue(c)
  PROVE  StoreType'
  <1> DEFINE r == call[c]
  <1>0. r \in Working /\ r \in Call
    BY DEF StoreType, Working
  <1>a. \A a \in Answers : Answer(r, a) \in Working
    BY <1>0, AnswerType
  <1>b. /\ After(r, "none") \in Working
        /\ After(r, "bad") \in Working
        /\ r.pc = "judge" => After(r, "live") \in Working
    BY <1>0, AfterType DEF Working
  <1>c. \A s \in Working : Become(c, s) => call' \in [Clients -> Working]
    BY DEF StoreType, Become
  <1>d. \A a \in Answers : Reply(c, a) => call' \in [Clients -> Working]
    BY <1>a, <1>c DEF Reply
  <1>1. CASE SelectNone(c) \/ JudgeLive(c) \/ JudgeBad(c)
    BY <1>1, <1>b, CallStep DEF SelectNone, JudgeLive, JudgeBad
  <1>2. CASE SelectRow(c)
    <2> PICK l \in ActiveOf(r.task) :
          Become(c, [r EXCEPT !.pc = "judge", !.obs = l, !.exp = lease[l].expires])
      BY <1>2 DEF SelectRow
    <2>1. l \in LeaseIds /\ lease[l].expires \in Expiry
      BY DEF StoreType, ActiveOf, Row
    <2>2. [r EXCEPT !.pc = "judge", !.obs = l, !.exp = lease[l].expires] \in Working
      BY <1>0, <2>1 DEF Call, Working
    <2>3. QED
      BY <1>2, <2>2, CallStep DEF SelectRow
  <1>3. CASE JudgePast(c) \/ SweepDone(c)
    <2>1. /\ r.pc = "judge" => [r EXCEPT !.pc = "retire"] \in Working
          /\ [r EXCEPT !.pc = "list"] \in Working
      BY <1>0 DEF Call, Working
    <2>2. QED
      BY <1>3, <2>1, CallStep DEF JudgePast, SweepDone, Goto
  <1>4. CASE RetireLost(c)
    <2>1. r.pass + 1 \in Nat
      BY <1>0 DEF Call
    <2>2. [r EXCEPT !.pc = "select", !.obs = NoLease, !.exp = NoExpiry,
                    !.pass = r.pass + 1] \in Call
      BY <1>0, <2>1 DEF Call, Expiry
    <2>4. [r EXCEPT !.pc = "select", !.obs = NoLease, !.exp = NoExpiry,
                    !.pass = r.pass + 1] \in Working
      BY <1>0, <2>2 DEF Call, Working
    <2>3. QED
      BY <1>4, <2>4, CallStep DEF RetireLost
  <1>5. CASE SweepNext(c)
    <2> PICK t \in r.todo :
          Become(c, [r EXCEPT !.pc = "select", !.task = t, !.todo = r.todo \ {t}])
      BY <1>5 DEF SweepNext
    <2>1. [r EXCEPT !.pc = "select", !.task = t, !.todo = r.todo \ {t}] \in Working
      BY <1>0 DEF Call, Working
    <2>2. QED
      BY <1>5, <2>1, CallStep DEF SweepNext
  <1>6. CASE List(c)
    <2>1. [Answer(r, "listed") EXCEPT !.offer = {t \in Tasks : ReadyRow(t)}] \in Working
      BY <1>a DEF Call, Answers, Working
    <2>2. QED
      BY <1>6, <2>1, CallStep DEF List
  <1>7. CASE GiveUp(c) \/ Prior(c)
    <2>1. \E a \in Answers : Become(c, Answer(r, a))
      BY <1>7 DEF GiveUp, Prior, Reply, Answers, Codes
    <2>2. QED
      BY <1>7, <2>1, <1>a, CallStep DEF GiveUp, Prior
  <1>8. CASE Return(c)
    BY <1>8, IdleType, CallStep DEF Return
  <1>9. CASE RetireWon(c)
    <2> DEFINE row == [lease[r.obs] EXCEPT !.status = "stale"]
    <2>1. r.obs \in LeaseIds /\ lease[r.obs].status = "active"
      BY <1>0, <1>9 DEF Working, RetireWon, StillAsRead
    <2>2. row \in Row /\ row.task = lease[r.obs].task /\ row.status = "stale"
      BY <2>1 DEF StoreType, Row, LeaseStatus
    <2>3. lease' = [lease EXCEPT ![r.obs] = row]
      BY <1>9, <2>1 DEF RetireWon, StoreType
    <2>4. QED
      BY <1>9, <1>b, <1>c, <2>1, <2>2, <2>3, RowStep DEF RetireWon
  <1>10. CASE ReleaseWrite(c)
    <2> DEFINE row == [lease[r.obs] EXCEPT !.status = "released"]
    <2>1. r.obs \in LeaseIds
      BY <1>0, <1>10 DEF Working, ReleaseWrite
    <2>2. row \in Row /\ row.task = lease[r.obs].task /\ row.status = "released"
      BY <2>1 DEF StoreType, Row, LeaseStatus
    <2>3. CASE lease[r.obs].status = "active" /\ r.obs = r.token
      <3>1. lease' = [lease EXCEPT ![r.obs] = row] /\ Reply(c, "released")
        BY <1>10, <2>3, <2>1 DEF ReleaseWrite, StoreType
      <3>2. QED
        BY <1>10, <1>d, <2>1, <2>2, <2>3, <3>1, RowStep DEF ReleaseWrite, Answers
    <2>4. CASE ~(lease[r.obs].status = "active" /\ r.obs = r.token)
      BY <1>10, <2>4, <1>a, CallStep DEF ReleaseWrite, Reply, Answers, store
    <2>5. QED
      BY <2>3, <2>4
  <1>11. CASE RenewStamp(c)
    <2>1. [r EXCEPT !.pc = "renew", !.now = clock] \in Working
      BY <1>0, <1>11 DEF Call, StoreType, Working, RenewStamp
    <2>2. QED
      BY <1>11, <1>a, <2>1, CallStep DEF RenewStamp, Reply, Answers
  <1>12. CASE RenewWrite(c)
    <2>1. r.obs \in LeaseIds
      BY <1>0, <1>12 DEF Working, RenewWrite
    <2>3. CASE Renewable(r.obs, r.task, r.now) /\ r.obs = r.token
      <3> PICK ttl \in Ttls \ {NoExpiry} :
            lease' = [lease EXCEPT ![r.obs].expires = r.now + ttl]
        BY <1>12, <2>3 DEF RenewWrite
      <3> DEFINE row == [lease[r.obs] EXCEPT !.expires = r.now + ttl]
      <3>1. r.now + ttl \in Nat
        BY <1>0, BoundsAssumption DEF Call
      <3>2. row \in Row /\ row.task = lease[r.obs].task /\ row.status = lease[r.obs].status
        BY <2>1, <3>1 DEF StoreType, Row, Expiry
      <3>3. lease' = [lease EXCEPT ![r.obs] = row] /\ Reply(c, "renewed")
        BY <1>12, <2>3, <2>1 DEF RenewWrite, StoreType
      <3>4. QED
        BY <1>12, <1>d, <2>1, <2>3, <3>2, <3>3, RowStep DEF RenewWrite, Answers, Renewable
    <2>4. CASE ~(Renewable(r.obs, r.task, r.now) /\ r.obs = r.token)
      BY <1>12, <2>4, <1>a, CallStep DEF RenewWrite, Reply, Answers, store
    <2>5. QED
      BY <2>3, <2>4
  <1>13. CASE SwapWritten(c)
    <2>1. [Answer(r, "written") EXCEPT !.want = r.want] \in Working
      BY <1>0, <1>a DEF Call, Answers, Working
    <2>2. r.task \in Tasks => r.base \cup r.want \in SUBSET Files
      BY <1>0 DEF Call
    <2>3. scope' \in [Tasks -> SUBSET Files]
      BY <1>13, <2>2 DEF SwapWritten, StoreType
    <2>4. QED
      BY <1>13, <1>c, <2>1, <2>3 DEF SwapWritten, StoreType, Issued
  <1>14. CASE SwapStale(c)
    <2>1. CASE Reply(c, "stale")
      BY <1>14, <2>1, <1>a, CallStep DEF SwapStale, Reply, Answers
    <2>2. CASE Become(c, [r EXCEPT !.base = scope[r.task], !.pass = r.pass + 1])
      <3>1. r.task \in Tasks /\ r.pass + 1 \in Nat
        BY <1>0, <1>14 DEF Call, SwapStale, Authorised, Holding, ActiveOf, StoreType, Issued
      <3>2. [r EXCEPT !.base = scope[r.task], !.pass = r.pass + 1] \in Working
        BY <1>0, <3>1 DEF Call, Working, StoreType
      <3>3. QED
        BY <1>14, <2>2, <3>2, CallStep DEF SwapStale
    <2>3. QED
      BY <1>14, <2>1, <2>2 DEF SwapStale
  <1>15. CASE SwapRefused(c)
    <2>1. call' \in [Clients -> Working]
      BY <1>15, <1>d DEF SwapRefused, Answers
    <2>2. \A l \in LeaseIds : 
             \/ lease'[l] = lease[l]
             \/ /\ lease[l].status = "active"
                /\ lease'[l] = [lease[l] EXCEPT !.status = "stale"]
      BY <1>15 DEF SwapRefused, Retired, ActiveOf
    <2>3. lease' = [l \in LeaseIds |-> lease'[l]]
      BY <1>15 DEF SwapRefused
    <2>4. lease' \in [LeaseIds -> Row] /\ \A l \in Issued' : lease'[l].task \in Tasks
      BY <2>2, <2>3 DEF StoreType, Row, Issued, LeaseStatus
    <2>5. QED
      BY <1>15, <2>1, <2>4 DEF SwapRefused, StoreType
  <1>16. QED
    BY <1>1, <1>2, <1>3, <1>4, <1>5, <1>6, <1>7, <1>8, <1>9, <1>10, <1>11, <1>12,
       <1>13, <1>14, <1>15 DEF Continue, ActiveLease

LEMMA BeginType ==
  ASSUME StoreType, NEW c \in Clients, ClientStep(c), ~Continue(c)
  PROVE  StoreType'
  <1>0. Idle \in Call
    BY IdleType DEF Working
  <1>1. ASSUME NEW op \in Ops, NEW t \in Tasks, NEW k \in LeaseIds \cup {NoLease},
               Begin(c, op, t, k)
        PROVE  StoreType'
    <2> DEFINE s == [Idle EXCEPT !.pc = "select", !.op = op, !.task = t, !.token = k]
    <2>1. s \in Call /\ s.pc = "select"
      BY <1>0, <1>1 DEF Begin, Call
    <2>2. QED
      BY <1>1, <2>1, CallStep DEF Begin, Working
  <1>2. CASE BeginReady(c)
    <2> DEFINE s == [Idle EXCEPT !.pc = "next", !.op = "ready", !.todo = SweepTasks]
    <2>1. s \in Call /\ s.pc = "next"
      BY <1>0 DEF Call, SweepTasks
    <2>2. QED
      BY <1>2, <2>1, CallStep DEF BeginReady, Working
  <1>3. ASSUME NEW t \in Tasks, NEW k \in LeaseIds \cup {NoLease}, NEW f \in Files,
               BeginWiden(c, t, k, f)
        PROVE  StoreType'
    <2> DEFINE s == [Idle EXCEPT !.pc = "swap", !.op = "widen", !.task = t,
                                 !.token = k, !.want = {f}, !.base = scope[t]]
    <2>1. s \in Call /\ s.pc = "swap"
      BY <1>0 DEF Call, StoreType
    <2>2. QED
      BY <1>3, <2>1, CallStep DEF BeginWiden, Working
  <1>4. CASE Crash(c)
    BY <1>4, IdleType, CallStep DEF Crash
  <1>5. QED
    BY <1>1, <1>2, <1>3, <1>4 DEF ClientStep

LEMMA EnvironmentType ==
  ASSUME StoreType, Environment
  PROVE  StoreType'
  <1>1. CASE Tick
    BY <1>1 DEF Tick, StoreType, Issued
  <1>2. ASSUME NEW t \in Tasks, NEW force \in BOOLEAN, NEW ttl \in Ttls,
               Acquire(t, force, ttl)
        PROVE  StoreType'
    <2> PICK new \in LeaseIds \ Issued :
          lease' = [l \in LeaseIds |->
                       IF l = new
                       THEN [task |-> t, status |-> "active", expires |-> ExpiresAt(ttl)]
                       ELSE IF l \in Retired(t, force)
                       THEN [lease[l] EXCEPT !.status = "stale"]
                       ELSE lease[l]]
      BY <1>2 DEF Acquire
    <2>1. ExpiresAt(ttl) \in Expiry
      BY BoundsAssumption DEF ExpiresAt, Expiry, StoreType
    <2>2. [task |-> t, status |-> "active", expires |-> ExpiresAt(ttl)] \in Row
      BY <2>1 DEF Row, LeaseStatus
    <2>3. \A l \in LeaseIds : [lease[l] EXCEPT !.status = "stale"] \in Row
      BY DEF StoreType, Row, LeaseStatus
    <2>4. lease' \in [LeaseIds -> Row]
      BY <2>2, <2>3 DEF StoreType
    <2>5. ASSUME NEW l \in Issued'
          PROVE  lease'[l].task \in Tasks
      <3>1. l \in LeaseIds /\ lease'[l].status # "unissued"
        BY DEF Issued
      <3>2. CASE l = new
        BY <3>2
      <3>3. CASE l # new /\ l \in Retired(t, force)
        <4>1. lease[l].task = t
          BY <3>3 DEF Retired, ActiveOf
        <4>2. lease'[l] = [lease[l] EXCEPT !.status = "stale"]
          BY <3>1, <3>3
        <4>3. QED
          BY <3>1, <4>1, <4>2 DEF StoreType, Row
      <3>4. CASE l # new /\ l \notin Retired(t, force)
        BY <3>1, <3>4 DEF StoreType, Issued
      <3>5. QED
        BY <3>2, <3>3, <3>4
    <2>6. QED
      BY <1>2, <2>4, <2>5 DEF Acquire, StoreType
  <1>3. ASSUME NEW t \in Tasks, NEW s \in Board, BoardEdit(t, s)
        PROVE  StoreType'
    BY <1>3, BoundsAssumption DEF BoardEdit, StoreType, Issued, ItemStates
  <1>4. ASSUME NEW l \in LeaseIds, ForeignExpiry(l)
        PROVE  StoreType'
    <2> DEFINE row == [lease[l] EXCEPT !.expires = Unreadable]
    <2>1. row \in Row /\ row.task = lease[l].task /\ row.status = lease[l].status
      BY DEF StoreType, Row, Expiry
    <2>2. lease' = [lease EXCEPT ![l] = row]
      BY <1>4 DEF ForeignExpiry, StoreType
    <2>3. QED
      BY <1>4, <2>1, <2>2, RowStep DEF ForeignExpiry, StoreType
  <1>5. QED
    BY <1>1, <1>2, <1>3, <1>4 DEF Environment

LEMMA StoreTypeStep == StoreType /\ [Next]_vars => StoreType'
  <1> SUFFICES ASSUME StoreType, [Next]_vars PROVE StoreType'
    OBVIOUS
  <1>1. CASE UNCHANGED vars
    BY <1>1 DEF vars, StoreType, Issued
  <1>2. CASE Next
    BY <1>2, ContinueType, BeginType, EnvironmentType DEF Next
  <1>3. QED
    BY <1>1, <1>2

LEMMA ObserveType ==
  ASSUME TypeOK, StoreType', Observe
  PROVE  TypeOK'
  <1>1. truth' \in [Clients -> SUBSET Codes]
    BY DEF Observe, TypeOK, CodeNow, Codes
  <1>2. owed' \in [Clients -> SUBSET Tasks]
    BY DEF Observe, TypeOK
  <1>3. \A c \in Clients : call'[c].want \subseteq Files
    BY DEF StoreType, Working, Call
  <1>4. granted' \in [Tasks -> SUBSET Files]
    BY <1>3 DEF Observe, TypeOK
  <1>5. QED
    BY <1>1, <1>2, <1>4 DEF TypeOK, StoreType

\* Every reachable state of the store, of its clients' calls and of the ghosts
\* has its type, for any number of clients, tasks and leases.
THEOREM TypeCorrect == Spec => []TypeOK
  <1>1. Init => TypeOK
    BY IdleType, BoundsAssumption
       DEF Init, TypeOK, Row, Expiry, LeaseStatus, ItemStates, Issued
  <1>2. TypeOK /\ [Next]_vars => TypeOK'
    <2> SUFFICES ASSUME TypeOK, [Next]_vars PROVE TypeOK'
      OBVIOUS
    <2>1. StoreType
      BY DEF TypeOK, StoreType
    <2>2. StoreType'
      BY <2>1, StoreTypeStep
    <2>3. CASE UNCHANGED vars
      BY <2>3 DEF vars, TypeOK, Issued
    <2>4. CASE Next
      BY <2>2, <2>4, ObserveType DEF Next
    <2>5. QED
      BY <2>3, <2>4
  <1>3. QED
    BY <1>1, <1>2, PTL DEF Spec

(***************************************************************************)
(* What a step may do to the lease table.                                  *)
(***************************************************************************)

\* A call that is about to retire a row has judged an expiry that is past.
RetirePast == \A c \in Clients : call[c].pc = "retire" => Past(call[c].exp, clock)

\* A step that writes rows of no task but u.
OnlyTask(u) == \A l \in LeaseIds : lease[l].task # u => lease'[l] = lease[l]

\* Any step but an acquire: rows that are not active are left alone, an active
\* one keeps its task and ends, if it does, as released or, once its stored
\* expiry is past, as stale, and the rows of one task at most are written.
Quiet ==
    /\ \A l \in LeaseIds :
          /\ lease[l].status # "active" => lease'[l] = lease[l]
          /\ lease[l].status = "active" =>
                /\ lease'[l].task = lease[l].task
                /\ lease'[l].status \in {"active", "stale", "released"}
                /\ lease'[l].status = "stale" => Past(lease[l].expires, clock)
    /\ \E u : OnlyTask(u)

LEMMA QuietRow ==
  ASSUME StoreType, NEW l \in LeaseIds, lease[l].status = "active",
         NEW row \in Row, lease' = [lease EXCEPT ![l] = row],
         row.task = lease[l].task,
         row.status \in {"active", "stale", "released"},
         row.status = "stale" => Past(lease[l].expires, clock)
  PROVE  Quiet
  <1>1. OnlyTask(lease[l].task)
    BY DEF OnlyTask, StoreType
  <1>2. QED
    BY <1>1 DEF Quiet, StoreType

LEMMA QuietStep ==
  ASSUME StoreType, RetirePast, Next,
         ~ \E t \in Tasks, force \in BOOLEAN, ttl \in Ttls : Acquire(t, force, ttl)
  PROVE  Quiet
  <1>0. CASE UNCHANGED lease
    BY <1>0 DEF Quiet, OnlyTask
  <1>1. ASSUME NEW c \in Clients, RetireWon(c)
        PROVE  Quiet
    <2> DEFINE l == call[c].obs
               row == [lease[l] EXCEPT !.status = "stale"]
    <2>1. l \in LeaseIds /\ lease[l].status = "active"
      BY <1>1 DEF RetireWon, StillAsRead, StoreType, Working
    <2>2. Past(lease[l].expires, clock)
      BY <1>1 DEF RetireWon, StillAsRead, RetirePast
    <2>3. row \in Row /\ row.task = lease[l].task /\ row.status = "stale"
      BY <2>1 DEF StoreType, Row, LeaseStatus
    <2>4. lease' = [lease EXCEPT ![l] = row]
      BY <1>1, <2>1 DEF RetireWon, StoreType
    <2>5. QED
      BY <2>1, <2>2, <2>3, <2>4, QuietRow
  <1>2. ASSUME NEW c \in Clients, ReleaseWrite(c), lease' # lease
        PROVE  Quiet
    <2> DEFINE l == call[c].obs
               row == [lease[l] EXCEPT !.status = "released"]
    <2>1. l \in LeaseIds /\ lease[l].status = "active"
      BY <1>2 DEF ReleaseWrite, StoreType, Working
    <2>2. row \in Row /\ row.task = lease[l].task /\ row.status = "released"
      BY <2>1 DEF StoreType, Row, LeaseStatus
    <2>3. lease' = [lease EXCEPT ![l] = row]
      BY <1>2, <2>1 DEF ReleaseWrite, StoreType
    <2>4. QED
      BY <2>1, <2>2, <2>3, QuietRow
  <1>3. ASSUME NEW c \in Clients, RenewWrite(c), lease' # lease
        PROVE  Quiet
    <2> DEFINE l == call[c].obs
    <2>1. l \in LeaseIds /\ lease[l].status = "active"
      BY <1>3 DEF RenewWrite, Renewable, StoreType, Working
    <2>2. PICK ttl \in Ttls \ {NoExpiry} :
            lease' = [lease EXCEPT ![l].expires = call[c].now + ttl]
      BY <1>3 DEF RenewWrite
    <2> DEFINE row == [lease[l] EXCEPT !.expires = call[c].now + ttl]
    <2>3. call[c].now + ttl \in Nat
      BY BoundsAssumption DEF StoreType, Working, Call
    <2>4. row \in Row /\ row.task = lease[l].task /\ row.status = "active"
      BY <2>1, <2>3 DEF StoreType, Row, Expiry
    <2>5. lease' = [lease EXCEPT ![l] = row]
      BY <2>1, <2>2 DEF StoreType
    <2>6. QED
      BY <2>1, <2>4, <2>5, QuietRow
  <1>4. ASSUME NEW c \in Clients, SwapRefused(c)
        PROVE  Quiet
    <2>1. \A l \in LeaseIds :
             \/ lease'[l] = lease[l]
             \/ /\ lease[l].status = "active"
                /\ Past(lease[l].expires, clock)
                /\ lease'[l] = [lease[l] EXCEPT !.status = "stale"]
      BY <1>4 DEF SwapRefused, Retired, ActiveOf
    <2>2. \A l \in LeaseIds :
             /\ [lease[l] EXCEPT !.status = "stale"].task = lease[l].task
             /\ [lease[l] EXCEPT !.status = "stale"].status = "stale"
      BY DEF StoreType, Row
    <2>3. OnlyTask(call[c].task)
      BY <1>4 DEF SwapRefused, Retired, ActiveOf, OnlyTask
    <2>4. QED
      BY <2>1, <2>2, <2>3 DEF Quiet
  <1>5. ASSUME NEW l \in LeaseIds, ForeignExpiry(l)
        PROVE  Quiet
    <2> DEFINE row == [lease[l] EXCEPT !.expires = Unreadable]
    <2>1. row \in Row /\ row.task = lease[l].task /\ row.status = lease[l].status
      BY DEF StoreType, Row, Expiry
    <2>2. lease' = [lease EXCEPT ![l] = row]
      BY <1>5 DEF ForeignExpiry, StoreType
    <2>3. QED
      BY <1>5, <2>1, <2>2, QuietRow DEF ForeignExpiry
  <1>6. ASSUME NEW c \in Clients, ClientStep(c), lease' # lease
        PROVE  RetireWon(c) \/ ReleaseWrite(c) \/ RenewWrite(c) \/ SwapRefused(c)
    BY <1>6 DEF ClientStep, Continue, ActiveLease, Begin, BeginReady, BeginWiden, Crash,
                SelectNone, SelectRow, JudgeLive, JudgeBad, JudgePast, RetireLost, GiveUp,
                SweepNext, SweepDone, List, Prior, RenewStamp, SwapWritten, SwapStale,
                Return, store
  <1>7. CASE Environment
    BY <1>0, <1>5, <1>7 DEF Environment, Tick, BoardEdit
  <1>8. QED
    BY <1>0, <1>1, <1>2, <1>3, <1>4, <1>6, <1>7 DEF Next

LEMMA AcquireFrame ==
  ASSUME StoreType, NEW t \in Tasks, NEW force \in BOOLEAN, NEW ttl \in Ttls,
         Acquire(t, force, ttl)
  PROVE  \E new \in LeaseIds \ Issued :
            /\ lease'[new].task = t /\ lease'[new].status = "active"
            /\ \A l \in LeaseIds \ {new} :
                  IF l \in ActiveOf(t)
                  THEN lease'[l].task = t /\ lease'[l].status = "stale"
                  ELSE lease'[l] = lease[l]
  <1> PICK new \in LeaseIds \ Issued :
        lease' = [l \in LeaseIds |->
                     IF l = new
                     THEN [task |-> t, status |-> "active", expires |-> ExpiresAt(ttl)]
                     ELSE IF l \in Retired(t, force)
                     THEN [lease[l] EXCEPT !.status = "stale"]
                     ELSE lease[l]]
    BY DEF Acquire
  <1>1. Retired(t, force) = ActiveOf(t)
    BY DEF Acquire, Retired, Holding
  <1>2. lease'[new].task = t /\ lease'[new].status = "active"
    OBVIOUS
  <1>3. ASSUME NEW l \in LeaseIds \ {new}
        PROVE  IF l \in ActiveOf(t)
               THEN lease'[l].task = t /\ lease'[l].status = "stale"
               ELSE lease'[l] = lease[l]
    <2>1. CASE l \in ActiveOf(t)
      <3>1. lease'[l] = [lease[l] EXCEPT !.status = "stale"] /\ lease[l].task = t
        BY <1>1, <2>1 DEF ActiveOf
      <3>2. QED
        BY <2>1, <3>1 DEF StoreType, Row
    <2>2. CASE l \notin ActiveOf(t)
      BY <1>1, <2>2
    <2>3. QED
      BY <2>1, <2>2
  <1>4. QED
    BY <1>2, <1>3

(***************************************************************************)
(* A retiring call has judged a past expiry: the clock never goes back and *)
(* only JudgePast makes a call retire.                                     *)
(***************************************************************************)
LEMMA ClientBecomes ==
  ASSUME StoreType, NEW c \in Clients, ClientStep(c)
  PROVE  /\ \E r : Become(c, r) /\ (r.pc = "retire" => Past(r.exp, clock))
         /\ clock' = clock
  <1> DEFINE Good(r) == r.pc = "retire" => Past(r.exp, clock)
  <1>0. call[c] \in Call /\ Idle \in Call
    BY IdleType DEF StoreType, Working
  <1>1. clock' = clock
    BY DEF ClientStep, Continue, ActiveLease, Begin, BeginReady, BeginWiden, Crash,
           SelectNone, SelectRow, JudgeLive, JudgeBad, JudgePast, RetireWon, RetireLost,
           GiveUp, SweepNext, SweepDone, List, Prior, ReleaseWrite, RenewStamp, RenewWrite,
           SwapWritten, SwapStale, SwapRefused, Return, store
  <1>2. \A a : Answer(call[c], a).pc = "done"
    BY <1>0 DEF Answer, Call
  <1>3. \A f \in {"none", "live", "bad"} : After(call[c], f).pc # "retire"
    BY <1>0, <1>2 DEF After, Call
  <1>4. CASE SelectNone(c) \/ JudgeLive(c) \/ JudgeBad(c) \/ RetireWon(c)
    BY <1>1, <1>3, <1>4 DEF SelectNone, JudgeLive, JudgeBad, RetireWon
  <1>5. CASE GiveUp(c) \/ Prior(c) \/ ReleaseWrite(c) \/ SwapRefused(c) \/ RenewWrite(c)
    <2>1. \E a : Become(c, Answer(call[c], a))
      BY <1>5 DEF GiveUp, Prior, ReleaseWrite, SwapRefused, RenewWrite, Reply
    <2>2. QED
      BY <1>1, <1>2, <2>1
  <1>6. CASE JudgePast(c)
    <2>1. [call[c] EXCEPT !.pc = "retire"].exp = call[c].exp
      BY <1>0 DEF Call
    <2>2. QED
      BY <1>1, <1>6, <2>1 DEF JudgePast, Goto
  <1>7. CASE SelectRow(c) \/ SweepNext(c) \/ SweepDone(c) \/ RetireLost(c)
    <2>1. /\ \A l : [call[c] EXCEPT !.pc = "judge", !.obs = l,
                                     !.exp = lease[l].expires].pc = "judge"
          /\ \A t : [call[c] EXCEPT !.pc = "select", !.task = t,
                                     !.todo = call[c].todo \ {t}].pc = "select"
          /\ [call[c] EXCEPT !.pc = "list"].pc = "list"
          /\ [call[c] EXCEPT !.pc = "select", !.obs = NoLease, !.exp = NoExpiry,
                             !.pass = call[c].pass + 1].pc = "select"
      BY <1>0 DEF Call
    <2>2. QED
      BY <1>1, <1>7, <2>1 DEF SelectRow, SweepNext, SweepDone, RetireLost, Goto
  <1>8. CASE RenewStamp(c)
    <2>1. [call[c] EXCEPT !.pc = "renew", !.now = clock].pc = "renew"
      BY <1>0 DEF Call
    <2>2. QED
      BY <1>1, <1>2, <1>8, <2>1 DEF RenewStamp, Reply
  <1>9. CASE SwapStale(c)
    <2>1. [call[c] EXCEPT !.base = scope[call[c].task], !.pass = call[c].pass + 1].pc = call[c].pc
      BY <1>0 DEF Call
    <2>2. QED
      BY <1>1, <1>2, <1>9, <2>1 DEF SwapStale, Reply
  <1>10. CASE List(c) \/ SwapWritten(c)
    <2>1. \A a \in Answers : Answer(call[c], a) \in Call
      BY <1>0, AnswerType DEF Working
    <2>2. /\ [Answer(call[c], "listed") EXCEPT !.offer = {t \in Tasks : ReadyRow(t)}].pc = "done"
          /\ [Answer(call[c], "written") EXCEPT !.want = call[c].want].pc = "done"
      BY <2>1, <1>2 DEF Answers, Call
    <2>3. QED
      BY <1>1, <1>10, <2>2 DEF List, SwapWritten
  <1>11. CASE Return(c) \/ Crash(c)
    BY <1>1, <1>11 DEF Return, Crash, Idle
  <1>12. ASSUME ~Continue(c), ~Crash(c)
         PROVE  \E r : Become(c, r) /\ Good(r)
    <2>1. /\ \A op, t, k : [Idle EXCEPT !.pc = "select", !.op = op, !.task = t,
                                        !.token = k].pc = "select"
          /\ [Idle EXCEPT !.pc = "next", !.op = "ready", !.todo = SweepTasks].pc = "next"
          /\ \A t, k, f : [Idle EXCEPT !.pc = "swap", !.op = "widen", !.task = t,
                               !.token = k, !.want = {f}, !.base = scope[t]].pc = "swap"
      BY <1>0 DEF Call
    <2>2. ASSUME NEW op \in Ops, NEW t \in Tasks, NEW k \in LeaseIds \cup {NoLease},
                 Begin(c, op, t, k)
          PROVE  \E r : Become(c, r) /\ r.pc # "retire"
      <3> DEFINE s == [Idle EXCEPT !.pc = "select", !.op = op, !.task = t, !.token = k]
      <3>1. Become(c, s)
        BY <2>2 DEF Begin
      <3>2. s.pc # "retire"
        BY <2>1
      <3>3. QED
        BY <3>1, <3>2
    <2>3. ASSUME BeginReady(c)
          PROVE  \E r : Become(c, r) /\ r.pc # "retire"
      BY <2>1, <2>3 DEF BeginReady
    <2>4. ASSUME NEW t \in Tasks, NEW k \in LeaseIds \cup {NoLease}, NEW f \in Files,
                 BeginWiden(c, t, k, f)
          PROVE  \E r : Become(c, r) /\ r.pc # "retire"
      <3> DEFINE s == [Idle EXCEPT !.pc = "swap", !.op = "widen", !.task = t,
                                   !.token = k, !.want = {f}, !.base = scope[t]]
      <3>1. Become(c, s)
        BY <2>4 DEF BeginWiden
      <3>2. s.pc # "retire"
        BY <2>1
      <3>3. QED
        BY <3>1, <3>2
    <2>5. \E r : Become(c, r) /\ r.pc # "retire"
      BY <1>12, <2>2, <2>3, <2>4 DEF ClientStep
    <2>6. QED
      BY <2>5
  <1>13. QED
    BY <1>1, <1>4, <1>5, <1>6, <1>7, <1>8, <1>9, <1>10, <1>11, <1>12
       DEF Continue, ActiveLease

LEMMA RetirePastStep ==
  ASSUME StoreType, RetirePast, [Next]_vars
  PROVE  RetirePast'
  <1>0. clock \in Nat /\ call \in [Clients -> Call]
    BY DEF StoreType, Working
  <1>1. ASSUME NEW d \in Clients, ClientStep(d)
        PROVE  RetirePast'
    <2> PICK r : Become(d, r) /\ (r.pc = "retire" => Past(r.exp, clock))
      BY <1>1, ClientBecomes
    <2>1. clock' = clock
      BY <1>1, ClientBecomes
    <2>2. QED
      BY <1>0, <2>1 DEF RetirePast, Become, Past
  <1>2. CASE Environment
    <2>1. UNCHANGED call
      BY <1>2 DEF Environment, Tick, Acquire, BoardEdit, ForeignExpiry
    <2>2. clock' \in Nat /\ clock' >= clock
      BY <1>0, <1>2 DEF Environment, Tick, Acquire, BoardEdit, ForeignExpiry
    <2>3. \A c \in Clients : call[c].exp \in Expiry
      BY <1>0 DEF Call
    <2>4. QED
      BY <1>0, <2>1, <2>2, <2>3 DEF RetirePast, Past, Readable, Expiry
  <1>3. CASE UNCHANGED vars
    BY <1>3 DEF vars, RetirePast, Past
  <1>4. QED
    BY <1>1, <1>2, <1>3 DEF Next

(***************************************************************************)
(* Mutual exclusion, and the two action properties.                        *)
(***************************************************************************)
LEMMA OneActiveStep ==
  ASSUME StoreType, RetirePast, OneActive, [Next]_vars
  PROVE  OneActive'
  <1>1. CASE UNCHANGED vars
    BY <1>1 DEF vars, OneActive, ActiveOf
  <1>2. ASSUME Quiet
        PROVE  OneActive'
    <2>1. \A t : ActiveOf(t)' \subseteq ActiveOf(t)
      BY <1>2 DEF Quiet, ActiveOf
    <2>2. QED
      BY <2>1 DEF OneActive
  <1>3. ASSUME NEW t \in Tasks, NEW force \in BOOLEAN, NEW ttl \in Ttls,
               Acquire(t, force, ttl)
        PROVE  OneActive'
    <2> PICK new \in LeaseIds \ Issued :
            /\ lease'[new].task = t /\ lease'[new].status = "active"
            /\ \A l \in LeaseIds \ {new} :
                  IF l \in ActiveOf(t)
                  THEN lease'[l].task = t /\ lease'[l].status = "stale"
                  ELSE lease'[l] = lease[l]
      BY <1>3, AcquireFrame
    <2>1. ActiveOf(t)' \subseteq {new}
      BY DEF ActiveOf
    <2>2. \A u \in Tasks \ {t} : ActiveOf(u)' \subseteq ActiveOf(u)
      BY DEF ActiveOf
    <2>3. QED
      BY <2>1, <2>2 DEF OneActive
  <1>4. QED
    BY <1>1, <1>2, <1>3, QuietStep

\* The invariant the proofs carry.
LeaseInv == StoreType /\ RetirePast /\ OneActive

LEMMA LeaseInvariant == Spec => []LeaseInv
  <1>1. Init => LeaseInv
    BY IdleType DEF Init, LeaseInv, StoreType, Row, Expiry, LeaseStatus, ItemStates, Issued,
                    RetirePast, OneActive, ActiveOf, Idle
  <1>2. LeaseInv /\ [Next]_vars => LeaseInv'
    BY StoreTypeStep, RetirePastStep, OneActiveStep DEF LeaseInv
  <1>3. QED
    BY <1>1, <1>2, PTL DEF Spec

\* Mutual exclusion for any number of clients, tasks and leases: a task never
\* has two active lease rows, without any help from the unique index.
THEOREM MutualExclusion == Spec => []OneActive
  <1>1. LeaseInv => OneActive
    BY DEF LeaseInv
  <1>2. QED
    BY <1>1, LeaseInvariant, PTL

\* A lease that ended is never rewritten.
THEOREM EndedLeasesFrozen == Spec => EndedForever
  <1>1. LeaseInv /\ [Next]_vars =>
          [\A l \in LeaseIds : lease[l].status \in {"stale", "released"}
                                  => lease'[l] = lease[l]]_vars
    <2> SUFFICES ASSUME LeaseInv, Next, NEW l \in LeaseIds,
                        lease[l].status \in {"stale", "released"}
                 PROVE  lease'[l] = lease[l]
      OBVIOUS
    <2>1. CASE Quiet
      BY <2>1 DEF Quiet
    <2>2. ASSUME NEW t \in Tasks, NEW force \in BOOLEAN, NEW ttl \in Ttls,
                 Acquire(t, force, ttl)
          PROVE  lease'[l] = lease[l]
      BY <2>2, AcquireFrame DEF LeaseInv, ActiveOf, Issued
    <2>3. QED
      BY <2>1, <2>2, QuietStep DEF LeaseInv
  <1>2. QED
    BY <1>1, LeaseInvariant, PTL DEF Spec, EndedForever

\* A lease turns stale only once its stored expiry is past, or in the step that
\* forces a new lease on its task.
THEOREM OnlyLapsedOrForced == Spec => StaleOnlyLapsed
  <1> DEFINE Taken(l) == \/ Past(lease[l].expires, clock)
                         \/ \E n \in LeaseIds : /\ lease[n].status = "unissued"
                                                /\ lease'[n].status = "active"
                                                /\ lease'[n].task = lease[l].task
  <1>1. LeaseInv /\ [Next]_vars =>
          [\A l \in LeaseIds : (lease[l].status = "active" /\ lease'[l].status = "stale")
                                  => Taken(l)]_vars
    <2> SUFFICES ASSUME LeaseInv, Next, NEW l \in LeaseIds,
                        lease[l].status = "active", lease'[l].status = "stale"
                 PROVE  Taken(l)
      OBVIOUS
    <2>1. CASE Quiet
      BY <2>1 DEF Quiet
    <2>2. ASSUME NEW t \in Tasks, NEW force \in BOOLEAN, NEW ttl \in Ttls,
                 Acquire(t, force, ttl)
          PROVE  Taken(l)
      <3> PICK new \in LeaseIds \ Issued :
              /\ lease'[new].task = t /\ lease'[new].status = "active"
              /\ \A m \in LeaseIds \ {new} :
                    IF m \in ActiveOf(t)
                    THEN lease'[m].task = t /\ lease'[m].status = "stale"
                    ELSE lease'[m] = lease[m]
        BY <2>2, AcquireFrame DEF LeaseInv
      <3>1. lease[new].status = "unissued"
        BY DEF Issued
      <3>2. l \in ActiveOf(t)
        OBVIOUS
      <3>3. lease[l].task = t
        BY <3>2 DEF ActiveOf
      <3>4. QED
        BY <3>1, <3>3
    <2>3. QED
      BY <2>1, <2>2, QuietStep DEF LeaseInv
  <1>2. QED
    BY <1>1, LeaseInvariant, PTL DEF Spec, StaleOnlyLapsed

(***************************************************************************)
(* Refinement of LeaseHolder.                                              *)
(***************************************************************************)

\* The store implements LeaseHolder: at most one holder per task, every grant a
\* token never handed out before, and a token that lost its task never returns.
THEOREM Refinement == Spec => HolderSpec
  <1> DEFINE H == [t \in Tasks |-> ActiveOf(t)]
  <1>1. Init => Holder!Init
    BY DEF Init, Holder!Init, ActiveOf, Issued
  <1>2. LeaseInv /\ [Next]_vars => [Holder!Next]_(Holder!vars)
    <2> SUFFICES ASSUME LeaseInv, [Next]_vars
                 PROVE  Holder!Next \/ (H' = H /\ Issued' = Issued)
      BY DEF Holder!vars
    <2>0. StoreType /\ RetirePast /\ OneActive
      BY DEF LeaseInv
    <2>1. CASE UNCHANGED vars
      BY <2>1 DEF vars, ActiveOf, Issued
    <2>2. CASE Quiet
      <3>1. Issued' = Issued
        BY <2>2 DEF Quiet, Issued
      <3>2. \A t \in Tasks : ActiveOf(t)' \subseteq ActiveOf(t)
        BY <2>2 DEF Quiet, ActiveOf
      <3>3. PICK u : OnlyTask(u)
        BY <2>2 DEF Quiet
      <3>4. \A t \in Tasks \ {u} : ActiveOf(t)' = ActiveOf(t)
        BY <2>2, <3>3 DEF Quiet, OnlyTask, ActiveOf
      <3>5. CASE H' = H
        BY <3>1, <3>5
      <3>6. CASE H' # H
        <4>1. u \in Tasks /\ ActiveOf(u)' # ActiveOf(u)
          BY <3>4, <3>6
        <4>2. ActiveOf(u) # {} /\ ActiveOf(u)' = {}
          BY <2>0, <3>2, <4>1 DEF OneActive
        <4>3. H' = [H EXCEPT ![u] = {}]
          BY <3>4, <4>1, <4>2
        <4>4. Holder!Drop(u)
          BY <3>1, <4>1, <4>2, <4>3 DEF Holder!Drop
        <4>5. QED
          BY <4>1, <4>4 DEF Holder!Next
      <3>7. QED
        BY <3>5, <3>6
    <2>3. ASSUME NEW t \in Tasks, NEW force \in BOOLEAN, NEW ttl \in Ttls,
                 Acquire(t, force, ttl)
          PROVE  Holder!Grant(t)
      <3> PICK new \in LeaseIds \ Issued :
              /\ lease'[new].task = t /\ lease'[new].status = "active"
              /\ \A m \in LeaseIds \ {new} :
                    IF m \in ActiveOf(t)
                    THEN lease'[m].task = t /\ lease'[m].status = "stale"
                    ELSE lease'[m] = lease[m]
        BY <2>0, <2>3, AcquireFrame
      <3>1. Issued' = Issued \cup {new}
        BY DEF Issued, ActiveOf
      <3>2. ActiveOf(t)' = {new}
        BY DEF ActiveOf
      <3>3. \A u \in Tasks \ {t} : ActiveOf(u)' = ActiveOf(u)
        BY DEF ActiveOf, Issued
      <3>4. H' = [H EXCEPT ![t] = {new}]
        BY <3>2, <3>3
      <3>5. QED
        BY <3>1, <3>4 DEF Holder!Grant
    <2>4. QED
      BY <2>0, <2>1, <2>2, <2>3, QuietStep DEF Holder!Next
  <1>3. QED
    BY <1>1, <1>2, LeaseInvariant, PTL DEF Spec, HolderSpec, Holder!Spec

(***************************************************************************)
(* What clients are told.  Each call is several statements, so the proof   *)
(* carries, for a call in progress, what it has already witnessed.         *)
(***************************************************************************)
Told == {"diagnose", "release", "renew"}

\* Which statements which calls come to, and with which row.
Shaped(c) == LET r == call[c] IN
    /\ r.pc # "done" => r.ans = "none"
    /\ r.pc \in {"next", "list"} => r.op = "ready"
    /\ r.pc \in {"select", "judge", "retire"} => r.op \in Told \cup {"ready"}
    /\ r.pc = "prior" => r.op = "diagnose"
    /\ r.pc = "release" => r.op = "release"
    /\ r.pc \in {"stamp", "renew"} => r.op = "renew"
    /\ r.pc \in {"release", "stamp", "renew"} => r.obs = r.token
    /\ r.pc = "swap" => r.op = "widen"
    /\ r.op = "ready" /\ r.pc = "done" => r.ans \in {"listed", "changed"}
    /\ r.ans \in Codes \cup {"released", "renewed"} => r.op \in Told

\* A token was issued before it was presented, and a row that was read is one
\* of the task it was read for.
Presented(c) == LET r == call[c] IN
    /\ r.token \in Issued \cup {NoLease}
    /\ r.pc \in {"select", "judge", "retire"} => r.task \in Tasks
    /\ r.pc \in {"judge", "retire"} => r.obs \in Issued /\ lease[r.obs].task = r.task

\* What a call is about to answer was true at an instant it has been through.
Witnessed(c) == LET r == call[c] IN r.op \in Told =>
    /\ r.pc = "judge" /\ r.exp = Unreadable => "bad_timestamp" \in truth[c]
    /\ r.pc = "judge" /\ r.exp # Unreadable /\ ~Past(r.exp, clock) =>
          (IF r.obs = r.token THEN "valid" ELSE "held_by_other") \in truth[c]
    /\ r.pc \in {"release", "stamp", "renew"} => "valid" \in truth[c]
    /\ r.pc = "prior" =>
          IF r.token \in LeaseIds /\ lease[r.token].task = r.task
          THEN lease[r.token].status \in {"stale", "released"} /\ "expired" \in truth[c]
          ELSE "invalid" \in truth[c]
    /\ r.ans \in Codes => r.ans \in truth[c]
    /\ r.ans \in {"released", "renewed"} => "valid" \in truth[c]
    /\ (r.ans = "refused" /\ r.op = "release") => \E x \in truth[c] : x # "valid"

\* A task that was offerable all along has no row left, or the sweep has still
\* to come to it, or is at it and has not taken its row for a live one.
Swept(c) == LET r == call[c] IN r.op = "ready" =>
    /\ \A t \in owed[c] :
         /\ Offerable(t)
         /\ r.pc # "done" => \/ ActiveOf(t) = {}
                             \/ t \in r.todo
                             \/ r.pc \in {"select", "judge", "retire"} /\ r.task = t
    /\ r.pc = "list" => r.todo = {}
    /\ r.pc = "judge" /\ r.task \in owed[c] => Past(r.exp, clock)
    /\ r.ans = "listed" => owed[c] \subseteq r.offer

\* What a client was told is written is there.
Widened(c) == call[c].ans = "written" =>
    call[c].task \in Tasks /\ call[c].want \subseteq scope[call[c].task]

CallInv(c) == Shaped(c) /\ Presented(c) /\ Witnessed(c) /\ Swept(c) /\ Widened(c)

ToldInv == LeaseInv /\ TypeOK /\ NoLostWidening /\ \A c \in Clients : CallInv(c)

\* What every step keeps: time, issued rows and their tasks, ended rows, paths in
\* a scope; and a task that gets a row is held.
Grows ==
    /\ clock \in Nat /\ clock' \in Nat /\ clock <= clock'
    /\ \A l \in Issued :
          /\ l \in Issued' /\ lease'[l].task = lease[l].task
          /\ lease[l].status \in {"stale", "released"} => lease'[l] = lease[l]
    /\ \A t \in Tasks : scope[t] \subseteq scope'[t]
    /\ \A t \in Tasks : ActiveOf(t)' \subseteq ActiveOf(t) \/ ~Offerable(t)'

LEMMA StepGrows ==
  ASSUME LeaseInv, LeaseInv', Next
  PROVE  Grows
  <1>0. StoreType /\ RetirePast /\ StoreType'
    BY DEF LeaseInv
  <1>1. clock \in Nat /\ clock' \in Nat /\ clock <= clock'
    <2>1. CASE Environment
      BY <2>1, <1>0 DEF Environment, Tick, Acquire, BoardEdit, ForeignExpiry, StoreType
    <2>2. ASSUME NEW c \in Clients, ClientStep(c) PROVE clock' = clock
      BY <2>2, <1>0, ClientBecomes
    <2>3. QED
      BY <1>0, <2>1, <2>2 DEF Next, StoreType
  <1>2. \A t \in Tasks : scope[t] \subseteq scope'[t]
    <2>1. ASSUME NEW c \in Clients, SwapWritten(c)
          PROVE  \A t \in Tasks : scope[t] \subseteq scope'[t]
      BY <2>1, <1>0 DEF SwapWritten, ScopeAsRead, StoreType
    <2>2. ASSUME NEW c \in Clients, ClientStep(c), ~SwapWritten(c)
          PROVE  scope' = scope
      BY <2>2 DEF ClientStep, Continue, ActiveLease, Begin, BeginReady, BeginWiden, Crash,
           SelectNone, SelectRow, JudgeLive, JudgeBad, JudgePast, RetireWon, RetireLost,
           GiveUp, SweepNext, SweepDone, List, Prior, ReleaseWrite, RenewStamp, RenewWrite,
           SwapStale, SwapRefused, Return, store
    <2>3. CASE Environment
      BY <2>3 DEF Environment, Tick, Acquire, BoardEdit, ForeignExpiry
    <2>4. QED
      BY <2>1, <2>2, <2>3 DEF Next
  <1>3. CASE Quiet
    <2>1. \A t \in Tasks : ActiveOf(t)' \subseteq ActiveOf(t) \/ ~Offerable(t)'
      BY <1>3 DEF Quiet, ActiveOf
    <2>2. \A l \in Issued :
            /\ l \in Issued' /\ lease'[l].task = lease[l].task
            /\ lease[l].status \in {"stale", "released"} => lease'[l] = lease[l]
      BY <1>3, <1>0 DEF Quiet, Issued
    <2>3. QED
      BY <1>1, <1>2, <2>1, <2>2 DEF Grows
  <1>4. ASSUME NEW t \in Tasks, NEW force \in BOOLEAN, NEW ttl \in Ttls,
               Acquire(t, force, ttl)
        PROVE  Grows
    <2>0. PICK new \in LeaseIds \ Issued :
          lease' = [l \in LeaseIds |->
                       IF l = new
                       THEN [task |-> t, status |-> "active", expires |-> ExpiresAt(ttl)]
                       ELSE IF l \in Retired(t, force)
                       THEN [lease[l] EXCEPT !.status = "stale"]
                       ELSE lease[l]]
      BY <1>4 DEF Acquire
    <2>1. \A l \in Retired(t, force) :
            /\ l \in LeaseIds /\ lease[l].task = t /\ lease[l].status = "active"
            /\ [lease[l] EXCEPT !.status = "stale"].task = lease[l].task
            /\ [lease[l] EXCEPT !.status = "stale"].status = "stale"
      BY <1>0 DEF Retired, ActiveOf, StoreType, Row
    <2>2. \A l \in Issued :
            /\ l \in Issued' /\ lease'[l].task = lease[l].task
            /\ lease[l].status \in {"stale", "released"} => lease'[l] = lease[l]
      BY <2>0, <2>1 DEF Issued
    <2>3. \A u \in Tasks \ {t} : ActiveOf(u)' \subseteq ActiveOf(u)
      BY <2>0, <2>1 DEF ActiveOf
    <2>4. ~Past(ExpiresAt(ttl), clock) /\ clock' = clock
      BY <1>0, <1>4, BoundsAssumption DEF ExpiresAt, Past, Readable, StoreType, Acquire
    <2>5. new \in Holding(t)'
      BY <2>0, <2>4 DEF Holding, ActiveOf
    <2>6. ~Offerable(t)'
      BY <2>5 DEF Offerable
    <2>7. QED
      BY <1>1, <1>2, <2>2, <2>3, <2>6 DEF Grows
  <1>5. QED
    BY <1>0, <1>3, <1>4, QuietStep

LEMMA PastGrows ==
  ASSUME NEW e \in Expiry, Grows, Past(e, clock)
  PROVE  Past(e, clock)'
  BY DEF Grows, Past, Readable, Expiry

\* The ghosts of a client after a step.
LEMMA Observed ==
  ASSUME TypeOK, Observe, NEW c \in Clients
  PROVE  /\ call'[c].op \in Told =>
               /\ truth[c] \subseteq truth'[c]
               /\ CodeNow(call[c].task, call[c].token)' \in truth'[c]
         /\ \A t \in owed'[c] : t \in Tasks /\ Offerable(t)'
         /\ call[c].op = "ready" => owed'[c] \subseteq owed[c]
  BY DEF TypeOK, Observe, Told

\* Somebody else's step.
LEMMA OtherKeeps ==
  ASSUME TypeOK, LeaseInv, Observe, Grows, NEW c \in Clients, CallInv(c), call'[c] = call[c]
  PROVE  CallInv(c)'
  <1>0. call[c] \in Call /\ Issued \subseteq LeaseIds
    BY DEF TypeOK, Working, Issued
  <1>1. Shaped(c)'
    BY DEF CallInv, Shaped
  <1>2. Presented(c)'
    BY DEF CallInv, Presented, Grows
  <1>3. Widened(c)'
    BY DEF CallInv, Widened, Grows
  <1>4. call[c].exp \in Expiry
    BY <1>0 DEF Call
  <1>5. ~Past(call[c].exp, clock)' => ~Past(call[c].exp, clock)
    BY <1>4, PastGrows
  <1>6. Witnessed(c)'
    <2> SUFFICES ASSUME call[c].op \in Told PROVE Witnessed(c)'
      BY DEF Witnessed
    <2>1. truth[c] \subseteq truth'[c]
      BY Observed
    <2>2. call[c].token \in LeaseIds => call[c].token \in Issued
      BY NullAssumption DEF CallInv, Presented
    <2>3. QED
      BY <1>5, <2>1, <2>2 DEF CallInv, Witnessed, Grows, Past
  <1>7. Swept(c)'
    <2> SUFFICES ASSUME call[c].op = "ready" PROVE Swept(c)'
      BY DEF Swept
    <2>1. owed'[c] \subseteq owed[c] /\ \A t \in owed'[c] : t \in Tasks /\ Offerable(t)'
      BY Observed
    <2>2. \A t \in owed'[c] : ActiveOf(t) = {} => ActiveOf(t)' = {}
      BY <2>1 DEF Grows
    <2>3. call[c].task \in owed[c] /\ Past(call[c].exp, clock) => Past(call[c].exp, clock)'
      BY <1>4, PastGrows
    <2>4. QED
      BY <2>1, <2>2, <2>3 DEF CallInv, Swept, Past
  <1>8. QED
    BY <1>1, <1>2, <1>3, <1>6, <1>7 DEF CallInv
(***************************************************************************)
(* The code that is true now, by what the table holds.                     *)
(***************************************************************************)
LEMMA CodeLive ==
  ASSUME OneActive, NEW t \in Tasks, NEW k, NEW l \in ActiveOf(t),
         ~Past(lease[l].expires, clock)
  PROVE  CodeNow(t, k) = IF lease[l].expires = Unreadable THEN "bad_timestamp"
                         ELSE IF l = k THEN "valid" ELSE "held_by_other"
  <1>1. Holding(t) = {l}
    BY DEF OneActive, Holding
  <1>2. QED
    BY <1>1 DEF CodeNow

\* Of a call that keeps its task and token, in a step that leaves the store alone.
LEMMA CodeSame ==
  ASSUME UNCHANGED store, NEW c \in Clients,
         call'[c].task = call[c].task, call'[c].token = call[c].token
  PROVE  CodeNow(call[c].task, call[c].token)' = CodeNow(call[c].task, call[c].token)
  BY DEF CodeNow, Holding, ActiveOf, Issued, Past, store

LEMMA CodeFreeNext ==
  ASSUME NEW c \in Clients, ActiveOf(call[c].task)' = {}
  PROVE  CodeNow(call[c].task, call[c].token)' =
            IF call'[c].token \in Issued' /\ lease'[call'[c].token].task = call'[c].task
            THEN "expired" ELSE "invalid"
  <1>1. Holding(call[c].task)' = {}
    BY DEF Holding
  <1>2. QED
    BY <1>1 DEF CodeNow

LEMMA CodeValidNext ==
  ASSUME NEW c \in Clients, CodeNow(call[c].task, call[c].token)' = "valid"
  PROVE  /\ call'[c].token \in LeaseIds
         /\ lease'[call'[c].token].status = "active"
  BY DEF CodeNow, Holding, ActiveOf

LEMMA AnswerFields ==
  ASSUME NEW r \in Call, NEW a
  PROVE  /\ Answer(r, a).pc = "done" /\ Answer(r, a).op = r.op
         /\ Answer(r, a).task = r.task /\ Answer(r, a).token = r.token
         /\ Answer(r, a).ans = a
  <1>1. Idle \in Call
    BY IdleType DEF Working
  <1>2. QED
    BY <1>1 DEF Answer, Call

(***************************************************************************)
(* A client's own steps.                                                   *)
(***************************************************************************)
LEMMA DoneKeeps ==
  ASSUME TypeOK, LeaseInv, Observe, Grows, NEW c \in Clients, CallInv(c), NEW a,
         Reply(c, a), a \notin {"written", "listed"},
         call[c].op = "ready" => a = "changed",
         a \in Codes \cup {"released", "renewed"} => call[c].op \in Told,
         call[c].op \in Told =>
            /\ a \in Codes => a \in truth'[c]
            /\ a \in {"released", "renewed"} => "valid" \in truth'[c]
            /\ (a = "refused" /\ call[c].op = "release") => \E x \in truth'[c] : x # "valid"
  PROVE  CallInv(c)'
  <1>0. call[c] \in Call /\ call \in [Clients -> Working]
    BY DEF TypeOK, Working
  <1>1. call'[c] = Answer(call[c], a)
    BY <1>0 DEF Reply, Become
  <1>2. /\ call'[c].pc = "done" /\ call'[c].op = call[c].op
        /\ call'[c].token = call[c].token /\ call'[c].ans = a
    BY <1>0, <1>1, AnswerFields
  <1>3. Shaped(c)' /\ Widened(c)'
    BY <1>2 DEF Shaped, Widened
  <1>4. Presented(c)'
    BY <1>2 DEF CallInv, Presented, Grows
  <1>5. Witnessed(c)'
    BY <1>2 DEF Witnessed
  <1>6. Swept(c)'
    BY <1>2, Observed DEF Swept
  <1>7. QED
    BY <1>3, <1>4, <1>5, <1>6 DEF CallInv

\* The sweep is done with a task that is not owed, or has no row any more.
LEMMA NextKeeps ==
  ASSUME TypeOK, LeaseInv, Observe, Grows, NEW c \in Clients, CallInv(c),
         call[c].op = "ready", call[c].pc \in {"select", "judge", "retire"},
         NEW found \in {"none", "live", "bad"}, Become(c, After(call[c], found)),
         \A t \in owed'[c] : t = call[c].task => ActiveOf(t)' = {}
  PROVE  CallInv(c)'
  <1>0. call[c] \in Call /\ call \in [Clients -> Working]
    BY DEF TypeOK, Working
  <1>1. call'[c] = [call[c] EXCEPT !.pc = "next", !.obs = NoLease, !.exp = NoExpiry, !.pass = 0]
    BY <1>0 DEF Become, After, SweepTolerates
  <1>2. /\ call'[c].pc = "next" /\ call'[c].op = "ready" /\ call'[c].task = call[c].task
        /\ call'[c].token = call[c].token /\ call'[c].ans = call[c].ans
        /\ call'[c].todo = call[c].todo
    BY <1>0, <1>1 DEF Call
  <1>3. call[c].ans = "none"
    BY DEF CallInv, Shaped
  <1>4. Shaped(c)' /\ Widened(c)'
    BY <1>2, <1>3 DEF Codes, Shaped, Widened
  <1>5. Presented(c)'
    BY <1>2 DEF CallInv, Presented, Grows
  <1>6. Witnessed(c)'
    BY <1>2 DEF Witnessed, Told
  <1>7. owed'[c] \subseteq owed[c] /\ \A t \in owed'[c] : t \in Tasks /\ Offerable(t)'
    BY Observed
  <1>8. \A t \in owed'[c] : ActiveOf(t) = {} => ActiveOf(t)' = {}
    BY <1>7 DEF Grows
  <1>9. Swept(c)'
    BY <1>2, <1>3, <1>7, <1>8 DEF CallInv, Swept
  <1>10. QED
    BY <1>4, <1>5, <1>6, <1>9 DEF CallInv
\* active_lease found nothing, or nothing that is left.
LEMMA NoneKeeps ==
  ASSUME TypeOK, LeaseInv, LeaseInv', Observe, Grows, NEW c \in Clients, CallInv(c),
         call[c].pc \in {"select", "retire"}, Become(c, After(call[c], "none")),
         \A t : t = call[c].task => ActiveOf(t)' = {}
  PROVE  CallInv(c)'
  <1>0. call[c] \in Call /\ call \in [Clients -> Working]
    BY DEF TypeOK, Working
  <1>1. CASE call[c].op = "ready"
    BY <1>1, NextKeeps
  <1>2. CASE call[c].op \in Told
    <2>1. call[c].ans = "none" /\ call[c].token \in Issued \cup {NoLease}
      BY DEF CallInv, Shaped, Presented
    <2>2. CASE call[c].op = "diagnose"
      <3>1. call'[c] = [call[c] EXCEPT !.pc = "prior"]
        BY <1>0, <2>2 DEF Become, After, SweepTolerates
      <3>2. /\ call'[c].pc = "prior" /\ call'[c].op = "diagnose" /\ call'[c].task = call[c].task
            /\ call'[c].token = call[c].token /\ call'[c].ans = call[c].ans
        BY <1>0, <2>2, <3>1 DEF Call
      <3>3. Shaped(c)' /\ Widened(c)' /\ Swept(c)'
        BY <2>1, <3>2 DEF Codes, Shaped, Widened, Swept
      <3>4. Presented(c)'
        BY <3>2 DEF CallInv, Presented, Grows
      <3>5. ActiveOf(call[c].task)' = {}
        BY <3>2
      <3>6. (IF call'[c].token \in Issued' /\ lease'[call'[c].token].task = call'[c].task
             THEN "expired" ELSE "invalid") \in truth'[c]
        BY <3>2, <3>5, CodeFreeNext, Observed DEF Told
      <3>7. call'[c].token \in LeaseIds <=> call'[c].token \in Issued'
        BY <2>1, <3>2, NullAssumption DEF Grows, Issued
      <3>8. \A l \in Issued' : lease'[l].task = call'[c].task
                                  => lease'[l].status \in {"stale", "released"}
        <4>1. \A l \in Issued' : /\ l \in LeaseIds
                                 /\ lease'[l].status \in {"active", "stale", "released"}
          BY DEF LeaseInv, StoreType, Issued, Row, LeaseStatus
        <4>2. QED
          BY <3>5, <4>1 DEF ActiveOf
      <3>9. Witnessed(c)'
        BY <2>1, <3>2, <3>6, <3>7, <3>8 DEF Witnessed, Codes
      <3>10. QED
        BY <3>3, <3>4, <3>9 DEF CallInv
    <2>3. CASE call[c].op # "diagnose"
      <3>1. Reply(c, "refused")
        BY <1>2, <2>3 DEF Reply, After, SweepTolerates, Told
      <3>2. /\ call'[c].op = call[c].op /\ call'[c].task = call[c].task
        BY <1>0, <3>1, AnswerFields DEF Reply, Become
      <3>3. ActiveOf(call[c].task)' = {}
        BY <3>2
      <3>4. \E x \in truth'[c] : x # "valid"
        BY <1>2, <3>2, <3>3, CodeFreeNext, Observed
      <3>5. QED
        BY <1>2, <3>1, <3>4, DoneKeeps DEF Told, Codes
    <2>4. QED
      BY <2>2, <2>3
  <1>3. QED
    BY <1>1, <1>2 DEF CallInv, Shaped

LEMMA JudgedKeeps ==
  ASSUME TypeOK, LeaseInv, Observe, Grows, NEW c \in Clients, CallInv(c),
         JudgeLive(c) \/ JudgeBad(c)
  PROVE  CallInv(c)'
  <1>0. call[c] \in Call /\ call \in [Clients -> Working] /\ call[c].pc = "judge"
    BY DEF TypeOK, Working, JudgeLive, JudgeBad
  <1>1. call[c].ans = "none" /\ call[c].token \in Issued \cup {NoLease}
    BY <1>0 DEF CallInv, Shaped, Presented
  <1>2. ~Past(call[c].exp, clock)
    BY DEF JudgeLive, JudgeBad, Past, Readable
  <1>3. PICK found \in {"live", "bad"} :
          /\ Become(c, After(call[c], found))
          /\ found = "bad" <=> call[c].exp = Unreadable
    BY DEF JudgeLive, JudgeBad
  <1>4. CASE call[c].op = "ready"
    <2>1. call[c].task \notin owed[c]
      BY <1>0, <1>2, <1>4 DEF CallInv, Swept
    <2>2. owed'[c] \subseteq owed[c]
      BY <1>4, Observed
    <2>3. QED
      BY <1>0, <1>3, <1>4, <2>1, <2>2, NextKeeps
  <1>5. CASE call[c].op \in Told
    <2>1. call'[c].op = call[c].op => truth[c] \subseteq truth'[c]
      BY <1>5, Observed
    <2>2. CASE found = "bad"
      <3>1. Reply(c, "bad_timestamp")
        BY <1>3, <1>5, <2>2 DEF Reply, After, Told
      <3>2. call'[c].op = call[c].op
        BY <1>0, <3>1, AnswerFields DEF Reply, Become
      <3>3. "bad_timestamp" \in truth'[c]
        BY <1>0, <1>3, <1>5, <2>1, <2>2, <3>2 DEF CallInv, Witnessed
      <3>4. QED
        BY <1>5, <3>1, <3>3, DoneKeeps DEF Told
    <2>3. CASE found = "live"
      <3>0. (IF call[c].obs = call[c].token THEN "valid" ELSE "held_by_other") \in truth[c]
        BY <1>0, <1>2, <1>3, <1>5, <2>3 DEF CallInv, Witnessed
      <3>1. CASE call[c].op = "diagnose" \/ call[c].obs # call[c].token
        <4>1. PICK a \in {"valid", "held_by_other", "refused"} :
                /\ Reply(c, a)
                /\ a = "refused" => call[c].obs # call[c].token
                /\ a = "valid" <=> call[c].op = "diagnose" /\ call[c].obs = call[c].token
                /\ a = "held_by_other" <=> call[c].op = "diagnose" /\ call[c].obs # call[c].token
          BY <1>3, <1>5, <2>3, <3>1 DEF Reply, After, SweepTolerates, Told
        <4>2. call'[c].op = call[c].op
          BY <1>0, <4>1, AnswerFields DEF Reply, Become
        <4>3. QED
          BY <1>5, <2>1, <3>0, <4>1, <4>2, DoneKeeps DEF Told, Codes
      <3>2. CASE call[c].op # "diagnose" /\ call[c].obs = call[c].token
        <4> DEFINE pc == IF call[c].op = "release" THEN "release" ELSE "stamp"
        <4>1. call'[c] = [call[c] EXCEPT !.pc = pc]
          BY <1>0, <1>3, <1>5, <2>3, <3>2 DEF Become, After, SweepTolerates, Told
        <4>2. /\ call'[c].pc = pc /\ call'[c].op = call[c].op /\ call'[c].task = call[c].task
              /\ call'[c].token = call[c].token /\ call'[c].ans = call[c].ans
              /\ call'[c].obs = call[c].obs
          BY <1>0, <4>1 DEF Call
        <4>3. Shaped(c)' /\ Widened(c)' /\ Swept(c)'
          BY <1>1, <1>5, <3>2, <4>2 DEF Shaped, Widened, Swept, Told
        <4>4. Presented(c)'
          BY <4>2 DEF CallInv, Presented, Grows
        <4>5. Witnessed(c)'
          BY <1>1, <2>1, <3>0, <3>2, <4>2 DEF Witnessed, Codes
        <4>6. QED
          BY <4>3, <4>4, <4>5 DEF CallInv
      <3>3. QED
        BY <3>1, <3>2
    <2>4. QED
      BY <2>2, <2>3
  <1>6. QED
    BY <1>0, <1>4, <1>5 DEF CallInv, Shaped
LEMMA ReadKeeps ==
  ASSUME TypeOK, LeaseInv, Observe, Grows, NEW c \in Clients, CallInv(c),
         SelectRow(c)
  PROVE  CallInv(c)'
  <1>0. call[c] \in Call /\ call \in [Clients -> Working] /\ call[c].pc = "select"
    BY DEF TypeOK, Working, SelectRow
  <1>1. call[c].ans = "none" /\ call[c].task \in Tasks /\ call[c].op \in Told \cup {"ready"}
    BY <1>0 DEF CallInv, Shaped, Presented
  <1>2. PICK l \in ActiveOf(call[c].task) :
          Become(c, [call[c] EXCEPT !.pc = "judge", !.obs = l, !.exp = lease[l].expires])
    BY DEF SelectRow
  <1>3. /\ call'[c].pc = "judge" /\ call'[c].op = call[c].op /\ call'[c].task = call[c].task
        /\ call'[c].token = call[c].token /\ call'[c].ans = call[c].ans
        /\ call'[c].obs = l /\ call'[c].exp = lease[l].expires
        /\ call'[c].todo = call[c].todo
    BY <1>0, <1>2 DEF Call, Become
  <1>4. Shaped(c)' /\ Widened(c)'
    BY <1>1, <1>3 DEF Codes, Shaped, Widened
  <1>5. l \in Issued /\ lease[l].task = call[c].task /\ UNCHANGED store
    BY DEF ActiveOf, Issued, SelectRow
  <1>6. Presented(c)'
    BY <1>1, <1>3, <1>5 DEF CallInv, Presented, Grows
  <1>7. Witnessed(c)'
    <2> SUFFICES ASSUME call[c].op \in Told PROVE Witnessed(c)'
      BY <1>3 DEF Witnessed
    <2>1. CodeNow(call[c].task, call[c].token) \in truth'[c]
      BY <1>3, <1>5, CodeSame, Observed
    <2>2. Past(lease[l].expires, clock)' <=> Past(lease[l].expires, clock)
      BY <1>5 DEF Past, store
    <2>3. ~Past(lease[l].expires, clock) =>
            CodeNow(call[c].task, call[c].token) =
              IF lease[l].expires = Unreadable THEN "bad_timestamp"
              ELSE IF l = call[c].token THEN "valid" ELSE "held_by_other"
      BY <1>1, CodeLive DEF LeaseInv
    <2>4. lease[l].expires = Unreadable => ~Past(lease[l].expires, clock)
      BY DEF Past, Readable
    <2>5. clock' = clock
      BY <1>5 DEF store
    <2>6. QED
      BY <1>1, <1>3, <2>1, <2>3, <2>4, <2>5 DEF Witnessed, Codes
  <1>8. Swept(c)'
    <2> SUFFICES ASSUME call[c].op = "ready" PROVE Swept(c)'
      BY <1>3 DEF Swept
    <2>1. owed'[c] \subseteq owed[c] /\ \A t \in owed'[c] : t \in Tasks /\ Offerable(t)'
      BY Observed
    <2>2. \A t : ActiveOf(t)' = ActiveOf(t)
      BY <1>5 DEF ActiveOf, store
    <2>3. call[c].task \in owed[c] => Past(lease[l].expires, clock)
      BY DEF CallInv, Swept, Offerable, Holding
    <2>4. clock' = clock
      BY <1>5 DEF store
    <2>5. QED
      BY <1>0, <1>1, <1>3, <2>1, <2>2, <2>3, <2>4 DEF CallInv, Swept
  <1>9. QED
    BY <1>4, <1>6, <1>7, <1>8 DEF CallInv

\* Steps from one statement to the next that only move on.
LEMMA MovesOn ==
  ASSUME TypeOK, LeaseInv, Observe, Grows, NEW c \in Clients, CallInv(c),
         JudgePast(c) \/ RetireLost(c) \/ SweepNext(c) \/ SweepDone(c)
  PROVE  CallInv(c)'
  <1>0. call[c] \in Call /\ call \in [Clients -> Working]
    BY DEF TypeOK, Working
  <1>1. UNCHANGED store
    BY DEF JudgePast, RetireLost, SweepNext, SweepDone
  <1>2. call[c].pc \in {"judge", "retire", "next"}
    BY DEF JudgePast, RetireLost, SweepNext, SweepDone
  <1>3. call[c].ans = "none" /\ call[c].token \in Issued \cup {NoLease}
    BY <1>2 DEF CallInv, Shaped, Presented
  <1>4. call[c].op = "ready" =>
           owed'[c] \subseteq owed[c] /\ \A t \in owed'[c] : t \in Tasks /\ Offerable(t)'
    BY Observed
  <1>5. \A t : ActiveOf(t)' = ActiveOf(t)
    BY <1>1 DEF ActiveOf, store
  <1>6. CASE JudgePast(c) \/ RetireLost(c)
    <2>1. /\ call'[c].pc = IF call[c].pc = "judge" THEN "retire" ELSE "select"
          /\ call[c].pc \in {"judge", "retire"}
          /\ call'[c].op = call[c].op /\ call'[c].task = call[c].task
          /\ call'[c].token = call[c].token /\ call'[c].ans = call[c].ans
          /\ call'[c].todo = call[c].todo
          /\ call[c].pc = "judge" => call'[c].obs = call[c].obs
      <3>1. CASE JudgePast(c)
        BY <1>0, <3>1 DEF JudgePast, Goto, Become, Call
      <3>2. CASE RetireLost(c)
        BY <1>0, <3>2 DEF RetireLost, Become, Call
      <3>3. QED
        BY <1>6, <3>1, <3>2
    <2>2. Shaped(c)' /\ Widened(c)'
      BY <1>3, <2>1 DEF Shaped, Widened, CallInv
    <2>3. Presented(c)'
      BY <1>2, <2>1 DEF CallInv, Presented, Grows
    <2>4. Witnessed(c)'
      BY <1>3, <2>1 DEF Witnessed, Codes
    <2>5. Swept(c)'
      BY <1>3, <1>4, <1>5, <2>1 DEF CallInv, Swept
    <2>6. QED
      BY <2>2, <2>3, <2>4, <2>5 DEF CallInv
  <1>7. CASE SweepNext(c)
    <2>1. PICK t \in call[c].todo :
            Become(c, [call[c] EXCEPT !.pc = "select", !.task = t, !.todo = call[c].todo \ {t}])
      BY <1>7 DEF SweepNext
    <2>2. /\ call'[c].pc = "select" /\ call'[c].op = call[c].op /\ call'[c].task = t
          /\ call'[c].token = call[c].token /\ call'[c].ans = call[c].ans
          /\ call'[c].todo = call[c].todo \ {t} /\ t \in Tasks
      BY <1>0, <2>1 DEF Become, Call
    <2>3. call[c].pc = "next" /\ call[c].op = "ready"
      BY <1>7 DEF SweepNext, CallInv, Shaped
    <2>4. Shaped(c)' /\ Widened(c)' /\ Witnessed(c)'
      BY <1>3, <2>2, <2>3 DEF Codes, Shaped, Widened, Witnessed, Told
    <2>5. Presented(c)'
      BY <2>2 DEF CallInv, Presented, Grows
    <2>6. Swept(c)'
      BY <1>3, <1>4, <1>5, <2>2, <2>3 DEF CallInv, Swept
    <2>7. QED
      BY <2>4, <2>5, <2>6 DEF CallInv
  <1>8. CASE SweepDone(c)
    <2>1. /\ call'[c].pc = "list" /\ call'[c].op = call[c].op /\ call'[c].task = call[c].task
          /\ call'[c].token = call[c].token /\ call'[c].ans = call[c].ans
          /\ call'[c].todo = {} /\ call[c].todo = {}
      BY <1>0, <1>8 DEF SweepDone, Goto, Become, Call
    <2>2. call[c].pc = "next" /\ call[c].op = "ready"
      BY <1>8 DEF SweepDone, CallInv, Shaped
    <2>3. Shaped(c)' /\ Widened(c)' /\ Witnessed(c)'
      BY <1>3, <2>1, <2>2 DEF Codes, Shaped, Widened, Witnessed, Told
    <2>4. Presented(c)'
      BY <2>1 DEF CallInv, Presented, Grows
    <2>5. Swept(c)'
      BY <1>3, <1>4, <1>5, <2>1, <2>2 DEF CallInv, Swept
    <2>6. QED
      BY <2>3, <2>4, <2>5 DEF CallInv
  <1>9. QED
    BY <1>6, <1>7, <1>8
LEMMA ListKeeps ==
  ASSUME TypeOK, LeaseInv, Observe, Grows, NEW c \in Clients, CallInv(c), List(c)
  PROVE  CallInv(c)'
  <1>0. call[c] \in Call /\ call \in [Clients -> Working] /\ call[c].pc = "list"
    BY DEF TypeOK, Working, List
  <1>1. Answer(call[c], "listed") \in Call
    BY <1>0, AnswerType DEF Working, Answers
  <1>2. /\ call'[c].pc = "done" /\ call'[c].op = call[c].op /\ call'[c].ans = "listed"
        /\ call'[c].token = call[c].token
        /\ call'[c].offer = {t \in Tasks : ReadyRow(t)}
    BY <1>0, <1>1, AnswerFields DEF List, Become, Call
  <1>3. call[c].op = "ready" /\ call[c].todo = {}
    BY <1>0 DEF CallInv, Shaped, Swept
  <1>4. Shaped(c)' /\ Widened(c)' /\ Witnessed(c)'
    BY <1>2, <1>3 DEF Codes, Shaped, Widened, Witnessed, Told
  <1>5. Presented(c)'
    BY <1>2 DEF CallInv, Presented, Grows
  <1>6. owed'[c] \subseteq owed[c] /\ \A t \in owed'[c] : t \in Tasks /\ Offerable(t)'
    BY <1>3, Observed
  <1>7. \A t \in owed'[c] : ReadyRow(t)
    BY <1>0, <1>3, <1>6 DEF CallInv, Swept, Offerable, ReadyRow
  <1>8. Swept(c)'
    BY <1>2, <1>6, <1>7 DEF Swept
  <1>9. QED
    BY <1>4, <1>5, <1>8 DEF CallInv

LEMMA AnswersKeep ==
  ASSUME TypeOK, LeaseInv, LeaseInv', Observe, Grows, NEW c \in Clients, CallInv(c),
         GiveUp(c) \/ Prior(c) \/ ReleaseWrite(c) \/ RenewStamp(c) \/ RenewWrite(c)
  PROVE  CallInv(c)'
  <1>0. call[c] \in Call /\ call \in [Clients -> Working]
    BY DEF TypeOK, Working
  <1>a. \A a : Reply(c, a) => /\ call'[c].op = call[c].op /\ call'[c].task = call[c].task
                              /\ call'[c].token = call[c].token
    BY <1>0, AnswerFields DEF Reply, Become
  <1>b. call[c].op \in Told /\ call'[c].op = call[c].op => truth[c] \subseteq truth'[c]
    BY Observed
  <1>1. CASE GiveUp(c)
    BY <1>1, DoneKeeps DEF GiveUp, Codes
  <1>2. CASE Prior(c)
    <2>0. call[c].pc = "prior" /\ call[c].op = "diagnose"
      BY <1>2 DEF Prior, CallInv, Shaped
    <2>1. PICK a \in {"expired", "invalid"} :
            /\ Reply(c, a)
            /\ a = "expired" <=> /\ call[c].token \in LeaseIds
                                 /\ lease[call[c].token].task = call[c].task
                                 /\ lease[call[c].token].status \in EndedStatus
      BY <1>2 DEF Prior
    <2>2. a \in truth[c]
      BY <2>0, <2>1 DEF CallInv, Witnessed, Told, EndedStatus
    <2>3. QED
      BY <1>a, <1>b, <2>0, <2>1, <2>2, DoneKeeps DEF Told
  <1>3. CASE ReleaseWrite(c)
    <2>0. /\ call[c].pc = "release" /\ call[c].op = "release" /\ call[c].obs = call[c].token
          /\ "valid" \in truth[c] /\ call[c].token \in LeaseIds
      BY <1>0, <1>3 DEF ReleaseWrite, CallInv, Shaped, Witnessed, Told, TypeOK, Working
    <2>1. CASE Reply(c, "released")
      BY <1>a, <1>b, <2>0, <2>1, DoneKeeps DEF Told, Codes
    <2>2. CASE Reply(c, "refused") /\ lease' = lease /\ lease[call[c].token].status # "active"
      <3>1. CodeNow(call[c].task, call[c].token)' # "valid"
        BY <1>a, <2>2, CodeValidNext
      <3>2. CodeNow(call[c].task, call[c].token)' \in truth'[c]
        BY <1>a, <2>0, <2>2, Observed DEF Told
      <3>3. QED
        BY <2>0, <2>2, <3>1, <3>2, DoneKeeps DEF Told, Codes
    <2>3. QED
      BY <1>3, <2>0, <2>1, <2>2 DEF ReleaseWrite
  <1>4. CASE RenewStamp(c)
    <2>0. /\ call[c].pc = "stamp" /\ call[c].op = "renew" /\ call[c].obs = call[c].token
          /\ "valid" \in truth[c] /\ call[c].ans = "none"
      BY <1>4 DEF RenewStamp, CallInv, Shaped, Witnessed, Told
    <2>1. CASE Reply(c, "refused")
      BY <2>0, <2>1, DoneKeeps DEF Codes
    <2>2. CASE Become(c, [call[c] EXCEPT !.pc = "renew", !.now = clock])
      <3>1. /\ call'[c].pc = "renew" /\ call'[c].op = call[c].op /\ call'[c].task = call[c].task
            /\ call'[c].token = call[c].token /\ call'[c].ans = call[c].ans
            /\ call'[c].obs = call[c].obs
        BY <1>0, <2>2 DEF Become, Call
      <3>2. Shaped(c)' /\ Widened(c)' /\ Swept(c)'
        BY <2>0, <3>1 DEF Codes, Shaped, Widened, Swept
      <3>3. Presented(c)'
        BY <3>1 DEF CallInv, Presented, Grows
      <3>4. Witnessed(c)'
        BY <1>b, <2>0, <3>1 DEF Witnessed, Told, Codes
      <3>5. QED
        BY <3>2, <3>3, <3>4 DEF CallInv
    <2>3. QED
      BY <1>4, <2>1, <2>2 DEF RenewStamp
  <1>5. CASE RenewWrite(c)
    <2>0. call[c].pc = "renew" /\ call[c].op = "renew" /\ "valid" \in truth[c]
      BY <1>5 DEF RenewWrite, CallInv, Shaped, Witnessed, Told
    <2>1. \E a \in {"renewed", "refused"} : Reply(c, a)
      BY <1>5 DEF RenewWrite
    <2>2. QED
      BY <1>a, <1>b, <2>0, <2>1, DoneKeeps DEF Told, Codes
  <1>6. QED
    BY <1>1, <1>2, <1>3, <1>4, <1>5

LEMMA WidenKeeps ==
  ASSUME TypeOK, LeaseInv, Observe, Grows, NEW c \in Clients, CallInv(c),
         SwapWritten(c) \/ SwapStale(c) \/ SwapRefused(c)
  PROVE  CallInv(c)'
  <1>0. call[c] \in Call /\ call \in [Clients -> Working] /\ call[c].pc = "swap"
    BY DEF TypeOK, Working, SwapWritten, SwapStale, SwapRefused
  <1>1. call[c].op = "widen" /\ call[c].ans = "none"
    BY <1>0 DEF CallInv, Shaped
  <1>2. CASE SwapWritten(c)
    <2>1. call[c].task \in Tasks
      BY <1>2 DEF SwapWritten, Authorised, Holding, ActiveOf, TypeOK, Issued
    <2>2. Answer(call[c], "written") \in Call
      BY <1>0, AnswerType DEF Working, Answers
    <2>3. /\ call'[c].pc = "done" /\ call'[c].op = call[c].op /\ call'[c].ans = "written"
          /\ call'[c].token = call[c].token /\ call'[c].task = call[c].task
          /\ call'[c].want = call[c].want
      BY <1>0, <1>2, <2>2, AnswerFields DEF SwapWritten, Become, Call
    <2>4. Shaped(c)' /\ Witnessed(c)' /\ Swept(c)'
      BY <1>1, <2>3 DEF Codes, Shaped, Witnessed, Swept, Told
    <2>5. Presented(c)'
      BY <2>3 DEF CallInv, Presented, Grows
    <2>6. Widened(c)'
      BY <1>2, <2>1, <2>3 DEF Widened, SwapWritten, TypeOK
    <2>7. QED
      BY <2>4, <2>5, <2>6 DEF CallInv
  <1>3. ASSUME NEW a \in {"stale", "refused"}, Reply(c, a)
        PROVE  CallInv(c)'
    BY <1>1, <1>3, DoneKeeps DEF Codes, Told
  <1>4. CASE Become(c, [call[c] EXCEPT !.base = scope[call[c].task], !.pass = call[c].pass + 1])
    <2>1. /\ call'[c].pc = "swap" /\ call'[c].op = "widen" /\ call'[c].ans = "none"
          /\ call'[c].token = call[c].token
      BY <1>0, <1>1, <1>4 DEF Become, Call
    <2>2. Shaped(c)' /\ Witnessed(c)' /\ Swept(c)' /\ Widened(c)'
      BY <2>1 DEF Codes, Shaped, Witnessed, Swept, Told, Widened
    <2>3. Presented(c)'
      BY <2>1 DEF CallInv, Presented, Grows
    <2>4. QED
      BY <2>2, <2>3 DEF CallInv
  <1>5. QED
    BY <1>2, <1>3, <1>4 DEF SwapStale, SwapRefused

LEMMA BeginsKeep ==
  ASSUME TypeOK, LeaseInv, Observe, Grows, NEW c \in Clients, CallInv(c),
         ClientStep(c), ~Continue(c) \/ Return(c)
  PROVE  CallInv(c)'
  <1>0. Idle \in Call /\ call \in [Clients -> Working]
    BY IdleType DEF TypeOK, Working
  <1>1. ASSUME NEW op \in Ops, NEW t \in Tasks, NEW k \in LeaseIds \cup {NoLease},
               Begin(c, op, t, k)
        PROVE  CallInv(c)'
    <2>1. /\ call'[c].pc = "select" /\ call'[c].op = op /\ call'[c].task = t
          /\ call'[c].token = k /\ call'[c].ans = "none"
      BY <1>0, <1>1 DEF Begin, Become, Call, Idle
    <2>2. op \in Told /\ k \in Issued \cup {NoLease}
      BY <1>1 DEF Begin, Told
    <2>3. Shaped(c)' /\ Widened(c)' /\ Swept(c)'
      BY <2>1, <2>2 DEF Shaped, Widened, Swept, Told
    <2>4. Presented(c)' /\ Witnessed(c)'
      BY <2>1, <2>2 DEF Presented, Witnessed, Grows, Codes
    <2>5. QED
      BY <2>3, <2>4 DEF CallInv
  <1>2. CASE BeginReady(c)
    <2>1. /\ call'[c].pc = "next" /\ call'[c].op = "ready" /\ call'[c].ans = "none"
          /\ call'[c].token = NoLease /\ call'[c].todo = SweepTasks
      BY <1>0, <1>2 DEF BeginReady, Become, Call, Idle
    <2>2. Shaped(c)' /\ Widened(c)' /\ Witnessed(c)' /\ Presented(c)'
      BY <2>1 DEF Codes, Shaped, Widened, Witnessed, Presented, Told
    <2>3. \A t \in owed'[c] : t \in Tasks /\ Offerable(t)'
      BY Observed
    <2>4. \A t \in Tasks : ActiveOf(t)' = {} \/ t \in SweepTasks
      BY <1>2 DEF SweepTasks, BeginReady, store, ActiveOf
    <2>5. Swept(c)'
      BY <2>1, <2>3, <2>4 DEF Swept
    <2>6. QED
      BY <2>2, <2>5 DEF CallInv
  <1>3. ASSUME NEW t \in Tasks, NEW k \in LeaseIds \cup {NoLease}, NEW f \in Files,
               BeginWiden(c, t, k, f)
        PROVE  CallInv(c)'
    <2>1. /\ call'[c].pc = "swap" /\ call'[c].op = "widen" /\ call'[c].ans = "none"
          /\ call'[c].token = k
      BY <1>0, <1>3 DEF BeginWiden, Become, Call, Idle
    <2>2. k \in Issued \cup {NoLease}
      BY <1>3 DEF BeginWiden
    <2>3. QED
      BY <2>1, <2>2 DEF Codes, CallInv, Shaped, Widened, Witnessed, Presented, Swept, Told, Grows
  <1>4. CASE Crash(c) \/ Return(c)
    <2>1. call'[c] = Idle
      BY <1>0, <1>4 DEF Crash, Return, Become
    <2>2. QED
      BY <2>1 DEF Codes, Idle, CallInv, Shaped, Widened, Witnessed, Presented, Swept, Told
  <1>5. QED
    BY <1>1, <1>2, <1>3, <1>4 DEF ClientStep
LEMMA OwnKeeps ==
  ASSUME TypeOK, LeaseInv, LeaseInv', Observe, Grows, NEW c \in Clients, CallInv(c),
         ClientStep(c)
  PROVE  CallInv(c)'
  <1>1. CASE SelectNone(c)
    <2>1. \A t : t = call[c].task => ActiveOf(t)' = {}
      BY <1>1 DEF SelectNone, ActiveOf, store
    <2>2. QED
      BY <1>1, <2>1, NoneKeeps DEF SelectNone
  <1>2. CASE RetireWon(c)
    <2>1. /\ call[c].obs \in LeaseIds /\ lease[call[c].obs].status = "active"
          /\ lease[call[c].obs].task = call[c].task /\ call[c].task \in Tasks
      BY <1>2 DEF RetireWon, StillAsRead, CallInv, Presented, Issued
    <2>2. ActiveOf(call[c].task) = {call[c].obs}
      BY <2>1 DEF LeaseInv, OneActive, ActiveOf
    <2>3. lease'[call[c].obs].status = "stale"
      BY <1>2, <2>1 DEF RetireWon, LeaseInv, StoreType, Row
    <2>4. \A l \in LeaseIds \ {call[c].obs} : lease'[l] = lease[l]
      BY <1>2 DEF RetireWon, LeaseInv, StoreType
    <2>5. \A t : t = call[c].task => ActiveOf(t)' = {}
      BY <2>2, <2>3, <2>4 DEF ActiveOf
    <2>6. QED
      BY <1>2, <2>5, NoneKeeps DEF RetireWon
  <1>3. QED
    BY <1>1, <1>2, JudgedKeeps, ReadKeeps, MovesOn, ListKeeps, AnswersKeep, WidenKeeps,
       BeginsKeep DEF Continue, ActiveLease

\* A step of one client leaves the calls of the others alone.
LEMMA OneCaller ==
  ASSUME LeaseInv, NEW c \in Clients, ClientStep(c), NEW d \in Clients, d # c
  PROVE  call'[d] = call[d]
  <1>1. \E r : Become(c, r)
    BY ClientBecomes DEF LeaseInv
  <1>2. QED
    BY <1>1 DEF Become, LeaseInv, StoreType

LEMMA ToldStep == ToldInv /\ LeaseInv' /\ TypeOK' /\ [Next]_vars => ToldInv'
  <1> SUFFICES ASSUME ToldInv, LeaseInv', TypeOK', [Next]_vars PROVE ToldInv'
    OBVIOUS
  <1>0. LeaseInv /\ TypeOK /\ NoLostWidening /\ \A c \in Clients : CallInv(c)
    BY DEF ToldInv
  <1>1. CASE UNCHANGED vars
    BY <1>0, <1>1 DEF vars, ToldInv, NoLostWidening, CallInv, Shaped, Presented, Witnessed,
       Swept, Widened, Issued, Offerable, Holding, ActiveOf, Past
  <1>2. CASE Next
    <2>1. Observe /\ Grows
      BY <1>0, <1>2, StepGrows DEF Next
    <2>2. ASSUME NEW c \in Clients PROVE CallInv(c)'
      <3>1. CASE ClientStep(c)
        BY <1>0, <2>1, <3>1, OwnKeeps
      <3>2. CASE call'[c] = call[c]
        BY <1>0, <2>1, <3>2, OtherKeeps
      <3>3. CASE Environment
        BY <3>2, <3>3 DEF Environment, Tick, Acquire, BoardEdit, ForeignExpiry
      <3>4. QED
        BY <1>0, <1>2, <3>1, <3>2, <3>3, OneCaller DEF Next
    <2>3. NoLostWidening'
      <3>1. \A c \in Clients : Widened(c)'
        BY <2>2 DEF CallInv
      <3>2. ASSUME NEW t \in Tasks, NEW f \in granted'[t] PROVE f \in scope'[t]
        <4>1. CASE f \in granted[t]
          BY <1>0, <2>1, <4>1 DEF NoLostWidening, Grows
        <4>2. CASE f \notin granted[t]
          <5>1. PICK d \in Clients : call'[d].ans = "written" /\ call'[d].task = t
                                       /\ f \in call'[d].want
            BY <2>1, <4>2 DEF Observe
          <5>2. QED
            BY <3>1, <5>1 DEF Widened
        <4>3. QED
          BY <4>1, <4>2
      <3>3. QED
        BY <3>2 DEF NoLostWidening
    <2>4. QED
      BY <2>2, <2>3 DEF ToldInv
  <1>3. QED
    BY <1>1, <1>2

LEMMA ToldInvariant == Spec => []ToldInv
  <1>1. Init /\ LeaseInv /\ TypeOK => ToldInv
    BY DEF Codes, Init, ToldInv, NoLostWidening, CallInv, Shaped, Presented, Witnessed,
       Swept, Widened, Idle, Told
  <1>2. QED
    BY <1>1, ToldStep, LeaseInvariant, TypeCorrect, PTL DEF Spec

\* No widening a client was told is written is ever lost from the task's scope,
\* for any number of clients that merge into a scope they read earlier.
THEOREM WideningsKept == Spec => []NoLostWidening
  <1>1. ToldInv => NoLostWidening
    BY DEF ToldInv
  <1>2. QED
    BY <1>1, ToldInvariant, PTL

\* Every answer of diagnose, release and renew was true at an instant of its own
\* call, however other clients' statements and the clock came between its own.
THEOREM AnswersWereTrue == Spec => []AnswersTrue
  <1>1. ToldInv => AnswersTrue
    <2> SUFFICES ASSUME ToldInv, NEW c \in Clients
                 PROVE  LET a == call[c].ans IN
                        /\ a \in Codes => a \in truth[c]
                        /\ a \in {"released", "renewed"} => "valid" \in truth[c]
                        /\ (a = "refused" /\ call[c].op = "release") => truth[c] # {"valid"}
      BY DEF AnswersTrue
    <2>1. Witnessed(c) /\ Shaped(c)
      BY DEF ToldInv, CallInv
    <2>2. QED
      BY <2>1 DEF Told, Codes, Witnessed, Shaped
  <1>2. QED
    BY <1>1, ToldInvariant, PTL

\* ready_tasks lists every task that was ready and held by nobody throughout the
\* call, whatever sweeps, renewals and releases of others met its own sweep.
THEOREM ListsComplete == Spec => []OffersComplete
  <1>1. ToldInv => OffersComplete
    BY DEF ToldInv, CallInv, Shaped, Swept, OffersComplete
  <1>2. QED
    BY <1>1, ToldInvariant, PTL
=============================================================================
